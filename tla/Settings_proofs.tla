--------------------------- MODULE Settings_proofs ---------------------------
(***************************************************************************)
(* What the server accepted it boots with, and what it runs on is what is  *)
(* on disk, for any number of projects, admins and CSVs; and the approval  *)
(* gate runs what was approved, once, for any number of changes, payloads, *)
(* pages and stops of the process.                                         *)
(***************************************************************************)
EXTENDS Settings, ApprovalGate, FiniteSetTheorems, TLAPS

-----------------------------------------------------------------------------
(* Settings *)

HasNewestCsv(dates) == dates = {} \/ \E n \in dates : \A t \in dates : t <= n

\* The CSVs of one project.
CsvsFit(csvs) ==
    /\ DOMAIN csvs \in SUBSET Dates /\ HasNewestCsv(DOMAIN csvs)
    /\ csvs \in [DOMAIN csvs -> SUBSET Labels]

FilesFit ==
    /\ files \in [Projects -> Files \cup {Broken, Nothing}]
    /\ uploads = [p \in Projects |-> uploads[p]]
    /\ \A p \in Projects : CsvsFit(uploads[p]) /\ (files[p] = Nothing => DOMAIN uploads[p] = {})

Edits == [project : Projects, sent : Sent, settings : Files]

SettingsInv ==
    /\ FilesFit /\ edited \in BOOLEAN
    /\ editing \in [Admins -> Edits \cup {Nothing}]
    /\ AcceptedBoots /\ ServesTheDisk

LEMMA SettingsStart == SettingsInit => SettingsInv
<1> SUFFICES ASSUME SettingsInit PROVE SettingsInv
  OBVIOUS
<1>1. /\ files = [p \in Projects |-> Nothing] /\ uploads = [p \in Projects |-> [t \in {} |-> {}]]
      /\ registry = Loaded(files, uploads) /\ editing = [a \in Admins |-> Nothing] /\ edited = FALSE
  BY DEF SettingsInit
<1>2. FilesFit
  BY <1>1 DEF FilesFit, CsvsFit, HasNewestCsv
<1>3. DirectoryLoads(files, uploads)
  BY <1>1 DEF DirectoryLoads, Declared
<1>4. ServesTheDisk
  BY <1>1, <1>3 DEF ServesTheDisk, Loaded
<1> QED
  BY <1>1, <1>2, <1>3, <1>4 DEF SettingsInv, AcceptedBoots

-----------------------------------------------------------------------------
(* What is written loads *)

LEMMA SavedLoads ==
  ASSUME FilesFit, NEW p \in Projects, NEW file, Acceptable(p, file),
         files' = [files EXCEPT ![p] = file], UNCHANGED uploads, DirectoryLoads(files, uploads)
  PROVE  DirectoryLoads(files', uploads')
<1>1. /\ files'[p] = file /\ \A q \in Projects \ {p} : files'[q] = files[q]
      /\ FileLoads(file, uploads[p]) /\ uploads' = uploads
  BY DEF FilesFit, Acceptable
<1>2. \A q \in Declared(files') : FileLoads(files'[q], uploads'[q])
  BY <1>1 DEF DirectoryLoads, Declared
<1>3. ASSUME NEW q \in Projects \ {p}, files[q] # Nothing, files[q].is_default PROVE ~file.is_default
  <2>1. files[q] # Broken
    BY <1>3 DEF DirectoryLoads, Declared, FileLoads
  <2> QED
    BY <1>3, <2>1 DEF Acceptable, OtherDefault, Declared
<1>4. \A q, r \in Declared(files') : files'[q].is_default /\ files'[r].is_default => q = r
  BY <1>1, <1>3 DEF DirectoryLoads, Declared
<1> QED
  BY <1>2, <1>4 DEF DirectoryLoads

LEMMA NewestCsvIs ==
  ASSUME NEW dates \in SUBSET Dates, dates # {}, HasNewestCsv(dates)
  PROVE  LET n == CHOOSE t \in dates : \A u \in dates : u <= t
         IN  n \in dates /\ \A u \in dates : u <= n
  BY DEF HasNewestCsv

\* A CSV that fits the project leaves it fitting, whether it is the newest or not.
LEMMA StoredFits ==
  ASSUME NEW csvs, CsvsFit(csvs), NEW t \in Dates, NEW labels \in SUBSET Labels
  PROVE  /\ CsvsFit(Stored(csvs, t, labels))
         /\ \A file : FileLoads(file, csvs) /\ file.fields \subseteq labels => FileLoads(file, Stored(csvs, t, labels))
<1> DEFINE more == Stored(csvs, t, labels)
           old == DOMAIN csvs
           new == old \cup {t}
<1>1. old \in SUBSET Dates /\ new \in SUBSET Dates /\ old \in SUBSET Nat /\ t \in Nat
  BY SettingsAssumption DEF CsvsFit
<1>2. /\ DOMAIN more = new /\ \A u \in new : more[u] = IF u \in old THEN csvs[u] ELSE labels
      /\ more \in [new -> SUBSET Labels]
  BY DEF Stored, CsvsFit
<1>3. HasNewestCsv(new)
  <2>1. CASE old = {}
    <3>1. \A u \in new : u <= t
      BY <1>1, <2>1
    <3> QED
      BY <3>1 DEF HasNewestCsv
  <2>2. CASE old # {}
    <3>1. PICK n \in old : \A u \in old : u <= n
      BY <2>2 DEF CsvsFit, HasNewestCsv
    <3> DEFINE top == IF t <= n THEN n ELSE t
    <3>2. top \in new /\ \A u \in new : u <= top
      BY <1>1, <3>1
    <3> HIDE DEF top
    <3> QED
      BY <3>2 DEF HasNewestCsv
  <2> QED
    BY <2>1, <2>2
<1>4. CsvsFit(more)
  BY <1>1, <1>2, <1>3 DEF CsvsFit
<1>5. ASSUME NEW file, FileLoads(file, csvs), file.fields \subseteq labels PROVE FileLoads(file, more)
  <2> DEFINE top == CHOOSE u \in new : \A w \in new : w <= u
             last == CHOOSE u \in old : \A w \in old : w <= u
  <2>1. top \in new /\ \A w \in new : w <= top
    BY <1>1, <1>3, NewestCsvIs
  <2>2. old # {} => last \in old /\ \A w \in old : w <= last
    BY <1>1, NewestCsvIs DEF CsvsFit
  <2>3. LatestLabels(more) = more[top]
    BY <1>2 DEF LatestLabels
  <2>4. old # {} => LatestLabels(csvs) = csvs[last] /\ file.fields \subseteq csvs[last]
    BY <1>5 DEF LatestLabels, FileLoads
  <2> HIDE DEF top, last
  <2>5. file.fields \subseteq more[top]
    <3>1. CASE top \in old
      <4>1. top = last
        BY <1>1, <2>1, <2>2, <3>1
      <4> QED
        BY <1>2, <2>4, <3>1, <4>1
    <3>2. CASE top \notin old
      BY <1>2, <1>5, <2>1, <3>2
    <3> QED
      BY <3>1, <3>2
  <2> HIDE DEF more
  <2> QED
    BY <1>5, <2>3, <2>5 DEF FileLoads
<1> QED
  BY <1>4, <1>5

LEMMA UploadedLoads ==
  ASSUME FilesFit, NEW p \in Projects, NEW t \in Dates, NEW labels \in SUBSET Labels,
         Readable(p), UploadAccepted(p, labels),
         uploads' = [uploads EXCEPT ![p] = Stored(@, t, labels)], UNCHANGED files
  PROVE  /\ FilesFit'
         /\ DirectoryLoads(files, uploads) => DirectoryLoads(files', uploads')
<1>1. /\ uploads'[p] = Stored(uploads[p], t, labels) /\ \A q \in Projects \ {p} : uploads'[q] = uploads[q]
      /\ uploads' = [q \in Projects |-> uploads'[q]] /\ files' = files
  BY DEF FilesFit
<1>2. /\ CsvsFit(uploads[p]) /\ CsvsFit(uploads'[p]) /\ files[p] # Nothing /\ files[p].fields \subseteq labels
      /\ \A file : FileLoads(file, uploads[p]) /\ file.fields \subseteq labels => FileLoads(file, uploads'[p])
  BY <1>1, StoredFits DEF FilesFit, Readable, UploadAccepted
<1>3. FilesFit'
  BY <1>1, <1>2 DEF FilesFit
<1>4. ASSUME DirectoryLoads(files, uploads) PROVE DirectoryLoads(files', uploads')
  <2>1. \A q \in Declared(files) : FileLoads(files[q], uploads'[q])
    BY <1>1, <1>2, <1>4 DEF DirectoryLoads, Declared
  <2> QED
    BY <1>1, <1>4, <2>1 DEF DirectoryLoads
<1> QED
  BY <1>3, <1>4

-----------------------------------------------------------------------------
(* The steps *)

\* A write that keeps a directory that loads loading, whether or not the server stops after it.
LEMMA WrittenIsServed ==
  ASSUME SettingsInv, Running, DirectoryLoads(files, uploads) => DirectoryLoads(files', uploads'),
         ReloadAndSwap \/ (registry' = Nothing /\ UNCHANGED edited)
  PROVE  edited' \in BOOLEAN /\ AcceptedBoots' /\ ServesTheDisk'
<1>1. /\ edited \in BOOLEAN /\ (~edited => DirectoryLoads(files, uploads))
      /\ DirectoryLoads(registry.settings, registry.reference)
  BY DEF SettingsInv, AcceptedBoots, ServesTheDisk
<1>2. CASE registry' = Nothing /\ UNCHANGED edited
  BY <1>1, <1>2 DEF AcceptedBoots, ServesTheDisk, Running
<1>3. CASE ReloadAndSwap /\ DirectoryLoads(files', uploads')
  <2>1. registry' = Loaded(files', uploads') /\ edited' = FALSE
    BY <1>3 DEF ReloadAndSwap
  <2>2. registry'.settings = files' /\ registry'.reference = uploads'
    BY <2>1 DEF Loaded
  <2> QED
    BY <1>3, <2>1, <2>2 DEF AcceptedBoots, ServesTheDisk
<1>4. CASE ReloadAndSwap /\ ~DirectoryLoads(files', uploads')
  <2>1. registry' = registry /\ edited' = edited
    BY <1>4 DEF ReloadAndSwap
  <2>2. edited = TRUE
    BY <1>1, <1>4
  <2> QED
    BY <1>1, <2>1, <2>2 DEF AcceptedBoots, ServesTheDisk
<1> QED
  BY <1>2, <1>3, <1>4

\* What is left alone stays as good as it was.
LEMMA SameIsServed ==
  ASSUME SettingsInv, UNCHANGED <<files, uploads, edited>>, registry' \in {registry, Nothing}
  PROVE  FilesFit' /\ edited' \in BOOLEAN /\ AcceptedBoots' /\ ServesTheDisk'
<1>1. FilesFit' /\ edited' \in BOOLEAN /\ AcceptedBoots'
  BY DEF SettingsInv, FilesFit, AcceptedBoots
<1>2. ServesTheDisk'
  BY DEF SettingsInv, ServesTheDisk, Running
<1> QED
  BY <1>1, <1>2

LEMMA OneFileWritten ==
  ASSUME FilesFit, NEW p \in Projects, NEW file \in Files \cup {Broken}, files[p] # Nothing \/ DOMAIN uploads[p] = {},
         files' = [files EXCEPT ![p] = file], UNCHANGED uploads
  PROVE  FilesFit'
<1>1. files' \in [Projects -> Files \cup {Broken, Nothing}] /\ file # Nothing
  BY SettingsAssumption DEF FilesFit
<1>2. \A q \in Projects : files'[q] = Nothing => files[q] = Nothing
  BY <1>1 DEF FilesFit
<1> QED
  BY <1>1, <1>2 DEF FilesFit

LEMMA MergedIsFile ==
  ASSUME NEW file \in Files, NEW values \in Files, NEW sent
  PROVE  [s \in Sections |-> IF s \in sent THEN values[s] ELSE file[s]] \in Files
<1> DEFINE merged == [s \in Sections |-> IF s \in sent THEN values[s] ELSE file[s]]
<1>1. /\ DOMAIN merged = {"is_default", "fields", "doors"}
      /\ merged["is_default"] \in BOOLEAN /\ merged["fields"] \in SUBSET Labels /\ merged["doors"] \in Doors
  BY DEF Sections, Files
<1>2. merged = [is_default |-> merged["is_default"], fields |-> merged["fields"], doors |-> merged["doors"]]
  BY <1>1 DEF Sections
<1> HIDE DEF merged
<1>3. merged \in Files
  BY <1>1, <1>2 DEF Files
<1> QED
  BY <1>3 DEF merged

LEMMA MergeKeeps ==
  ASSUME SettingsInv, NEW a \in Admins, NEW p \in Projects, NEW sent \in Sent, NEW values \in Files,
         Merge(a, p, sent, values)
  PROVE  SettingsInv'
<1> DEFINE merged == [s \in Sections |-> IF s \in sent THEN values[s] ELSE files[p][s]]
<1>1. /\ editing' = [editing EXCEPT ![a] = [project |-> p, sent |-> sent, settings |-> merged]]
      /\ Readable(p) /\ UNCHANGED <<files, uploads, registry, edited>>
  BY DEF Merge
<1>2. files[p] \in Files
  BY <1>1 DEF Readable, SettingsInv, FilesFit
<1>3. merged \in Files
  BY <1>2, MergedIsFile
<1> HIDE DEF merged
<1>4. editing' \in [Admins -> Edits \cup {Nothing}]
  BY <1>1, <1>3 DEF SettingsInv, Edits
<1> QED
  BY <1>1, <1>4, SameIsServed DEF SettingsInv

LEMMA SaveKeeps == ASSUME SettingsInv, NEW a \in Admins, Save(a) PROVE SettingsInv'
<1> DEFINE p == editing[a].project
           file == editing[a].settings
<1>1. /\ Running /\ Readable(p) /\ Acceptable(p, file) /\ p \in Projects /\ file \in Files
      /\ files' = [files EXCEPT ![p] = file] /\ UNCHANGED uploads
      /\ \/ ReloadAndSwap /\ editing' = [editing EXCEPT ![a] = Nothing]
         \/ registry' = Nothing /\ editing' = [o \in Admins |-> Nothing] /\ UNCHANGED edited
  BY DEF Save, SettingsInv, Edits
<1> HIDE DEF p, file
<1>2. FilesFit'
  BY <1>1, OneFileWritten DEF Readable, SettingsInv
<1>3. editing' \in [Admins -> Edits \cup {Nothing}]
  BY <1>1 DEF SettingsInv
<1>4. DirectoryLoads(files, uploads) => DirectoryLoads(files', uploads')
  BY <1>1, SavedLoads DEF SettingsInv
<1> QED
  BY <1>1, <1>2, <1>3, <1>4, WrittenIsServed DEF SettingsInv

LEMMA CreateStays ==
  ASSUME SettingsInv, NEW p \in Projects, NEW file \in Files, CreateProject(p, file)
  PROVE  SettingsInv'
<1>1. /\ Running /\ files[p] = Nothing /\ Acceptable(p, file) /\ files' = [files EXCEPT ![p] = file]
      /\ UNCHANGED uploads /\ ReloadsOrStops
  BY DEF CreateProject
<1>2. FilesFit'
  BY <1>1, OneFileWritten DEF SettingsInv, FilesFit
<1>3. DirectoryLoads(files, uploads) => DirectoryLoads(files', uploads')
  BY <1>1, SavedLoads DEF SettingsInv
<1>4. editing' \in [Admins -> Edits \cup {Nothing}]
  BY <1>1 DEF SettingsInv, ReloadsOrStops
<1> QED
  BY <1>1, <1>2, <1>3, <1>4, WrittenIsServed DEF SettingsInv, ReloadsOrStops

LEMMA UploadKeeps ==
  ASSUME SettingsInv, NEW p \in Projects, NEW t \in Dates, NEW labels \in SUBSET Labels, Upload(p, t, labels)
  PROVE  SettingsInv'
<1>1. /\ Running /\ Readable(p) /\ UploadAccepted(p, labels)
      /\ uploads' = [uploads EXCEPT ![p] = Stored(@, t, labels)] /\ UNCHANGED files /\ ReloadsOrStops
  BY DEF Upload
<1>2. FilesFit' /\ (DirectoryLoads(files, uploads) => DirectoryLoads(files', uploads'))
  BY <1>1, UploadedLoads DEF SettingsInv
<1>3. editing' \in [Admins -> Edits \cup {Nothing}]
  BY <1>1 DEF SettingsInv, ReloadsOrStops
<1> QED
  BY <1>1, <1>2, <1>3, WrittenIsServed DEF SettingsInv, ReloadsOrStops

LEMMA HandEditKeeps ==
  ASSUME SettingsInv, NEW p \in Projects, NEW file \in Files \cup {Broken}, HandEdit(p, file)
  PROVE  SettingsInv'
<1>1. /\ files[p] # Nothing /\ files' = [files EXCEPT ![p] = file] /\ edited' = TRUE
      /\ UNCHANGED <<uploads, registry, editing>>
  BY DEF HandEdit
<1>2. FilesFit'
  BY <1>1, OneFileWritten DEF SettingsInv
<1>3. AcceptedBoots' /\ ServesTheDisk'
  BY <1>1 DEF SettingsInv, AcceptedBoots, ServesTheDisk, Running
<1> QED
  BY <1>1, <1>2, <1>3 DEF SettingsInv

LEMMA BootKeeps == ASSUME SettingsInv, Boot PROVE SettingsInv'
<1>1. /\ DirectoryLoads(files, uploads) /\ registry' = Loaded(files, uploads) /\ edited' = FALSE
      /\ UNCHANGED <<files, uploads, editing>>
  BY DEF Boot
<1>2. registry'.settings = files /\ registry'.reference = uploads
  BY <1>1 DEF Loaded
<1>3. AcceptedBoots' /\ ServesTheDisk'
  BY <1>1, <1>2 DEF AcceptedBoots, ServesTheDisk
<1> QED
  BY <1>1, <1>3 DEF SettingsInv, FilesFit

LEMMA SettingsSteps == SettingsInv /\ [SettingsNext]_settingsVars => SettingsInv'
<1> SUFFICES ASSUME SettingsInv, [SettingsNext]_settingsVars PROVE SettingsInv'
  OBVIOUS
<1>1. CASE UNCHANGED settingsVars
  BY <1>1, SameIsServed DEF settingsVars, SettingsInv
<1>2. ASSUME NEW a \in Admins, Save(a) PROVE SettingsInv'
  BY <1>2, SaveKeeps
<1>3. ASSUME NEW a \in Admins, SaveRefused(a) PROVE SettingsInv'
  BY <1>3, SameIsServed DEF SaveRefused, SettingsInv
<1>4. ASSUME NEW a \in Admins, NEW p \in Projects, NEW sent \in Sent, NEW values \in Files,
             Merge(a, p, sent, values)
      PROVE  SettingsInv'
  BY <1>4, MergeKeeps
<1>5. ASSUME NEW p \in Projects, NEW file \in Files, CreateProject(p, file) PROVE SettingsInv'
  BY <1>5, CreateStays
<1>6. ASSUME NEW p \in Projects, NEW file \in Files \cup {Broken}, HandEdit(p, file) PROVE SettingsInv'
  BY <1>6, HandEditKeeps
<1>7. ASSUME NEW p \in Projects, NEW t \in Dates, NEW labels \in SUBSET Labels, Upload(p, t, labels)
      PROVE  SettingsInv'
  BY <1>7, UploadKeeps
<1>8. CASE Stop
  BY <1>8, SameIsServed DEF Stop, SettingsInv
<1>9. CASE Boot
  BY <1>9, BootKeeps
<1> QED
  BY <1>1, <1>2, <1>3, <1>4, <1>5, <1>6, <1>7, <1>8, <1>9 DEF SettingsNext

LEMMA SettingsHold == SettingsSpec => []SettingsInv
  BY SettingsStart, SettingsSteps, PTL DEF SettingsSpec

\* A file the server accepted, and a CSV it accepted, never keep it from booting.
THEOREM AcceptedAlwaysBoots == SettingsSpec => []AcceptedBoots
<1>1. SettingsInv => AcceptedBoots
  BY DEF SettingsInv
<1> QED
  BY <1>1, SettingsHold, PTL

\* The reload that follows a write cannot fail on a directory nobody edited by hand, so that disk
\* and registry agree.
THEOREM DiskIsServed == SettingsSpec => []ServesTheDisk
<1>1. SettingsInv => ServesTheDisk
  BY DEF SettingsInv
<1> QED
  BY <1>1, SettingsHold, PTL

\* A project that has CSVs has a file, and an edit under way is of a project's whole file.
THEOREM SettingsTypesHold == SettingsSpec => []SettingsTypeOK
<1>1. ASSUME SettingsInv PROVE SettingsTypeOK
  <2> DEFINE Stores == UNION {[some -> SUBSET Labels] : some \in SUBSET Dates}
  <2>1. ASSUME NEW p \in Projects PROVE uploads[p] \in Stores
    <3>1. DOMAIN uploads[p] \in SUBSET Dates /\ uploads[p] \in [DOMAIN uploads[p] -> SUBSET Labels]
      BY <1>1 DEF SettingsInv, FilesFit, CsvsFit
    <3> QED
      BY <3>1
  <2> HIDE DEF Stores
  <2>2. uploads \in [Projects -> Stores]
    BY <1>1, <2>1 DEF SettingsInv, FilesFit
  <2>3. uploads \in CsvStores
    BY <2>2 DEF CsvStores, Stores
  <2> QED
    BY <1>1, <2>3 DEF SettingsInv, FilesFit, SettingsTypeOK, Edits
<1> QED
  BY <1>1, SettingsHold, PTL

-----------------------------------------------------------------------------
(* The approval gate *)

Approval(p) == [approve |-> TRUE, payload |-> p]
AtPhase(c, phase) == Known(c) /\ entries[c].phase = phase

\* Nothing of c is on its way to run, or ran.
Unapplied(c) ==
    /\ \A a \in applying \cup running : a.id # c
    /\ \A p \in Payloads : ran[c][p] = 0

\* An id is on file, decided on or applied only once it was drawn.
OnlyDrawn ==
    \A c \in Changes \ drawn : entries[c] = Nothing /\ decisions[c] = {} /\ Unapplied(c)

\* What waits for a decision has had none, and an approval is the only one there was.
DecidedOnce ==
    \A c \in Changes :
        /\ AtPhase(c, "pending") => decisions[c] = {} /\ Unapplied(c)
        /\ AtPhase(c, "approved") => decisions[c] = {Approval(entries[c].payload)} /\ Unapplied(c)

\* What was applied is on its way by itself, as it was approved, and its line comes first.
OnTheirWay ==
    /\ \A a \in applying \cup running :
          /\ decisions[a.id] = {Approval(a.payload)}
          /\ \A p \in Payloads : ran[a.id][p] = 0
          /\ \A b \in applying \cup running : b.id = a.id => b = a
    /\ applying \cap running = {}
    /\ \A a \in running : [event |-> "applied", id |-> a.id] \in log

RanType == ran \in [Changes -> [Payloads -> Nat]]
DecisionsType == decisions \in [Changes -> SUBSET [approve : BOOLEAN, payload : Payloads]]

\* The type invariant but for the limit, which is a matter of counting.
Types ==
    /\ entries \in [Changes -> [payload : Payloads, created : Nat,
                                phase : {"pending", "approved", "rejected", "applied"}] \cup {Nothing}]
    /\ clock \in Nat
    /\ drawn \subseteq Changes /\ shown \subseteq Rows /\ applying \subseteq Rows /\ running \subseteq Rows
    /\ lines \subseteq [event : Events, id : Changes] /\ log \subseteq [event : Events, id : Changes]
    /\ RanType /\ DecisionsType

Limited == IsFiniteSet(Undecided) /\ Cardinality(Undecided) <= MaxUndecided

GateInv == Types /\ OnlyDrawn /\ DecidedOnce /\ OnTheirWay /\ RunsAsApproved

LEMMA GateStarts == GateInit => GateInv
<1> SUFFICES ASSUME GateInit PROVE GateInv
  OBVIOUS
<1> USE DEF GateInit
<1>1. Types
  BY DEF Types, RanType, DecisionsType
<1>2. OnlyDrawn /\ DecidedOnce /\ OnTheirWay /\ RunsAsApproved
  BY DEF OnlyDrawn, DecidedOnce, OnTheirWay, RunsAsApproved, Unapplied, AtPhase, Known
<1> QED
  BY <1>1, <1>2 DEF GateInv

LEMMA ProposeKeeps ==
  ASSUME GateInv, NEW c \in Changes, NEW payload \in Payloads, Propose(c, payload)
  PROVE  GateInv'
<1> USE DEF GateInv
<1>1. Types'
  BY GateAssumption DEF Types, Propose, RanType, DecisionsType, Rows, Events
<1>2. \A d \in Changes : Unapplied(d)' <=> Unapplied(d)
  BY DEF Propose, Unapplied
<1>3. \A d \in Changes : d # c => entries'[d] \in {entries[d], Nothing}
  BY DEF Propose, Types
<1>4. decisions[c] = {} /\ Unapplied(c) /\ drawn' = drawn \cup {c} /\ decisions' = decisions
  BY DEF Propose, OnlyDrawn
<1>5. Known(c)' => entries'[c].phase = "pending"
  BY DEF Propose, Types
<1>6. OnlyDrawn'
  BY <1>2, <1>3, <1>4 DEF OnlyDrawn
<1>7. DecidedOnce'
  <2> SUFFICES ASSUME NEW d \in Changes
               PROVE  /\ AtPhase(d, "pending")' => decisions'[d] = {} /\ Unapplied(d)'
                      /\ AtPhase(d, "approved")' => decisions'[d] = {Approval(entries'[d].payload)} /\ Unapplied(d)'
    BY DEF DecidedOnce, Approval
  <2>1. CASE d = c
    BY <2>1, <1>2, <1>4, <1>5 DEF AtPhase
  <2>2. CASE d # c
    BY <2>2, <1>2, <1>3, <1>4 DEF AtPhase, Known, DecidedOnce
  <2> QED
    BY <2>1, <2>2
<1>8. OnTheirWay' /\ RunsAsApproved'
  BY DEF Propose, OnTheirWay, RunsAsApproved, Approval
<1> QED
  BY <1>1, <1>6, <1>7, <1>8

\* Looking, waiting and the lines of the log that nothing waits for.
LEMMA LookingOnKeeps ==
  ASSUME GateInv, Show \/ Tick \/ \E line \in lines : WriteLine(line)
  PROVE  GateInv'
<1> USE DEF GateInv
<1>1. UNCHANGED <<entries, drawn, applying, running, decisions, ran>> /\ log \subseteq log'
  BY DEF Show, Tick, WriteLine
<1>2. Types'
  <2>1. CASE Show
    BY <2>1 DEF Show, Types, Rows, RanType, DecisionsType, Known
  <2>2. CASE Tick
    BY <2>2 DEF Tick, Types, RanType, DecisionsType
  <2>3. CASE \E line \in lines : WriteLine(line)
    BY <2>3 DEF WriteLine, Types, RanType, DecisionsType
  <2> QED
    BY <2>1, <2>2, <2>3
<1>3. OnlyDrawn' /\ DecidedOnce'
  BY <1>1 DEF OnlyDrawn, DecidedOnce, AtPhase, Known, Unapplied, Approval
<1>4. OnTheirWay' /\ RunsAsApproved'
  BY <1>1 DEF OnTheirWay, RunsAsApproved, Approval
<1> QED
  BY <1>2, <1>3, <1>4

LEMMA DecideKeeps ==
  ASSUME GateInv, NEW row \in shown, NEW approve \in BOOLEAN, Decide(row, approve)
  PROVE  GateInv'
<1> USE DEF GateInv
<1> DEFINE c == row.id
<1>1. c \in Changes /\ row.payload \in Payloads
  BY DEF Types, Rows
<1>2. Known(c) /\ entries[c].payload = row.payload /\ entries[c].phase = "pending"
  BY DEF Decide, PhaseNow
<1>3. decisions[c] = {} /\ Unapplied(c)
  BY <1>1, <1>2 DEF DecidedOnce, AtPhase
<1>4. /\ entries' = [entries EXCEPT ![c].phase = IF approve THEN "approved" ELSE "rejected"]
      /\ decisions' = [decisions EXCEPT ![c] = @ \cup {[approve |-> approve, payload |-> row.payload]}]
      /\ UNCHANGED <<drawn, clock, shown, applying, running, log, ran>>
      /\ lines' = lines \cup {[event |-> IF approve THEN "approved" ELSE "rejected", id |-> c]}
  BY DEF Decide
<1> DEFINE phase == IF approve THEN "approved" ELSE "rejected"
<1>5. Types'
  <2>1. phase \in {"approved", "rejected"}
    OBVIOUS
  <2>2. entries[c] \in [payload : Payloads, created : Nat,
                        phase : {"pending", "approved", "rejected", "applied"}]
    BY <1>1, <1>2 DEF Types, Known
  <2>3. [entries[c] EXCEPT !.phase = phase] \in [payload : Payloads, created : Nat,
                                               phase : {"pending", "approved", "rejected", "applied"}]
    BY <2>1, <2>2
  <2>4. entries' \in [Changes -> [payload : Payloads, created : Nat,
                                  phase : {"pending", "approved", "rejected", "applied"}] \cup {Nothing}]
    BY <1>1, <1>4, <2>3 DEF Types
  <2>5. lines' \subseteq [event : Events, id : Changes]
    BY <1>1, <1>4, <2>1 DEF Types, Events
  <2>6. decisions' \in [Changes -> SUBSET [approve : BOOLEAN, payload : Payloads]]
    BY <1>1, <1>4 DEF Types, DecisionsType
  <2> QED
    BY <1>4, <2>4, <2>5, <2>6 DEF Types, RanType, DecisionsType
<1>6. \A d \in Changes : Unapplied(d)' <=> Unapplied(d)
  BY <1>4 DEF Unapplied
<1>7. \A d \in Changes : d # c => entries'[d] = entries[d] /\ decisions'[d] = decisions[d]
  BY <1>1, <1>4 DEF Types, DecisionsType
<1>8. /\ decisions'[c] = {[approve |-> approve, payload |-> row.payload]}
      /\ entries'[c].phase = (IF approve THEN "approved" ELSE "rejected")
      /\ entries'[c].payload = row.payload
  BY <1>1, <1>2, <1>3, <1>4 DEF Types, DecisionsType, Known
<1>9. c \in drawn
  BY <1>1, <1>2 DEF OnlyDrawn, Known
<1>10. OnlyDrawn'
  BY <1>4, <1>6, <1>7, <1>9 DEF OnlyDrawn
<1>11. DecidedOnce'
  <2> SUFFICES ASSUME NEW d \in Changes
               PROVE  /\ AtPhase(d, "pending")' => decisions'[d] = {} /\ Unapplied(d)'
                      /\ AtPhase(d, "approved")' => decisions'[d] = {Approval(entries'[d].payload)} /\ Unapplied(d)'
    BY DEF DecidedOnce, Approval
  <2>1. CASE d = c
    BY <2>1, <1>3, <1>6, <1>8 DEF AtPhase, Approval
  <2>2. CASE d # c
    BY <2>2, <1>6, <1>7 DEF AtPhase, Known, DecidedOnce
  <2> QED
    BY <2>1, <2>2
<1>12. OnTheirWay'
  <2>1. \A a \in applying \cup running : a.id \in Changes /\ a.id # c
    BY <1>3 DEF Unapplied, Types, Rows
  <2> QED
    BY <2>1, <1>4, <1>7 DEF OnTheirWay, Approval
<1>13. RunsAsApproved'
  <2>1. \A p \in Payloads : ran[c][p] = 0
    BY <1>3 DEF Unapplied
  <2> QED
    BY <2>1, <1>1, <1>4, <1>7 DEF RunsAsApproved
<1> QED
  BY <1>5, <1>10, <1>11, <1>12, <1>13

LEMMA ApplyKeeps ==
  ASSUME GateInv, NEW c \in Changes, Apply(c)
  PROVE  GateInv'
<1> USE DEF GateInv
<1> DEFINE new == [id |-> c, payload |-> entries[c].payload]
<1>1. Known(c) /\ entries[c].phase = "approved"
  BY DEF Apply, PhaseNow
<1>2. decisions[c] = {Approval(entries[c].payload)} /\ Unapplied(c) /\ new \in Rows
  BY <1>1 DEF DecidedOnce, AtPhase, Types, Known, Rows
<1>3. /\ entries' = [entries EXCEPT ![c].phase = "applied"]
      /\ applying' = applying \cup {new}
      /\ UNCHANGED <<drawn, clock, shown, lines, running, log, decisions, ran>>
  BY DEF Apply
<1>4. Types'
  BY <1>1, <1>2, <1>3 DEF Types, Known, RanType, DecisionsType
<1>5. \A d \in Changes : d # c => entries'[d] = entries[d] /\ (Unapplied(d)' <=> Unapplied(d))
  BY <1>3 DEF Types, Unapplied
<1>6. entries'[c].phase = "applied"
  BY <1>1, <1>3 DEF Types, Known
<1>7. c \in drawn
  BY <1>1 DEF OnlyDrawn, Known
<1>8. OnlyDrawn'
  BY <1>3, <1>5, <1>7 DEF OnlyDrawn
<1>9. DecidedOnce'
  <2> SUFFICES ASSUME NEW d \in Changes
               PROVE  /\ AtPhase(d, "pending")' => decisions'[d] = {} /\ Unapplied(d)'
                      /\ AtPhase(d, "approved")' => decisions'[d] = {Approval(entries'[d].payload)} /\ Unapplied(d)'
    BY DEF DecidedOnce, Approval
  <2>1. CASE d = c
    BY <2>1, <1>6 DEF AtPhase
  <2>2. CASE d # c
    BY <2>2, <1>3, <1>5 DEF AtPhase, Known, DecidedOnce
  <2> QED
    BY <2>1, <2>2
<1>10. OnTheirWay'
  <2>1. \A a \in applying \cup running : a.id # c
    BY <1>2 DEF Unapplied
  <2>2. decisions[new.id] = {Approval(new.payload)} /\ \A p \in Payloads : ran[new.id][p] = 0
    BY <1>2 DEF Unapplied
  <2>3. new \notin running /\ new.id = c
    BY <2>1
  <2> QED
    BY <1>3, <2>1, <2>2, <2>3 DEF OnTheirWay, Approval
<1>11. RunsAsApproved'
  BY <1>3 DEF RunsAsApproved
<1> QED
  BY <1>4, <1>8, <1>9, <1>10, <1>11

\* The line of a change that is applied, and the run itself.
LEMMA WriteAppliedKeeps ==
  ASSUME GateInv, NEW a \in applying, WriteApplied(a)
  PROVE  GateInv'
<1> USE DEF GateInv
<1>1. /\ applying' = applying \ {a}
      /\ \/ log' = log \cup {[event |-> "applied", id |-> a.id]} /\ running' = running \cup {a}
         \/ log' = log /\ running' = running
      /\ UNCHANGED <<drawn, entries, clock, shown, lines, decisions, ran>>
  BY DEF WriteApplied
<1>2. applying' \cup running' \subseteq applying \cup running
  BY <1>1
<1>3. Types'
  BY <1>1 DEF Types, Rows, Events, RanType, DecisionsType
<1>4. \A d \in Changes : Unapplied(d) => Unapplied(d)'
  BY <1>1, <1>2 DEF Unapplied
<1>5. OnlyDrawn' /\ DecidedOnce'
  BY <1>1, <1>4 DEF OnlyDrawn, DecidedOnce, AtPhase, Known, Approval
<1>6. OnTheirWay'
  <2>1. \A b \in running' : [event |-> "applied", id |-> b.id] \in log'
    BY <1>1 DEF OnTheirWay
  <2>2. applying' \cap running' = {}
    BY <1>1 DEF OnTheirWay
  <2> QED
    BY <1>1, <1>2, <2>1, <2>2 DEF OnTheirWay, Approval
<1>7. RunsAsApproved'
  BY <1>1 DEF RunsAsApproved
<1> QED
  BY <1>3, <1>5, <1>6, <1>7

LEMMA RunKeeps ==
  ASSUME GateInv, NEW a \in running, Run(a)
  PROVE  GateInv'
<1> USE DEF GateInv
<1>1. a.id \in Changes /\ a.payload \in Payloads
  BY DEF Types, Rows
<1>2. /\ running' = running \ {a}
      /\ ran' = [ran EXCEPT ![a.id][a.payload] = @ + 1]
      /\ UNCHANGED <<drawn, entries, clock, shown, lines, applying, log, decisions>>
  BY DEF Run
<1>3. /\ \A c \in Changes : c # a.id => ran'[c] = ran[c]
      /\ \A p \in Payloads : p # a.payload => ran'[a.id][p] = ran[a.id][p]
      /\ ran'[a.id][a.payload] = ran[a.id][a.payload] + 1
      /\ ran' \in [Changes -> [Payloads -> Nat]]
  BY <1>1, <1>2 DEF Types, RanType
<1>4. Types'
  BY <1>2, <1>3 DEF Types, RanType, DecisionsType
<1>5. \A d \in Changes : Unapplied(d) => d # a.id /\ Unapplied(d)'
  BY <1>2, <1>3 DEF Unapplied
<1>6. OnlyDrawn' /\ DecidedOnce'
  BY <1>2, <1>5 DEF OnlyDrawn, DecidedOnce, AtPhase, Known, Approval
<1>7. \A b \in applying' \cup running' : b \in applying \cup running /\ b # a /\ b.id # a.id /\ b.id \in Changes
  BY <1>2 DEF OnTheirWay, Types, Rows
<1>8. OnTheirWay'
  BY <1>2, <1>3, <1>7 DEF OnTheirWay, Approval
<1>9. RunsAsApproved'
  <2> SUFFICES ASSUME NEW c \in Changes, NEW p \in Payloads, ran'[c][p] > 0
               PROVE  /\ decisions'[c] = {Approval(p)} /\ ran'[c][p] = 1
                      /\ [event |-> "applied", id |-> c] \in log'
    BY DEF RunsAsApproved, Approval
  <2>1. CASE c # a.id
    BY <2>1, <1>2, <1>3 DEF RunsAsApproved, Approval
  <2>2. CASE c = a.id
    <3>1. ran[c][p] = 0 /\ ran[c][a.payload] = 0 /\ decisions[c] = {Approval(a.payload)}
          /\ [event |-> "applied", id |-> c] \in log
      BY <2>2, <1>1 DEF OnTheirWay
    <3>2. p = a.payload
      BY <2>2, <1>3, <3>1
    <3> QED
      BY <2>2, <1>2, <1>3, <3>1, <3>2
  <2> QED
    BY <2>1, <2>2
<1> QED
  BY <1>4, <1>6, <1>8, <1>9

LEMMA StopKeeps ==
  ASSUME GateInv, StopGate
  PROVE  GateInv'
<1> USE DEF GateInv
<1>1. Types'
  BY DEF StopGate, Types, RanType, DecisionsType
<1>2. OnlyDrawn' /\ DecidedOnce'
  BY DEF StopGate, OnlyDrawn, DecidedOnce, AtPhase, Known, Unapplied
<1>3. OnTheirWay' /\ RunsAsApproved'
  BY DEF StopGate, OnTheirWay, RunsAsApproved
<1> QED
  BY <1>1, <1>2, <1>3

LEMMA GateSteps == GateInv /\ [GateNext]_gateVars => GateInv'
<1> SUFFICES ASSUME GateInv, [GateNext]_gateVars PROVE GateInv'
  OBVIOUS
<1>1. ASSUME NEW c \in Changes, NEW payload \in Payloads, Propose(c, payload) PROVE GateInv'
  BY <1>1, ProposeKeeps
<1>2. ASSUME NEW c \in Changes, Apply(c) PROVE GateInv'
  BY <1>2, ApplyKeeps
<1>3. CASE Show \/ Tick \/ \E line \in lines : WriteLine(line)
  BY <1>3, LookingOnKeeps
<1>4. ASSUME NEW row \in shown, NEW approve \in BOOLEAN, Decide(row, approve) PROVE GateInv'
  BY <1>4, DecideKeeps
<1>5. ASSUME NEW a \in applying, WriteApplied(a) PROVE GateInv'
  BY <1>5, WriteAppliedKeeps
<1>6. ASSUME NEW a \in running, Run(a) PROVE GateInv'
  BY <1>6, RunKeeps
<1>7. CASE StopGate
  BY <1>7, StopKeeps
<1>8. CASE UNCHANGED gateVars
  <2> USE <1>8 DEF gateVars, GateInv
  <2>1. Types' /\ OnTheirWay' /\ RunsAsApproved'
    BY DEF Types, OnTheirWay, RunsAsApproved, RanType, DecisionsType, Approval
  <2>2. OnlyDrawn' /\ DecidedOnce'
    BY DEF OnlyDrawn, DecidedOnce, AtPhase, Known, Unapplied, Approval
  <2> QED
    BY <2>1, <2>2
<1> QED
  BY <1>1, <1>2, <1>3, <1>4, <1>5, <1>6, <1>7, <1>8 DEF GateNext

\* The limit: a proposal adds one to the undecided where there is room, and nothing else adds any.
LEMMA LimitSteps == GateInv /\ Limited /\ [GateNext]_gateVars => Limited'
<1> SUFFICES ASSUME GateInv, Limited, [GateNext]_gateVars PROVE Limited'
  OBVIOUS
<1> USE DEF GateInv, Types
<1>1. ASSUME NEW some, some \subseteq Undecided PROVE IsFiniteSet(some) /\ Cardinality(some) <= MaxUndecided
  <2>1. /\ IsFiniteSet(some) /\ Cardinality(some) <= Cardinality(Undecided)
        /\ Cardinality(some) \in Nat /\ Cardinality(Undecided) \in Nat
    BY <1>1, FS_Subset, FS_CardinalityType DEF Limited
  <2> QED
    BY <2>1, GateAssumption DEF Limited
<1>2. ASSUME NEW c \in Changes, NEW payload \in Payloads, Propose(c, payload) PROVE Limited'
  <2>1. \A d \in Changes : d # c => entries'[d] \in {entries[d], Nothing}
    BY <1>2 DEF Propose
  <2>2. Undecided' \subseteq Undecided \cup {c}
    BY <2>1, <1>2 DEF Undecided, Known, PhaseNow, Propose
  <2>3. Cardinality(Undecided) < MaxUndecided
    BY <1>2 DEF Propose
  <2>4. /\ IsFiniteSet(Undecided \cup {c})
        /\ Cardinality(Undecided \cup {c}) <= Cardinality(Undecided) + 1
        /\ Cardinality(Undecided) \in Nat /\ Cardinality(Undecided \cup {c}) \in Nat
    <3>1. /\ IsFiniteSet(Undecided \cup {c})
          /\ Cardinality(Undecided \cup {c}) = IF c \in Undecided THEN Cardinality(Undecided)
                                               ELSE Cardinality(Undecided) + 1
      BY FS_AddElement DEF Limited
    <3>2. Cardinality(Undecided) \in Nat /\ Cardinality(Undecided \cup {c}) \in Nat
      BY <3>1, FS_CardinalityType DEF Limited
    <3> QED
      BY <3>1, <3>2
  <2>5. /\ IsFiniteSet(Undecided') /\ Cardinality(Undecided') <= Cardinality(Undecided \cup {c})
        /\ Cardinality(Undecided') \in Nat
    BY <2>2, <2>4, FS_Subset, FS_CardinalityType
  <2> QED
    BY <2>3, <2>4, <2>5, GateAssumption DEF Limited
<1>3. ASSUME ~(\E c \in Changes, payload \in Payloads : Propose(c, payload)) PROVE Undecided' \subseteq Undecided
  <2>1. clock' >= clock /\ clock \in Nat /\ clock' \in Nat
    <3>1. ASSUME Tick PROVE clock' = clock + 1
      BY <3>1 DEF Tick
    <3>2. ASSUME ~Tick PROVE clock' = clock
      BY <1>3, <3>2 DEF GateNext, gateVars, Apply, Show, Decide, WriteLine, WriteApplied, Run, StopGate
    <3> QED
      BY <3>1, <3>2
  <2>2. ASSUME NEW d \in Changes PROVE
           \/ entries'[d] \in {entries[d], Nothing}
           \/ AtPhase(d, "approved") /\ entries'[d].phase = "applied"
           \/ /\ AtPhase(d, "pending") /\ PhaseNow(d) = "pending" /\ clock' = clock
              /\ entries'[d].created = entries[d].created
    <3>1. ASSUME NEW c \in Changes, Apply(c) PROVE
           entries'[d] = entries[d] \/ (AtPhase(d, "approved") /\ entries'[d].phase = "applied")
      <4>1. Known(c) /\ entries[c].phase = "approved" /\ entries' = [entries EXCEPT ![c].phase = "applied"]
        BY <3>1 DEF Apply, PhaseNow
      <4>2. d = c => entries'[d].phase = "applied"
        BY <4>1 DEF Known
      <4> QED
        BY <4>1, <4>2 DEF AtPhase
    <3>2. ASSUME NEW row \in shown, NEW approve \in BOOLEAN, Decide(row, approve) PROVE
           \/ entries'[d] = entries[d]
           \/ /\ AtPhase(d, "pending") /\ PhaseNow(d) = "pending" /\ clock' = clock
              /\ entries'[d].created = entries[d].created
      <4>1. /\ Known(row.id) /\ entries[row.id].phase = "pending" /\ PhaseNow(row.id) = "pending"
            /\ entries' = [entries EXCEPT ![row.id].phase = IF approve THEN "approved" ELSE "rejected"]
            /\ clock' = clock
        BY <3>2 DEF Decide, PhaseNow
      <4>2. d = row.id => entries'[d].created = entries[d].created
        BY <4>1 DEF Known
      <4> QED
        BY <4>1, <4>2 DEF AtPhase
    <3>3. CASE entries' = entries \/ StopGate
      BY <3>3, <2>2 DEF StopGate
    <3> QED
      BY <1>3, <3>1, <3>2, <3>3 DEF GateNext, gateVars, Show, WriteLine, WriteApplied, Run, Tick
  <2> QED
    BY <2>1, <2>2, GateAssumption DEF Undecided, Known, PhaseNow, AtPhase
<1> QED
  BY <1>1, <1>2, <1>3 DEF Limited

LEMMA GateHolds == GateSpec => [](GateInv /\ Limited)
<1>1. GateInit => GateInv /\ Limited
  <2>1. GateInit => Undecided = {}
    BY DEF GateInit, Undecided, Known
  <2>2. GateInit => Limited
    BY <2>1, FS_EmptySet, GateAssumption DEF Limited
  <2> QED
    BY <2>2, GateStarts
<1> QED
  BY <1>1, GateSteps, LimitSteps, PTL DEF GateSpec

\* What runs is what a person approved and never rejected, once, after its line is in the audit log:
\* whoever asks, whatever pages are open and wherever the process stops.
THEOREM GateRunsAsApproved == GateSpec => []RunsAsApproved
BY GateHolds, PTL DEF GateInv

\* The gate's types, and its limit: at no time are more than MaxUndecided changes undecided.
THEOREM GateTypesHold == GateSpec => []GateTypeOK
<1>1. GateInv /\ Limited => GateTypeOK
  BY DEF GateInv, Types, Limited, GateTypeOK
<1> QED
  BY <1>1, GateHolds, PTL
=============================================================================

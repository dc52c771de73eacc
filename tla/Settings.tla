------------------------------- MODULE Settings -------------------------------
(***************************************************************************)
(* Project settings (src/settings_api.rs): one TOML file per project, read *)
(* from disk on every request, and a registry of all of them in memory     *)
(* that the readers use.  A save or an upload holds SAVE_LOCK from its     *)
(* checks to the swap of the registry and is a step, in two halves where   *)
(* the server may stop between them.  The merge of an update over the      *)
(* stored file comes before the lock and is a step of its own.             *)
(*                                                                         *)
(* A file is the sections of it that the checks tell apart.  Of reference  *)
(* data only the labels of a CSV are kept, which the fields a project      *)
(* declares must be among; a project without a reference source is one     *)
(* that declares no field.  Comments and backups are left out.             *)
(***************************************************************************)
EXTENDS Absence, Naturals, FiniteSets

CONSTANTS
    Projects,
    Admins,         \* each with at most one update under way
    Labels,         \* columns of a reference CSV
    Dates,          \* when a CSV may be said to be taken
    Doors,          \* values of a section nothing is checked about
    Broken,         \* a file that does not parse or does not validate
    Sent,           \* the sets of sections a request may send
    ByHand,         \* the projects whose files people edit by hand
    Uploading       \* the projects CSVs are uploaded for

Sections == {"is_default", "fields", "doors"}
Files == [is_default : BOOLEAN, fields : SUBSET Labels, doors : Doors]

ASSUME SettingsAssumption ==
    /\ Dates \subseteq Nat /\ ByHand \cup Uploading \subseteq Projects
    /\ Nothing \notin Files /\ Broken \notin Files /\ Broken # Nothing

VARIABLES
    files,          \* the settings file of each project
    uploads,        \* its stored CSVs: the labels of each, by taken_at
    registry,       \* what the server runs on; Nothing when it does not run
    editing,        \* the update each admin has merged and not yet saved
    edited          \* history: a file was edited by hand since the server last loaded them all

settingsVars == <<files, uploads, registry, editing, edited>>

-----------------------------------------------------------------------------

Declared(on) == {p \in Projects : on[p] # Nothing}

\* get_latest_reference: the labels of the newest CSV.
LatestLabels(csvs) == csvs[CHOOSE t \in DOMAIN csvs : \A u \in DOMAIN csvs : u <= t]

\* load_project_bundle: a file on its own, with the newest CSV stored for it.
FileLoads(file, csvs) ==
    /\ file # Broken
    /\ DOMAIN csvs # {} => file.fields \subseteq LatestLabels(csvs)

\* load_project_settings_dir: every file, and at most one default.
DirectoryLoads(on, csvs) ==
    /\ \A p \in Declared(on) : FileLoads(on[p], csvs[p])
    /\ \A p, q \in Declared(on) : on[p].is_default /\ on[q].is_default => p = q

Loaded(on, csvs) == [settings |-> on, reference |-> csvs]

\* Mutated form of ReloadAndSwap: what was written is left to the next boot.
ReloadNothing == UNCHANGED <<registry, edited>>

\* reload_and_swap: all or nothing; the previous registry is kept when anything fails.
ReloadAndSwap ==
    IF DirectoryLoads(files', uploads')
    THEN registry' = Loaded(files', uploads') /\ edited' = FALSE
    ELSE UNCHANGED <<registry, edited>>

\* What was written stays and the server stops before the registry is rebuilt, or rebuilds it.
ReloadsOrStops ==
    \/ ReloadAndSwap /\ UNCHANGED editing
    \/ registry' = Nothing /\ editing' = [a \in Admins |-> Nothing] /\ UNCHANGED edited

\* Another file that can be read is the default one.
OtherDefault(p) == \E q \in Declared(files) \ {p} : files[q] # Broken /\ files[q].is_default

Acceptable(p, file) ==
    /\ file.is_default => ~OtherDefault(p)
    /\ FileLoads(file, uploads[p])

SettingsInit ==
    /\ files = [p \in Projects |-> Nothing]
    /\ uploads = [p \in Projects |-> [t \in {} |-> {}]]
    /\ registry = Loaded(files, uploads)
    /\ editing = [a \in Admins |-> Nothing]
    /\ edited = FALSE

Running == registry # Nothing
Readable(p) == files[p] \notin {Nothing, Broken}

\* merge_over_stored: what the request did not send is taken from the file, before the lock.
Merge(a, p, sent, values) ==
    /\ Running /\ editing[a] = Nothing
    /\ Readable(p)
    /\ editing' = [editing EXCEPT ![a] =
          [project |-> p, sent |-> sent,
           settings |-> [s \in Sections |-> IF s \in sent THEN values[s] ELSE files[p][s]]]]
    /\ UNCHANGED <<files, uploads, registry, edited>>

\* save_project of an update.
Save(a) ==
    /\ Running /\ editing[a] # Nothing
    /\ LET p == editing[a].project
       IN  /\ Readable(p)
           /\ Acceptable(p, editing[a].settings)
           /\ files' = [files EXCEPT ![p] = editing[a].settings]
           /\ UNCHANGED uploads
           /\ \/ ReloadAndSwap /\ editing' = [editing EXCEPT ![a] = Nothing]
              \/ registry' = Nothing /\ editing' = [o \in Admins |-> Nothing] /\ UNCHANGED edited

SaveRefused(a) ==
    /\ Running /\ editing[a] # Nothing
    /\ LET p == editing[a].project IN ~Readable(p) \/ ~Acceptable(p, editing[a].settings)
    /\ editing' = [editing EXCEPT ![a] = Nothing]
    /\ UNCHANGED <<files, uploads, registry, edited>>

\* save_project of a create.
CreateProject(p, file) ==
    /\ Running /\ files[p] = Nothing
    /\ Acceptable(p, file)
    /\ files' = [files EXCEPT ![p] = file]
    /\ UNCHANGED uploads
    /\ ReloadsOrStops

\* A CSV of the same taken_at is not replaced.
Stored(csvs, t, labels) == [u \in DOMAIN csvs \cup {t} |-> IF u \in DOMAIN csvs THEN csvs[u] ELSE labels]

\* Mutated form of UploadAccepted: a CSV is stored whatever the project declares.
UploadUnchecked(p, labels) == TRUE

\* The CSV is checked against the fields on file.
UploadAccepted(p, labels) == files[p].fields \subseteq labels

Upload(p, t, labels) ==
    /\ Running /\ Readable(p)
    /\ UploadAccepted(p, labels)
    /\ uploads' = [uploads EXCEPT ![p] = Stored(@, t, labels)]
    /\ UNCHANGED files
    /\ ReloadsOrStops

\* People with an editor, who may break a file and mend it.
HandEdit(p, file) ==
    /\ p \in ByHand
    /\ files[p] # Nothing
    /\ files' = [files EXCEPT ![p] = file]
    /\ edited' = TRUE
    /\ UNCHANGED <<uploads, registry, editing>>

Stop ==
    /\ Running
    /\ registry' = Nothing
    /\ editing' = [a \in Admins |-> Nothing]
    /\ UNCHANGED <<files, uploads, edited>>

Boot ==
    /\ ~Running
    /\ DirectoryLoads(files, uploads)
    /\ registry' = Loaded(files, uploads)
    /\ edited' = FALSE
    /\ UNCHANGED <<files, uploads, editing>>

SettingsNext ==
    \/ \E a \in Admins :
          \/ \E p \in Projects, sent \in Sent, values \in Files : Merge(a, p, sent, values)
          \/ Save(a) \/ SaveRefused(a)
    \/ \E p \in Projects :
          \/ \E file \in Files : CreateProject(p, file) \/ HandEdit(p, file)
          \/ HandEdit(p, Broken)
          \/ p \in Uploading /\ \E t \in Dates, labels \in SUBSET Labels : Upload(p, t, labels)
    \/ Stop \/ Boot

SettingsSpec == SettingsInit /\ [][SettingsNext]_settingsVars

-----------------------------------------------------------------------------

CsvStores == [Projects -> UNION {[some -> SUBSET Labels] : some \in SUBSET Dates}]

SettingsTypeOK ==
    /\ files \in [Projects -> Files \cup {Broken, Nothing}]
    /\ uploads \in CsvStores
    /\ \A p \in Projects : files[p] = Nothing => DOMAIN uploads[p] = {}
    /\ editing \in [Admins -> [project : Projects, sent : Sent, settings : Files] \cup {Nothing}]
    /\ edited \in BOOLEAN

\* A file the server accepted never fails the next boot, in whatever order updates that were
\* merged earlier, creates and uploads come: only an edit by hand does.
AcceptedBoots == ~edited => DirectoryLoads(files, uploads)

\* The server runs on a whole directory that once loaded, and on the one on disk unless that was
\* edited by hand: no save or upload leaves the two apart, though the reload may fail after the
\* file is in place.
ServesTheDisk ==
    Running =>
        /\ DirectoryLoads(registry.settings, registry.reference)
        /\ ~edited => registry = Loaded(files, uploads)

\* Any section an update did not send keeps the value already on disk (merge_over_stored); the
\* lock is there to make the race between reading and writing impossible.
UnsentIsKept ==
    [][\A a \in Admins : editing[a] # Nothing /\ editing'[a] = Nothing /\ registry' # Nothing =>
          LET p == editing[a].project
          IN  files'[p] # files[p] =>
                 \A s \in Sections \ editing[a].sent : files'[p][s] = files[p][s]]_settingsVars
=============================================================================

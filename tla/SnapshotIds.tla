---------------------------- MODULE SnapshotIds ----------------------------
(***************************************************************************)
(* The ids of the snapshots of one model and kind, in the two places they  *)
(* are kept: the index in project.toml, by id, and the directory, by file  *)
(* name.  A read opens the last name of the directory (get_latest_raw) or  *)
(* the last id of the index reconciled with it (model_index), and both     *)
(* take the last in the order of their bytes for the newest.               *)
(*                                                                         *)
(* An id is a UTC date-time of RFC 3339 as the producer wrote it: with or  *)
(* without a fraction, T, t or a space before the time, Z, z, +00:00 or    *)
(* -00:00 at the end.  A file name is the id with dashes for colons.  Ids  *)
(* are compared field by field, since all but the fraction are of one      *)
(* width; the numbers in codes are ASCII.  Leap seconds are left out.      *)
(***************************************************************************)
EXTENDS Integers, Sequences, FiniteSets

CONSTANT Produced  \* what producers send as taken_at

Colon      == 58
Dash       == 45
Separators == {84, 116, 32}      \* T, t, space
ZoneCodes  == {90, 122, 43, 45}  \* Z, z, +, -

\* `mark` is what stands between hour, minute and second; `rest` is the second of the hour, and
\* `offset` of a zone is in minutes.
Id == [day : Nat, separator : Separators, hour : 0..23, mark : {Colon, Dash}, rest : 0..3599,
       fraction : Seq(0..9), zone : [code : ZoneCodes, offset : 0..1439]]

ASSUME IdsAreWritten == Produced \subseteq Id /\ \A id \in Produced : id.mark = Colon

VARIABLES
  indexed,  \* the ids in the index
  onDisk    \* the names of the files, without their extension

idVars == <<indexed, onDisk>>

IdInit == indexed = {} /\ onDisk = {}

----------------------------------------------------------------------------
(* Ids and names *)

\* Mutated form of Valid: an offset is taken for UTC.
ValidInAnyZone(id) == TRUE

\* validate_snapshot_id, of an id that is a date-time.
Valid(id) == id.zone.offset = 0

\* snapshot_filename, without the extension.  The colon of a zone is never the first to tell two ids apart.
Name(id) == [id EXCEPT !.mark = Dash]

\* Mutated form of IdOf: the name is taken for the id.
IdAsNamed(name) == name

\* id_from_file_stem: the colons are put back where a T says what stands there.
IdOf(name) == [name EXCEPT !.mark = IF name.separator = 84 THEN Colon ELSE Dash]

\* The end of an id: the digits after a full stop, if any, and the zone.
Fraction(id) == IF id.fraction = <<>> THEN <<>> ELSE <<46>> \o [i \in DOMAIN id.fraction |-> 48 + id.fraction[i]]
Text(id)     == <<id.day, id.separator, id.hour, id.mark, id.rest>> \o Fraction(id)
                  \o <<id.zone.code, id.zone.offset>>

\* The order of sort, max and cmp on strings.
Precedes(a, b) ==
  \E n \in 0..Len(Text(a)) :
    /\ n < Len(Text(b)) /\ \A i \in 1..n : Text(a)[i] = Text(b)[i]
    /\ n = Len(Text(a)) \/ Text(a)[n + 1] < Text(b)[n + 1]

Greatest(S) == CHOOSE a \in S : \A b \in S \ {a} : Precedes(b, a)

----------------------------------------------------------------------------
(* What is written *)

\* A push that is new is indexed (index_snapshot) and filed (commit).
PushWhole(id) ==
  /\ Valid(id) /\ Name(id) \notin onDisk
  /\ indexed' = indexed \cup {id}
  /\ onDisk' = onDisk \cup {Name(id)}

\* A push that stops before its file is renamed into place.
PushCutShort(id) ==
  /\ Valid(id) /\ Name(id) \notin onDisk
  /\ indexed' = indexed \cup {id}
  /\ UNCHANGED onDisk

\* Another push to the project writes the manifest back as it was before an id was indexed.
WriteBackWithout(id) ==
  /\ id \in indexed
  /\ indexed' = indexed \ {id}
  /\ UNCHANGED onDisk

\* A file is deleted by hand.
RemoveFile(name) ==
  /\ name \in onDisk
  /\ onDisk' = onDisk \ {name}
  /\ UNCHANGED indexed

IdNext ==
  \/ \E id \in Produced : PushWhole(id) \/ PushCutShort(id)
  \/ \E id \in indexed : WriteBackWithout(id)
  \/ \E name \in onDisk : RemoveFile(name)

IdSpec == IdInit /\ [][IdNext]_idVars

----------------------------------------------------------------------------
(* What is read *)

\* Mutated form of ReconciledIds: a file that is indexed is recovered all the same.
RecoveredIds == {id \in indexed : Name(id) \in onDisk} \cup {IdOf(name) : name \in onDisk}

\* reconciled_ids: what is indexed and filed, and what is recovered from the names of the other files.
ReconciledIds ==
  LET known == {id \in indexed : Name(id) \in onDisk}
  IN  known \cup {IdOf(name) : name \in onDisk \ {Name(id) : id \in known}}

LatestFile == Greatest(onDisk)        \* latest_snapshot_file
LatestId   == Greatest(ReconciledIds)  \* model_index

----------------------------------------------------------------------------
(* Properties *)

\* When the moment of an id is past that of another: the seconds are compared, then the digits of
\* the fractions, as many as either has.
Second(id) == (id.day * 24 + id.hour) * 3600 + id.rest
                - (IF id.zone.code = 45 THEN 0 - id.zone.offset ELSE id.zone.offset) * 60
Digit(id, n) == IF n \in DOMAIN id.fraction THEN id.fraction[n] ELSE 0
LaterThan(a, b) ==
  \/ Second(a) > Second(b)
  \/ /\ Second(a) = Second(b)
     /\ \E n \in DOMAIN a.fraction :
          Digit(a, n) > Digit(b, n) /\ \A i \in 1..(n - 1) : Digit(a, i) = Digit(b, i)

\* What is indexed was pushed in UTC, and what is filed is named after it.
IdTypeOK ==
  /\ indexed \subseteq {id \in Produced : Valid(id)}
  /\ onDisk \subseteq {Name(id) : id \in {i \in Produced : Valid(i)}}

\* "On disagreement the filesystem wins" (reconciled_ids): however index and directory came apart,
\* each file is listed once and nothing else is.
FilesAreListedOnce ==
  /\ {Name(id) : id \in ReconciledIds} = onDisk
  /\ \A a, b \in ReconciledIds : Name(a) = Name(b) => a = b

\* "The id the index names as a model's latest reads back ... the very file get_latest_raw would have
\* served" (fs.rs 1101), if each file is indexed or its colons can be put back.
IndexNamesTheLatest ==
  onDisk # {} /\ (\A name \in onDisk : name.separator = 84 \/ \E id \in indexed : Name(id) = name) =>
    Name(LatestId) = LatestFile

IsNewest(name) == \A other \in onDisk : ~LaterThan(other, name)

\* What is served is the newest snapshot, if all are written with one separator and one precision.
AlikeLastIsNewest ==
  onDisk # {} /\ (\A a, b \in onDisk : a.separator = b.separator /\ Len(a.fraction) = Len(b.fraction)) =>
    IsNewest(LatestFile)
=============================================================================

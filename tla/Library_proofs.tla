---------------------------- MODULE Library_proofs ----------------------------
(***************************************************************************)
(* A sheet is bound to a blueprint only by an accepted revision, for any   *)
(* number of callers whose requests overlap and stop half way.             *)
(***************************************************************************)
EXTENDS Library, SequenceTheorems, TLAPS

Steps == {"idle", "create", "push", "accept", "check", "bind", "unbind"}
Requests == [at : Steps, id : Owners \cup {Nothing}, bundle : Bundles \cup {Nothing}]

\* A request names a blueprint that was made, and applies a bundle that was accepted for it.
RequestFits(r) ==
    /\ r \in Requests
    /\ r.at # "idle" => r.bundle \in Bundles
    /\ r.at \in {"push", "accept", "check", "bind", "unbind"} => r.id \in Owners
    /\ r.at \in {"push", "accept"} => Made(r.id)
    /\ r.at \in {"check", "bind", "unbind"} => Carries(r.bundle) \subseteq given[r.id]

RequestsFit == request = [c \in Callers |-> request[c]] /\ \A p \in Callers : RequestFits(request[p])

\* The blueprints a sheet may be bound to, or be about to be bound to.
Binders(s) == {b \in Owners : s \in given[b]} \cup {Generic}

RecordFits(s, record) ==
    record # Nothing =>
        /\ record \in Records
        /\ Len(record.pending) <= MaxStash
        /\ record.blueprint \in Binders(s)
        /\ \A i \in DOMAIN record.pending : record.pending[i].blueprint \in Binders(s)

ShelfFits == sheets = [t \in Sheets |-> sheets[t]] /\ \A s \in Sheets : RecordFits(s, sheets[s])

PushedFits == pushed \in [Owners -> (SUBSET Bundles) \cup {Nothing}] /\ given \in [Owners -> SUBSET Sheets]

LibraryInv == PushedFits /\ RequestsFit /\ ShelfFits

LEMMA LibraryStarts == LibraryInit => LibraryInv
<1> SUFFICES ASSUME LibraryInit PROVE LibraryInv
  OBVIOUS
<1>1. PushedFits /\ ShelfFits
  BY DEF LibraryInit, PushedFits, ShelfFits, RecordFits
<1>2. RequestsFit
  BY DEF LibraryInit, RequestsFit, RequestFits, Idle, Requests, Steps
<1> QED
  BY <1>1, <1>2 DEF LibraryInv

\* What is taken out of a stash, what is put into it, and what a push makes of a record.
LEMMA StashWithout ==
  ASSUME NEW S, NEW seq \in Seq(S), NEW i \in DOMAIN seq
  PROVE  /\ Without(seq, i) \in Seq(S) /\ Len(Without(seq, i)) <= Len(seq)
         /\ \A j \in DOMAIN Without(seq, i) : \E k \in DOMAIN seq : Without(seq, i)[j] = seq[k]
<1> DEFINE head == SubSeq(seq, 1, i - 1)
           tail == SubSeq(seq, i + 1, Len(seq))
<1>1. Len(seq) \in Nat /\ DOMAIN seq = 1..Len(seq) /\ i \in 1..Len(seq)
  OBVIOUS
<1>2. /\ head \in Seq(S) /\ Len(head) = i - 1
      /\ \A j \in 1..(i - 1) : head[j] = seq[j]
  BY <1>1
<1>3. /\ tail \in Seq(S) /\ Len(tail) = Len(seq) - i
      /\ \A j \in 1..(Len(seq) - i) : tail[j] = seq[i + j]
  BY <1>1
<1> HIDE DEF head, tail
<1>4. /\ head \o tail \in Seq(S) /\ Len(head \o tail) = Len(seq) - 1
      /\ \A j \in 1..(Len(seq) - 1) : (head \o tail)[j] = IF j <= i - 1 THEN head[j] ELSE tail[j - (i - 1)]
  <2>1. (i - 1) + (Len(seq) - i) = Len(seq) - 1
    BY <1>1
  <2>2. head \o tail \in Seq(S) /\ Len(head \o tail) = Len(head) + Len(tail)
    BY <1>2, <1>3, ConcatProperties
  <2>3. \A j \in 1..(Len(head) + Len(tail)) :
           (head \o tail)[j] = IF j <= Len(head) THEN head[j] ELSE tail[j - Len(head)]
    BY <1>2, <1>3, ConcatProperties
  <2> QED
    BY <1>2, <1>3, <2>1, <2>2, <2>3
<1>5. ASSUME NEW j \in 1..(Len(seq) - 1) PROVE \E k \in 1..Len(seq) : (head \o tail)[j] = seq[k]
  <2>1. CASE j <= i - 1
    BY <1>1, <1>2, <1>4, <2>1
  <2>2. CASE ~(j <= i - 1)
    <3>1. j - (i - 1) \in 1..(Len(seq) - i) /\ j + 1 \in 1..Len(seq) /\ i + (j - (i - 1)) = j + 1
      BY <1>1, <2>2
    <3>2. (head \o tail)[j] = seq[j + 1]
      BY <1>3, <1>4, <2>2, <3>1
    <3> QED
      BY <3>1, <3>2
  <2> QED
    BY <2>1, <2>2
<1>6. Without(seq, i) = head \o tail
  BY DEF Without, head, tail
<1>7. DOMAIN (head \o tail) = 1..(Len(seq) - 1)
  BY <1>1, <1>4, LenProperties
<1> DEFINE rest == head \o tail
<1>8. rest \in Seq(S) /\ Len(rest) <= Len(seq)
  BY <1>1, <1>4
<1>9. \A j \in DOMAIN rest : \E k \in DOMAIN seq : rest[j] = seq[k]
  BY <1>1, <1>5, <1>7
<1> HIDE DEF rest
<1>10. Without(seq, i) = rest
  BY <1>6 DEF rest
<1> QED
  BY <1>8, <1>9, <1>10

LEMMA ShelvedFits ==
  ASSUME NEW s \in Sheets, RecordFits(s, sheets[s]), NEW number \in Numbers, NEW b \in Binders(s),
         ~StashFull(s, number)
  PROVE  RecordFits(s, Shelved(sheets[s], number, b))
<1> DEFINE record == sheets[s]
           one == [number |-> number, blueprint |-> b]
<1>1. b \in Owners \cup {Generic}
  BY DEF Binders
<1>2. CASE record = Nothing
  <2>1. Shelved(record, number, b) = [number |-> number, blueprint |-> b, pending |-> <<>>]
    BY <1>2 DEF Shelved
  <2> DEFINE new == [number |-> number, blueprint |-> b, pending |-> <<>>]
  <2>2. new \in Records /\ Len(new.pending) = 0 /\ DOMAIN new.pending = {}
    BY <1>1 DEF Records
  <2>3. new.blueprint = b /\ Len(new.pending) <= MaxStash
    BY <2>2, LibraryAssumption
  <2> HIDE DEF new
  <2>4. RecordFits(s, new)
    BY <2>2, <2>3 DEF RecordFits
  <2> QED
    BY <2>1, <2>4 DEF new
<1>3. CASE record # Nothing /\ record.number = number
  <2> DEFINE binder == IF b = Generic THEN record.blueprint ELSE b
  <2>1. Shelved(record, number, b) = [record EXCEPT !.blueprint = binder]
    BY <1>3 DEF Shelved
  <2>2. record \in Records /\ binder \in Binders(s) /\ binder \in Owners \cup {Generic}
    BY <1>1, <1>3 DEF RecordFits, Records
  <2> HIDE DEF binder
  <2> QED
    BY <1>3, <2>1, <2>2 DEF RecordFits, Records
<1>4. CASE record # Nothing /\ record.number # number
  <2> DEFINE more == Append(record.pending, one)
  <2>1. Shelved(record, number, b) = [record EXCEPT !.pending = more]
    BY <1>4 DEF Shelved
  <2>2. /\ record \in Records /\ record.pending \in Seq([number : Numbers, blueprint : Owners \cup {Generic}])
        /\ \A i \in DOMAIN record.pending : record.pending[i].blueprint \in Binders(s)
        /\ record.blueprint \in Binders(s)
    BY <1>4 DEF RecordFits, Records
  <2>3. Len(record.pending) < MaxStash
    <3>1. Len(record.pending) \in Nat /\ MaxStash \in Nat
      BY <2>2, LibraryAssumption
    <3> QED
      BY <1>4, <3>1 DEF StashFull, OnFile
  <2>4. one \in [number : Numbers, blueprint : Owners \cup {Generic}] /\ one.blueprint \in Binders(s)
    BY <1>1
  <2> HIDE DEF one
  <2>5. /\ more \in Seq([number : Numbers, blueprint : Owners \cup {Generic}])
        /\ Len(more) = Len(record.pending) + 1
        /\ \A i \in DOMAIN more : more[i] = one \/ (i \in DOMAIN record.pending /\ more[i] = record.pending[i])
    BY <2>2, <2>4
  <2>6. \A i \in DOMAIN more : more[i].blueprint \in Binders(s)
    BY <2>2, <2>4, <2>5
  <2> HIDE DEF more
  <2>7. Len(more) <= MaxStash
    BY <2>2, <2>3, <2>5, LibraryAssumption
  <2> QED
    BY <2>1, <2>2, <2>5, <2>6, <2>7 DEF RecordFits, Records
<1> QED
  BY <1>2, <1>3, <1>4

-----------------------------------------------------------------------------
(* What a step leaves of the three parts of the invariant *)

\* What people accepted is never taken back, and no blueprint is deleted.
Grows == \A b \in Owners : given[b] \subseteq given'[b] /\ (Made(b) => Made(b)')

LEMMA StillsGrow == ASSUME UNCHANGED <<pushed, given>> PROVE Grows
  BY DEF Grows, Made

LEMMA ShelfStays == ASSUME ShelfFits, Grows, UNCHANGED sheets PROVE ShelfFits'
<1>1. ASSUME NEW s \in Sheets PROVE RecordFits(s, sheets[s])'
  <2>1. Binders(s) \subseteq Binders(s)'
    BY DEF Binders, Grows
  <2>2. RecordFits(s, sheets[s]) /\ sheets'[s] = sheets[s]
    BY DEF ShelfFits
  <2> QED
    BY <2>1, <2>2 DEF RecordFits
<1> QED
  BY <1>1 DEF ShelfFits

LEMMA ShelfIsWritten ==
  ASSUME sheets' = [t \in Sheets |-> sheets'[t]], UNCHANGED given, \A s \in Sheets : RecordFits(s, sheets'[s])
  PROVE  ShelfFits'
<1>1. \A s \in Sheets : Binders(s)' = Binders(s)
  BY DEF Binders
<1> QED
  BY <1>1 DEF ShelfFits, RecordFits

LEMMA OneMoves ==
  ASSUME RequestsFit, Grows, NEW p \in Callers, request' = [c \in Callers |-> request'[c]],
         \A q \in Callers \ {p} : request'[q] = request[q], RequestFits(request[p])'
  PROVE  RequestsFit'
<1>1. ASSUME NEW q \in Callers \ {p} PROVE RequestFits(request[q])'
  <2>1. RequestFits(request[q]) /\ request'[q] = request[q]
    BY DEF RequestsFit
  <2> QED
    BY <2>1 DEF RequestFits, Grows
<1> QED
  BY <1>1 DEF RequestsFit

LEMMA NoneMoves == ASSUME RequestsFit, Grows, UNCHANGED request PROVE RequestsFit'
<1>1. ASSUME NEW q \in Callers PROVE RequestFits(request[q])'
  <2>1. RequestFits(request[q]) /\ request'[q] = request[q]
    BY DEF RequestsFit
  <2> QED
    BY <2>1 DEF RequestFits, Grows
<1> QED
  BY <1>1 DEF RequestsFit

LEMMA OneEnds == ASSUME RequestsFit, Grows, NEW p \in Callers, Ends(p) PROVE RequestsFit'
<1>1. request'[p] = Idle /\ request' = [c \in Callers |-> request'[c]] /\ \A q \in Callers \ {p} : request'[q] = request[q]
  BY DEF RequestsFit, Ends
<1>2. RequestFits(request[p])'
  BY <1>1 DEF RequestFits, Requests, Steps, Idle
<1> QED
  BY <1>1, <1>2, OneMoves

-----------------------------------------------------------------------------
(* The steps of a request *)

LEMMA RequestStarts ==
  ASSUME LibraryInv, NEW p \in Callers, UNCHANGED <<pushed, given, sheets>>,
         NEW at \in {"create", "push", "accept"}, NEW b \in Owners \cup {Nothing}, NEW bundle \in Bundles,
         at # "create" => b \in Owners /\ Made(b), Takes(p, [at |-> at, id |-> b, bundle |-> bundle])
  PROVE  LibraryInv'
<1>1. Grows
  BY StillsGrow
<1>2. /\ request'[p] = [at |-> at, id |-> b, bundle |-> bundle]
      /\ request' = [c \in Callers |-> request'[c]] /\ \A q \in Callers \ {p} : request'[q] = request[q]
  BY DEF LibraryInv, RequestsFit, Takes
<1>3. RequestFits(request[p])'
  BY <1>2 DEF RequestFits, Requests, Steps, Made
<1>4. RequestsFit'
  BY <1>1, <1>2, <1>3, OneMoves DEF LibraryInv
<1> QED
  BY <1>1, <1>4, ShelfStays DEF LibraryInv, PushedFits

LEMMA ReadBundleStarts ==
  ASSUME LibraryInv, NEW p \in Callers, NEW b \in Owners, ReadWaiting(p, b)
  PROVE  LibraryInv'
<1>1. PICK bundle \in pushed[b] : Takes(p, [at |-> "accept", id |-> b, bundle |-> bundle])
  BY DEF ReadWaiting
<1>2. bundle \in Bundles /\ Made(b)
  BY <1>1 DEF ReadWaiting, LibraryInv, PushedFits, Made
<1> QED
  BY <1>1, <1>2, RequestStarts DEF ReadWaiting, UnchangedShelf

LEMMA CheckedStarts ==
  ASSUME LibraryInv, NEW p \in Callers, NEW bundle \in Bundles,
         CreateChecked(p, bundle) \/ \E b \in Owners : PushChecked(p, b, bundle)
  PROVE  LibraryInv'
<1>1. CASE CreateChecked(p, bundle)
  <2>1. Takes(p, [at |-> "create", id |-> Nothing, bundle |-> bundle])
    BY <1>1 DEF CreateChecked
  <2> QED
    BY <1>1, <2>1, RequestStarts DEF CreateChecked, UnchangedShelf
<1>2. CASE \E b \in Owners : PushChecked(p, b, bundle)
  BY <1>2, RequestStarts DEF PushChecked, UnchangedShelf
<1> QED
  BY <1>1, <1>2

\* What is accepted for a blueprint covers the bundle that goes on to be applied to it.
LEMMA AcceptedGoesOn ==
  ASSUME LibraryInv, NEW p \in Callers, NEW b \in Owners, GoesOnWith(p, b), UNCHANGED sheets,
         request[p].bundle \in Bundles, Made(b)', PushedFits',
         \A c \in Owners : Made(c) => Made(c)'
  PROVE  LibraryInv'
<1>1. /\ given' = [given EXCEPT ![b] = @ \cup Carries(request[p].bundle)]
      /\ given \in [Owners -> SUBSET Sheets]
  BY DEF LibraryInv, PushedFits, GoesOnWith
<1>2. Grows /\ Carries(request[p].bundle) \subseteq given'[b]
  BY <1>1 DEF Grows
<1>3. /\ request'[p] = [request[p] EXCEPT !.at = "check", !.id = b]
      /\ request' = [c \in Callers |-> request'[c]] /\ \A q \in Callers \ {p} : request'[q] = request[q]
      /\ request[p] \in Requests
  BY DEF LibraryInv, RequestsFit, RequestFits, GoesOnWith
<1>4. /\ request'[p].at = "check" /\ request'[p].id = b /\ request'[p].bundle = request[p].bundle
      /\ request'[p] \in Requests
  BY <1>3 DEF Requests, Steps
<1>5. RequestFits(request[p])'
  BY <1>2, <1>4 DEF RequestFits, Carries
<1>6. RequestsFit'
  BY <1>2, <1>3, <1>5, OneMoves DEF LibraryInv
<1> QED
  BY <1>2, <1>6, ShelfStays DEF LibraryInv

LEMMA CarriedAreSheets ==
  ASSUME NEW bundle \in Bundles
  PROVE  /\ Carries(bundle) \subseteq Sheets
         /\ \A s \in Carries(bundle) : bundle.sheets[s] \in Numbers
  BY LibraryAssumption DEF Carries

LEMMA CreationGoesOn ==
  ASSUME LibraryInv, NEW p \in Callers, NEW b \in Owners, CreateBlueprint(p, b)
  PROVE  LibraryInv'
<1>1. request[p].bundle \in Bundles
  BY DEF LibraryInv, RequestsFit, RequestFits, CreateBlueprint
<1>2. /\ Carries(request[p].bundle) \subseteq Sheets
      /\ given' = [given EXCEPT ![b] = @ \cup Carries(request[p].bundle)]
  BY <1>1, CarriedAreSheets DEF CreateBlueprint, GoesOnWith
<1>3. pushed \in [Owners -> (SUBSET Bundles) \cup {Nothing}] /\ pushed' = [pushed EXCEPT ![b] = {}]
  BY DEF LibraryInv, PushedFits, CreateBlueprint
<1>4. {} # Nothing
  BY LibraryAssumption
<1>5. PushedFits' /\ Made(b)' /\ \A c \in Owners : Made(c) => Made(c)'
  BY <1>2, <1>3, <1>4 DEF LibraryInv, PushedFits, Made
<1> QED
  BY <1>1, <1>5, AcceptedGoesOn DEF CreateBlueprint, UnchangedShelf

LEMMA AcceptanceGoesOn ==
  ASSUME LibraryInv, NEW p \in Callers, AcceptRevision(p)
  PROVE  LibraryInv'
<1>1. request[p].bundle \in Bundles /\ request[p].id \in Owners /\ Made(request[p].id)
  BY DEF LibraryInv, RequestsFit, RequestFits, AcceptRevision
<1> DEFINE b == request[p].id
<1>2. /\ Carries(request[p].bundle) \subseteq Sheets
      /\ given' = [given EXCEPT ![b] = @ \cup Carries(request[p].bundle)]
  BY <1>1, CarriedAreSheets DEF AcceptRevision, GoesOnWith
<1>3. /\ pushed \in [Owners -> (SUBSET Bundles) \cup {Nothing}] /\ pushed[b] \in SUBSET Bundles
      /\ pushed' = [pushed EXCEPT ![b] = @ \ {request[p].bundle}]
  BY <1>1 DEF LibraryInv, PushedFits, AcceptRevision, Made
<1>4. pushed[b] \ {request[p].bundle} \in SUBSET Bundles /\ pushed[b] \ {request[p].bundle} # Nothing
  BY <1>3, LibraryAssumption
<1>5. PushedFits' /\ \A c \in Owners : Made(c) => Made(c)'
  BY <1>1, <1>2, <1>3, <1>4 DEF LibraryInv, PushedFits, Made
<1> QED
  BY <1>1, <1>5, AcceptedGoesOn DEF AcceptRevision, UnchangedShelf

LEMMA PushWaits ==
  ASSUME LibraryInv, NEW p \in Callers, PushRevision(p)
  PROVE  LibraryInv'
<1>1. request[p].bundle \in Bundles /\ request[p].id \in Owners /\ Made(request[p].id)
  BY DEF LibraryInv, RequestsFit, RequestFits, PushRevision
<1> DEFINE b == request[p].id
<1>2. /\ pushed \in [Owners -> (SUBSET Bundles) \cup {Nothing}] /\ pushed[b] \in SUBSET Bundles
      /\ pushed' = [pushed EXCEPT ![b] = @ \cup {request[p].bundle}]
  BY <1>1 DEF LibraryInv, PushedFits, PushRevision, Made
<1>3. pushed[b] \cup {request[p].bundle} \in SUBSET Bundles /\ pushed[b] \cup {request[p].bundle} # Nothing
  BY <1>1, <1>2, LibraryAssumption
<1>4. PushedFits' /\ Grows
  BY <1>1, <1>2, <1>3 DEF LibraryInv, PushedFits, Made, Grows, PushRevision
<1> QED
  BY <1>4, OneEnds, ShelfStays DEF LibraryInv, PushRevision, UnchangedShelf

LEMMA RejectionDrops ==
  ASSUME LibraryInv, NEW b \in Owners, RejectRevision(b)
  PROVE  LibraryInv'
<1>1. PICK bundle \in pushed[b] : pushed' = [pushed EXCEPT ![b] = @ \ {bundle}]
  BY DEF RejectRevision
<1>2. pushed \in [Owners -> (SUBSET Bundles) \cup {Nothing}] /\ pushed[b] \in SUBSET Bundles
  BY DEF LibraryInv, PushedFits, RejectRevision, Made
<1>3. pushed[b] \ {bundle} \in SUBSET Bundles /\ pushed[b] \ {bundle} # Nothing
  BY <1>2, LibraryAssumption
<1>4. PushedFits' /\ Grows
  BY <1>1, <1>2, <1>3 DEF LibraryInv, PushedFits, Made, Grows, RejectRevision
<1> QED
  BY <1>4, NoneMoves, ShelfStays DEF LibraryInv, RejectRevision, UnchangedShelf

-----------------------------------------------------------------------------
(* A bundle is applied *)

LEMMA ApplyingFits ==
  ASSUME LibraryInv, NEW p \in Callers, request[p].at \in {"check", "bind", "unbind"}
  PROVE  /\ request[p] \in Requests /\ request[p].id \in Owners /\ request[p].bundle \in Bundles
         /\ Carries(request[p].bundle) \subseteq given[request[p].id]
  BY DEF LibraryInv, RequestsFit, RequestFits

LEMMA ApplyingGoesOn ==
  ASSUME LibraryInv, NEW p \in Callers, UNCHANGED <<pushed, given>>,
         request[p].at \in {"check", "bind", "unbind"}, Goes(p, "bind") \/ Goes(p, "unbind")
  PROVE  RequestsFit'
<1>1. /\ request'[p] = [request[p] EXCEPT !.at = "bind"] \/ request'[p] = [request[p] EXCEPT !.at = "unbind"]
      /\ request' = [c \in Callers |-> request'[c]] /\ \A q \in Callers \ {p} : request'[q] = request[q]
  BY DEF LibraryInv, RequestsFit, Goes
<1>2. /\ request[p] \in Requests /\ request[p].id \in Owners /\ request[p].bundle \in Bundles
      /\ Carries(request[p].bundle) \subseteq given[request[p].id]
  BY ApplyingFits
<1>3. /\ request'[p].at \in {"bind", "unbind"} /\ request'[p] \in Requests
      /\ request'[p].id = request[p].id /\ request'[p].bundle = request[p].bundle
  BY <1>1, <1>2 DEF Requests, Steps
<1>4. RequestFits(request[p])'
  BY <1>2, <1>3 DEF RequestFits, Carries
<1> QED
  BY <1>1, <1>4, OneMoves, StillsGrow DEF LibraryInv

LEMMA BindingFits ==
  ASSUME LibraryInv, NEW p \in Callers, request[p].at = "bind", UNCHANGED given,
         \E some \in SUBSET Bindable(p) : BoundBy(p, some)
  PROVE  ShelfFits'
<1>1. PICK some \in SUBSET Bindable(p) : BoundBy(p, some)
  OBVIOUS
<1>2. /\ request[p].id \in Owners /\ request[p].bundle \in Bundles
      /\ Carries(request[p].bundle) \subseteq given[request[p].id]
  BY ApplyingFits
<1>3. ASSUME NEW s \in Sheets PROVE RecordFits(s, sheets'[s])
  <2>1. RecordFits(s, sheets[s])
    BY DEF LibraryInv, ShelfFits
  <2>2. CASE s \in some
    <3>1. s \in Carries(request[p].bundle) /\ ~StashFull(s, request[p].bundle.sheets[s])
      BY <2>2 DEF Bindable
    <3>2. request[p].bundle.sheets[s] \in Numbers /\ request[p].id \in Binders(s)
      BY <1>2, <3>1, CarriedAreSheets DEF Binders
    <3>3. sheets'[s] = Shelved(sheets[s], request[p].bundle.sheets[s], request[p].id)
      BY <1>1, <2>2 DEF BoundBy
    <3> QED
      BY <2>1, <3>1, <3>2, <3>3, ShelvedFits
  <2>3. CASE s \notin some
    BY <1>1, <2>1, <2>3 DEF BoundBy
  <2> QED
    BY <2>2, <2>3
<1>4. sheets' = [t \in Sheets |-> sheets'[t]]
  BY <1>1 DEF BoundBy
<1> QED
  BY <1>3, <1>4, ShelfIsWritten

LEMMA UnbindingFits ==
  ASSUME LibraryInv, NEW p \in Callers, UNCHANGED given, \E some \in SUBSET Missing(p) : sheets' = Unbound(some)
  PROVE  ShelfFits'
<1>1. PICK some \in SUBSET Missing(p) : sheets' = Unbound(some)
  OBVIOUS
<1>2. ASSUME NEW s \in Sheets PROVE RecordFits(s, sheets'[s])
  <2>1. RecordFits(s, sheets[s])
    BY DEF LibraryInv, ShelfFits
  <2>2. CASE s \in some
    <3>1. sheets[s] # Nothing /\ sheets'[s] = [sheets[s] EXCEPT !.blueprint = Generic]
      BY <1>1, <2>2 DEF Missing, HeldBy, BoundTo, OnFile, Unbound
    <3> QED
      BY <2>1, <3>1 DEF RecordFits, Records, Binders
  <2>3. CASE s \notin some
    BY <1>1, <2>1, <2>3 DEF Unbound
  <2> QED
    BY <2>2, <2>3
<1>3. sheets' = [t \in Sheets |-> sheets'[t]]
  BY <1>1 DEF Unbound
<1> QED
  BY <1>2, <1>3, ShelfIsWritten

LEMMA ApplyingKeeps ==
  ASSUME LibraryInv, NEW p \in Callers, ApplyBundle(p)
  PROVE  LibraryInv'
<1>1. UNCHANGED <<pushed, given>> /\ Grows /\ PushedFits'
  BY StillsGrow DEF ApplyBundle, LibraryInv, PushedFits
<1>2. CASE Check(p)
  BY <1>1, <1>2, ApplyingGoesOn, OneEnds, ShelfStays DEF Check, LibraryInv
<1>3. CASE Bind(p)
  BY <1>1, <1>3, ApplyingGoesOn, BindingFits DEF Bind, LibraryInv
<1>4. CASE BindCutShort(p)
  BY <1>1, <1>4, OneEnds, BindingFits DEF BindCutShort, LibraryInv
<1>5. CASE Unbind(p)
  BY <1>1, <1>5, OneEnds, UnbindingFits DEF Unbind, LibraryInv
<1>6. CASE UnbindCutShort(p)
  BY <1>1, <1>6, OneEnds, UnbindingFits DEF UnbindCutShort, LibraryInv
<1> QED
  BY <1>2, <1>3, <1>4, <1>5, <1>6 DEF ApplyBundle

-----------------------------------------------------------------------------
(* People and the Sheets button *)

\* A step on one sheet's record leaves the shelf fit if it leaves that record fit.
LEMMA OneRecordWritten ==
  ASSUME LibraryInv, NEW s \in Sheets, UNCHANGED given, sheets' = [t \in Sheets |-> sheets'[t]],
         \A t \in Sheets \ {s} : sheets'[t] = sheets[t], RecordFits(s, sheets'[s])
  PROVE  ShelfFits'
<1>1. \A t \in Sheets : RecordFits(t, sheets'[t])
  BY DEF LibraryInv, ShelfFits
<1> QED
  BY <1>1, ShelfIsWritten

\* Taking one push out of a stash.
LEMMA StashShrinks ==
  ASSUME NEW s \in Sheets, RecordFits(s, sheets[s]), OnFile(s), NEW i \in DOMAIN sheets[s].pending
  PROVE  LET rest == Without(sheets[s].pending, i)
         IN  /\ rest \in Seq([number : Numbers, blueprint : Owners \cup {Generic}]) /\ Len(rest) <= MaxStash
             /\ \A j \in DOMAIN rest : rest[j].blueprint \in Binders(s)
<1> DEFINE stash == sheets[s].pending
           rest == Without(stash, i)
<1>1. /\ stash \in Seq([number : Numbers, blueprint : Owners \cup {Generic}]) /\ Len(stash) <= MaxStash
      /\ \A k \in DOMAIN stash : stash[k].blueprint \in Binders(s)
  BY DEF RecordFits, Records, OnFile
<1>2. /\ rest \in Seq([number : Numbers, blueprint : Owners \cup {Generic}]) /\ Len(rest) <= Len(stash)
      /\ \A j \in DOMAIN rest : \E k \in DOMAIN stash : rest[j] = stash[k]
  BY <1>1, StashWithout
<1>3. Len(rest) \in Nat /\ Len(stash) \in Nat /\ MaxStash \in Nat
  BY <1>1, <1>2, LenProperties, LibraryAssumption
<1>4. Len(rest) <= MaxStash
  BY <1>1, <1>2, <1>3
<1> QED
  BY <1>1, <1>2, <1>4

LEMMA HandsKeep ==
  ASSUME LibraryInv, AtTheLibrary
  PROVE  ShelfFits'
<1>1. /\ UNCHANGED given
      /\ \E s \in Sheets :
            \/ \E number \in ButtonNumbers[s] : PushSheet(s, number)
            \/ \E i \in 1..MaxStash : AcceptSheet(s, i) \/ RejectSheet(s, i)
            \/ DeleteSheet(s)
  BY DEF AtTheLibrary
<1>2. PICK s \in Sheets :
            \/ \E number \in ButtonNumbers[s] : PushSheet(s, number)
            \/ \E i \in 1..MaxStash : AcceptSheet(s, i) \/ RejectSheet(s, i)
            \/ DeleteSheet(s)
  BY <1>1
<1>3. RecordFits(s, sheets[s]) /\ sheets = [t \in Sheets |-> sheets[t]]
  BY DEF LibraryInv, ShelfFits
<1>4. ASSUME NEW number \in ButtonNumbers[s], PushSheet(s, number) PROVE ShelfFits'
  <2>1. number \in Numbers /\ Generic \in Binders(s)
    BY LibraryAssumption DEF Binders
  <2>2. sheets' = [sheets EXCEPT ![s] = Shelved(sheets[s], number, Generic)] /\ ~StashFull(s, number)
    BY <1>4 DEF PushSheet
  <2>3. RecordFits(s, sheets'[s])
    BY <1>3, <2>1, <2>2, ShelvedFits
  <2> QED
    BY <1>1, <1>3, <2>2, <2>3, OneRecordWritten
<1>5. ASSUME NEW i \in 1..MaxStash, AcceptSheet(s, i) PROVE ShelfFits'
  <2> DEFINE stash == sheets[s].pending
             w == stash[i]
             rest == Without(stash, i)
             binder == IF w.blueprint = Generic THEN sheets[s].blueprint ELSE w.blueprint
  <2>1. /\ OnFile(s) /\ i \in DOMAIN stash
        /\ sheets' = [sheets EXCEPT ![s] = [number |-> w.number, blueprint |-> binder, pending |-> rest]]
    BY <1>5 DEF AcceptSheet
  <2>2. /\ rest \in Seq([number : Numbers, blueprint : Owners \cup {Generic}]) /\ Len(rest) <= MaxStash
        /\ \A j \in DOMAIN rest : rest[j].blueprint \in Binders(s)
    BY <1>3, <2>1, StashShrinks
  <2>3. /\ stash \in Seq([number : Numbers, blueprint : Owners \cup {Generic}])
        /\ w.blueprint \in Binders(s) /\ sheets[s].blueprint \in Binders(s)
    BY <1>3, <2>1 DEF RecordFits, Records, OnFile
  <2>4. w.number \in Numbers /\ binder \in Binders(s) /\ binder \in Owners \cup {Generic}
    <3>1. w \in [number : Numbers, blueprint : Owners \cup {Generic}]
      <4>1. /\ stash \in [1..Len(stash) -> [number : Numbers, blueprint : Owners \cup {Generic}]]
            /\ DOMAIN stash = 1..Len(stash)
        BY <2>3, LenProperties
      <4> HIDE DEF stash
      <4> QED
        BY <2>1, <4>1
    <3>2. binder \in Binders(s)
      BY <2>3
    <3> HIDE DEF w, binder
    <3> QED
      BY <3>1, <3>2 DEF Binders
  <2>5. sheets'[s] = [number |-> w.number, blueprint |-> binder, pending |-> rest]
    BY <1>3, <2>1
  <2> HIDE DEF binder, rest, w
  <2>6. RecordFits(s, sheets'[s])
    BY <2>2, <2>4, <2>5 DEF RecordFits, Records
  <2> QED
    BY <1>1, <1>3, <2>1, <2>6, OneRecordWritten
<1>6. ASSUME NEW i \in 1..MaxStash, RejectSheet(s, i) PROVE ShelfFits'
  <2> DEFINE rest == Without(sheets[s].pending, i)
  <2>1. OnFile(s) /\ i \in DOMAIN sheets[s].pending /\ sheets' = [sheets EXCEPT ![s].pending = rest]
    BY <1>6 DEF RejectSheet
  <2>2. /\ rest \in Seq([number : Numbers, blueprint : Owners \cup {Generic}]) /\ Len(rest) <= MaxStash
        /\ \A j \in DOMAIN rest : rest[j].blueprint \in Binders(s)
    BY <1>3, <2>1, StashShrinks
  <2> HIDE DEF rest
  <2>3. sheets'[s] = [sheets[s] EXCEPT !.pending = rest] /\ sheets[s] # Nothing
    BY <1>3, <2>1 DEF OnFile
  <2>4. RecordFits(s, sheets'[s])
    BY <1>3, <2>2, <2>3 DEF RecordFits, Records
  <2> QED
    BY <1>1, <1>3, <2>1, <2>4, OneRecordWritten
<1>7. ASSUME DeleteSheet(s) PROVE ShelfFits'
  <2>1. sheets' = [sheets EXCEPT ![s] = Nothing]
    BY <1>7 DEF DeleteSheet
  <2>2. RecordFits(s, sheets'[s])
    BY <1>3, <2>1 DEF RecordFits
  <2> QED
    BY <1>1, <1>3, <2>1, <2>2, OneRecordWritten
<1> QED
  BY <1>2, <1>4, <1>5, <1>6, <1>7

-----------------------------------------------------------------------------

LEMMA LibrarySteps == LibraryInv /\ [LibraryNext]_libraryVars => LibraryInv'
<1> SUFFICES ASSUME LibraryInv, [LibraryNext]_libraryVars PROVE LibraryInv'
  OBVIOUS
<1>1. CASE UNCHANGED libraryVars
  <2>1. UNCHANGED <<pushed, given, sheets, request>>
    BY <1>1 DEF libraryVars
  <2> QED
    BY <2>1, StillsGrow, NoneMoves, ShelfStays DEF LibraryInv, PushedFits
<1>2. CASE AtTheLibrary
  <2>1. UNCHANGED <<pushed, given, request>>
    BY <1>2 DEF AtTheLibrary
  <2> QED
    BY <1>2, <2>1, StillsGrow, NoneMoves, HandsKeep DEF LibraryInv, PushedFits
<1>3. ASSUME NEW b \in Owners, RejectRevision(b) PROVE LibraryInv'
  BY <1>3, RejectionDrops
<1>4. ASSUME NEW p \in Callers, GiveUp(p) PROVE LibraryInv'
  BY <1>4, StillsGrow, OneEnds, ShelfStays DEF GiveUp, UnchangedShelf, LibraryInv, PushedFits
<1>5. ASSUME NEW p \in Callers, ApplyBundle(p) \/ PushRevision(p) \/ AcceptRevision(p) PROVE LibraryInv'
  BY <1>5, ApplyingKeeps, PushWaits, AcceptanceGoesOn
<1>6. ASSUME NEW p \in Callers, NEW bundle \in Bundles,
             CreateChecked(p, bundle) \/ \E b \in Owners : PushChecked(p, b, bundle)
      PROVE  LibraryInv'
  BY <1>6, CheckedStarts
<1>7. ASSUME NEW p \in Callers, NEW b \in Owners, CreateBlueprint(p, b) \/ ReadWaiting(p, b) PROVE LibraryInv'
  BY <1>7, CreationGoesOn, ReadBundleStarts
<1> QED
  BY <1>1, <1>2, <1>3, <1>4, <1>5, <1>6, <1>7 DEF LibraryNext

LEMMA LibraryHolds == LibrarySpec => []LibraryInv
  BY LibraryStarts, LibrarySteps, PTL DEF LibrarySpec

\* Whatever overlaps and stops half way, a sheet is bound to a blueprint, or waits to be, only if a
\* person accepted a revision of it, or made it, with that sheet in the bundle.
THEOREM BoundWereAccepted == LibrarySpec => []BoundWasAccepted
<1>1. ASSUME LibraryInv PROVE BoundWasAccepted
  <2> SUFFICES ASSUME NEW s \in Sheets, NEW b \in Owners,
                      \/ BoundTo(s, b)
                      \/ OnFile(s) /\ \E i \in DOMAIN sheets[s].pending : sheets[s].pending[i].blueprint = b
               PROVE  s \in given[b]
    BY DEF BoundWasAccepted
  <2>1. b \in Binders(s)
    BY <1>1 DEF LibraryInv, ShelfFits, RecordFits, BoundTo, OnFile
  <2> QED
    BY <2>1, LibraryAssumption DEF Binders
<1> QED
  BY <1>1, LibraryHolds, PTL

\* A request that applies a bundle names a blueprint, and no stash holds more than it may.
THEOREM LibraryTypesHold == LibrarySpec => []LibraryTypeOK
<1>1. ASSUME LibraryInv PROVE LibraryTypeOK
  <2>1. sheets \in [Sheets -> Records \cup {Nothing}]
    <3>1. sheets = [t \in Sheets |-> sheets[t]] /\ \A s \in Sheets : sheets[s] \in Records \cup {Nothing}
      BY <1>1 DEF LibraryInv, ShelfFits, RecordFits
    <3> QED
      BY <3>1
  <2>2. request \in [Callers -> Requests]
    BY <1>1 DEF LibraryInv, RequestsFit, RequestFits
  <2>3. \A s \in Sheets : OnFile(s) => Len(sheets[s].pending) <= MaxStash
    BY <1>1 DEF LibraryInv, ShelfFits, RecordFits, OnFile
  <2>4. \A p \in Callers : request[p].at \in {"check", "bind", "unbind"} => request[p].id \in Owners
    BY <1>1 DEF LibraryInv, RequestsFit, RequestFits
  <2> QED
    BY <1>1, <2>1, <2>2, <2>3, <2>4 DEF LibraryTypeOK, LibraryInv, PushedFits, Requests, Steps
<1> QED
  BY <1>1, LibraryHolds, PTL

-----------------------------------------------------------------------------
(* While requests come one at a time and none is cut short *)

OneAtATime == \A p, q \in Callers : ~IsIdle(p) /\ ~IsIdle(q) => p = q

\* What the check of a request found stands until it binds.
ChecksStand == \A p \in Callers : request[p].at = "bind" => Conflicts(request[p].bundle, request[p].id) = {}

\* The sheets that the request under way has bound to b and not yet entered as carried.
Unentered(b) ==
    {s \in Sheets : \E p \in Callers :
        request[p].at = "unbind" /\ request[p].id = b /\ s \in Carries(request[p].bundle)}

Accounted ==
    \A s \in Sheets, b \in Owners : BoundTo(s, b) => s \in Carries(carried[b]) \cup byHand \cup Unentered(b)

CalmFits ==
    /\ carried = [b \in Owners |-> carried[b]]
    /\ ~disturbed => OneAtATime /\ ChecksStand /\ Accounted

LEMMA CalmStarts == LibraryInit => CalmFits
<1> SUFFICES ASSUME LibraryInit PROVE CalmFits
  OBVIOUS
<1>1. carried = [b \in Owners |-> carried[b]]
  BY DEF LibraryInit
<1>2. OneAtATime /\ ChecksStand
  BY DEF LibraryInit, OneAtATime, ChecksStand, IsIdle, Idle
<1>3. Accounted
  BY DEF LibraryInit, Accounted, BoundTo, OnFile
<1> QED
  BY <1>1, <1>2, <1>3 DEF CalmFits

\* Whom a sheet is bound to once one push of it is shelved.
LEMMA ShelvedBinder ==
  ASSUME NEW record \in Records \cup {Nothing}, NEW number, NEW b
  PROVE  LET shelved == Shelved(record, number, b)
         IN  \/ shelved.blueprint = b /\ (b = Generic => record = Nothing)
             \/ record # Nothing /\ shelved.blueprint = record.blueprint
<1>1. CASE record = Nothing
  BY <1>1 DEF Shelved
<1>2. CASE record # Nothing /\ record.number = number
  BY <1>2 DEF Shelved, Records
<1>3. CASE record # Nothing /\ record.number # number
  <2>1. Shelved(record, number, b) = [record EXCEPT !.pending = Append(@, [number |-> number, blueprint |-> b])]
    BY <1>3 DEF Shelved
  <2>2. Shelved(record, number, b).blueprint = record.blueprint
    BY <1>3, <2>1 DEF Records
  <2> QED
    BY <1>3, <2>2
<1> QED
  BY <1>1, <1>2, <1>3

LEMMA RecordsOnFile == ASSUME LibraryInv, NEW s \in Sheets PROVE sheets[s] \in Records \cup {Nothing}
  BY DEF LibraryInv, ShelfFits, RecordFits

\* A step of a request that writes no sheet.
LEMMA QuietlyCalm ==
  ASSUME CalmFits, disturbed => disturbed', UNCHANGED <<sheets, carried, byHand>>, NEW p \in Callers,
         \A q \in Callers \ {p} : request'[q] = request[q],
         request[p].at \notin {"idle", "unbind"}, request'[p].at # "unbind",
         request'[p].at = "bind" => Conflicts(request'[p].bundle, request'[p].id) = {}
  PROVE  CalmFits'
<1>1. carried' = [b \in Owners |-> carried'[b]]
  BY DEF CalmFits
<1> SUFFICES ASSUME ~disturbed PROVE OneAtATime' /\ ChecksStand' /\ Accounted'
  BY <1>1 DEF CalmFits
<1>2. OneAtATime /\ ChecksStand /\ Accounted
  BY DEF CalmFits
<1>3. OneAtATime'
  BY <1>2 DEF OneAtATime, IsIdle
<1>4. ChecksStand'
  <2>1. \A q \in Callers \ {p} : request[q].at # "bind"
    BY <1>2 DEF OneAtATime, IsIdle
  <2>2. Conflicts(request[p].bundle, request[p].id)' = Conflicts(request'[p].bundle, request'[p].id)
    BY DEF Conflicts, Carries, OnFile
  <2> QED
    BY <2>1, <2>2 DEF ChecksStand
<1>5. \A b \in Owners : Unentered(b) \subseteq Unentered(b)'
  BY DEF Unentered, Carries
<1>6. Accounted'
  BY <1>2, <1>5 DEF Accounted, BoundTo, OnFile
<1> QED
  BY <1>3, <1>4, <1>6

\* A request that begins undisturbed is the only one.
LEMMA TakingCalm ==
  ASSUME LibraryInv, CalmFits, UNCHANGED <<sheets, carried, byHand>>, NEW p \in Callers, NEW r, Takes(p, r),
         r.at \in {"create", "push", "accept"}
  PROVE  CalmFits'
<1>1. carried' = [b \in Owners |-> carried'[b]]
  BY DEF CalmFits
<1> SUFFICES ASSUME ~disturbed' PROVE OneAtATime' /\ ChecksStand' /\ Accounted'
  BY <1>1 DEF CalmFits
<1>2. NoneUnderWay /\ Accounted
  BY DEF Takes, CalmFits
<1>3. request'[p] = r /\ \A q \in Callers \ {p} : request'[q].at = "idle"
  BY <1>2 DEF LibraryInv, RequestsFit, Takes, NoneUnderWay, IsIdle
<1>4. OneAtATime' /\ ChecksStand'
  BY <1>3 DEF OneAtATime, ChecksStand, IsIdle
<1>5. \A b \in Owners : Unentered(b) = {}
  BY <1>2 DEF Unentered, NoneUnderWay, IsIdle
<1>6. Accounted'
  BY <1>2, <1>5 DEF Accounted, BoundTo, OnFile
<1> QED
  BY <1>4, <1>6

\* Undisturbed, nothing bound is left to be entered while a request binds.
LEMMA BindingAlone ==
  ASSUME OneAtATime, NEW p \in Callers, request[p].at \in {"bind", "unbind"}
  PROVE  /\ \A q \in Callers \ {p} : request[q].at = "idle"
         /\ \A b \in Owners : Unentered(b) =
              IF request[p].at = "unbind" /\ request[p].id = b THEN Sheets \cap Carries(request[p].bundle) ELSE {}
<1>1. \A q \in Callers \ {p} : request[q].at = "idle"
  BY DEF OneAtATime, IsIdle
<1> QED
  BY <1>1 DEF Unentered

LEMMA BindCalm ==
  ASSUME LibraryInv, CalmFits, NEW p \in Callers, Bind(p)
  PROVE  CalmFits'
<1> DEFINE b0 == request[p].id
           bundle == request[p].bundle
<1>1. /\ request[p].at = "bind" /\ BoundBy(p, Bindable(p)) /\ Goes(p, "unbind")
      /\ UNCHANGED <<carried, byHand, disturbed>>
  BY DEF Bind
<1>2. carried' = [b \in Owners |-> carried'[b]]
  BY <1>1 DEF CalmFits
<1> SUFFICES ASSUME ~disturbed PROVE OneAtATime' /\ ChecksStand' /\ Accounted'
  BY <1>1, <1>2 DEF CalmFits
<1>3. OneAtATime /\ Accounted /\ request[p] \in Requests
  BY <1>1, ApplyingFits DEF CalmFits
<1>4. /\ request'[p].at = "unbind" /\ request'[p].id = b0 /\ request'[p].bundle = bundle
      /\ \A q \in Callers \ {p} : request'[q].at = "idle"
  BY <1>1, <1>3, BindingAlone DEF LibraryInv, RequestsFit, Goes, Requests
<1>5. OneAtATime' /\ ChecksStand'
  BY <1>4 DEF OneAtATime, ChecksStand, IsIdle
<1>6. ASSUME NEW s \in Sheets, NEW b \in Owners, BoundTo(s, b)'
      PROVE  s \in Carries(carried'[b]) \cup byHand' \cup Unentered(b)'
  <2>1. sheets'[s] = IF s \in Bindable(p) THEN Shelved(sheets[s], bundle.sheets[s], b0) ELSE sheets[s]
    BY <1>1 DEF BoundBy
  <2>2. sheets'[s].blueprint = b /\ sheets'[s] # Nothing
    BY <1>6 DEF BoundTo, OnFile
  <2>3. CASE BoundTo(s, b)
    BY <1>1, <1>3, <2>3, BindingAlone DEF Accounted
  <2>4. CASE ~BoundTo(s, b)
    <3>1. s \in Bindable(p) /\ b = b0
      BY <2>1, <2>2, <2>4, RecordsOnFile, ShelvedBinder DEF BoundTo, OnFile
    <3>2. s \in Carries(bundle)
      BY <3>1 DEF Bindable
    <3>3. s \in Unentered(b)'
      BY <1>4, <3>1, <3>2 DEF Unentered, Carries
    <3> QED
      BY <3>3
  <2> QED
    BY <2>3, <2>4
<1>7. Accounted'
  BY <1>6 DEF Accounted, Carries
<1> QED
  BY <1>5, <1>7

LEMMA UnbindCalm ==
  ASSUME LibraryInv, CalmFits, NEW p \in Callers, Unbind(p)
  PROVE  CalmFits'
<1> DEFINE b0 == request[p].id
           bundle == request[p].bundle
<1>1. /\ request[p].at = "unbind" /\ sheets' = Unbound(Missing(p)) /\ Ends(p)
      /\ carried' = [carried EXCEPT ![b0] = bundle] /\ byHand' = byHand \ HeldBy(b0) /\ UNCHANGED disturbed
  BY DEF Unbind
<1>2. carried = [b \in Owners |-> carried[b]] /\ b0 \in Owners
  BY <1>1, ApplyingFits DEF CalmFits
<1>3. carried' = [b \in Owners |-> carried'[b]] /\ carried'[b0] = bundle /\ \A b \in Owners \ {b0} : carried'[b] = carried[b]
  BY <1>1, <1>2
<1> SUFFICES ASSUME ~disturbed PROVE OneAtATime' /\ ChecksStand' /\ Accounted'
  BY <1>1, <1>3 DEF CalmFits
<1>4. OneAtATime /\ Accounted
  BY DEF CalmFits
<1>5. \A q \in Callers : request'[q].at = "idle"
  BY <1>1, <1>4, BindingAlone DEF LibraryInv, RequestsFit, Ends, Idle
<1>6. OneAtATime' /\ ChecksStand'
  BY <1>5 DEF OneAtATime, ChecksStand, IsIdle
<1>7. ASSUME NEW s \in Sheets, NEW b \in Owners, BoundTo(s, b)'
      PROVE  s \in Carries(carried'[b]) \cup byHand'
  <2>1. sheets'[s] = IF s \in Missing(p) THEN [sheets[s] EXCEPT !.blueprint = Generic] ELSE sheets[s]
    BY <1>1 DEF Unbound
  <2>2. s \notin Missing(p)
    <3>1. ASSUME s \in Missing(p) PROVE FALSE
      <4>1. sheets[s] \in Records
        BY <3>1, RecordsOnFile DEF Missing, HeldBy, BoundTo, OnFile
      <4>2. sheets'[s].blueprint = Generic
        BY <2>1, <3>1, <4>1 DEF Records
      <4> QED
        BY <1>7, <4>2, LibraryAssumption DEF BoundTo
    <3> QED
      BY <3>1
  <2>3. BoundTo(s, b)
    BY <1>7, <2>1, <2>2 DEF BoundTo, OnFile
  <2>4. CASE b = b0
    <3>1. s \in Carries(bundle)
      BY <2>2, <2>3, <2>4 DEF Missing, HeldBy
    <3> QED
      BY <1>3, <2>4, <3>1
  <2>5. CASE b # b0
    <3>1. s \in Carries(carried[b]) \cup byHand
      BY <1>1, <1>4, <2>3, <2>5, BindingAlone DEF Accounted
    <3>2. s \notin HeldBy(b0)
      BY <2>3, <2>5 DEF HeldBy, BoundTo
    <3> QED
      BY <1>1, <1>3, <2>5, <3>1, <3>2
  <2> QED
    BY <2>4, <2>5
<1>8. Accounted'
  BY <1>7 DEF Accounted, Carries
<1> QED
  BY <1>6, <1>8

\* What people and the Sheets button bind is by a renumbering that somebody accepted.
LEMMA HandsBind ==
  ASSUME LibraryInv, AtTheLibrary, NEW s \in Sheets, NEW b \in Owners, BoundTo(s, b)'
  PROVE  (BoundTo(s, b) /\ (s \in byHand => s \in byHand')) \/ s \in byHand'
<1>1. PICK t \in Sheets :
        \/ \E number \in ButtonNumbers[t] : PushSheet(t, number)
        \/ \E i \in 1..MaxStash : AcceptSheet(t, i) \/ RejectSheet(t, i)
        \/ DeleteSheet(t)
  BY DEF AtTheLibrary
<1>2. sheets = [u \in Sheets |-> sheets[u]] /\ sheets[t] \in Records \cup {Nothing} /\ b # Generic
  BY RecordsOnFile, LibraryAssumption DEF LibraryInv, ShelfFits
<1>3. ASSUME NEW number \in ButtonNumbers[t], PushSheet(t, number) PROVE BoundTo(s, b) /\ byHand' = byHand
  <2>1. sheets' = [sheets EXCEPT ![t] = Shelved(sheets[t], number, Generic)] /\ byHand' = byHand
    BY <1>3 DEF PushSheet
  <2>2. sheets'[s] = IF s = t THEN Shelved(sheets[t], number, Generic) ELSE sheets[s]
    BY <1>2, <2>1
  <2> QED
    BY <1>2, <2>1, <2>2, ShelvedBinder DEF BoundTo, OnFile
<1>4. ASSUME NEW i \in 1..MaxStash, AcceptSheet(t, i) PROVE (BoundTo(s, b) /\ byHand \subseteq byHand') \/ s \in byHand'
  <2> DEFINE w == sheets[t].pending[i]
  <2>1. /\ OnFile(t)
        /\ sheets' = [sheets EXCEPT ![t] =
             [number |-> w.number, blueprint |-> IF w.blueprint = Generic THEN sheets[t].blueprint ELSE w.blueprint,
              pending |-> Without(sheets[t].pending, i)]]
        /\ byHand' = byHand \cup (IF w.blueprint = Generic THEN {} ELSE {t})
    BY <1>4 DEF AcceptSheet
  <2> HIDE DEF w
  <2>2. s # t => sheets'[s] = sheets[s]
    BY <1>2, <2>1
  <2>3. sheets'[t].blueprint = IF w.blueprint = Generic THEN sheets[t].blueprint ELSE w.blueprint
    BY <1>2, <2>1
  <2> QED
    BY <2>1, <2>2, <2>3 DEF BoundTo, OnFile
<1>5. ASSUME NEW i \in 1..MaxStash, RejectSheet(t, i) PROVE BoundTo(s, b) /\ byHand' = byHand
  <2>1. OnFile(t) /\ sheets' = [sheets EXCEPT ![t].pending = Without(@, i)] /\ byHand' = byHand
    BY <1>5 DEF RejectSheet
  <2>2. s # t => sheets'[s] = sheets[s]
    BY <1>2, <2>1
  <2>3. sheets'[t] = [sheets[t] EXCEPT !.pending = Without(@, i)] /\ sheets[t] \in Records
    BY <1>2, <2>1 DEF OnFile
  <2>4. sheets'[t].blueprint = sheets[t].blueprint
    BY <2>3 DEF Records
  <2> QED
    BY <2>1, <2>2, <2>4 DEF BoundTo, OnFile
<1>6. ASSUME DeleteSheet(t) PROVE BoundTo(s, b) /\ (s \in byHand => s \in byHand')
  <2>1. sheets' = [sheets EXCEPT ![t] = Nothing] /\ byHand' = byHand \ {t}
    BY <1>6 DEF DeleteSheet
  <2>2. s # t
    BY <1>2, <2>1 DEF BoundTo, OnFile
  <2> QED
    BY <1>2, <2>1, <2>2 DEF BoundTo, OnFile
<1> QED
  BY <1>1, <1>3, <1>4, <1>5, <1>6

LEMMA HandsCalm ==
  ASSUME LibraryInv, CalmFits, AtTheLibrary
  PROVE  CalmFits'
<1>1. UNCHANGED <<pushed, given, request>> /\ disturbed' = (disturbed \/ ~NoneUnderWay) /\ carried' = carried
  BY DEF AtTheLibrary, PushSheet, AcceptSheet, RejectSheet, DeleteSheet
<1>2. carried' = [b \in Owners |-> carried'[b]]
  BY <1>1 DEF CalmFits
<1> SUFFICES ASSUME ~disturbed' PROVE OneAtATime' /\ ChecksStand' /\ Accounted'
  BY <1>2 DEF CalmFits
<1>3. NoneUnderWay /\ Accounted
  BY <1>1 DEF CalmFits
<1>4. \A q \in Callers : request'[q].at = "idle" /\ request[q].at = "idle"
  BY <1>1, <1>3 DEF NoneUnderWay, IsIdle
<1>5. OneAtATime' /\ ChecksStand'
  BY <1>4 DEF OneAtATime, ChecksStand, IsIdle
<1>6. ASSUME NEW s \in Sheets, NEW b \in Owners, BoundTo(s, b)' PROVE s \in Carries(carried'[b]) \cup byHand'
  <2>1. (BoundTo(s, b) /\ (s \in byHand => s \in byHand')) \/ s \in byHand'
    BY <1>6, HandsBind
  <2>2. Unentered(b) = {}
    BY <1>4 DEF Unentered
  <2> QED
    BY <1>1, <1>3, <2>1, <2>2 DEF Accounted
<1>7. Accounted'
  BY <1>6 DEF Accounted, Carries
<1> QED
  BY <1>5, <1>7

\* A request that is answered, or goes on with what was made or accepted, before it binds anything.
LEMMA RequestsCalm ==
  ASSUME LibraryInv, CalmFits, NEW p \in Callers,
         \/ PushRevision(p) \/ AcceptRevision(p) \/ \E b \in Owners : CreateBlueprint(p, b)
  PROVE  CalmFits'
<1>1. UNCHANGED <<sheets, carried, byHand, disturbed>> /\ request[p].at \notin {"idle", "unbind"}
  BY DEF PushRevision, AcceptRevision, CreateBlueprint, UnchangedShelf
<1>2. request = [c \in Callers |-> request[c]] /\ request[p] \in Requests
  BY DEF LibraryInv, RequestsFit, RequestFits
<1>3. CASE PushRevision(p)
  <2>1. request'[p].at = "idle" /\ \A q \in Callers \ {p} : request'[q] = request[q]
    BY <1>2, <1>3 DEF PushRevision, Ends, Idle
  <2> QED
    BY <1>1, <2>1, QuietlyCalm
<1>4. ASSUME NEW b \in Owners, GoesOnWith(p, b) PROVE CalmFits'
  <2>1. request' = [request EXCEPT ![p] = [@ EXCEPT !.at = "check", !.id = b]]
    BY <1>4 DEF GoesOnWith
  <2>2. request'[p] = [request[p] EXCEPT !.at = "check", !.id = b] /\ \A q \in Callers \ {p} : request'[q] = request[q]
    BY <1>2, <2>1
  <2>3. request'[p].at = "check"
    BY <1>2, <2>2 DEF Requests
  <2> QED
    BY <1>1, <2>2, <2>3, QuietlyCalm
<1>5. CASE AcceptRevision(p)
  <2>1. request[p].id \in Owners
    BY <1>5 DEF LibraryInv, RequestsFit, RequestFits, AcceptRevision
  <2> QED
    BY <1>4, <1>5, <2>1 DEF AcceptRevision
<1>6. CASE \E b \in Owners : CreateBlueprint(p, b)
  BY <1>4, <1>6 DEF CreateBlueprint
<1> QED
  BY <1>3, <1>5, <1>6

LEMMA CheckCalm ==
  ASSUME LibraryInv, CalmFits, NEW p \in Callers, Check(p)
  PROVE  CalmFits'
<1>1. UNCHANGED <<sheets, carried, byHand, disturbed>> /\ request[p].at = "check"
  BY DEF Check
<1>2. request = [c \in Callers |-> request[c]] /\ request[p] \in Requests
  BY DEF LibraryInv, RequestsFit, RequestFits
<1>3. CASE Conflicts(request[p].bundle, request[p].id) = {}
  <2>1. request' = [request EXCEPT ![p].at = "bind"]
    BY <1>3 DEF Check, Goes
  <2>2. request'[p] = [request[p] EXCEPT !.at = "bind"] /\ \A q \in Callers \ {p} : request'[q] = request[q]
    BY <1>2, <2>1
  <2>3. request'[p].at = "bind" /\ request'[p].id = request[p].id /\ request'[p].bundle = request[p].bundle
    BY <1>2, <2>2 DEF Requests
  <2> QED
    BY <1>1, <1>3, <2>2, <2>3, QuietlyCalm
<1>4. CASE Conflicts(request[p].bundle, request[p].id) # {}
  <2>1. request'[p].at = "idle" /\ \A q \in Callers \ {p} : request'[q] = request[q]
    BY <1>2, <1>4 DEF Check, Ends, Idle
  <2> QED
    BY <1>1, <2>1, QuietlyCalm
<1> QED
  BY <1>3, <1>4

LEMMA GivingUpCalm ==
  ASSUME LibraryInv, CalmFits, NEW p \in Callers, GiveUp(p)
  PROVE  CalmFits'
<1>1. /\ UNCHANGED <<sheets, carried, byHand>> /\ request[p].at \in {"create", "push", "accept", "check"}
      /\ disturbed' = (disturbed \/ request[p].at = "check") /\ Ends(p)
  BY DEF GiveUp, UnchangedShelf
<1>2. CASE request[p].at = "check"
  BY <1>1, <1>2 DEF CalmFits
<1>3. CASE request[p].at # "check"
  <2>1. request'[p].at = "idle" /\ \A q \in Callers \ {p} : request'[q] = request[q]
    BY <1>1 DEF LibraryInv, RequestsFit, Ends, Idle
  <2> QED
    BY <1>1, <1>3, <2>1, QuietlyCalm
<1> QED
  BY <1>2, <1>3

LEMMA CalmSteps == LibraryInv /\ CalmFits /\ [LibraryNext]_libraryVars => CalmFits'
<1> SUFFICES ASSUME LibraryInv, CalmFits, [LibraryNext]_libraryVars PROVE CalmFits'
  OBVIOUS
<1>1. ASSUME UNCHANGED <<sheets, carried, byHand, request>>, disturbed => disturbed' PROVE CalmFits'
  BY <1>1 DEF CalmFits, OneAtATime, IsIdle, ChecksStand, Conflicts, Carries, Accounted, Unentered, BoundTo, OnFile
<1>2. CASE UNCHANGED libraryVars
  BY <1>1, <1>2 DEF libraryVars
<1>3. CASE AtTheLibrary
  BY <1>3, HandsCalm
<1>4. ASSUME NEW b \in Owners, RejectRevision(b) PROVE CalmFits'
  BY <1>1, <1>4 DEF RejectRevision, UnchangedShelf
<1>5. ASSUME NEW p \in Callers, ApplyBundle(p) PROVE CalmFits'
  <2>1. CASE BindCutShort(p) \/ UnbindCutShort(p)
    BY <2>1 DEF BindCutShort, UnbindCutShort, CalmFits
  <2> QED
    BY <1>5, <2>1, CheckCalm, BindCalm, UnbindCalm DEF ApplyBundle
<1>6. ASSUME NEW p \in Callers, NEW bundle \in Bundles,
             CreateChecked(p, bundle) \/ \E b \in Owners : PushChecked(p, b, bundle)
      PROVE  CalmFits'
  <2>1. CASE CreateChecked(p, bundle)
    BY <2>1, TakingCalm DEF CreateChecked, UnchangedShelf
  <2>2. ASSUME NEW b \in Owners, PushChecked(p, b, bundle) PROVE CalmFits'
    BY <2>2, TakingCalm DEF PushChecked, UnchangedShelf
  <2> QED
    BY <1>6, <2>1, <2>2
<1>7. ASSUME NEW p \in Callers, NEW b \in Owners, ReadWaiting(p, b) PROVE CalmFits'
  BY <1>7, TakingCalm DEF ReadWaiting, UnchangedShelf
<1> QED
  BY <1>2, <1>3, <1>4, <1>5, <1>6, <1>7, RequestsCalm, GivingUpCalm DEF LibraryNext

LEMMA LibraryIsCalm == LibrarySpec => []CalmFits
  BY CalmStarts, CalmSteps, LibraryHolds, PTL DEF LibrarySpec

\* While requests come one at a time and none is cut short, what a blueprint's last bundle no longer
\* carries is not bound to it, but for what a person bound by accepting a renumbering.
THEOREM CarriedAreBound == LibrarySpec => []BoundAreCarried
<1>1. ASSUME CalmFits PROVE BoundAreCarried
  <2>1. NoneUnderWay => \A b \in Owners : Unentered(b) = {}
    BY DEF NoneUnderWay, IsIdle, Unentered
  <2> QED
    BY <1>1, <2>1 DEF BoundAreCarried, CalmFits, Accounted
<1> QED
  BY <1>1, LibraryIsCalm, PTL

\* Binding a bundle takes no sheet from another blueprint unless the bundle says so.
LEMMA BindTakesAsAsked ==
  ASSUME LibraryInv, CalmFits, ~disturbed, NEW p \in Callers, Bind(p), ~request[p].bundle.take_over,
         NEW s \in Sheets, NEW b \in Owners, NEW c \in Owners, BoundTo(s, b), BoundTo(s, c)'
  PROVE  b = c
<1> DEFINE bundle == request[p].bundle
<1>1. /\ request[p].at = "bind" /\ Conflicts(bundle, request[p].id) = {}
      /\ BoundBy(p, Bindable(p)) /\ b # Generic
  BY LibraryAssumption DEF Bind, CalmFits, ChecksStand
<1>2. sheets'[s] = IF s \in Bindable(p) THEN Shelved(sheets[s], bundle.sheets[s], request[p].id) ELSE sheets[s]
  BY <1>1 DEF BoundBy
<1>3. CASE s \in Bindable(p)
  <2>1. s \in Carries(bundle) /\ bundle # Nothing
    BY <1>3 DEF Bindable, Carries
  <2>2. b = request[p].id
    BY <1>1, <2>1 DEF Conflicts, BoundTo
  <2>3. sheets'[s].blueprint = request[p].id \/ sheets'[s].blueprint = sheets[s].blueprint
    BY <1>2, <1>3, RecordsOnFile, ShelvedBinder
  <2> QED
    BY <2>2, <2>3 DEF BoundTo
<1>4. CASE s \notin Bindable(p)
  BY <1>2, <1>4 DEF BoundTo
<1> QED
  BY <1>3, <1>4

\* Under the same conditions no sheet goes from one blueprint to another unless the bundle being
\* applied takes over or a person accepted it: the check made at the push is made again and stands.
THEOREM TakenIfAsked == LibrarySpec => TakenOnlyIfAsked
<1> DEFINE Asked ==
      \A s \in Sheets, b, c \in Owners :
          ~disturbed' /\ b # c /\ BoundTo(s, b) /\ BoundTo(s, c)' =>
              \/ \E p \in Callers : request[p].at = "bind" /\ request[p].bundle.take_over
              \/ s \in byHand'
<1>1. LibraryInv /\ CalmFits /\ [LibraryNext]_libraryVars => [Asked]_libraryVars
  <2> SUFFICES ASSUME LibraryInv, CalmFits, LibraryNext, ~disturbed', NEW s \in Sheets, NEW b \in Owners, NEW c \in Owners,
                      b # c, BoundTo(s, b), BoundTo(s, c)'
               PROVE  \/ \E p \in Callers : request[p].at = "bind" /\ request[p].bundle.take_over
                      \/ s \in byHand'
    OBVIOUS
  <2>1. ASSUME UNCHANGED sheets PROVE FALSE
    BY <2>1 DEF BoundTo
  <2>2. CASE AtTheLibrary
    <3>1. ~BoundTo(s, c)
      BY DEF BoundTo
    <3> QED
      BY <2>2, <3>1, HandsBind
  <2>3. ASSUME NEW p \in Callers, ApplyBundle(p)
        PROVE  \E q \in Callers : request[q].at = "bind" /\ request[q].bundle.take_over
    <3>1. CASE Check(p)
      BY <2>1, <3>1 DEF Check
    <3>2. CASE BindCutShort(p) \/ UnbindCutShort(p)
      BY <3>2 DEF BindCutShort, UnbindCutShort
    <3>3. CASE Bind(p)
      <4>1. ~disturbed /\ request[p].at = "bind"
        BY <3>3 DEF Bind
      <4> QED
        BY <3>3, <4>1, BindTakesAsAsked
    <3>4. CASE Unbind(p)
      <4>1. sheets'[s] = IF s \in Missing(p) THEN [sheets[s] EXCEPT !.blueprint = Generic] ELSE sheets[s]
        BY <3>4 DEF Unbind, Unbound
      <4>2. sheets[s] \in Records /\ c # Generic
        BY RecordsOnFile, LibraryAssumption DEF BoundTo, OnFile
      <4>3. sheets'[s].blueprint \in {Generic, b}
        BY <4>1, <4>2 DEF Records, BoundTo
      <4> QED
        BY <4>2, <4>3 DEF BoundTo
    <3> QED
      BY <2>3, <3>1, <3>2, <3>3, <3>4 DEF ApplyBundle
  <2>4. ASSUME NEW p \in Callers,
               \/ GiveUp(p) \/ PushRevision(p) \/ AcceptRevision(p)
               \/ \E bundle \in Bundles : CreateChecked(p, bundle) \/ \E d \in Owners : PushChecked(p, d, bundle)
               \/ \E d \in Owners : CreateBlueprint(p, d) \/ ReadWaiting(p, d)
        PROVE  UNCHANGED sheets
    BY <2>4 DEF GiveUp, PushRevision, AcceptRevision, CreateChecked, PushChecked, CreateBlueprint, ReadWaiting,
                UnchangedShelf
  <2>5. CASE \E d \in Owners : RejectRevision(d)
    BY <2>1, <2>5 DEF RejectRevision, UnchangedShelf
  <2> QED
    BY <2>1, <2>2, <2>3, <2>4, <2>5 DEF LibraryNext
<1>2. TakenOnlyIfAsked <=> [][Asked]_libraryVars
  BY DEF TakenOnlyIfAsked, Asked
<1> QED
  BY <1>1, <1>2, LibraryHolds, LibraryIsCalm, PTL DEF LibrarySpec
=============================================================================

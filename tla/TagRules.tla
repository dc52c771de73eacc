------------------------------- MODULE TagRules -------------------------------
(***************************************************************************)
(* Tag rules (src/tag_rules.rs, src/tag_rule_binding.rs): samples of where *)
(* people put a tag, pooled into one rule per key.  A key is the type code *)
(* of the tagged item and, for an item of a room blueprint, that blueprint *)
(* and item; a rule without a blueprint is generic.                        *)
(*                                                                         *)
(* SAVE_LOCK is held over a whole call, but a call writes one file per     *)
(* rule and the server may stop between two, or one may fail: an action is *)
(* a call up to the last file it got to write.  Files are written in the   *)
(* order of a hash of their keys, so any subset of a pass over the files   *)
(* may be the part that was reached.                                       *)
(*                                                                         *)
(* A sample stands for where it was read (sheet, tag and tagged element);  *)
(* its measures, and the placement worked out from them, are left out.     *)
(***************************************************************************)
EXTENDS Absence, Naturals, FiniteSets, Lists

CONSTANTS
    Tags,           \* where samples are read
    ItemOf,         \* the item each tag is on; Nothing for a room tag
    Codes,          \* type codes, which people change in the model (for a room tag, its category)
    Drawn,          \* blueprints
    MaxSamples,     \* MAX_SAMPLES_PER_RULE, made small
    MayStop         \* bound: whether a call may stop between two of its files

ASSUME TagAssumption == MaxSamples \in Nat \ {0} /\ MayStop \in BOOLEAN

Instances == {ItemOf[t] : t \in Tags} \cup {Nothing}
GenericKeys == [code : Codes, blueprint : {Nothing}, instance : {Nothing}]
BoundKeys(b) == [code : Codes, blueprint : {b}, instance : Instances]
RuleKeys == GenericKeys \cup UNION {BoundKeys(b) : b \in Drawn}

\* Rules are files of a directory.
ASSUME RulesAreListed == IsFiniteSet(Tags) /\ IsFiniteSet(RuleKeys) /\ Nothing \notin Drawn

VARIABLES
    rules,          \* the samples of each rule, oldest first; a rule without any has no file
    exported        \* the rules of a bundle somebody exported

tagVars == <<rules, exported>>

TagInit ==
    /\ rules = [k \in RuleKeys |-> <<>>]
    /\ exported = rules

SourcesIn(k) == ToSet(rules[k])
Held(t) == \E k \in RuleKeys : t \in SourcesIn(k)

\* Mutated form of Newest: a rule grows.
NewestUnlimited(samples) == samples

Newest(samples) ==
    IF Len(samples) > MaxSamples THEN SubSeq(samples, Len(samples) - MaxSamples + 1, Len(samples)) ELSE samples
Oldest(samples) ==
    IF Len(samples) > MaxSamples THEN SubSeq(samples, 1, MaxSamples) ELSE samples

LeftIn(samples, sources) == Only(samples, ToSet(samples) \ sources)

\* Mutated form of Merged: a sheet pushed again counts again.
MergedTwice(samples, incoming) == samples \o incoming

\* Each sample takes the place of the one read from the same tag.
Merged(samples, incoming) == LeftIn(samples, ToSet(incoming)) \o incoming

\* A call writes the files of `first`, then those of `second`, and gets as far as `done`.
Reaches(done, first, second) ==
    /\ done \subseteq first \cup second
    /\ first \subseteq done \/ done \subseteq first
    /\ ~MayStop => done = first \cup second

-----------------------------------------------------------------------------

\* One push of tags, each with the key it has now.  Every rule of the push is written with its
\* new samples; then every other rule loses the samples the push carried.
Observe(order, key) ==
    LET touched == {key[t] : t \in ToSet(order)}
        others == {k \in RuleKeys \ touched : SourcesIn(k) \cap ToSet(order) # {}}
    IN  \E done \in SUBSET (touched \cup others) :
            /\ Reaches(done, touched, others)
            /\ rules' = [k \in RuleKeys |->
                  IF k \notin done THEN rules[k]
                  ELSE IF k \in touched THEN Newest(Merged(rules[k], Only(order, {t \in ToSet(order) : key[t] = k})))
                  ELSE LeftIn(rules[k], ToSet(order))]
    /\ UNCHANGED exported

GenericOf(k) == [k EXCEPT !.blueprint = Nothing, !.instance = Nothing]

\* One rule's samples after those of some others, merged one by one.
Pooled(samples, ids) == FoldLeft(LAMBDA pool, o : Oldest(Merged(pool, rules[o])), samples, ids)

\* Mutated form of Unlink: the bound rules are removed first.
UnlinkRemovingFirst(b, keep) ==
    LET orphans == {k \in BoundKeys(b) : rules[k] # <<>> /\ k \notin keep}
        changed == {GenericOf(k) : k \in orphans}
    IN  \E ids \in SetToSeqs(orphans), done \in SUBSET (changed \cup orphans) :
            /\ Reaches(done, orphans, changed)
            /\ rules' = [k \in RuleKeys |->
                  IF k \notin done THEN rules[k]
                  ELSE IF k \in orphans THEN <<>>
                  ELSE Pooled(rules[k], Only(ids, {o \in orphans : GenericOf(o) = k}))]
    /\ UNCHANGED exported

\* The rules bound to b that its accepted push did not write become generic: their samples are
\* merged, in the order of the rules' ids, and then they are removed.
Unlink(b, keep) ==
    LET orphans == {k \in BoundKeys(b) : rules[k] # <<>> /\ k \notin keep}
        changed == {GenericOf(k) : k \in orphans}
    IN  \E ids \in SetToSeqs(orphans), done \in SUBSET (changed \cup orphans) :
            /\ Reaches(done, changed, orphans)
            /\ rules' = [k \in RuleKeys |->
                  IF k \notin done THEN rules[k]
                  ELSE IF k \in orphans THEN <<>>
                  ELSE Pooled(rules[k], Only(ids, {o \in orphans : GenericOf(o) = k}))]
    /\ UNCHANGED exported

\* bound_to: the rules a bundle of b is exported with.
ExportBound(b) ==
    /\ exported' = [k \in RuleKeys |-> IF k.blueprint = b THEN rules[k] ELSE <<>>]
    /\ UNCHANGED rules

\* import_bound: they come back bound to b, each in place of a rule of the same key.
Import(b) ==
    LET Bound(k) == [k EXCEPT !.blueprint = b]
        sent == {k \in RuleKeys : exported[k] # <<>>}
    IN  \E done \in SUBSET sent :
            /\ Reaches(done, sent, {})
            /\ rules' = [k \in RuleKeys |->
                  IF \E o \in done : Bound(o) = k
                  THEN exported[CHOOSE o \in done : Bound(o) = k] ELSE rules[k]]
    /\ UNCHANGED exported

Delete(k) ==
    /\ rules[k] # <<>>
    /\ rules' = [rules EXCEPT ![k] = <<>>]
    /\ UNCHANGED exported

\* The keys a tag may have: an item of a blueprint is bound to it, any other is generic.
KeysOf(t) == GenericKeys \cup {k \in RuleKeys : k.blueprint # Nothing /\ k.instance = ItemOf[t]}

TagNext ==
    \/ \E some \in SUBSET Tags : \E order \in SetToSeqs(some), key \in [some -> RuleKeys] :
          /\ some # {}
          /\ \A t \in some : key[t] \in KeysOf(t)
          /\ Observe(order, key)
    \/ \E b \in Drawn : ExportBound(b) \/ Import(b) \/ \E keep \in SUBSET {k \in BoundKeys(b) : rules[k] # <<>>} : Unlink(b, keep)
    \/ \E k \in RuleKeys : Delete(k)

TagSpec == TagInit /\ [][TagNext]_tagVars

-----------------------------------------------------------------------------

TagTypeOK ==
    /\ DOMAIN rules = RuleKeys
    /\ \A k \in RuleKeys : SourcesIn(k) \subseteq Tags /\ Len(rules[k]) <= MaxSamples

\* A rule counts what was read from one place once, however often its sheet is pushed and
\* whatever is merged into it: the placement is a median over the samples.
CountedOnce == \A k \in RuleKeys : IsInjective(rules[k])

\* "A sheet pushed again under another key must not leave its old sample behind"
\* (tag_rule_binding.rs): where no call stops half way, a sample is in one rule.
CountedInOneRule == \A k, l \in RuleKeys : k # l => SourcesIn(k) \cap SourcesIn(l) = {}

\* A push of tags is one that carries t to rule k.
PushedTo(t, k) ==
    \E some \in SUBSET Tags : \E order \in SetToSeqs(some), key \in [some -> RuleKeys] :
        t \in some /\ key[t] = k /\ Observe(order, key)

\* What was learned from a tag is not lost, also when the server stops in the middle of a push
\* or of an unlinking: only a person's deletion, an import over the rule, or a full rule loses it,
\* and that is the rule which held it, the generic one of that, or the one it is pushed with now.
LearnedIsKept ==
    [][\A t \in Tags : Held(t) /\ ~Held(t)' =>
          \/ \E k \in RuleKeys : t \in SourcesIn(k) /\ Delete(k)
          \/ \E b \in Drawn : Import(b)
          \/ \E k \in RuleKeys :
                /\ Len(rules[k]') = MaxSamples
                /\ \/ \E o \in RuleKeys : t \in SourcesIn(o) /\ k \in {o, GenericOf(o)}
                   \/ PushedTo(t, k)]_tagVars
=============================================================================

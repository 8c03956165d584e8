------------------------------ MODULE Handoff ------------------------------
(***************************************************************************)
(* Fold records: what a branch hands to the agent that goes on, and what   *)
(* compress_handoff_for_consumer leaves of it for an agent that declares   *)
(* the slots it needs.                                                     *)
(*                                                                         *)
(* A text is the slots it contains (says) and the slots it is a part of    *)
(* (within), letter case aside.  The lists of a record are sets: filtering *)
(* keeps their order, and nothing here depends on it.                      *)
(***************************************************************************)
EXTENDS Naturals, Sequences

CONSTANTS
    Slots,    \* slots agents declare and oracles look for
    Escaped   \* slots with a character that JSON writes differently

ASSUME EscapedType == Escaped \subseteq Slots

Text == [says : SUBSET Slots, within : SUBSET Slots]

\* path of an artifact; type and hash are written with it.
Artifact == [path : Text, rest : SUBSET Slots]

Record == [subgoal : Text, artifacts : SUBSET Artifact,
           preconditions_preserved : SUBSET Text, decisions : SUBSET Text,
           open_issues : SUBSET Text]
NoRecord == [subgoal |-> [says |-> {}, within |-> {}], artifacts |-> {},
             preconditions_preserved |-> {}, decisions |-> {}, open_issues |-> {}]

\* A fold message: what its first 120 and its first 200 characters say, and
\* what all of it does.
FoldMessage == [brief : Text, opening : Text, says : SUBSET Slots]
-----------------------------------------------------------------------------
\* Mutant: the slots a text contains are not looked at.
MatchesWithin(text, slots) == text.within \cap slots # {}

\* matches_any_slot.
Matches(text, slots) == (text.says \cup text.within) \cap slots # {}

\* compress_handoff_for_consumer: no slots, no contract.
Compress(record, slots) ==
    IF slots = {} THEN record
    ELSE [record EXCEPT
            !.artifacts = {a \in @ : Matches(a.path, slots)},
            !.preconditions_preserved = {p \in @ : Matches(p, slots)},
            !.decisions = {d \in @ : Matches(d, slots)},
            !.open_issues = {o \in @ : Matches(o, slots)}]

\* Mutant: the messages are kept in place of their texts.
CollapsedWhole(folds) ==
    [NoRecord EXCEPT !.subgoal = folds[1].opening,
                     !.decisions = {folds[i] : i \in DOMAIN folds}]

\* collapse_branch_messages, when there are fold messages: one record for all.
Collapsed(folds) ==
    [NoRecord EXCEPT !.subgoal = folds[1].opening,
                     !.decisions = {folds[i].brief : i \in DOMAIN folds}]

Texts(record) == {record.subgoal} \cup {a.path : a \in record.artifacts}
                   \cup record.preconditions_preserved \cup record.decisions
                   \cup record.open_issues

\* What the texts of a record say, once they are written as JSON.
Pledged(record) == (UNION {t.says : t \in Texts(record)}) \ Escaped

\* What can be read in the block of a record.
ReadIn(record) == Pledged(record) \cup ((UNION {a.rest : a \in record.artifacts}) \ Escaped)
=============================================================================

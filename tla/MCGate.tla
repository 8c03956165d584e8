------------------------------- MODULE MCGate -------------------------------
(* Instances of Gate for TLC.                                              *)
EXTENDS Gate

CONSTANTS auth, path   \* slots

Says(slots) == [says |-> slots, within |-> {}]
Within(slots) == [says |-> {}, within |-> slots]

\* A record with a decision, an issue and two artifacts, one of which is typed
\* with the word the other's path has.
Handover == [NoRecord EXCEPT
               !.decisions = {Says({auth}), Says({})},
               !.open_issues = {Within({path})},
               !.artifacts = {[path |-> Says({path}), rest |-> {}],
                              [path |-> Says({}), rest |-> {auth}]}]
Returned == {Handover, NoRecord}

\* One message says all in front, one names a slot far behind.
Notes == {[brief |-> Says({auth}), opening |-> Says({auth}), says |-> {auth}],
          [brief |-> Says({}), opening |-> Says({path}), says |-> {auth, path}]}

\* Checked requests, one of them late in its session, one not checked and one
\* whose blocks a model summarises.
Asked == {r \in Options : r.check /\ ~r.deep /\ ~r.rewrites /\ r.required # {path}}
           \cup {[required |-> {auth}, soft |-> FALSE, check |-> c, oracles |-> <<"rule">>,
                  deep |-> c, rewrites |-> FALSE] : c \in BOOLEAN}
           \cup {[required |-> {auth}, soft |-> s, check |-> TRUE, oracles |-> <<"rule", "llm">>,
                  deep |-> FALSE, rewrites |-> TRUE] : s \in BOOLEAN}
Lists == {<<"rule">>, <<"rule", "llm">>, <<"own", "rule">>, <<>>}
Modelled == {<<"rule", "llm">>}
Plain == {r \in Options : r.check /\ ~r.deep /\ ~r.rewrites}
Views == {Satisfied, [sufficient |-> FALSE, missing |-> {auth}],
          [sufficient |-> FALSE, missing |-> {}]}
=============================================================================

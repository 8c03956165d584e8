----------------------------- MODULE MCSession -----------------------------
(* Instances of Session for TLC.                                           *)
EXTENDS Session, TLC

CONSTANTS ann, ben,      \* clients
          s, t,          \* sessions
          call_1, call_2, call_3, call_4,
          fine, plain, broken  \* tool outputs

\* Each client has its session; results may come without an id.
OwnSession == ann :> s @@ ben :> t
OwnLengths == ann :> 3 @@ ben :> 2
OwnNames == ann :> {call_1, NoName} @@ ben :> {call_1}

\* One session, ids that never meet.
SharedSession == ann :> s @@ ben :> s
SharedLengths == ann :> 2 @@ ben :> 2
DisjointNames == ann :> {call_1, call_2} @@ ben :> {call_3, call_4}

\* One session, both agents number their calls from one.
CollidingNames == ann :> {call_1, call_2} @@ ben :> {call_1, call_2}

=============================================================================

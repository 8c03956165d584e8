---------------------------- MODULE MCFileStore ----------------------------
(* Instances of FileStore for TLC.                                         *)
EXTENDS FileStore, TLC

CONSTANTS long, short,   \* keys of a payload of three and of one write call
          w1, w2, w3     \* tasks

Lengths == long :> 3 @@ short :> 1
Writers == Permutations(Tasks)
=============================================================================

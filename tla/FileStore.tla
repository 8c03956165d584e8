----------------------------- MODULE FileStore -----------------------------
(***************************************************************************)
(* The cold store on disk, FileColdStore.  A put creates the directory and *)
(* writes the file in place: the file is truncated when it is opened and   *)
(* filled by one write call after the other.  A compile puts what it puts  *)
(* again and again, always the same payload under the same key, so files   *)
(* are rewritten while references to them are out.  The write runs on a    *)
(* thread of its own: it goes on when the request that asked for it is     *)
(* dropped, and the retry of that request opens the file a second time.    *)
(*                                                                         *)
(* A key stands for one payload, so a file is the set of the chunks of     *)
(* that payload it holds; the chunks before the last one that are missing  *)
(* read as zeroes.                                                         *)
(***************************************************************************)
EXTENDS Naturals, FiniteSets

CONSTANTS Tasks,       \* threads that write files
          Keys,        \* session and key of each payload
          NoKey,       \* an idle task's key
          Chunks,      \* number of write calls each payload takes
          MaxCrashes   \* bound on the number of crashes

ASSUME ChunksType == Chunks \in [Keys -> Nat]
ASSUME MaxCrashesType == MaxCrashes \in Nat
ASSUME NoKeyType == NoKey \notin Keys

VARIABLES files,     \* keys whose file exists
          disk,      \* chunks each file holds
          writing,   \* per task: key of its put, or NoKey
          phase,     \* per task: before or after it opened the file
          done,      \* per task: chunks written
          waiting,   \* tasks whose request still waits for the answer
          handed,    \* keys whose reference a put has returned
          cut,       \* keys whose file a write that was cut short may have torn
          crashes

fileVars == <<files, disk, writing, phase, done, waiting, handed, cut, crashes>>

FileInit == /\ files = {}
            /\ disk = [k \in Keys |-> {}]
            /\ writing = [t \in Tasks |-> NoKey]
            /\ phase = [t \in Tasks |-> "idle"]
            /\ done = [t \in Tasks |-> 0]
            /\ waiting = {}
            /\ handed = {}
            /\ cut = {}
            /\ crashes = 0

\* Every variable has its type; files hold chunks of their payload only, and
\* a task counts no further than its payload.
FilesTypeOK == /\ files \subseteq Keys
               /\ disk \in [Keys -> SUBSET Nat]
               /\ \A k \in Keys : disk[k] \subseteq 1 .. Chunks[k]
               /\ writing \in [Tasks -> Keys \cup {NoKey}]
               /\ phase \in [Tasks -> {"idle", "opening", "filling"}]
               /\ \A t \in Tasks : phase[t] # "idle" => writing[t] \in Keys
               /\ done \in [Tasks -> Nat]
               /\ \A t \in Tasks : phase[t] = "filling" => done[t] <= Chunks[writing[t]]
               /\ waiting \subseteq Tasks
               /\ handed \subseteq Keys
               /\ cut \subseteq Keys
               /\ crashes \in 0 .. MaxCrashes

Filling(k) == {t \in Tasks : phase[t] = "filling" /\ writing[t] = k}
-----------------------------------------------------------------------------
\* put is called and its directory exists.
Begin(t, k) ==
    /\ phase[t] = "idle"
    /\ phase' = [phase EXCEPT ![t] = "opening"]
    /\ writing' = [writing EXCEPT ![t] = k]
    /\ waiting' = waiting \cup {t}
    /\ UNCHANGED <<files, disk, done, handed, cut, crashes>>

\* The file is created, or emptied.  A task alone with its file starts it anew.
Open(t) ==
    /\ phase[t] = "opening"
    /\ LET k == writing[t]
       IN /\ files' = files \cup {k}
          /\ disk' = [disk EXCEPT ![k] = {}]
          /\ cut' = IF Filling(k) = {} THEN cut \ {k} ELSE cut
    /\ phase' = [phase EXCEPT ![t] = "filling"]
    /\ done' = [done EXCEPT ![t] = 0]
    /\ UNCHANGED <<writing, waiting, handed, crashes>>

\* Mutant: a write call that wrote less than it was given is not repeated.
WriteChunkShort(t) ==
    /\ phase[t] = "filling"
    /\ done[t] < Chunks[writing[t]]
    /\ disk' = [disk EXCEPT ![writing[t]] = @ \cup {done[t] + 1}]
    /\ done' = [done EXCEPT ![t] = @ + 2]
    /\ UNCHANGED <<files, writing, phase, waiting, handed, cut, crashes>>

\* One write call, at the task's own offset in the file.
WriteChunk(t) ==
    /\ phase[t] = "filling"
    /\ done[t] < Chunks[writing[t]]
    /\ disk' = [disk EXCEPT ![writing[t]] = @ \cup {done[t] + 1}]
    /\ done' = [done EXCEPT ![t] = @ + 1]
    /\ UNCHANGED <<files, writing, phase, waiting, handed, cut, crashes>>

Rest(t) == /\ phase' = [phase EXCEPT ![t] = "idle"]
           /\ writing' = [writing EXCEPT ![t] = NoKey]
           /\ done' = [done EXCEPT ![t] = 0]
           /\ waiting' = waiting \ {t}

\* Mutant: the answer does not wait for the last write call.
FinishEarly(t) ==
    /\ phase[t] = "filling"
    /\ done[t] + 1 >= Chunks[writing[t]]
    /\ handed' = IF t \in waiting THEN handed \cup {writing[t]} ELSE handed
    /\ Rest(t)
    /\ UNCHANGED <<files, disk, cut, crashes>>

\* Everything is written: the request, if it still waits, gets the reference.
Finish(t) ==
    /\ phase[t] = "filling"
    /\ done[t] = Chunks[writing[t]]
    /\ handed' = IF t \in waiting THEN handed \cup {writing[t]} ELSE handed
    /\ Rest(t)
    /\ UNCHANGED <<files, disk, cut, crashes>>

\* The file cannot be opened, or a write call fails: put returns an error
\* and leaves the file as it is.
Fail(t) ==
    /\ \/ phase[t] = "opening"
       \/ phase[t] = "filling" /\ done[t] < Chunks[writing[t]]
    /\ cut' = IF phase[t] = "filling" THEN cut \cup {writing[t]} ELSE cut
    /\ Rest(t)
    /\ UNCHANGED <<files, disk, handed, crashes>>

\* The request is dropped while its write goes on.
Abandon(t) ==
    /\ t \in waiting
    /\ waiting' = waiting \ {t}
    /\ UNCHANGED <<files, disk, writing, phase, done, handed, cut, crashes>>

\* The process dies.  Files and the references agents hold survive it.
Crash ==
    /\ crashes < MaxCrashes
    /\ crashes' = crashes + 1
    /\ cut' = cut \cup {k \in Keys : Filling(k) # {}}
    /\ writing' = [t \in Tasks |-> NoKey]
    /\ phase' = [t \in Tasks |-> "idle"]
    /\ done' = [t \in Tasks |-> 0]
    /\ waiting' = {}
    /\ UNCHANGED <<files, disk, handed>>

FileNext == \/ \E t \in Tasks : \/ \E k \in Keys : Begin(t, k)
                                \/ Open(t)
                                \/ WriteChunk(t)
                                \/ Finish(t)
                                \/ Fail(t)
                                \/ Abandon(t)
            \/ Crash

FileSpec == FileInit /\ [][FileNext]_fileVars
-----------------------------------------------------------------------------
\* What a get reads.
Whole(k) == k \in files /\ disk[k] = 1 .. Chunks[k]

\* A file nobody is writing and no interrupted write has torn holds all of
\* its payload, however many puts of it overlapped, were dropped and retried,
\* or rewrote it after a crash (FileColdStore::put writes in place).
QuietWhole == \A k \in handed : Filling(k) = {} /\ k \notin cut => Whole(k)

\* A reference that a put returned can be read at any later time
\* (store.rs: "Stable reference into cold storage").
AlwaysReadable == \A k \in handed : Whole(k)

\* The invariant behind QuietWhole: a chunk an untorn file lacks is one that
\* some task has still to write.
Pending == \A k \in files \ cut : \A i \in 1 .. Chunks[k] :
              i \in disk[k] \/ \E t \in Filling(k) : done[t] < i
HandedExist == /\ handed \subseteq files
               /\ \A t \in Tasks : phase[t] = "filling" => writing[t] \in files
=============================================================================

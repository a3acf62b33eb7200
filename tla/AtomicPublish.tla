---------------------------- MODULE AtomicPublish ----------------------------
(***************************************************************************)
(* How every artifact reaches its place (artifacts/storage.py), and the    *)
(* technical retry around it (experiments/technical_retry.py).             *)
(*                                                                         *)
(* A payload is written to a partial file in the one staging directory of  *)
(* the repository and then moved over its destination.  The partial file   *)
(* is named after the destination's file name, without its directory, and  *)
(* the payload's digest.  Writers of the same file name and payload thus   *)
(* share it, and nothing locks it.  Files are inodes: opening a partial    *)
(* file that exists truncates the inode another writer may be filling, and *)
(* a move takes whatever inode the name stands for at that moment.         *)
(***************************************************************************)
EXTENDS Naturals, FiniteSets

CONSTANTS
    Writers,        \* processes that publish artifacts
    Destinations,   \* destination paths
    FileNames,      \* the last components of the destination paths
    FileName,       \* the last component of each destination path
    Contents,       \* payloads
    Inodes,         \* bound: the files of the staging directory and destinations
    Absent,         \* no file
    Retries,        \* runtime.automatic_technical_retries_after_initial_failure
    MaxCommands,    \* bound: publications that are started
    MaxFaults       \* bound: writers that are killed and I/O errors

ASSUME ConstantsAssumption ==
    /\ FileName \in [Destinations -> FileNames]
    /\ Absent \notin Inodes
    /\ Absent \notin Contents
    /\ Retries \in Nat
    /\ MaxCommands \in Nat
    /\ MaxFaults \in Nat

VARIABLES
    file,       \* the payload an inode is for and the parts of it that are written
    partial,    \* the inode of each partial file of the staging directory
    active,     \* the inode of each destination
    pc,         \* where each writer is
    job,        \* what it publishes: content, destination, whether it may reuse
    attempts,   \* the technical retries it has left
    fd,         \* the inode it has open
    commands,   \* publications started
    faults,     \* faults that have happened
    shared      \* may writers that run at the same time use the same partial file

vars == <<file, partial, active, pc, job, attempts, fd, commands, faults, shared>>

-----------------------------------------------------------------------------
\* A payload takes more than one write call: two parts stand for all of them.
Parts == {1, 2}

\* staging_directory / f"{destination.name}.{digest}.partial"
PartialFiles == FileNames \X Contents

PartialFile(j) == <<FileName[j.to], j.content>>

Jobs == [to: Destinations, content: Contents, reuse: BOOLEAN]

Whole(i) == file[i].parts = Parts

\* What a reader finds at destination d: nothing, a payload, or, torn, part of one.
Torn(d) == active[d] # Absent /\ ~Whole(active[d])

Value(d) == IF active[d] = Absent THEN Absent ELSE file[active[d]].content

Writing == {"first part", "second part", "replace"}
Running == {"check", "open"} \cup Writing

Active(w) == pc[w] \in Running

UsedInodes ==
    {partial[f] : f \in PartialFiles} \cup {active[d] : d \in Destinations}
        \cup {fd[w] : w \in Writers}

Init ==
    /\ file = [i \in Inodes |-> [content |-> Absent, parts |-> {}]]
    /\ partial = [f \in PartialFiles |-> Absent]
    /\ active = [d \in Destinations |-> Absent]
    /\ pc = [w \in Writers |-> "idle"]
    /\ job = [w \in Writers |-> Absent]
    /\ attempts = [w \in Writers |-> 0]
    /\ fd = [w \in Writers |-> Absent]
    /\ commands = 0
    /\ faults = 0
    /\ shared \in BOOLEAN

-----------------------------------------------------------------------------
\* A command sets out to publish job j.  Some callers first look for a reusable
\* artifact, others write in any case.
Start(w, j) ==
    /\ commands < MaxCommands
    /\ ~Active(w)
    /\ \/ shared
       \/ \A v \in Writers : Active(v) => PartialFile(job[v]) # PartialFile(j)
    /\ commands' = commands + 1
    /\ pc' = [pc EXCEPT ![w] = "check"]
    /\ job' = [job EXCEPT ![w] = j]
    /\ attempts' = [attempts EXCEPT ![w] = Retries]
    /\ UNCHANGED <<file, partial, active, fd, faults, shared>>

\* Writer w is through: it leaves its files as they are.
End(w, outcome) ==
    /\ pc' = [pc EXCEPT ![w] = outcome]
    /\ job' = [job EXCEPT ![w] = Absent]
    /\ attempts' = [attempts EXCEPT ![w] = 0]
    /\ fd' = [fd EXCEPT ![w] = Absent]

\* Mutant: any payload at the destination is taken for the requested one.
CheckForAnyPayload(w) ==
    /\ pc[w] = "check"
    /\ \/ job[w].reuse /\ active[job[w].to] # Absent /\ End(w, "done")
       \/ /\ ~(job[w].reuse /\ active[job[w].to] # Absent)
          /\ pc' = [pc EXCEPT ![w] = "open"]
          /\ UNCHANGED <<job, attempts, fd>>
    /\ UNCHANGED <<file, partial, active, commands, faults, shared>>

\* A payload that does not parse is not reusable.
Check(w) ==
    LET reusable == /\ job[w].reuse
                    /\ ~Torn(job[w].to)
                    /\ Value(job[w].to) = job[w].content
    IN  /\ pc[w] = "check"
        /\ \/ reusable /\ End(w, "done")
           \/ /\ ~reusable
              /\ pc' = [pc EXCEPT ![w] = "open"]
              /\ UNCHANGED <<job, attempts, fd>>
        /\ UNCHANGED <<file, partial, active, commands, faults, shared>>

\* A file nobody can reach, for a new inode.
NewInode == CHOOSE i \in Inodes : i \notin UsedInodes

\* Mutant: a partial file that is already there is taken for a finished one.
OpenTrustingPartial(w) ==
    LET f == PartialFile(job[w])
        i == IF partial[f] = Absent THEN NewInode ELSE partial[f]
    IN  /\ pc[w] = "open"
        /\ partial[f] = Absent => UsedInodes \cap Inodes # Inodes
        /\ partial' = [partial EXCEPT ![f] = i]
        /\ file' = IF partial[f] # Absent THEN file
                   ELSE [file EXCEPT ![i] = [content |-> job[w].content, parts |-> {}]]
        /\ fd' = [fd EXCEPT ![w] = i]
        /\ pc' = [pc EXCEPT ![w] = IF partial[f] = Absent THEN "first part" ELSE "replace"]
        /\ UNCHANGED <<active, job, attempts, commands, faults, shared>>

\* Path.write_bytes opens the partial file for writing, which empties it.
Open(w) ==
    LET f == PartialFile(job[w])
        i == IF partial[f] = Absent THEN NewInode ELSE partial[f]
    IN  /\ pc[w] = "open"
        /\ partial[f] = Absent => UsedInodes \cap Inodes # Inodes
        /\ partial' = [partial EXCEPT ![f] = i]
        /\ file' = [file EXCEPT ![i] = [content |-> job[w].content, parts |-> {}]]
        /\ fd' = [fd EXCEPT ![w] = i]
        /\ pc' = [pc EXCEPT ![w] = "first part"]
        /\ UNCHANGED <<active, job, attempts, commands, faults, shared>>

\* The next part of the payload reaches the file the writer has open.
Write(w) ==
    LET n == IF pc[w] = "first part" THEN 1 ELSE 2
    IN  /\ pc[w] \in {"first part", "second part"}
        /\ file' = [file EXCEPT ![fd[w]] =
                      [content |-> file[fd[w]].content, parts |-> file[fd[w]].parts \cup {n}]]
        /\ pc' = [pc EXCEPT ![w] = IF n = 1 THEN "second part" ELSE "replace"]
        /\ UNCHANGED <<partial, active, job, attempts, fd, commands, faults, shared>>

\* Mutant: the retry loop has no last attempt.
RetryForEver(w) ==
    /\ attempts' = [attempts EXCEPT ![w] = attempts[w] - 1]
    /\ pc' = [pc EXCEPT ![w] = "check"]
    /\ fd' = [fd EXCEPT ![w] = Absent]
    /\ UNCHANGED job

\* Mutant: range(retries) instead of range(retries + 1).
RetryOneLess(w) ==
    \/ /\ attempts[w] <= 1
       /\ End(w, "failed")
    \/ /\ attempts[w] > 1
       /\ attempts' = [attempts EXCEPT ![w] = attempts[w] - 1]
       /\ pc' = [pc EXCEPT ![w] = "check"]
       /\ fd' = [fd EXCEPT ![w] = Absent]
       /\ UNCHANGED job

\* Mutant: only the move is tried again, until it succeeds.
RetryTheMove(w) ==
    /\ pc' = [pc EXCEPT ![w] = "replace"]
    /\ UNCHANGED <<attempts, fd, job>>

\* with_technical_retry runs the whole operation again after an OSError.
Retry(w) ==
    \/ /\ attempts[w] = 0
       /\ End(w, "failed")
    \/ /\ attempts[w] > 0
       /\ attempts' = [attempts EXCEPT ![w] = attempts[w] - 1]
       /\ pc' = [pc EXCEPT ![w] = "check"]
       /\ fd' = [fd EXCEPT ![w] = Absent]
       /\ UNCHANGED job

\* Path.replace moves the file the name stands for now, or finds none.
Replace(w) ==
    LET f == PartialFile(job[w])
    IN  /\ pc[w] = "replace"
        /\ \/ /\ partial[f] # Absent
              /\ active' = [active EXCEPT ![job[w].to] = partial[f]]
              /\ partial' = [partial EXCEPT ![f] = Absent]
              /\ End(w, "done")
           \/ /\ partial[f] = Absent
              /\ Retry(w)
              /\ UNCHANGED <<partial, active>>
        /\ UNCHANGED <<file, commands, faults, shared>>

-----------------------------------------------------------------------------
\* Writers that share their partial files are looked at without faults.
Fault ==
    /\ ~shared
    /\ faults < MaxFaults
    /\ faults' = faults + 1

\* The process is killed.
Kill(w) ==
    /\ Fault
    /\ Active(w)
    /\ End(w, "failed")
    /\ UNCHANGED <<file, partial, active, commands, shared>>

\* A write or a move fails with an I/O error.
IOError(w) ==
    /\ Fault
    /\ pc[w] \in Writing
    /\ Retry(w)
    /\ UNCHANGED <<file, partial, active, commands, shared>>

Step(w) == Check(w) \/ Open(w) \/ Write(w) \/ Replace(w)

Next ==
    \E w \in Writers :
        \/ \E j \in Jobs : Start(w, j)
        \/ Step(w)
        \/ Kill(w)
        \/ IOError(w)

Spec == Init /\ [][Next]_vars

\* A writer that is not killed keeps running.
FairSpec == Spec /\ \A w \in Writers : WF_vars(Step(w))

-----------------------------------------------------------------------------
TypeOK ==
    /\ file \in [Inodes -> [content: Contents \cup {Absent}, parts: SUBSET Parts]]
    /\ partial \in [PartialFiles -> Inodes \cup {Absent}]
    /\ active \in [Destinations -> Inodes \cup {Absent}]
    /\ pc \in [Writers -> {"idle", "done", "failed"} \cup Running]
    /\ job \in [Writers -> Jobs \cup {Absent}]
    /\ attempts \in [Writers -> 0 .. Retries]
    /\ fd \in [Writers -> Inodes \cup {Absent}]
    /\ commands \in 0 .. MaxCommands
    /\ faults \in 0 .. MaxFaults
    /\ shared \in BOOLEAN

\* Writers of distinct partial files: nobody can see part of a payload at a destination.
DestinationsAreWhole == ~shared => \A d \in Destinations : ~Torn(d)

(***************************************************************************)
(* Why: the inductive invariant of writers of distinct partial files.      *)
(***************************************************************************)
\* The parts of the payload a writer has written.
Written(w) ==
    CASE pc[w] = "first part" -> {}
      [] pc[w] = "second part" -> {1}
      [] pc[w] = "replace" -> Parts

JobsAreGiven == \A w \in Writers : Active(w) => job[w] \in Jobs

\* No two active writers share a partial file, and no two names an inode that is partial.
OwnersAreSole ==
    /\ \A v, w \in Writers : v # w /\ Active(v) /\ Active(w) => PartialFile(job[v]) # PartialFile(job[w])
    /\ \A f, g \in PartialFiles : f # g /\ partial[f] # Absent => partial[f] # partial[g]
    /\ \A f \in PartialFiles, d \in Destinations : partial[f] # Absent => partial[f] # active[d]

\* A writer has its own partial file open, and finds there what it has written.
FilesAreOwn ==
    \A w \in Writers : pc[w] \in Writing =>
        /\ fd[w] \in Inodes /\ fd[w] = partial[PartialFile(job[w])]
        /\ file[fd[w]] = [content |-> job[w].content, parts |-> Written(w)]

PublishInvariant ==
    /\ JobsAreGiven
    /\ ~shared => OwnersAreSole /\ FilesAreOwn /\ \A d \in Destinations : ~Torn(d)

\* Without faults a writer fails only when another one has taken its partial file
\* away, and succeeds in the end: each publication of another writer can do that once.
RetriesAbsorbInterference == faults = 0 => \A w \in Writers : pc[w] # "failed"

\* Why: the publications that have ended pay for the retries of those that go on, and for
\* those that are to come because a partial file was taken away.  At most as many end
\* while a writer is at work as there are other publications.
RetriesSuffice == MaxCommands <= Retries + 1

ActiveWriters == {w \in Writers : Active(w)}

IsRobbed(w) == pc[w] \in Writing /\ partial[PartialFile(job[w])] = Absent

Robberies(w) == IF IsRobbed(w) THEN 1 ELSE 0

Spent(w) == (Retries - attempts[w]) + Robberies(w)

InterferenceIsPaid ==
    faults = 0 =>
        /\ IsFiniteSet(ActiveWriters) /\ Cardinality(ActiveWriters) <= commands
        /\ \A w \in ActiveWriters : Spent(w) + Cardinality(ActiveWriters) <= commands

\* Whatever the interleaving, and with shared partial files as well, in the end every
\* writer is through and the destinations are whole.
EventuallyPublished ==
    <>[]((\A w \in Writers : ~Active(w)) /\ \A d \in Destinations : ~Torn(d))

(***************************************************************************)
(* Writers of distinct partial files implement AtomicStore; a history in   *)
(* which they are shared maps to a store that is never used.               *)
(***************************************************************************)
StoredValue(d) ==
    IF shared \/ active[d] = Absent THEN Absent
    ELSE IF Whole(active[d]) THEN file[active[d]].content
    ELSE "torn"

Request(w) ==
    IF ~shared /\ Active(w)
    THEN [state |-> "pending", to |-> job[w].to, content |-> job[w].content]
    ELSE [state |-> IF shared \/ pc[w] = "idle" THEN "none" ELSE pc[w]]

Store == INSTANCE AtomicStore WITH
    value <- [d \in Destinations |-> StoredValue(d)],
    request <- [w \in Writers |-> Request(w)]

\* Each destination is an atomic register.
ImplementsAtomicStore == Store!Spec
=============================================================================

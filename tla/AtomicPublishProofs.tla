-------------------------- MODULE AtomicPublishProofs --------------------------
(***************************************************************************)
(* Proofs about AtomicPublish, for every number of writers, destinations   *)
(* and payloads, every number of retries and every bound: its type, that   *)
(* nobody finds part of a payload at a destination, and that writers of    *)
(* distinct partial files implement AtomicStore.                           *)
(***************************************************************************)
EXTENDS AtomicPublish, FiniteSetTheorems, TLAPS

USE DEF Running, Writing, Active

-----------------------------------------------------------------------------
(***************************************************************************)
(* Type correctness.                                                       *)
(***************************************************************************)

\* The partial file of a job is a file of the staging directory.
LEMMA PartialFileIsOne ==
    ASSUME NEW j \in Jobs
    PROVE  PartialFile(j) \in PartialFiles /\ j.to \in Destinations /\ j.content \in Contents
  BY ConstantsAssumption DEF Jobs, PartialFile, PartialFiles

\* An inode nobody can reach is an inode of the bound, and nobody can reach it.
LEMMA NewInodeIsNew ==
    ASSUME UsedInodes \cap Inodes # Inodes
    PROVE  NewInode \in Inodes /\ NewInode \notin UsedInodes
<1>1. \E i \in Inodes : i \notin UsedInodes
  OBVIOUS
<1> QED BY <1>1 DEF NewInode

\* The end of a writer and its retry leave its place, job, attempts and file typed.
LEMMA EndAndRetryAreTyped ==
    ASSUME TypeOK, NEW w \in Writers,
           (\E o \in {"done", "failed"} : End(w, o)) \/ Retry(w)
    PROVE  /\ pc' \in [Writers -> {"idle", "done", "failed"} \cup Running]
           /\ job' \in [Writers -> Jobs \cup {Absent}]
           /\ attempts' \in [Writers -> 0 .. Retries]
           /\ fd' \in [Writers -> Inodes \cup {Absent}]
<1>1. ASSUME NEW o \in {"done", "failed"}, End(w, o)
      PROVE  /\ pc' \in [Writers -> {"idle", "done", "failed"} \cup Running]
             /\ job' \in [Writers -> Jobs \cup {Absent}]
             /\ attempts' \in [Writers -> 0 .. Retries]
             /\ fd' \in [Writers -> Inodes \cup {Absent}]
  <2>1. attempts' \in [Writers -> 0 .. Retries]
    <3>1. 0 \in 0 .. Retries
      BY ConstantsAssumption
    <3> QED BY <1>1, <3>1 DEF TypeOK, End
  <2>2. pc' \in [Writers -> {"idle", "done", "failed"} \cup Running]
    <3>1. o \in {"idle", "done", "failed"} \cup Running
      OBVIOUS
    <3>2. pc \in [Writers -> {"idle", "done", "failed"} \cup Running] /\ pc' = [pc EXCEPT ![w] = o]
      BY <1>1 DEF TypeOK, End
    <3> HIDE DEF Running
    <3> QED BY <3>1, <3>2
  <2>3. job' \in [Writers -> Jobs \cup {Absent}] /\ fd' \in [Writers -> Inodes \cup {Absent}]
    BY <1>1 DEF TypeOK, End
  <2> QED BY <2>1, <2>2, <2>3
<1>2. ASSUME attempts[w] > 0, attempts' = [attempts EXCEPT ![w] = attempts[w] - 1],
             pc' = [pc EXCEPT ![w] = "check"], fd' = [fd EXCEPT ![w] = Absent], UNCHANGED job
      PROVE  /\ pc' \in [Writers -> {"idle", "done", "failed"} \cup Running]
             /\ job' \in [Writers -> Jobs \cup {Absent}]
             /\ attempts' \in [Writers -> 0 .. Retries]
             /\ fd' \in [Writers -> Inodes \cup {Absent}]
  <2>1. attempts[w] - 1 \in 0 .. Retries
    <3>1. attempts[w] \in 0 .. Retries /\ attempts[w] > 0 /\ Retries \in Nat
      BY <1>2, ConstantsAssumption DEF TypeOK
    <3> HIDE DEF Running
    <3> QED BY <3>1
  <2> QED BY <1>2, <2>1 DEF TypeOK
<1>3. CASE \E o \in {"done", "failed"} : End(w, o)
  BY <1>1, <1>3
<1>4. CASE Retry(w)
  <2>1. CASE attempts[w] = 0 /\ End(w, "failed")
    <3>1. "failed" \in {"done", "failed"}
      OBVIOUS
    <3> HIDE DEF Running
    <3> QED BY <1>1, <2>1, <3>1
  <2>2. CASE ~(attempts[w] = 0 /\ End(w, "failed"))
    <3> HIDE DEF Running
    <3> QED BY <1>2, <1>4, <2>2 DEF Retry
  <2> QED BY <2>1, <2>2
<1> HIDE DEF Running
<1> QED BY <1>3, <1>4

\* A step of a writer leads to a state of the right type.
LEMMA StepsAreTyped ==
    ASSUME TypeOK, JobsAreGiven, NEW w \in Writers, Step(w)
    PROVE  TypeOK'
<1>1. CASE Check(w)
  <2>1. CASE End(w, "done")
    BY <1>1, <2>1, EndAndRetryAreTyped DEF Check, TypeOK
  <2>2. CASE pc' = [pc EXCEPT ![w] = "open"] /\ UNCHANGED <<job, attempts, fd>>
    BY <1>1, <2>2 DEF Check, TypeOK
  <2> QED BY <1>1, <2>1, <2>2 DEF Check
<1>2. CASE Open(w)
  <2>1. job[w] \in Jobs /\ PartialFile(job[w]) \in PartialFiles /\ job[w].content \in Contents
    BY <1>2, PartialFileIsOne DEF Open, JobsAreGiven
  <2> DEFINE i == IF partial[PartialFile(job[w])] = Absent THEN NewInode
                  ELSE partial[PartialFile(job[w])]
  <2>2. i \in Inodes
    BY <1>2, <2>1, NewInodeIsNew DEF Open, TypeOK
  <2>3. [content |-> job[w].content, parts |-> {}]
            \in [content: Contents \cup {Absent}, parts: SUBSET Parts]
    BY <2>1
  <2> QED BY <1>2, <2>1, <2>2, <2>3 DEF Open, TypeOK
<1>3. CASE Write(w)
  <2>1. file' \in [Inodes -> [content: Contents \cup {Absent}, parts: SUBSET Parts]]
    <3>1. file[fd[w]] \in [content: Contents \cup {Absent}, parts: SUBSET Parts] \/ fd[w] \notin Inodes
      BY DEF TypeOK
    <3>2. \A n \in {1, 2} : fd[w] \in Inodes =>
              [content |-> file[fd[w]].content, parts |-> file[fd[w]].parts \cup {n}]
                  \in [content: Contents \cup {Absent}, parts: SUBSET Parts]
      BY <3>1 DEF Parts
    <3> QED BY <1>3, <3>2 DEF Write, TypeOK
  <2> QED BY <1>3, <2>1 DEF Write, TypeOK
<1>4. CASE Replace(w)
  <2>1. job[w] \in Jobs /\ PartialFile(job[w]) \in PartialFiles
    BY <1>4, PartialFileIsOne DEF Replace, JobsAreGiven
  <2>2. /\ pc' \in [Writers -> {"idle", "done", "failed"} \cup Running]
        /\ job' \in [Writers -> Jobs \cup {Absent}]
        /\ attempts' \in [Writers -> 0 .. Retries]
        /\ fd' \in [Writers -> Inodes \cup {Absent}]
    BY <1>4, EndAndRetryAreTyped DEF Replace
  <2>3. /\ partial' \in [PartialFiles -> Inodes \cup {Absent}]
        /\ active' \in [Destinations -> Inodes \cup {Absent}]
    BY <1>4, <2>1 DEF Replace, TypeOK
  <2> QED BY <1>4, <2>2, <2>3 DEF Replace, TypeOK
<1> QED BY <1>1, <1>2, <1>3, <1>4 DEF Step

\* So do the beginning of a publication and a fault.
LEMMA OtherStepsAreTyped ==
    ASSUME TypeOK, NEW w \in Writers,
           (\E j \in Jobs : Start(w, j)) \/ Kill(w) \/ IOError(w)
    PROVE  TypeOK'
<1> USE ConstantsAssumption
<1>1. CASE \E j \in Jobs : Start(w, j)
  <2>1. PICK j \in Jobs : Start(w, j)
    BY <1>1
  <2>2. commands < MaxCommands /\ commands' = commands + 1 /\ commands \in 0 .. MaxCommands
    BY <2>1 DEF Start, TypeOK
  <2>3. commands' \in 0 .. MaxCommands
    BY <2>2
  <2>4. attempts' \in [Writers -> 0 .. Retries]
    <3>1. attempts \in [Writers -> 0 .. Retries] /\ attempts' = [attempts EXCEPT ![w] = Retries]
      BY <2>1 DEF Start, TypeOK
    <3>2. Retries \in 0 .. Retries
      OBVIOUS
    <3> QED BY <3>1, <3>2
  <2>5. /\ pc' \in [Writers -> {"idle", "done", "failed"} \cup Running]
        /\ job' \in [Writers -> Jobs \cup {Absent}]
    BY <2>1 DEF Start, TypeOK
  <2>6. UNCHANGED <<file, partial, active, fd, faults, shared>>
    BY <2>1 DEF Start
  <2> QED BY <2>3, <2>4, <2>5, <2>6 DEF TypeOK
<1>2. CASE Kill(w) \/ IOError(w)
  <2>1. faults < MaxFaults /\ faults' = faults + 1 /\ faults \in 0 .. MaxFaults
    BY <1>2 DEF Kill, IOError, Fault, TypeOK
  <2>2. faults' \in 0 .. MaxFaults
    BY <2>1
  <2>3. /\ pc' \in [Writers -> {"idle", "done", "failed"} \cup Running]
        /\ job' \in [Writers -> Jobs \cup {Absent}]
        /\ attempts' \in [Writers -> 0 .. Retries]
        /\ fd' \in [Writers -> Inodes \cup {Absent}]
    BY <1>2, EndAndRetryAreTyped DEF Kill, IOError
  <2>4. UNCHANGED <<file, partial, active, commands, shared>>
    BY <1>2 DEF Kill, IOError
  <2> QED BY <2>2, <2>3, <2>4 DEF TypeOK
<1> QED BY <1>1, <1>2

-----------------------------------------------------------------------------
(***************************************************************************)
(* The inductive invariant: every writer has a partial file of its own,    *)
(* which holds what it has written, and nobody else names that inode.      *)
(***************************************************************************)

\* A step of one writer that touches no file and leaves the writer without one.
LEMMA StepsWithoutFiles ==
    ASSUME TypeOK, PublishInvariant, NEW w \in Writers,
           UNCHANGED <<file, partial, active, shared>>,
           \A v \in Writers \ {w} : pc'[v] = pc[v] /\ job'[v] = job[v] /\ fd'[v] = fd[v],
           pc'[w] \notin Writing,
           Active(w)' => /\ job'[w] \in Jobs
                         /\ \/ Active(w) /\ job'[w] = job[w]
                            \/ ~shared => \A v \in Writers : v # w /\ Active(v) =>
                                   PartialFile(job[v]) # PartialFile(job'[w])
    PROVE  PublishInvariant'
<1>1. JobsAreGiven'
  BY DEF PublishInvariant, JobsAreGiven
<1>2. ASSUME ~shared
      PROVE  OwnersAreSole' /\ FilesAreOwn' /\ (\A d \in Destinations : ~Torn(d))'
  <2>1. OwnersAreSole /\ FilesAreOwn /\ \A d \in Destinations : ~Torn(d)
    BY <1>2 DEF PublishInvariant
  <2>2. (\A d \in Destinations : ~Torn(d))'
    BY <2>1 DEF Torn, Whole
  <2>3. FilesAreOwn'
    BY <2>1 DEF FilesAreOwn, PartialFile, Written
  <2>4. OwnersAreSole'
    <3>1. ASSUME NEW u \in Writers, NEW v \in Writers, u # v, Active(u)', Active(v)'
          PROVE  PartialFile(job'[u]) # PartialFile(job'[v])
      <4>1. CASE u # w /\ v # w
        BY <1>2, <2>1, <3>1, <4>1 DEF OwnersAreSole
      <4>2. CASE u = w
        BY <1>2, <2>1, <3>1, <4>2 DEF OwnersAreSole
      <4>3. CASE v = w
        BY <1>2, <2>1, <3>1, <4>3 DEF OwnersAreSole
      <4> QED BY <4>1, <4>2, <4>3
    <3>2. \A u, v \in Writers : u # v /\ Active(u)' /\ Active(v)' =>
             PartialFile(job'[u]) # PartialFile(job'[v])
      BY <3>1
    <3> QED BY <2>1, <3>2 DEF OwnersAreSole, PartialFile
  <2> QED BY <2>2, <2>3, <2>4
<1> QED BY <1>1, <1>2 DEF PublishInvariant

\* The end of a writer, or its retry.
LEMMA EndsAndRetriesKeepFiles ==
    ASSUME TypeOK, PublishInvariant, NEW w \in Writers, Active(w),
           (\E o \in {"done", "failed"} : End(w, o)) \/ Retry(w),
           UNCHANGED <<file, partial, active, shared>>
    PROVE  PublishInvariant'
<1>1. \A v \in Writers \ {w} : pc'[v] = pc[v] /\ job'[v] = job[v] /\ fd'[v] = fd[v]
  BY DEF End, Retry, TypeOK
<1>2. pc'[w] \in {"done", "failed"} \/ (pc'[w] = "check" /\ job'[w] = job[w])
  BY DEF End, Retry, TypeOK
<1>3. job[w] \in Jobs
  BY DEF PublishInvariant, JobsAreGiven
<1> QED BY <1>1, <1>2, <1>3, StepsWithoutFiles

\* A publication begins.
LEMMA StartsKeepFiles ==
    ASSUME TypeOK, PublishInvariant, NEW w \in Writers, NEW j \in Jobs, Start(w, j)
    PROVE  PublishInvariant'
<1>1. /\ UNCHANGED <<file, partial, active, shared>>
      /\ \A v \in Writers \ {w} : pc'[v] = pc[v] /\ job'[v] = job[v] /\ fd'[v] = fd[v]
      /\ pc'[w] = "check" /\ job'[w] = j
  BY DEF Start, TypeOK
<1>2. ~shared => \A v \in Writers : Active(v) => PartialFile(job[v]) # PartialFile(j)
  BY DEF Start
<1> QED BY <1>1, <1>2, StepsWithoutFiles

\* A writer looks for a reusable artifact.
LEMMA ChecksKeepFiles ==
    ASSUME TypeOK, PublishInvariant, NEW w \in Writers, Check(w)
    PROVE  PublishInvariant'
<1>1. Active(w) /\ UNCHANGED <<file, partial, active, shared>>
  BY DEF Check
<1>2. CASE End(w, "done")
  BY <1>1, <1>2, EndsAndRetriesKeepFiles
<1>3. CASE pc' = [pc EXCEPT ![w] = "open"] /\ UNCHANGED <<job, attempts, fd>>
  <2>1. /\ \A v \in Writers \ {w} : pc'[v] = pc[v] /\ job'[v] = job[v] /\ fd'[v] = fd[v]
        /\ pc'[w] = "open" /\ job'[w] = job[w] /\ job[w] \in Jobs
    BY <1>1, <1>3 DEF TypeOK, PublishInvariant, JobsAreGiven
  <2> QED BY <1>1, <2>1, StepsWithoutFiles
<1> QED BY <1>2, <1>3 DEF Check

\* A writer opens its partial file, which no other writer and no destination names.
LEMMA OpensKeepFiles ==
    ASSUME TypeOK, PublishInvariant, NEW w \in Writers, Open(w)
    PROVE  PublishInvariant'
<1> DEFINE f == PartialFile(job[w])
           i == IF partial[f] = Absent THEN NewInode ELSE partial[f]
<1>1. /\ pc[w] = "open" /\ pc' = [pc EXCEPT ![w] = "first part"]
      /\ partial' = [partial EXCEPT ![f] = i] /\ fd' = [fd EXCEPT ![w] = i]
      /\ file' = [file EXCEPT ![i] = [content |-> job[w].content, parts |-> {}]]
      /\ UNCHANGED <<active, job, shared>>
  BY DEF Open
<1>2. job[w] \in Jobs /\ f \in PartialFiles
  BY <1>1, PartialFileIsOne DEF PublishInvariant, JobsAreGiven
<1>3. i \in Inodes
  BY <1>2, NewInodeIsNew DEF Open, TypeOK
<1>4. JobsAreGiven'
  BY <1>1, <1>2 DEF PublishInvariant, JobsAreGiven, TypeOK
<1>5. ASSUME ~shared
      PROVE  OwnersAreSole' /\ FilesAreOwn' /\ (\A d \in Destinations : ~Torn(d))'
  <2>1. OwnersAreSole /\ FilesAreOwn /\ \A d \in Destinations : ~Torn(d)
    BY <1>5 DEF PublishInvariant
  <2>2. /\ \A g \in PartialFiles : g # f => partial[g] # i
        /\ \A d \in Destinations : active[d] # i
    <3>1. CASE partial[f] = Absent
      BY <1>2, <3>1, NewInodeIsNew DEF Open, UsedInodes
    <3>2. CASE partial[f] # Absent
      BY <1>2, <2>1, <3>2 DEF OwnersAreSole
    <3> QED BY <3>1, <3>2
  <2>3. \A v \in Writers : v # w /\ Active(v) => PartialFile(job[v]) # f
    BY <1>1, <2>1 DEF OwnersAreSole
  <2> HIDE DEF i, f
  <2>4. \A g \in PartialFiles : partial'[g] = IF g = f THEN i ELSE partial[g]
    BY <1>1 DEF TypeOK
  <2>5. \A k \in Inodes : k # i => file'[k] = file[k]
    BY <1>1 DEF TypeOK
  <2>6. (\A d \in Destinations : ~Torn(d))'
    BY <1>1, <2>1, <2>2, <2>5 DEF Torn, Whole, TypeOK
  <2>7. OwnersAreSole'
    <3>1. \A u, v \in Writers : u # v /\ Active(u)' /\ Active(v)' =>
              PartialFile(job'[u]) # PartialFile(job'[v])
      BY <1>1, <2>1 DEF OwnersAreSole, TypeOK
    <3>2. \A g, h \in PartialFiles : g # h /\ partial'[g] # Absent => partial'[g] # partial'[h]
      BY <2>1, <2>2, <2>4 DEF OwnersAreSole
    <3>3. \A g \in PartialFiles, d \in Destinations : partial'[g] # Absent => partial'[g] # active'[d]
      <4>1. ASSUME NEW g \in PartialFiles, NEW d \in Destinations, partial'[g] # Absent
            PROVE  partial'[g] # active[d]
        <5>1. CASE g = f
          BY <2>2, <2>4, <5>1
        <5>2. CASE g # f
          BY <2>1, <2>4, <4>1, <5>2 DEF OwnersAreSole
        <5> QED BY <5>1, <5>2
      <4> QED BY <1>1, <4>1
    <3> QED BY <3>1, <3>2, <3>3 DEF OwnersAreSole, PartialFile
  <2>8. FilesAreOwn'
    <3>1. ASSUME NEW v \in Writers, pc'[v] \in Writing
          PROVE  /\ fd'[v] \in Inodes /\ fd'[v] = partial'[PartialFile(job'[v])]
                 /\ file'[fd'[v]] = [content |-> job'[v].content, parts |-> Written(v)']
      <4>1. CASE v = w
        <5>1. fd'[w] = i /\ pc'[w] = "first part" /\ job'[w] = job[w]
          BY <1>1 DEF TypeOK
        <5>2. file'[i] = [content |-> job[w].content, parts |-> {}]
          BY <1>1, <1>3 DEF TypeOK
        <5>3. Written(w)' = {}
          BY <5>1 DEF Written
        <5>4. partial'[PartialFile(job[w])] = i
          BY <1>2, <2>4 DEF f
        <5> QED BY <1>3, <4>1, <5>1, <5>2, <5>3, <5>4
      <4>2. CASE v # w
        <5>1. pc'[v] = pc[v] /\ fd'[v] = fd[v] /\ job'[v] = job[v]
          BY <1>1, <4>2 DEF TypeOK
        <5>2. /\ fd[v] \in Inodes /\ fd[v] = partial[PartialFile(job[v])]
              /\ file[fd[v]] = [content |-> job[v].content, parts |-> Written(v)]
          BY <2>1, <3>1, <5>1 DEF FilesAreOwn
        <5>3. job[v] \in Jobs
          BY <3>1, <5>1 DEF PublishInvariant, JobsAreGiven
        <5>4. PartialFile(job[v]) \in PartialFiles /\ PartialFile(job[v]) # f
          BY <2>3, <3>1, <4>2, <5>1, <5>3, PartialFileIsOne
        <5>5. fd[v] # i /\ partial'[PartialFile(job[v])] = fd[v]
          BY <2>2, <2>4, <5>2, <5>4
        <5>6. Written(v)' = Written(v)
          BY <5>1 DEF Written
        <5> QED BY <2>5, <5>1, <5>2, <5>5, <5>6
      <4> QED BY <4>1, <4>2
    <3> QED BY <3>1 DEF FilesAreOwn, PartialFile
  <2> QED BY <2>6, <2>7, <2>8
<1> QED BY <1>1, <1>4, <1>5 DEF PublishInvariant

\* A part reaches the partial file of the writer, and no other file.
LEMMA WritesKeepFiles ==
    ASSUME TypeOK, PublishInvariant, NEW w \in Writers, Write(w)
    PROVE  PublishInvariant'
<1> DEFINE n == IF pc[w] = "first part" THEN 1 ELSE 2
<1>1. /\ pc[w] \in {"first part", "second part"}
      /\ pc' = [pc EXCEPT ![w] = IF n = 1 THEN "second part" ELSE "replace"]
      /\ file' = [file EXCEPT ![fd[w]] =
                     [content |-> file[fd[w]].content, parts |-> file[fd[w]].parts \cup {n}]]
      /\ UNCHANGED <<partial, active, job, fd, shared>>
  BY DEF Write
<1>2. job[w] \in Jobs /\ PartialFile(job[w]) \in PartialFiles
  BY <1>1, PartialFileIsOne DEF PublishInvariant, JobsAreGiven
<1>3. \A v \in Writers : v # w => pc'[v] = pc[v]
  BY <1>1 DEF TypeOK
<1>4. JobsAreGiven'
  BY <1>1, <1>2, <1>3 DEF PublishInvariant, JobsAreGiven, TypeOK
<1>5. ASSUME ~shared
      PROVE  OwnersAreSole' /\ FilesAreOwn' /\ (\A d \in Destinations : ~Torn(d))'
  <2>1. OwnersAreSole /\ FilesAreOwn /\ \A d \in Destinations : ~Torn(d)
    BY <1>5 DEF PublishInvariant
  <2>2. /\ fd[w] \in Inodes /\ fd[w] = partial[PartialFile(job[w])]
        /\ file[fd[w]] = [content |-> job[w].content, parts |-> Written(w)]
    BY <1>1, <2>1 DEF FilesAreOwn
  <2>3. \A k \in Inodes : k # fd[w] => file'[k] = file[k]
    BY <1>1 DEF TypeOK
  <2>4. fd[w] # Absent
    BY <2>2, ConstantsAssumption
  <2>5. (\A d \in Destinations : ~Torn(d))'
    <3>1. \A d \in Destinations : active[d] # fd[w]
      BY <1>2, <2>1, <2>2, <2>4 DEF OwnersAreSole
    <3> QED BY <1>1, <2>1, <2>3, <3>1 DEF Torn, Whole, TypeOK
  <2>6. OwnersAreSole'
    <3>1. \A u, v \in Writers : u # v /\ Active(u)' /\ Active(v)' =>
              PartialFile(job'[u]) # PartialFile(job'[v])
      <4>1. \A v \in Writers : Active(v)' => Active(v)
        BY <1>1, <1>3
      <4> HIDE DEF Active
      <4> QED BY <1>1, <2>1, <4>1 DEF OwnersAreSole
    <3> QED BY <1>1, <2>1, <3>1 DEF OwnersAreSole, PartialFile
  <2>7. FilesAreOwn'
    <3>1. ASSUME NEW v \in Writers, pc'[v] \in Writing
          PROVE  /\ fd'[v] \in Inodes /\ fd'[v] = partial'[PartialFile(job'[v])]
                 /\ file'[fd'[v]] = [content |-> job'[v].content, parts |-> Written(v)']
      <4>1. CASE v = w
        <5>1. file'[fd[w]] = [content |-> job[w].content, parts |-> Written(w) \cup {n}]
          <6>1. file'[fd[w]] = [content |-> file[fd[w]].content, parts |-> file[fd[w]].parts \cup {n}]
            BY <1>1, <2>2 DEF TypeOK
          <6>2. file[fd[w]].content = job[w].content /\ file[fd[w]].parts = Written(w)
            BY <2>2
          <6> HIDE DEF n
          <6> QED BY <6>1, <6>2
        <5>2. Written(w)' = Written(w) \cup {n}
          <6>1. pc'[w] = IF n = 1 THEN "second part" ELSE "replace"
            BY <1>1 DEF TypeOK
          <6>2. CASE pc[w] = "first part"
            BY <6>1, <6>2 DEF Written, Parts
          <6>3. CASE pc[w] = "second part"
            BY <6>1, <6>3 DEF Written, Parts
          <6> QED BY <1>1, <6>2, <6>3
        <5> QED BY <1>1, <2>2, <4>1, <5>1, <5>2
      <4>2. CASE v # w
        <5>1. pc'[v] = pc[v] /\ pc[v] \in Writing
          BY <1>3, <3>1, <4>2
        <5>2. /\ fd[v] \in Inodes /\ fd[v] = partial[PartialFile(job[v])]
              /\ file[fd[v]] = [content |-> job[v].content, parts |-> Written(v)]
          BY <2>1, <5>1 DEF FilesAreOwn
        <5>3. PartialFile(job[v]) \in PartialFiles
          BY <5>1, PartialFileIsOne DEF PublishInvariant, JobsAreGiven
        <5>4. fd[v] # fd[w]
          BY <1>1, <1>2, <2>1, <2>2, <2>4, <4>2, <5>1, <5>2, <5>3 DEF OwnersAreSole
        <5>5. Written(v)' = Written(v)
          BY <5>1 DEF Written
        <5> QED BY <1>1, <2>3, <5>2, <5>4, <5>5
      <4> QED BY <4>1, <4>2
    <3> QED BY <3>1 DEF FilesAreOwn, PartialFile
  <2> QED BY <2>5, <2>6, <2>7
<1> QED BY <1>1, <1>4, <1>5 DEF PublishInvariant

\* A whole partial file becomes the destination, and is nobody's partial file any more.
LEMMA ReplacesKeepFiles ==
    ASSUME TypeOK, PublishInvariant, NEW w \in Writers, Replace(w)
    PROVE  PublishInvariant'
<1> DEFINE f == PartialFile(job[w])
<1>1. pc[w] = "replace" /\ UNCHANGED <<file, shared>>
  BY DEF Replace
<1>2. job[w] \in Jobs /\ f \in PartialFiles /\ job[w].to \in Destinations
  BY <1>1, PartialFileIsOne DEF PublishInvariant, JobsAreGiven
<1>3. CASE Retry(w) /\ UNCHANGED <<partial, active>>
  BY <1>1, <1>3, EndsAndRetriesKeepFiles
<1>4. ASSUME active' = [active EXCEPT ![job[w].to] = partial[f]],
             partial' = [partial EXCEPT ![f] = Absent], End(w, "done")
      PROVE  PublishInvariant'
  <2>1. /\ pc'[w] = "done"
        /\ \A v \in Writers : v # w => pc'[v] = pc[v] /\ job'[v] = job[v] /\ fd'[v] = fd[v]
    BY <1>4 DEF End, TypeOK
  <2>2. JobsAreGiven'
    BY <2>1 DEF PublishInvariant, JobsAreGiven
  <2>3. ASSUME ~shared
        PROVE  OwnersAreSole' /\ FilesAreOwn' /\ (\A d \in Destinations : ~Torn(d))'
    <3>1. OwnersAreSole /\ FilesAreOwn /\ \A d \in Destinations : ~Torn(d)
      BY <2>3 DEF PublishInvariant
    <3>2. /\ fd[w] \in Inodes /\ fd[w] = partial[f]
          /\ file[fd[w]] = [content |-> job[w].content, parts |-> Parts]
      BY <1>1, <3>1 DEF FilesAreOwn, Written
    <3>3. partial[f] # Absent
      BY <3>2, ConstantsAssumption
    <3> HIDE DEF f
    <3>4. /\ \A g \in PartialFiles : partial'[g] = IF g = f THEN Absent ELSE partial[g]
          /\ \A d \in Destinations : active'[d] = IF d = job[w].to THEN partial[f] ELSE active[d]
      BY <1>2, <1>4 DEF TypeOK
    <3>5. (\A d \in Destinations : ~Torn(d))'
      BY <1>1, <3>1, <3>2, <3>4 DEF Torn, Whole
    <3>6. \A v \in Writers : v # w /\ Active(v) => PartialFile(job[v]) # f
      BY <1>1, <3>1 DEF OwnersAreSole, f
    <3>7. OwnersAreSole'
      <4>1. \A u, v \in Writers : u # v /\ Active(u)' /\ Active(v)' =>
                PartialFile(job'[u]) # PartialFile(job'[v])
        BY <2>1, <3>1 DEF OwnersAreSole
      <4>2. \A g, h \in PartialFiles : g # h /\ partial'[g] # Absent => partial'[g] # partial'[h]
        BY <3>1, <3>4 DEF OwnersAreSole
      <4>3. \A g \in PartialFiles, d \in Destinations : partial'[g] # Absent => partial'[g] # active'[d]
        <5>1. ASSUME NEW g \in PartialFiles, NEW d \in Destinations, partial'[g] # Absent
              PROVE  partial'[g] # active'[d]
          <6>1. g # f /\ partial'[g] = partial[g] /\ partial[g] # Absent
            BY <3>4, <5>1
          <6>2. CASE d = job[w].to
            <7>1. partial[g] # partial[f]
              BY <1>2, <3>1, <6>1 DEF OwnersAreSole
            <7>2. active'[d] = partial[f]
              BY <3>4, <6>2
            <7> QED BY <6>1, <7>1, <7>2
          <6>3. CASE d # job[w].to
            BY <3>1, <3>4, <6>1, <6>3 DEF OwnersAreSole
          <6> QED BY <6>2, <6>3
        <5> QED BY <5>1
      <4> QED BY <4>1, <4>2, <4>3 DEF OwnersAreSole, PartialFile
    <3>8. FilesAreOwn'
      <4>1. ASSUME NEW v \in Writers, pc'[v] \in Writing
            PROVE  /\ fd'[v] \in Inodes /\ fd'[v] = partial'[PartialFile(job'[v])]
                   /\ file'[fd'[v]] = [content |-> job'[v].content, parts |-> Written(v)']
        <5>1. v # w /\ pc'[v] = pc[v] /\ job'[v] = job[v] /\ fd'[v] = fd[v]
          BY <2>1, <4>1
        <5>2. /\ fd[v] \in Inodes /\ fd[v] = partial[PartialFile(job[v])]
              /\ file[fd[v]] = [content |-> job[v].content, parts |-> Written(v)]
          BY <3>1, <4>1, <5>1 DEF FilesAreOwn
        <5>3. PartialFile(job[v]) \in PartialFiles /\ PartialFile(job[v]) # f
          BY <3>6, <4>1, <5>1, PartialFileIsOne DEF PublishInvariant, JobsAreGiven
        <5>4. Written(v)' = Written(v)
          BY <5>1 DEF Written
        <5> QED BY <1>1, <3>4, <5>1, <5>2, <5>3, <5>4
      <4> QED BY <4>1 DEF FilesAreOwn, PartialFile
    <3> QED BY <3>5, <3>7, <3>8
  <2> QED BY <1>1, <2>2, <2>3 DEF PublishInvariant
<1> QED BY <1>3, <1>4 DEF Replace

\* The type and the invariant hold at the beginning.
LEMMA InitEstablishes == Init => TypeOK /\ PublishInvariant
<1> SUFFICES ASSUME Init PROVE TypeOK /\ PublishInvariant
  OBVIOUS
<1>1. TypeOK
  <2>1. 0 \in 0 .. Retries /\ 0 \in 0 .. MaxCommands /\ 0 \in 0 .. MaxFaults
    BY ConstantsAssumption
  <2>2. [content |-> Absent, parts |-> {}] \in [content: Contents \cup {Absent}, parts: SUBSET Parts]
    OBVIOUS
  <2> QED BY <2>1, <2>2 DEF Init, TypeOK
<1>2. PublishInvariant
  <2>1. \A w \in Writers : pc[w] = "idle"
    BY DEF Init
  <2>2. /\ \A f \in PartialFiles : partial[f] = Absent
        /\ \A d \in Destinations : active[d] = Absent
    BY DEF Init
  <2> QED BY <2>1, <2>2 DEF PublishInvariant, JobsAreGiven, OwnersAreSole, FilesAreOwn, Torn
<1> QED BY <1>1, <1>2

\* Every step keeps both.
LEMMA NextKeeps ==
    ASSUME TypeOK, PublishInvariant, [Next]_vars
    PROVE  TypeOK' /\ PublishInvariant'
<1>1. CASE UNCHANGED vars
  <2>1. TypeOK'
    BY <1>1 DEF TypeOK, vars
  <2>2. PublishInvariant'
    BY <1>1 DEF vars, PublishInvariant, JobsAreGiven, OwnersAreSole, FilesAreOwn, Torn, Whole,
                PartialFile, Written
  <2> QED BY <2>1, <2>2
<1>2. ASSUME NEW w \in Writers,
             (\E j \in Jobs : Start(w, j)) \/ Step(w) \/ Kill(w) \/ IOError(w)
      PROVE  TypeOK' /\ PublishInvariant'
  <2>1. CASE \E j \in Jobs : Start(w, j)
    BY <2>1, OtherStepsAreTyped, StartsKeepFiles
  <2>2. CASE Step(w)
    <3>1. TypeOK'
      BY <2>2, StepsAreTyped DEF PublishInvariant
    <3>2. PublishInvariant'
      BY <2>2, ChecksKeepFiles, OpensKeepFiles, WritesKeepFiles, ReplacesKeepFiles DEF Step
    <3> QED BY <3>1, <3>2
  <2>3. CASE Kill(w)
    <3>1. Active(w) /\ End(w, "failed") /\ UNCHANGED <<file, partial, active, shared>>
      BY <2>3 DEF Kill
    <3> HIDE DEF Active
    <3> QED BY <2>3, <3>1, OtherStepsAreTyped, EndsAndRetriesKeepFiles
  <2>4. CASE IOError(w)
    <3>1. Active(w) /\ Retry(w) /\ UNCHANGED <<file, partial, active, shared>>
      BY <2>4 DEF IOError
    <3> HIDE DEF Active
    <3> QED BY <2>4, <3>1, OtherStepsAreTyped, EndsAndRetriesKeepFiles
  <2> QED BY <1>2, <2>1, <2>2, <2>3, <2>4
<1> QED BY <1>1, <1>2 DEF Next

\* PublishInvariant is an invariant, with the type: however the writers interleave,
\* are killed and retry, each has its partial file for itself when no two share one.
THEOREM PublishIsInvariant == Spec => [](TypeOK /\ PublishInvariant)
<1>1. TypeOK /\ PublishInvariant /\ [Next]_vars => TypeOK' /\ PublishInvariant'
  BY NextKeeps
<1> QED BY <1>1, InitEstablishes, PTL DEF Spec

\* Every reachable state has its type.
THEOREM TypeCorrect == Spec => []TypeOK
<1> QED BY PublishIsInvariant, PTL

\* Nobody finds part of a payload at a destination when no two writers share a partial
\* file: atomic_write moves a file into place only once its own writer has filled it.
THEOREM ReadersFindWholePayloads == Spec => []DestinationsAreWhole
<1>1. PublishInvariant => DestinationsAreWhole
  BY DEF PublishInvariant, DestinationsAreWhole
<1> QED BY <1>1, PublishIsInvariant, PTL

-----------------------------------------------------------------------------
(***************************************************************************)
(* The refinement: the destinations of writers of distinct partial files   *)
(* are atomic registers.                                                   *)
(***************************************************************************)

\* The store a state of the writers stands for.
Stored == [d \in Destinations |-> StoredValue(d)]
Requested == [w \in Writers |-> Request(w)]

\* A reader finds the payload that was put at the destination, or nothing.
LEMMA StoredIsValue ==
    ASSUME PublishInvariant, ~shared, NEW d \in Destinations
    PROVE  StoredValue(d) = Value(d)
  BY DEF PublishInvariant, StoredValue, Value, Torn

\* Only the request of the writer that steps changes.
LEMMA OneRequestChanges ==
    ASSUME NEW w \in Writers, UNCHANGED shared,
           \A v \in Writers : v # w => pc'[v] = pc[v] /\ job'[v] = job[v]
    PROVE  Requested' = [Requested EXCEPT ![w] = Request(w)']
<1>1. \A v \in Writers : v # w => Request(v)' = Request(v)
  BY DEF Request
<1>2. Requested' = [v \in Writers |-> Request(v)']
  BY DEF Requested
<1> QED BY <1>1, <1>2 DEF Requested

\* The files at the destinations stay, and what they hold.
LEMMA ValuesStay ==
    ASSUME UNCHANGED <<active, shared>>,
           \A d \in Destinations : active[d] # Absent => file'[active[d]] = file[active[d]]
    PROVE  Stored' = Stored
<1>1. \A d \in Destinations : StoredValue(d)' = StoredValue(d)
  BY DEF StoredValue, Whole
<1> QED BY <1>1 DEF Stored

\* The end of a writer that publishes nothing abandons its request.
LEMMA EndsAbandon ==
    ASSUME TypeOK, ~shared, NEW w \in Writers, Active(w), End(w, "failed"),
           UNCHANGED <<file, active, shared>>
    PROVE  Store!Abandon(w)
<1>1. Stored' = Stored
  BY ValuesStay
<1>2. pc'[w] = "failed" /\ \A v \in Writers : v # w => pc'[v] = pc[v] /\ job'[v] = job[v]
  BY DEF End, TypeOK
<1>3. Request(w)' = [state |-> "failed"]
  BY <1>2 DEF Request
<1>4. Requested' = [Requested EXCEPT ![w] = [state |-> "failed"]]
  BY <1>2, <1>3, OneRequestChanges
<1>5. Requested[w].state = "pending"
  BY DEF Request, Requested
<1> QED BY <1>1, <1>4, <1>5 DEF Store!Abandon, Store!Pending, Stored, Requested

\* A writer that goes on with the same job leaves the store alone.
LEMMA GoingOnStutters ==
    ASSUME TypeOK, NEW w \in Writers, Active(w), Active(w)', Stored' = Stored,
           UNCHANGED <<job, shared>>, \A v \in Writers : v # w => pc'[v] = pc[v]
    PROVE  UNCHANGED Store!vars
<1>1. \A v \in Writers : Request(v)' = Request(v)
  BY DEF Request
<1>2. Requested' = Requested
  BY <1>1 DEF Requested
<1> QED BY <1>2 DEF Store!vars, Stored, Requested

\* A retry abandons the request, or leaves the store alone and keeps it.
LEMMA RetriesAbandonOrStutter ==
    ASSUME TypeOK, ~shared, NEW w \in Writers, Active(w), Retry(w), UNCHANGED <<file, active, shared>>
    PROVE  Store!Abandon(w) \/ UNCHANGED Store!vars
<1>1. CASE End(w, "failed")
  BY <1>1, EndsAbandon
<1>2. CASE pc' = [pc EXCEPT ![w] = "check"] /\ UNCHANGED job
  <2>1. Active(w)' /\ \A v \in Writers : v # w => pc'[v] = pc[v]
    BY <1>2 DEF TypeOK
  <2>2. Stored' = Stored
    BY ValuesStay
  <2> HIDE DEF Active
  <2> QED BY <1>2, <2>1, <2>2, GoingOnStutters
<1> QED BY <1>1, <1>2 DEF Retry

\* A publication asks the store.
LEMMA StartsAsk ==
    ASSUME TypeOK, ~shared, NEW w \in Writers, NEW j \in Jobs, Start(w, j)
    PROVE  Store!Ask(w, j.to, j.content)
<1>1. /\ ~Active(w) /\ UNCHANGED <<file, active, shared>> /\ pc'[w] = "check" /\ job'[w] = j
      /\ \A v \in Writers : v # w => pc'[v] = pc[v] /\ job'[v] = job[v]
  BY DEF Start, TypeOK
<1>2. Stored' = Stored
  BY <1>1, ValuesStay
<1>3. Request(w)' = [state |-> "pending", to |-> j.to, content |-> j.content]
  BY <1>1 DEF Request
<1>4. Requested' = [Requested EXCEPT ![w] = [state |-> "pending", to |-> j.to, content |-> j.content]]
  BY <1>1, <1>3, OneRequestChanges
<1>5. Requested[w].state # "pending"
  BY <1>1 DEF Request, Requested, TypeOK
<1> QED BY <1>2, <1>4, <1>5 DEF Store!Ask, Store!Pending, Stored, Requested

\* A writer that is done with its payload at its destination has published it.
LEMMA DoneIsPublished ==
    ASSUME TypeOK, ~shared, NEW w \in Writers, Active(w), job[w] \in Jobs, End(w, "done"),
           UNCHANGED shared, Stored' = [Stored EXCEPT ![job[w].to] = job[w].content]
    PROVE  Store!Publish(w)
<1>1. pc'[w] = "done" /\ \A v \in Writers : v # w => pc'[v] = pc[v] /\ job'[v] = job[v]
  BY DEF End, TypeOK
<1>2. Request(w)' = [state |-> "done"]
  BY <1>1 DEF Request
<1>3. Requested' = [Requested EXCEPT ![w] = [state |-> "done"]]
  BY <1>1, <1>2, OneRequestChanges
<1>4. Requested[w] = [state |-> "pending", to |-> job[w].to, content |-> job[w].content]
  BY DEF Request, Requested
<1>5. Requested[w].state = "pending" /\ Requested[w].to = job[w].to /\ Requested[w].content = job[w].content
  <2> HIDE DEF Active
  <2>1. ASSUME NEW t, NEW c, Requested[w] = [state |-> "pending", to |-> t, content |-> c]
        PROVE  Requested[w].state = "pending" /\ Requested[w].to = t /\ Requested[w].content = c
    BY <2>1
  <2> QED BY <1>4, <2>1
<1>6. /\ Stored' = [Stored EXCEPT ![Requested[w].to] = Requested[w].content]
      /\ Requested' = [Requested EXCEPT ![w] = [state |-> "done"]]
  BY <1>3, <1>5
<1>7. /\ Requested[w].state = "pending"
      /\ Stored' = [Stored EXCEPT ![Requested[w].to] = Requested[w].content]
      /\ Requested' = [Requested EXCEPT ![w] = [state |-> "done"]]
      => Store!Publish(w)
  BY Zenon DEF Store!Publish, Store!Pending, Stored, Requested
<1> QED BY <1>5, <1>6, <1>7

\* A check finds the payload already published, or leaves the store alone.
LEMMA ChecksPublishOrStutter ==
    ASSUME TypeOK, PublishInvariant, ~shared, NEW w \in Writers, Check(w)
    PROVE  Store!Publish(w) \/ UNCHANGED Store!vars
<1>1. Active(w) /\ UNCHANGED <<file, partial, active, shared>>
  BY DEF Check
<1>2. job[w] \in Jobs /\ job[w].to \in Destinations
  BY <1>1, PartialFileIsOne DEF PublishInvariant, JobsAreGiven
<1>3. Stored' = Stored
  BY <1>1, ValuesStay
<1>4. CASE Value(job[w].to) = job[w].content /\ End(w, "done")
  <2>1. Stored[job[w].to] = job[w].content
    BY <1>2, <1>4, StoredIsValue DEF Stored
  <2>2. Stored' = [Stored EXCEPT ![job[w].to] = job[w].content]
    BY <1>3, <2>1 DEF Stored
  <2> HIDE DEF Active
  <2> QED BY <1>1, <1>2, <1>4, <2>2, DoneIsPublished
<1>5. CASE pc' = [pc EXCEPT ![w] = "open"] /\ UNCHANGED job
  <2>1. Active(w)' /\ \A v \in Writers : v # w => pc'[v] = pc[v]
    BY <1>5 DEF TypeOK
  <2> HIDE DEF Active
  <2> QED BY <1>1, <1>3, <1>5, <2>1, GoingOnStutters
<1> QED BY <1>4, <1>5 DEF Check

\* Opening and writing a partial file leave the store alone.
LEMMA FillingStutters ==
    ASSUME TypeOK, PublishInvariant, ~shared, NEW w \in Writers, Open(w) \/ Write(w)
    PROVE  UNCHANGED Store!vars
<1> DEFINE f == PartialFile(job[w])
           i == IF partial[f] = Absent THEN NewInode ELSE partial[f]
<1>1. /\ Active(w) /\ Active(w)' /\ UNCHANGED <<active, job, shared>>
      /\ \A v \in Writers : v # w => pc'[v] = pc[v]
  BY DEF Open, Write, TypeOK
<1>2. OwnersAreSole /\ FilesAreOwn
  BY DEF PublishInvariant
<1>3. f \in PartialFiles
  BY <1>1, PartialFileIsOne DEF PublishInvariant, JobsAreGiven
<1>4. \A d \in Destinations : active[d] # Absent => file'[active[d]] = file[active[d]]
  <2>1. CASE Open(w)
    <3>1. \A d \in Destinations : active[d] # i
      <4>1. CASE partial[f] = Absent
        BY <2>1, <4>1, NewInodeIsNew DEF Open, UsedInodes
      <4>2. CASE partial[f] # Absent
        BY <1>2, <1>3, <4>2 DEF OwnersAreSole
      <4> QED BY <4>1, <4>2
    <3>2. file' = [file EXCEPT ![i] = [content |-> job[w].content, parts |-> {}]]
      BY <2>1 DEF Open
    <3> HIDE DEF i
    <3> QED BY <3>1, <3>2 DEF TypeOK
  <2>2. CASE Write(w)
    <3>1. fd[w] \in Inodes /\ fd[w] = partial[f]
      BY <1>2, <2>2 DEF Write, FilesAreOwn
    <3>2. \A d \in Destinations : active[d] # fd[w]
      BY <1>2, <1>3, <3>1, ConstantsAssumption DEF OwnersAreSole
    <3>3. \A k \in Inodes : k # fd[w] => file'[k] = file[k]
      BY <2>2 DEF Write, TypeOK
    <3> QED BY <3>2, <3>3 DEF TypeOK
  <2> QED BY <2>1, <2>2
<1>5. Stored' = Stored
  BY <1>1, <1>4, ValuesStay
<1> HIDE DEF Active
<1> QED BY <1>1, <1>5, GoingOnStutters

\* A move publishes the payload; it finds the partial file, which nobody shares.
LEMMA ReplacesPublish ==
    ASSUME TypeOK, PublishInvariant, ~shared, NEW w \in Writers, Replace(w)
    PROVE  Store!Publish(w)
<1> DEFINE f == PartialFile(job[w])
<1>1. pc[w] = "replace" /\ UNCHANGED <<file, shared>>
  BY DEF Replace
<1>2. job[w] \in Jobs /\ job[w].to \in Destinations
  BY <1>1, PartialFileIsOne DEF PublishInvariant, JobsAreGiven
<1>3. /\ fd[w] \in Inodes /\ fd[w] = partial[f]
      /\ file[fd[w]] = [content |-> job[w].content, parts |-> Parts]
  BY <1>1 DEF PublishInvariant, FilesAreOwn, Written
<1>4. partial[f] # Absent
  BY <1>3, ConstantsAssumption
<1>5. active' = [active EXCEPT ![job[w].to] = partial[f]] /\ End(w, "done")
  BY <1>4 DEF Replace
<1>6. Stored' = [Stored EXCEPT ![job[w].to] = job[w].content]
  <2>1. \A d \in Destinations : active'[d] = IF d = job[w].to THEN fd[w] ELSE active[d]
    BY <1>2, <1>3, <1>5 DEF TypeOK
  <2>2. \A d \in Destinations : d # job[w].to => StoredValue(d)' = StoredValue(d)
    BY <1>1, <2>1 DEF StoredValue, Whole
  <2>3. active'[job[w].to] = fd[w] /\ fd[w] # Absent
    BY <1>2, <1>3, <1>4, <2>1
  <2>4. file'[fd[w]].parts = Parts /\ file'[fd[w]].content = job[w].content
    BY <1>1, <1>3
  <2>5. ASSUME NEW d \in Destinations, d = job[w].to
        PROVE  StoredValue(d)' = job[w].content
    <3>1. active'[d] = fd[w] /\ active'[d] # Absent /\ ~shared'
      BY <1>1, <2>3, <2>5
    <3>2. file'[active'[d]].parts = Parts /\ file'[active'[d]].content = job[w].content
      BY <2>4, <3>1
    <3> QED BY <3>1, <3>2 DEF StoredValue, Whole
  <2>6. Stored' = [d \in Destinations |-> StoredValue(d)']
    BY DEF Stored
  <2>7. \A d \in Destinations : StoredValue(d)' = IF d = job[w].to THEN job[w].content ELSE StoredValue(d)
    BY <2>2, <2>5
  <2> QED BY <1>2, <2>6, <2>7 DEF Stored
<1> QED BY <1>1, <1>2, <1>5, <1>6, DoneIsPublished

\* A step of the writers is a step of the store, or none.
LEMMA StepsAreStoreSteps ==
    ASSUME TypeOK, PublishInvariant, [Next]_vars
    PROVE  [Store!Next]_(Store!vars)
<1>1. CASE UNCHANGED vars
  BY <1>1 DEF vars, Store!vars, StoredValue, Request, Whole
<1>2. ASSUME Next
      PROVE  [Store!Next]_(Store!vars)
  <2>1. UNCHANGED shared
    BY <1>2 DEF Next, Start, Step, Check, Open, Write, Replace, Kill, IOError
  <2>2. CASE shared
    BY <2>1, <2>2 DEF Store!vars, StoredValue, Request
  <2>3. ASSUME ~shared, NEW w \in Writers,
               (\E j \in Jobs : Start(w, j)) \/ Step(w) \/ Kill(w) \/ IOError(w)
        PROVE  Store!Next \/ UNCHANGED Store!vars
    <3>1. CASE \E j \in Jobs : Start(w, j)
      <4>1. PICK j \in Jobs : Start(w, j)
        BY <3>1
      <4>2. j.to \in Destinations /\ j.content \in Contents
        BY PartialFileIsOne
      <4>3. Store!Ask(w, j.to, j.content)
        BY <2>3, <4>1, StartsAsk
      <4> QED BY <4>2, <4>3 DEF Store!Next
    <3>2. CASE Step(w)
      <4>1. Store!Publish(w) \/ UNCHANGED Store!vars
        BY <2>3, <3>2, ChecksPublishOrStutter, FillingStutters, ReplacesPublish DEF Step
      <4> QED BY <4>1 DEF Store!Next
    <3>3. CASE Kill(w)
      <4>1. Active(w) /\ End(w, "failed") /\ UNCHANGED <<file, active, shared>>
        BY <3>3 DEF Kill
      <4>2. Store!Abandon(w)
        BY <2>3, <4>1, EndsAbandon
      <4> QED BY <4>2 DEF Store!Next
    <3>4. CASE IOError(w)
      <4>1. Active(w) /\ Retry(w) /\ UNCHANGED <<file, active, shared>>
        BY <3>4 DEF IOError
      <4>2. Store!Abandon(w) \/ UNCHANGED Store!vars
        BY <2>3, <4>1, RetriesAbandonOrStutter
      <4> QED BY <4>2 DEF Store!Next
    <3> QED BY <2>3, <3>1, <3>2, <3>3, <3>4
  <2> QED BY <1>2, <2>2, <2>3 DEF Next
<1> QED BY <1>1, <1>2

\* At the beginning nothing is stored and nothing is asked.
LEMMA InitIsStoreInit == Init => Store!Init
<1> SUFFICES ASSUME Init PROVE Store!Init
  OBVIOUS
<1>1. \A d \in Destinations : StoredValue(d) = Absent
  BY DEF Init, StoredValue
<1>2. \A w \in Writers : Request(w) = [state |-> "none"]
  BY DEF Init, Request
<1> QED BY <1>1, <1>2 DEF Store!Init

\* Each destination is an atomic register for writers of distinct partial files: a
\* payload appears there in one step, or, when its writer is killed or gives up, never.
THEOREM PublicationIsAtomic == Spec => ImplementsAtomicStore
<1>1. TypeOK /\ PublishInvariant /\ [Next]_vars => [Store!Next]_(Store!vars)
  BY StepsAreStoreSteps
<1> QED BY <1>1, InitIsStoreInit, PublishIsInvariant, PTL DEF Spec, ImplementsAtomicStore, Store!Spec

-----------------------------------------------------------------------------
(***************************************************************************)
(* Retries absorb what other writers take away.                            *)
(***************************************************************************)
\* What has been paid for, in a state without faults.
Paid == InterferenceIsPaid /\ RetriesAbsorbInterference

\* The counters are numbers within their bounds.
LEMMA CountersAreNumbers ==
    ASSUME TypeOK
    PROVE  /\ commands \in Nat /\ commands <= MaxCommands /\ MaxCommands \in Nat /\ Retries \in Nat
           /\ faults \in Nat
           /\ \A w \in Writers : attempts[w] \in Nat /\ attempts[w] <= Retries
<1>1. /\ commands \in 0 .. MaxCommands /\ faults \in 0 .. MaxFaults
      /\ attempts \in [Writers -> 0 .. Retries]
  BY DEF TypeOK
<1> QED BY <1>1, ConstantsAssumption

\* What a writer spends in a state, when it has these many attempts left.
LEMMA SpentIsANumber ==
    ASSUME NEW a \in 0 .. Retries, NEW b \in 0 .. Retries, NEW r \in {0, 1}, NEW s \in {0, 1}
    PROVE  /\ (Retries - a) + r \in Nat
           /\ a = b /\ s <= r => (Retries - b) + s <= (Retries - a) + r
           /\ a = b => (Retries - b) + s <= ((Retries - a) + r) + 1
           /\ a > 0 /\ b = a - 1 /\ r = 1 /\ s = 0 => (Retries - b) + s <= (Retries - a) + r
  BY ConstantsAssumption

\* So what a writer spends is a number, more with an attempt less or a robbery more.
LEMMA SpendingIsBounded ==
    ASSUME TypeOK, TypeOK', NEW v \in Writers
    PROVE  /\ Spent(v) \in Nat /\ Spent(v)' \in Nat
           /\ attempts'[v] = attempts[v] => Spent(v)' <= Spent(v) + 1
           /\ attempts'[v] = attempts[v] /\ (IsRobbed(v)' => IsRobbed(v)) => Spent(v)' <= Spent(v)
           /\ attempts[v] > 0 /\ attempts'[v] = attempts[v] - 1 /\ IsRobbed(v) /\ ~IsRobbed(v)' =>
                Spent(v)' <= Spent(v)
<1>1. attempts[v] \in 0 .. Retries
  BY DEF TypeOK
<1>2. attempts'[v] \in 0 .. Retries
  BY DEF TypeOK
<1>3. /\ Robberies(v) \in {0, 1} /\ (IsRobbed(v) => Robberies(v) = 1)
      /\ (~IsRobbed(v) => Robberies(v) = 0)
  BY DEF Robberies
<1>4. /\ Robberies(v)' \in {0, 1} /\ (IsRobbed(v)' => Robberies(v)' = 1)
      /\ (~IsRobbed(v)' => Robberies(v)' = 0)
  BY DEF Robberies
<1> DEFINE a == attempts[v]
           b == attempts'[v]
           r == Robberies(v)
           s == Robberies(v)'
<1>5. /\ Spent(v) = (Retries - a) + r /\ Spent(v)' = (Retries - b) + s
  BY DEF Spent
<1>6. (IsRobbed(v)' => IsRobbed(v)) => s <= r
  BY <1>3, <1>4
<1>7. /\ (Retries - a) + r \in Nat /\ (Retries - b) + s \in Nat
      /\ a = b /\ s <= r => (Retries - b) + s <= (Retries - a) + r
      /\ a = b => (Retries - b) + s <= ((Retries - a) + r) + 1
      /\ a > 0 /\ b = a - 1 /\ r = 1 /\ s = 0 => (Retries - b) + s <= (Retries - a) + r
  <2>1. a \in 0 .. Retries /\ b \in 0 .. Retries /\ r \in {0, 1} /\ s \in {0, 1}
    BY <1>1, <1>2, <1>3, <1>4
  <2> HIDE DEF a, b, r, s
  <2> QED BY <2>1, SpentIsANumber
<1> QED BY <1>3, <1>4, <1>5, <1>6, <1>7

\* What others have spent, when n are active and m then, and more may end.
LEMMA SumsStayBelow ==
    ASSUME NEW a \in Nat, NEW b \in Nat, NEW n \in Nat, NEW c \in Nat, a + n <= c
    PROVE  /\ b <= a => b + n <= c
           /\ b <= a + 1 /\ n # 0 => b + (n - 1) <= c
  OBVIOUS

\* One less of them is within the bound as well.
LEMMA OneLessStaysBelow ==
    ASSUME NEW n \in Nat, NEW m, NEW c \in Nat, n <= c, m = n - 1
    PROVE  m <= c
  OBVIOUS

\* A writer goes on, having spent no more, and takes nothing away.
LEMMA GoingOnIsPaid ==
    ASSUME TypeOK, TypeOK', Paid, faults = 0, NEW w \in Writers, Active(w), Active(w)',
           \A v \in Writers \ {w} : pc'[v] = pc[v],
           UNCHANGED commands,
           Spent(w)' <= Spent(w),
           \A v \in ActiveWriters \ {w} : Spent(v)' <= Spent(v)
    PROVE  Paid'
<1>1. ActiveWriters' = ActiveWriters /\ w \in ActiveWriters
  BY DEF ActiveWriters
<1>2. /\ IsFiniteSet(ActiveWriters) /\ Cardinality(ActiveWriters) <= commands
      /\ \A v \in ActiveWriters : Spent(v) + Cardinality(ActiveWriters) <= commands
  BY DEF Paid, InterferenceIsPaid
<1>3. Cardinality(ActiveWriters) \in Nat /\ commands \in Nat
  BY <1>2, FS_CardinalityType, CountersAreNumbers
<1>4. ASSUME NEW v \in ActiveWriters
      PROVE  Spent(v)' + Cardinality(ActiveWriters) <= commands
  <2>1. Spent(v) \in Nat /\ Spent(v)' \in Nat
    BY <1>4, SpendingIsBounded DEF ActiveWriters
  <2>2. Spent(v)' <= Spent(v) /\ Spent(v) + Cardinality(ActiveWriters) <= commands
    BY <1>2, <1>4
  <2> QED BY <1>3, <2>1, <2>2, SumsStayBelow
<1>5. InterferenceIsPaid'
  BY <1>1, <1>2, <1>4 DEF InterferenceIsPaid
<1>6. RetriesAbsorbInterference'
  BY DEF Paid, RetriesAbsorbInterference
<1> QED BY <1>5, <1>6 DEF Paid

\* A publication ends, having taken at most one partial file away from each writer.
LEMMA EndingIsPaid ==
    ASSUME TypeOK, TypeOK', Paid, faults = 0, NEW w \in Writers, Active(w), pc'[w] = "done",
           \A v \in Writers \ {w} : pc'[v] = pc[v],
           UNCHANGED commands,
           \A v \in ActiveWriters \ {w} : Spent(v)' <= Spent(v) + 1
    PROVE  Paid'
<1>1. ActiveWriters' = ActiveWriters \ {w} /\ w \in ActiveWriters
  BY DEF ActiveWriters
<1>2. /\ IsFiniteSet(ActiveWriters) /\ Cardinality(ActiveWriters) <= commands
      /\ \A v \in ActiveWriters : Spent(v) + Cardinality(ActiveWriters) <= commands
  BY DEF Paid, InterferenceIsPaid
<1>3. /\ IsFiniteSet(ActiveWriters \ {w})
      /\ Cardinality(ActiveWriters \ {w}) = Cardinality(ActiveWriters) - 1
      /\ Cardinality(ActiveWriters) \in Nat /\ Cardinality(ActiveWriters) # 0
  BY <1>1, <1>2, FS_RemoveElement, FS_CardinalityType, FS_EmptySet
<1>4. commands \in Nat
  BY CountersAreNumbers
<1>5. InterferenceIsPaid'
  <2>1. Cardinality(ActiveWriters \ {w}) <= commands
    <3> DEFINE n == Cardinality(ActiveWriters)
               m == Cardinality(ActiveWriters \ {w})
    <3>1. n \in Nat /\ n <= commands /\ m = n - 1 /\ commands \in Nat
      BY <1>2, <1>3, <1>4
    <3> HIDE DEF n, m
    <3>2. m <= commands
      BY <3>1, OneLessStaysBelow
    <3> QED BY <3>2 DEF m
  <2>2. ASSUME NEW v \in ActiveWriters \ {w}
        PROVE  Spent(v)' + Cardinality(ActiveWriters \ {w}) <= commands
    <3>1. Spent(v) \in Nat /\ Spent(v)' \in Nat
      BY <2>2, SpendingIsBounded DEF ActiveWriters
    <3>2. Spent(v)' <= Spent(v) + 1 /\ Spent(v) + Cardinality(ActiveWriters) <= commands
      BY <1>2, <2>2
    <3>3. Spent(v)' + (Cardinality(ActiveWriters) - 1) <= commands
      BY <1>3, <1>4, <3>1, <3>2, SumsStayBelow
    <3> QED BY <1>3, <3>3
  <2> QED BY <1>1, <1>3, <2>1, <2>2 DEF InterferenceIsPaid
<1>6. RetriesAbsorbInterference'
  BY DEF Paid, RetriesAbsorbInterference
<1> QED BY <1>5, <1>6 DEF Paid

\* A publication begins with nothing spent.
LEMMA StartsArePaid ==
    ASSUME TypeOK, TypeOK', Paid, faults = 0, NEW w \in Writers, NEW j \in Jobs, Start(w, j)
    PROVE  Paid'
<1>1. /\ ~Active(w) /\ commands' = commands + 1 /\ UNCHANGED <<partial, faults>>
      /\ pc'[w] = "check" /\ attempts'[w] = Retries
      /\ \A v \in Writers \ {w} : pc'[v] = pc[v] /\ job'[v] = job[v] /\ attempts'[v] = attempts[v]
  BY DEF Start, TypeOK
<1>2. ActiveWriters' = ActiveWriters \cup {w} /\ w \notin ActiveWriters
  BY <1>1 DEF ActiveWriters
<1>3. /\ IsFiniteSet(ActiveWriters) /\ Cardinality(ActiveWriters) <= commands
      /\ \A v \in ActiveWriters : Spent(v) + Cardinality(ActiveWriters) <= commands
  BY DEF Paid, InterferenceIsPaid
<1>4. /\ IsFiniteSet(ActiveWriters \cup {w})
      /\ Cardinality(ActiveWriters \cup {w}) = Cardinality(ActiveWriters) + 1
      /\ Cardinality(ActiveWriters) \in Nat /\ commands \in Nat
  BY <1>2, <1>3, FS_AddElement, FS_CardinalityType, CountersAreNumbers
<1>5. \A v \in ActiveWriters : Spent(v) \in Nat /\ Spent(v)' = Spent(v)
  <2>1. \A v \in Writers : Spent(v) \in Nat
    BY SpendingIsBounded
  <2>2. \A v \in ActiveWriters : Spent(v)' = Spent(v)
    BY <1>1, <1>2 DEF Spent, Robberies, IsRobbed, ActiveWriters
  <2> QED BY <2>1, <2>2 DEF ActiveWriters
<1>6. Spent(w)' = 0
  <2>1. ~IsRobbed(w)'
    BY <1>1 DEF IsRobbed
  <2>2. Robberies(w)' = 0
    BY <2>1 DEF Robberies
  <2>3. Spent(w)' = (Retries - attempts'[w]) + Robberies(w)'
    BY DEF Spent
  <2>4. (Retries - Retries) + 0 = 0
    BY ConstantsAssumption
  <2> QED BY <1>1, <2>2, <2>3, <2>4
<1>7. InterferenceIsPaid'
  <2>1. \A v \in ActiveWriters : Spent(v)' + (Cardinality(ActiveWriters) + 1) <= commands + 1
    BY <1>3, <1>4, <1>5
  <2>2. Spent(w)' + (Cardinality(ActiveWriters) + 1) <= commands + 1
    BY <1>3, <1>4, <1>6
  <2>3. Cardinality(ActiveWriters) + 1 <= commands + 1
    BY <1>3, <1>4
  <2> QED BY <1>1, <1>2, <1>4, <2>1, <2>2, <2>3 DEF InterferenceIsPaid
<1>8. RetriesAbsorbInterference'
  BY <1>1 DEF Paid, RetriesAbsorbInterference
<1> QED BY <1>7, <1>8 DEF Paid

\* Whoever ends or goes on, a step of one writer leaves the others where they are.
LEMMA OthersStay ==
    ASSUME TypeOK, NEW w \in Writers, Step(w)
    PROVE  /\ UNCHANGED <<commands, faults>>
           /\ \A v \in Writers \ {w} : /\ pc'[v] = pc[v] /\ job'[v] = job[v]
                                       /\ attempts'[v] = attempts[v]
<1>1. CASE Check(w)
  BY <1>1 DEF Check, End, TypeOK
<1>2. CASE Open(w)
  BY <1>2 DEF Open, TypeOK
<1>3. CASE Write(w)
  BY <1>3 DEF Write, TypeOK
<1>4. CASE Replace(w)
  BY <1>4 DEF Replace, Retry, End, TypeOK
<1> QED BY <1>1, <1>2, <1>3, <1>4 DEF Step

\* A step of a writer is paid for: it goes on and robs nobody, it ends and robs each at
\* most once, or it was robbed and retries; and it has a retry left for that.
LEMMA StepsArePaid ==
    ASSUME RetriesSuffice, TypeOK, TypeOK', PublishInvariant, Paid, faults = 0,
           NEW w \in Writers, Step(w)
    PROVE  Paid'
<1>1. /\ UNCHANGED <<commands, faults>>
      /\ \A v \in Writers \ {w} : /\ pc'[v] = pc[v] /\ job'[v] = job[v]
                                  /\ attempts'[v] = attempts[v]
  BY OthersStay
<1>2. Active(w) /\ job[w] \in Jobs
  BY DEF Step, Check, Open, Write, Replace, PublishInvariant, JobsAreGiven
<1>3. \A v \in ActiveWriters \ {w} :
        /\ (IsRobbed(v)' => IsRobbed(v)) => Spent(v)' <= Spent(v)
        /\ Spent(v)' <= Spent(v) + 1
  BY <1>1, SpendingIsBounded DEF ActiveWriters
<1>4. ASSUME UNCHANGED partial
      PROVE  \A v \in ActiveWriters \ {w} : Spent(v)' <= Spent(v)
  <2>1. \A v \in ActiveWriters \ {w} : IsRobbed(v)' => IsRobbed(v)
    BY <1>1, <1>4 DEF IsRobbed, ActiveWriters
  <2> QED BY <1>3, <2>1
<1>5. CASE Check(w)
  <2>1. CASE End(w, "done")
    <3>1. pc'[w] = "done"
      BY <2>1 DEF End, TypeOK
    <3> QED BY <1>1, <1>2, <1>3, <3>1, EndingIsPaid
  <2>2. CASE pc' = [pc EXCEPT ![w] = "open"] /\ UNCHANGED <<job, attempts, fd>>
    <3>1. UNCHANGED partial /\ pc[w] = "check" /\ pc'[w] = "open"
      BY <1>5, <2>2 DEF Check, TypeOK
    <3>2. ~IsRobbed(w) /\ ~IsRobbed(w)'
      BY <3>1 DEF IsRobbed
    <3>3. Spent(w)' <= Spent(w)
      BY <2>2, <3>2, SpendingIsBounded
    <3> QED BY <1>1, <1>2, <1>4, <3>1, <3>3, GoingOnIsPaid
  <2> QED BY <1>5, <2>1, <2>2 DEF Check
<1>6. CASE Open(w)
  <2> DEFINE f == PartialFile(job[w])
  <2>1. f \in PartialFiles
    BY <1>2, PartialFileIsOne
  <2>2. /\ pc[w] = "open" /\ pc'[w] = "first part" /\ UNCHANGED <<job, attempts>>
        /\ partial'[f] # Absent
        /\ \A g \in PartialFiles \ {f} : partial'[g] = partial[g]
    <3>1. NewInode # Absent \/ partial[f] # Absent
      BY <1>6, NewInodeIsNew, ConstantsAssumption DEF Open
    <3> QED BY <1>6, <2>1, <3>1 DEF Open, TypeOK
  <2>3. \A v \in ActiveWriters \ {w} : IsRobbed(v)' => IsRobbed(v)
    <3>1. \A v \in ActiveWriters \ {w} : PartialFile(job[v]) \in PartialFiles
      BY PartialFileIsOne DEF ActiveWriters, PublishInvariant, JobsAreGiven
    <3> HIDE DEF f
    <3>2. \A v \in ActiveWriters \ {w} :
            partial'[PartialFile(job[v])] = Absent => partial[PartialFile(job[v])] = Absent
      BY <2>2, <3>1
    <3> QED BY <1>1, <3>2 DEF IsRobbed, ActiveWriters
  <2>4. ~IsRobbed(w) /\ ~IsRobbed(w)'
    BY <2>2 DEF IsRobbed
  <2>5. Spent(w)' <= Spent(w)
    BY <2>2, <2>4, SpendingIsBounded
  <2> QED BY <1>1, <1>2, <1>3, <2>2, <2>3, <2>5, GoingOnIsPaid
<1>7. CASE Write(w)
  <2>1. /\ UNCHANGED <<partial, job, attempts>> /\ pc[w] \in Writing /\ pc'[w] \in Writing
    BY <1>7 DEF Write, TypeOK
  <2>2. Spent(w)' <= Spent(w)
    <3>1. IsRobbed(w)' => IsRobbed(w)
      BY <2>1 DEF IsRobbed
    <3> QED BY <2>1, <3>1, SpendingIsBounded
  <2> QED BY <1>1, <1>2, <1>4, <2>1, <2>2, GoingOnIsPaid
<1>8. CASE Replace(w)
  <2> DEFINE f == PartialFile(job[w])
  <2>1. CASE partial[f] # Absent
    <3>1. End(w, "done")
      BY <1>8, <2>1 DEF Replace
    <3>2. pc'[w] = "done"
      BY <3>1 DEF End, TypeOK
    <3> QED BY <1>1, <1>2, <1>3, <3>2, EndingIsPaid
  <2>2. CASE partial[f] = Absent
    <3>1. Retry(w) /\ UNCHANGED partial /\ pc[w] = "replace"
      BY <1>8, <2>2 DEF Replace
    <3>2. IsRobbed(w) /\ Spent(w) = (Retries - attempts[w]) + 1
      <4>1. IsRobbed(w)
        BY <2>2, <3>1 DEF IsRobbed
      <4> QED BY <4>1 DEF Spent, Robberies
    <3>3. attempts[w] > 0
      <4>1. w \in ActiveWriters
        BY <1>2 DEF ActiveWriters
      <4>2. IsFiniteSet(ActiveWriters) /\ Spent(w) + Cardinality(ActiveWriters) <= commands
        BY <4>1 DEF Paid, InterferenceIsPaid
      <4>3. Cardinality(ActiveWriters) \in Nat /\ Cardinality(ActiveWriters) # 0
        BY <4>1, <4>2, FS_CardinalityType, FS_EmptySet
      <4>4. commands \in Nat /\ commands <= MaxCommands /\ MaxCommands <= Retries + 1
            /\ MaxCommands \in Nat /\ Retries \in Nat /\ attempts[w] \in Nat
        BY CountersAreNumbers DEF RetriesSuffice
      <4> QED BY <3>2, <4>2, <4>3, <4>4
    <3>4. pc'[w] = "check" /\ attempts'[w] = attempts[w] - 1
      <4>1. attempts[w] # 0
        BY <3>3, CountersAreNumbers
      <4>2. /\ attempts' = [attempts EXCEPT ![w] = attempts[w] - 1]
            /\ pc' = [pc EXCEPT ![w] = "check"]
        BY <3>1, <4>1 DEF Retry
      <4>3. w \in DOMAIN attempts /\ w \in DOMAIN pc
        BY DEF TypeOK
      <4> QED BY <4>2, <4>3
    <3>5. Spent(w)' <= Spent(w)
      <4>1. ~IsRobbed(w)'
        BY <3>4 DEF IsRobbed
      <4> QED BY <3>2, <3>3, <3>4, <4>1, SpendingIsBounded
    <3> QED BY <1>1, <1>2, <1>4, <3>1, <3>4, <3>5, GoingOnIsPaid
  <2> QED BY <2>1, <2>2
<1> QED BY <1>5, <1>6, <1>7, <1>8 DEF Step

\* Every step without a fault is paid for.
LEMMA NextIsPaid ==
    ASSUME RetriesSuffice, TypeOK, TypeOK', PublishInvariant, Paid, [Next]_vars
    PROVE  Paid'
<1>1. CASE faults' # 0
  BY <1>1 DEF Paid, InterferenceIsPaid, RetriesAbsorbInterference
<1>2. CASE faults' = 0 /\ UNCHANGED vars
  BY <1>2 DEF vars, Paid, InterferenceIsPaid, RetriesAbsorbInterference, ActiveWriters, Spent, Robberies, IsRobbed
<1>3. CASE faults' = 0 /\ Next
  <2>1. PICK w \in Writers : (\E j \in Jobs : Start(w, j)) \/ Step(w) \/ Kill(w) \/ IOError(w)
    BY <1>3 DEF Next
  <2>2. ~Kill(w) /\ ~IOError(w)
    <3>1. faults \in Nat
      BY CountersAreNumbers
    <3>2. ~Fault
      BY <1>3, <3>1 DEF Fault
    <3> QED BY <3>2 DEF Kill, IOError
  <2>3. faults = 0
    BY <1>3, <2>1, <2>2, OthersStay DEF Start
  <2> QED BY <2>1, <2>2, <2>3, StepsArePaid, StartsArePaid
<1> QED BY <1>1, <1>2, <1>3

\* Without faults no writer fails that has as many retries as there are other publications:
\* each of them takes its partial file away at most once.
THEOREM RetriesAbsorbInterferenceHolds ==
    ASSUME RetriesSuffice
    PROVE  Spec => []RetriesAbsorbInterference
<1>1. Init => Paid
  <2> SUFFICES ASSUME Init PROVE Paid
    OBVIOUS
  <2>1. ActiveWriters = {} /\ \A w \in Writers : pc[w] = "idle"
    BY DEF Init, ActiveWriters
  <2>2. IsFiniteSet({}) /\ Cardinality({}) = 0 /\ commands = 0
    BY FS_EmptySet DEF Init
  <2> QED BY <2>1, <2>2 DEF Paid, InterferenceIsPaid, RetriesAbsorbInterference
<1>2. TypeOK /\ PublishInvariant /\ (TypeOK /\ PublishInvariant)' /\ Paid /\ [Next]_vars => Paid'
  <2> SUFFICES ASSUME TypeOK, PublishInvariant, TypeOK', Paid, [Next]_vars
               PROVE  Paid'
    OBVIOUS
  <2> QED BY NextIsPaid
<1>3. Paid => RetriesAbsorbInterference
  BY DEF Paid
<1> QED BY <1>1, <1>2, <1>3, PublishIsInvariant, PTL DEF Spec
=============================================================================

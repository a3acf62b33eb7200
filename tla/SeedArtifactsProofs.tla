-------------------------- MODULE SeedArtifactsProofs --------------------------
(***************************************************************************)
(* Proofs about SeedArtifacts, for every set of commands, every number of  *)
(* versions and definitions, and every bound on disturbances.              *)
(***************************************************************************)
EXTENDS SeedArtifacts, FiniteSetTheorems, TLAPS

-----------------------------------------------------------------------------
(***************************************************************************)
(* The accesses of the commands.                                           *)
(***************************************************************************)
\* Where each artifact accesses what: every input is hashed and read once, the layers are
\* hashed first but for the ranks, and both before the artifact is written.
LEMMA AccessTable ==
    ASSUME NEW k \in Artifacts
    PROVE  /\ \A s \in DOMAIN Accesses[k] :
                /\ s \in Nat /\ 1 <= s
                /\ Accesses[k][s].op \in {"hash", "read", "check", "write", "manifest"}
                /\ Accesses[k][s].op # "manifest" => s + 1 \in DOMAIN Accesses[k]
                /\ Accesses[k][s].op = "hash" =>
                    Accesses[k][s].on \in Inputs(k) /\ HashStep[k][Accesses[k][s].on] = s
                /\ Accesses[k][s].op = "read" =>
                    Accesses[k][s].on \in Inputs(k) /\ ReadStep[k][Accesses[k][s].on] = s
                /\ Accesses[k][s].op \in {"write", "manifest"} => \A f \in Inputs(k) :
                    HashStep[k][f] < s /\ ReadStep[k][f] < s
           /\ \A f \in Inputs(k) :
                /\ HashStep[k][f] \in DOMAIN Accesses[k] /\ Accesses[k][HashStep[k][f]] = Hash(f)
                /\ ReadStep[k][f] \in DOMAIN Accesses[k] /\ Accesses[k][ReadStep[k][f]] = Read(f)
                /\ IF k = "ranks" THEN ReadStep[k][f] < HashStep[k][f]
                   ELSE HashStep[k][f] < ReadStep[k][f]
           /\ 1 \in DOMAIN Accesses[k]
<1> USE DEF Accesses, HashStep, ReadStep, Inputs, Hash, Read, Check, Write, Manifest
<1>1. CASE k = "scores"
  BY <1>1 DEF ScoreAccesses
<1>2. CASE k = "ranks"
  BY <1>2 DEF RankAccesses
<1>3. CASE k = "fit"
  BY <1>3 DEF FitAccesses
<1> QED BY <1>1, <1>2, <1>3 DEF Artifacts

\* What a command names is an artifact, and neither a layer nor a command that is idle.
LEMMA ActiveIsTracked ==
    ASSUME ChainInduction, NEW c \in Materializers, Active(c)
    PROVE  /\ IsCommand(command[c]) /\ IsOnTrack(command[c])
           /\ Cardinality(Materializers) = 1 => ChainUnderWay(command[c])
  BY DEF ChainInduction, TypeOK, CommandsAreOnTrack, ChainIsHonest

\* An access of a command under way.
LEMMA AccessOfACommand ==
    ASSUME ChainInduction, NEW c \in Materializers, Active(c)
    PROVE  /\ command[c].at \in Artifacts
           /\ command[c].step \in DOMAIN Accesses[command[c].at]
           /\ Access(c) = Accesses[command[c].at][command[c].step]
  BY ActiveIsTracked DEF IsCommand, Access

\* A command with other inputs hashed or read, at its next step.
Onward(me) == [me EXCEPT !.step = @ + 1]
WithHashed(me, hashed) == [me EXCEPT !.hashed = hashed]
WithSeen(me, seen) == [me EXCEPT !.seen = seen]
OnwardHashed(me, hashed) == WithHashed(Onward(me), hashed)
OnwardSeen(me, seen) == WithSeen(Onward(me), seen)

\* Nothing else of the command changes.
LEMMA MovedOn ==
    ASSUME NEW me, NEW inputs,
           me = [at |-> me.at, definition |-> me.definition, attempt |-> me.attempt,
                 step |-> me.step, hashed |-> me.hashed, seen |-> me.seen]
    PROVE  /\ Onward(me) =
                [at |-> me.at, definition |-> me.definition, attempt |-> me.attempt,
                 step |-> me.step + 1, hashed |-> me.hashed, seen |-> me.seen]
           /\ OnwardHashed(me, inputs) =
                [at |-> me.at, definition |-> me.definition, attempt |-> me.attempt,
                 step |-> me.step + 1, hashed |-> inputs, seen |-> me.seen]
           /\ OnwardSeen(me, inputs) =
                [at |-> me.at, definition |-> me.definition, attempt |-> me.attempt,
                 step |-> me.step + 1, hashed |-> me.hashed, seen |-> inputs]
<1> DEFINE Me(a, d, n, s, h, r) == [at |-> a, definition |-> d, attempt |-> n,
                                    step |-> s, hashed |-> h, seen |-> r]
<1>1. ASSUME NEW a, NEW d, NEW n, NEW s, NEW h, NEW r
      PROVE  /\ Onward(Me(a, d, n, s, h, r)) = Me(a, d, n, s + 1, h, r)
             /\ WithHashed(Me(a, d, n, s, h, r), inputs) = Me(a, d, n, s, inputs, r)
             /\ WithSeen(Me(a, d, n, s, h, r), inputs) = Me(a, d, n, s, h, inputs)
  BY DEF Onward, WithHashed, WithSeen
<1>2. me = Me(me.at, me.definition, me.attempt, me.step, me.hashed, me.seen)
  OBVIOUS
<1> HIDE DEF Me
<1>3. Onward(me) = Me(me.at, me.definition, me.attempt, me.step + 1, me.hashed, me.seen)
  BY <1>1, <1>2
<1>4. OnwardHashed(me, inputs)
        = Me(me.at, me.definition, me.attempt, me.step + 1, inputs, me.seen)
  BY <1>1, <1>3 DEF OnwardHashed
<1>5. OnwardSeen(me, inputs)
        = Me(me.at, me.definition, me.attempt, me.step + 1, me.hashed, inputs)
  BY <1>1, <1>3 DEF OnwardSeen
<1> QED BY <1>3, <1>4, <1>5 DEF Me

\* A function with one more value.
LEMMA PutExtends ==
    ASSUME NEW f, NEW S, IsOn(f, S), NEW x, NEW v
    PROVE  IsOn(Put(f, x, v), S \cup {x}) /\ Put(f, x, v)[x] = v
  BY DEF IsOn, Put

\* A command begins an artifact with nothing hashed or read.
LEMMA BeginIsOnTrack ==
    ASSUME NEW k \in Artifacts, NEW d \in [Artifacts -> 1 .. MaxDefinition],
           NEW attempt \in 0 .. Retries
    PROVE  /\ IsCommand(Begin(k, d, attempt)) /\ IsOnTrack(Begin(k, d, attempt))
           /\ ChainUnderWay(Begin(k, d, attempt))
           /\ Begin(k, d, attempt) # Idle
<1> DEFINE me == Begin(k, d, attempt)
<1>1. /\ me = [at |-> me.at, definition |-> me.definition, attempt |-> me.attempt,
               step |-> me.step, hashed |-> me.hashed, seen |-> me.seen]
      /\ me.at = k /\ me.definition = d /\ me.attempt = attempt /\ me.step = 1
      /\ me.hashed = <<>> /\ me.seen = <<>>
  BY DEF Begin
<1>2. IsOn(<<>>, {}) /\ DOMAIN <<>> = {}
  BY DEF IsOn
<1>3. 1 \in DOMAIN Accesses[k] /\ \A f \in Inputs(k) : ~(HashStep[k][f] < 1) /\ ~(ReadStep[k][f] < 1)
  BY AccessTable
<1> HIDE DEF me
<1>4. IsCommand(me)
  BY <1>1, <1>2, <1>3 DEF IsCommand
<1>5. IsOnTrack(me)
  BY <1>1, <1>2, <1>3 DEF IsOnTrack
<1>6. ChainUnderWay(me)
  BY <1>1, <1>2 DEF ChainUnderWay
<1>7. me # Idle
  <2>1. me.at # Idle.at
    BY <1>1 DEF Idle, Artifacts
  <2> QED BY <2>1
<1> QED BY <1>4, <1>5, <1>6, <1>7 DEF me

\* After an artifact the command begins the next one, or is done.
LEMMA AfterArtifactIsOnTrack ==
    ASSUME NEW k \in Artifacts, NEW d \in [Artifacts -> 1 .. MaxDefinition],
           AfterArtifact(k, d) # Idle
    PROVE  /\ IsCommand(AfterArtifact(k, d)) /\ IsOnTrack(AfterArtifact(k, d))
           /\ ChainUnderWay(AfterArtifact(k, d))
<1>1. k # "fit" /\ AfterArtifact(k, d) = Begin(Following[k], d, 0)
  BY DEF AfterArtifact
<1>2. Following[k] \in Artifacts
  BY <1>1 DEF Artifacts, Following
<1>3. 0 \in 0 .. Retries
  BY ConstantsAssumption
<1> QED BY <1>1, <1>2, <1>3, BeginIsOnTrack

-----------------------------------------------------------------------------
(***************************************************************************)
(* The layers only grow.                                                   *)
(***************************************************************************)
\* A layer stays, is lost, or is replaced by a later version.
LayersGrow ==
    \A f \in Layers :
        \/ file'[f] = file[f]
        \/ file'[f] = None
        \/ file[f] \in Versions /\ file'[f] = file[f] + 1
        \/ file'[f] = MaxVersion

\* What is of the past stays so.
LEMMA PastStaysPast ==
    ASSUME TypeOK, LayersGrow, NEW f \in Layers, NEW version, IsPast(f, version)
    PROVE  version \in Versions /\ (file'[f] # None => version <= file'[f])
<1>1. file[f] \in Versions \cup {None} /\ MaxVersion \in Nat
  BY ConstantsAssumption DEF TypeOK
<1>2. version \in Nat /\ version <= MaxVersion /\ (file[f] # None => version <= file[f])
  BY <1>1 DEF IsPast, Versions
<1> QED BY <1>1, <1>2, ConstantsAssumption DEF LayersGrow, IsPast, Versions

\* A command stays on its track.
LEMMA TrackIsKept ==
    ASSUME TypeOK, LayersGrow, NEW me, IsOnTrack(me)
    PROVE  IsOnTrack(me)'
<1>1. \A version : \A f \in Layers : IsPast(f, version) => IsPast(f, version)'
  BY PastStaysPast DEF IsPast
<1> QED BY <1>1 DEF IsOnTrack

\* An artifact stays made in order.
LEMMA OrderIsKept ==
    ASSUME TypeOK, LayersGrow, NEW k \in Artifacts, NEW x, IsMadeInOrder(k, x)
    PROVE  IsMadeInOrder(k, x)'
<1>1. \A version : \A f \in Layers : IsPast(f, version) => IsPast(f, version)'
  BY PastStaysPast DEF IsPast
<1> QED BY <1>1 DEF IsMadeInOrder

\* With one command, the chain under way is kept with the artifacts, or lost with them.
LEMMA ChainIsKept ==
    ASSUME TypeOK, LayersGrow, NEW me, ChainUnderWay(me),
           \A k \in {"scores", "ranks"} :
                file'[k] = file[k] \/ file'[k] \in Missing \/ me.at \in {"scores", k}
    PROVE  ChainUnderWay(me)'
<1>1. \A version : \A f \in Layers : IsPast(f, version) => IsPast(f, version)'
  BY PastStaysPast DEF IsPast
<1>2. "split" \in Layers
  BY DEF Layers
<1>3. ASSUME me.at = "ranks", "scores" \in DOMAIN me.seen
      PROVE  /\ file'["scores"] \in {me.seen["scores"]} \cup Missing
             /\ IsPast("split", SplitOf(me.seen["scores"]))'
             /\ "split" \in DOMAIN me.seen => SplitOf(me.seen["scores"]) <= me.seen["split"]
             /\ "scores" \in DOMAIN me.hashed =>
                    me.hashed["scores"] \in {me.seen["scores"], Garbage}
  BY <1>1, <1>2, <1>3 DEF ChainUnderWay
<1>4. ASSUME me.at = "fit", NEW k \in {"scores", "ranks"} \cap DOMAIN me.hashed
      PROVE  /\ file'[k] \in {me.hashed[k]} \cup Missing
             /\ k \in DOMAIN me.seen => me.seen[k] = me.hashed[k]
  BY <1>4 DEF ChainUnderWay
<1> QED BY <1>3, <1>4 DEF ChainUnderWay
-----------------------------------------------------------------------------
(***************************************************************************)
(* The kinds of steps.                                                     *)
(***************************************************************************)
\* A step that only moves one command, to where it is on track.
LEMMA CommandStep ==
    ASSUME ChainInduction, NEW c \in Materializers, NEW new,
           command' = [command EXCEPT ![c] = new], UNCHANGED <<file, manifest, definition>>,
           disturbances' \in 0 .. MaxDisturbances,
           new # Idle => /\ IsCommand(new) /\ IsOnTrack(new)
                         /\ Cardinality(Materializers) = 1 => ChainUnderWay(new)
    PROVE  ChainInduction'
<1>1. IsOn(command, Materializers)
  BY DEF ChainInduction
<1>2. command'[c] = new /\ \A d \in Materializers \ {c} : command'[d] = command[d]
  BY <1>1 DEF IsOn
<1>3. IsOn(command, Materializers)' /\ IsOn(file, Layers \cup Artifacts)' /\ IsOn(manifest, Artifacts)'
  BY <1>1 DEF IsOn, ChainInduction
<1>4. ASSUME NEW d \in Materializers, command'[d] # Idle
      PROVE  /\ IsCommand(command'[d]) /\ IsOnTrack(command'[d])
             /\ Cardinality(Materializers) = 1 => ChainUnderWay(command'[d])
  <2>1. CASE d = c
    BY <1>2, <1>4, <2>1
  <2>2. CASE d # c
    BY <1>2, <1>4, <2>2, ActiveIsTracked DEF Active
  <2> QED BY <2>1, <2>2
<1>5. TypeOK'
  BY <1>4 DEF ChainInduction, TypeOK, Active
<1>6. CommandsAreOnTrack'
  BY <1>4 DEF CommandsAreOnTrack, Active, IsOnTrack, IsPast
<1>7. ArtifactsAreMadeInOrder'
  BY DEF ChainInduction, ArtifactsAreMadeInOrder, IsMadeInOrder, IsPast
<1>8. ChainIsHonest'
  BY <1>4 DEF ChainInduction, ChainIsHonest, ChainOfFiles, ChainUnderWay, Active, IsPast
<1> QED BY <1>3, <1>5, <1>6, <1>7, <1>8 DEF ChainInduction

\* A step that only replaces or damages files, as the environment does.
LEMMA FileStep ==
    ASSUME ChainInduction, LayersGrow, UNCHANGED <<manifest, command>>,
           IsOn(file, Layers \cup Artifacts)',
           \A f \in Layers : file'[f] \in Versions \cup {None},
           \A k \in Artifacts : file'[k] = file[k] \/ file'[k] \in Missing,
           definition' \in [Artifacts -> 1 .. MaxDefinition],
           disturbances' \in 0 .. MaxDisturbances
    PROVE  ChainInduction'
<1>1. TypeOK
  BY DEF ChainInduction
<1>2. IsOn(command, Materializers)' /\ IsOn(manifest, Artifacts)'
  BY DEF ChainInduction, IsOn
<1>3. TypeOK'
  BY <1>1 DEF TypeOK, Active
<1>4. ASSUME NEW me, IsOnTrack(me) PROVE IsOnTrack(me)'
  BY <1>1, <1>4, TrackIsKept
<1>5. CommandsAreOnTrack'
  BY <1>4 DEF ChainInduction, CommandsAreOnTrack, Active
<1>6. ArtifactsAreMadeInOrder'
  <2>1. ASSUME NEW k \in Artifacts, file'[k] \notin Missing PROVE IsMadeInOrder(k, file[k])'
    <3>1. file'[k] = file[k]
      BY <2>1
    <3>2. IsMadeInOrder(k, file[k])
      BY <2>1, <3>1 DEF ChainInduction, ArtifactsAreMadeInOrder
    <3>3. \A x : IsMadeInOrder(k, x) => IsMadeInOrder(k, x)'
      BY <1>1, OrderIsKept
    <3> QED BY <3>1, <3>2, <3>3
  <2> QED BY <2>1 DEF ArtifactsAreMadeInOrder
<1>7. ChainIsHonest'
  <2>1. ASSUME Cardinality(Materializers) = 1, NEW c \in Materializers, Active(c)
        PROVE  ChainUnderWay(command[c])'
    <3>1. ChainUnderWay(command[c])
      BY <2>1, ActiveIsTracked
    <3>2. \A k \in {"scores", "ranks"} : file'[k] = file[k] \/ file'[k] \in Missing
      BY DEF Artifacts
    <3>3. \A me : ChainUnderWay(me) => ChainUnderWay(me)'
      BY <1>1, <3>2, ChainIsKept
    <3> QED BY <3>1, <3>3
  <2>2. ASSUME Cardinality(Materializers) = 1 PROVE ChainOfFiles'
    <3>1. ChainOfFiles
      BY <2>2 DEF ChainInduction, ChainIsHonest
    <3> QED BY <3>1 DEF ChainOfFiles, SplitOf, Artifacts
  <2> QED BY <2>1, <2>2 DEF ChainIsHonest, Active
<1> QED BY <1>2, <1>3, <1>5, <1>6, <1>7 DEF ChainInduction

-----------------------------------------------------------------------------
(***************************************************************************)
(* The steps of a command.                                                 *)
(***************************************************************************)
\* The file an input is of is a layer or an artifact.
LEMMA InputsAreFiles ==
    ASSUME NEW k \in Artifacts
    PROVE  /\ \A f \in Inputs(k) : f \in Layers \/ f \in {"scores", "ranks"}
           /\ k = "scores" => Inputs(k) = Layers
           /\ k = "ranks" => Inputs(k) = {"scores", "split"}
           /\ k = "fit" => Inputs(k) = {"scores", "ranks", "split"}
           /\ {"scores", "ranks"} \cap Layers = {}
  BY DEF Artifacts, Layers, Inputs

\* An input that is hashed joins those before it.
LEMMA HashInputStep ==
    ASSUME ChainInduction, NEW c \in Materializers, HashInput(c)
    PROVE  ChainInduction'
<1> DEFINE me == command[c]
           k == me.at
           f == Access(c).on
           v == file[f]
           hashed == Put(me.hashed, f, v)
           new == OnwardHashed(me, hashed)
<1>1. Active(c) /\ Access(c).op = "hash" /\ v # None
      /\ command' = [command EXCEPT ![c] = new]
      /\ UNCHANGED <<file, manifest, definition, disturbances>>
  BY DEF HashInput, At, Advanced, OnwardHashed, WithHashed, Onward
<1>2. IsCommand(me) /\ IsOnTrack(me) /\ (Cardinality(Materializers) = 1 => ChainUnderWay(me))
  BY <1>1, ActiveIsTracked
<1>3. /\ k \in Artifacts /\ me.step \in DOMAIN Accesses[k] /\ Access(c) = Accesses[k][me.step]
  BY <1>1, AccessOfACommand
<1>4. /\ f \in Inputs(k) /\ HashStep[k][f] = me.step /\ me.step + 1 \in DOMAIN Accesses[k]
      /\ me.step \in Nat
  BY <1>1, <1>3, AccessTable
<1>5. /\ \A g \in Inputs(k) : HashStep[k][g] \in Nat /\ ReadStep[k][g] \in Nat
      /\ \A g \in Inputs(k) : HashStep[k][g] = me.step => g = f
      /\ \A g \in Inputs(k) : ReadStep[k][g] # me.step
      /\ k # "ranks" => HashStep[k][f] < ReadStep[k][f]
  <2>1. \A g \in Inputs(k) : HashStep[k][g] \in Nat /\ ReadStep[k][g] \in Nat
    BY <1>3, AccessTable
  <2>2. ASSUME NEW g \in Inputs(k), HashStep[k][g] = me.step PROVE g = f
    <3>1. Accesses[k][me.step] = Hash(g)
      BY <1>3, <2>2, AccessTable
    <3> QED BY <1>3, <3>1 DEF Hash
  <2>3. ASSUME NEW g \in Inputs(k), ReadStep[k][g] = me.step PROVE FALSE
    <3>1. Accesses[k][me.step] = Read(g)
      BY <1>3, <2>3, AccessTable
    <3> QED BY <1>1, <1>3, <3>1 DEF Read
  <2>4. k # "ranks" => HashStep[k][f] < ReadStep[k][f]
    BY <1>3, <1>4, AccessTable
  <2> QED BY <2>1, <2>2, <2>3, <2>4
<1> HIDE DEF me, hashed
<1>6. new = [at |-> k, definition |-> me.definition, attempt |-> me.attempt,
             step |-> me.step + 1, hashed |-> hashed, seen |-> me.seen]
  <2>1. me = [at |-> me.at, definition |-> me.definition, attempt |-> me.attempt,
              step |-> me.step, hashed |-> me.hashed, seen |-> me.seen]
    BY <1>2 DEF IsOnTrack
  <2> QED BY <2>1, MovedOn
<1> USE DEF hashed
<1> DEFINE H(s) == {g \in Inputs(k) : HashStep[k][g] < s}
           R(s) == {g \in Inputs(k) : ReadStep[k][g] < s}
<1>7. IsOn(me.hashed, H(me.step)) /\ IsOn(me.seen, R(me.step))
  BY <1>2 DEF IsOnTrack
<1>8. H(me.step + 1) = H(me.step) \cup {f} /\ R(me.step + 1) = R(me.step) /\ f \notin H(me.step)
  BY <1>4, <1>5
<1> HIDE DEF H, R
<1>9. /\ IsOn(hashed, H(me.step + 1)) /\ hashed[f] = v
      /\ \A g \in H(me.step) : hashed[g] = me.hashed[g]
  <2> HIDE DEF f, v
  <2>1. IsOn(hashed, H(me.step) \cup {f}) /\ hashed[f] = v
    BY <1>7, PutExtends
  <2>2. \A g \in H(me.step) : hashed[g] = me.hashed[g]
    BY <1>7, <1>8 DEF Put, IsOn
  <2> QED BY <1>8, <2>1, <2>2
<1>10. DOMAIN hashed = H(me.step) \cup {f} /\ DOMAIN me.hashed = H(me.step)
       /\ DOMAIN me.seen = R(me.step)
  BY <1>7, <1>8, <1>9 DEF IsOn
<1> HIDE DEF hashed
<1>11. new.at = k /\ new.definition = me.definition /\ new.attempt = me.attempt
       /\ new.step = me.step + 1 /\ new.hashed = hashed /\ new.seen = me.seen
       /\ new = [at |-> new.at, definition |-> new.definition, attempt |-> new.attempt,
                 step |-> new.step, hashed |-> new.hashed, seen |-> new.seen]
  BY <1>6
<1> HIDE DEF new
<1>12. IsCommand(new)
  BY <1>2, <1>4, <1>10, <1>11 DEF IsCommand
<1>13. ASSUME f \in Layers PROVE IsPast(f, v)
  BY <1>1, <1>13 DEF ChainInduction, TypeOK, IsPast, Versions
<1>14. \A g \in DOMAIN hashed \cap Layers : IsPast(g, hashed[g])
  BY <1>2, <1>9, <1>10, <1>13 DEF IsOnTrack
<1>15. \A g \in DOMAIN hashed \cap DOMAIN me.seen \cap Layers : InOrder(k, hashed[g], me.seen[g])
  <2>1. ASSUME NEW g \in DOMAIN hashed, g \in DOMAIN me.seen, g \in Layers, g # f
        PROVE  InOrder(k, hashed[g], me.seen[g])
    BY <1>2, <1>9, <1>10, <2>1 DEF IsOnTrack
  <2>2. ASSUME f \in DOMAIN me.seen, f \in Layers PROVE InOrder(k, hashed[f], me.seen[f])
    <3>1. k = "ranks"
      BY <1>4, <1>5, <1>10, <2>2 DEF R
    <3>2. me.seen[f] <= v
      BY <1>1, <1>2, <2>2 DEF IsOnTrack, IsPast
    <3> QED BY <1>9, <3>1, <3>2 DEF InOrder
  <2> QED BY <2>1, <2>2
<1>16. IsOnTrack(new)
  <2>1. IsOn(new.hashed, {g \in Inputs(new.at) : HashStep[new.at][g] < new.step})
    BY <1>9, <1>11 DEF H
  <2>2. IsOn(new.seen, {g \in Inputs(new.at) : ReadStep[new.at][g] < new.step})
    BY <1>7, <1>8, <1>11 DEF R
  <2>3. \A g \in DOMAIN me.seen \cap Layers : IsPast(g, me.seen[g])
    BY <1>2 DEF IsOnTrack
  <2> QED BY <1>11, <1>14, <1>15, <2>1, <2>2, <2>3 DEF IsOnTrack
<1>17. ASSUME Cardinality(Materializers) = 1 PROVE ChainUnderWay(new)
  <2>1. ChainUnderWay(me)
    BY <1>2, <1>17
  <2>2. ASSUME k = "ranks", "scores" \in DOMAIN me.seen
        PROVE  /\ file["scores"] \in {me.seen["scores"]} \cup Missing
               /\ IsPast("split", SplitOf(me.seen["scores"]))
               /\ "split" \in DOMAIN me.seen => SplitOf(me.seen["scores"]) <= me.seen["split"]
               /\ "scores" \in DOMAIN hashed => hashed["scores"] \in {me.seen["scores"], Garbage}
    <3>1. /\ file["scores"] \in {me.seen["scores"]} \cup Missing
          /\ IsPast("split", SplitOf(me.seen["scores"]))
          /\ "split" \in DOMAIN me.seen => SplitOf(me.seen["scores"]) <= me.seen["split"]
          /\ "scores" \in DOMAIN me.hashed => me.hashed["scores"] \in {me.seen["scores"], Garbage}
      BY <2>1, <2>2 DEF ChainUnderWay
    <3>2. f = "scores" => hashed["scores"] \in {me.seen["scores"], Garbage}
      BY <1>1, <1>9, <3>1 DEF Missing
    <3> QED BY <1>9, <1>10, <3>1, <3>2
  <2>3. ASSUME k = "fit", NEW a \in {"scores", "ranks"}, a \in DOMAIN hashed
        PROVE  /\ file[a] \in {hashed[a]} \cup Missing
               /\ a \in DOMAIN me.seen => me.seen[a] = hashed[a]
    <3>1. CASE a = f
      <4>1. a \notin DOMAIN me.seen
        BY <1>4, <1>5, <1>10, <2>3, <3>1 DEF R
      <4> QED BY <1>9, <3>1, <4>1
    <3>2. CASE a # f
      BY <1>9, <1>10, <2>1, <2>3, <3>2 DEF ChainUnderWay
    <3> QED BY <3>1, <3>2
  <2> QED BY <1>11, <2>2, <2>3 DEF ChainUnderWay
<1>18. disturbances' \in 0 .. MaxDisturbances
  BY <1>1 DEF ChainInduction, TypeOK
<1> QED BY <1>1, <1>12, <1>16, <1>17, <1>18, CommandStep

\* An input that is read joins those before it.
LEMMA ReadInputStep ==
    ASSUME ChainInduction, NEW c \in Materializers, ReadInput(c)
    PROVE  ChainInduction'
<1> DEFINE me == command[c]
           k == me.at
           f == Access(c).on
           v == file[f]
           seen == Put(me.seen, f, v)
           new == OnwardSeen(me, seen)
<1>1. Active(c) /\ Access(c).op = "read" /\ v # None
      /\ UNCHANGED <<file, manifest, definition, disturbances>>
  BY DEF ReadInput, At
<1>2. IsCommand(me) /\ IsOnTrack(me) /\ (Cardinality(Materializers) = 1 => ChainUnderWay(me))
  BY <1>1, ActiveIsTracked
<1>3. /\ k \in Artifacts /\ me.step \in DOMAIN Accesses[k] /\ Access(c) = Accesses[k][me.step]
  BY <1>1, AccessOfACommand
<1>4. /\ f \in Inputs(k) /\ ReadStep[k][f] = me.step /\ me.step + 1 \in DOMAIN Accesses[k]
      /\ me.step \in Nat
  BY <1>1, <1>3, AccessTable
<1>5. /\ \A g \in Inputs(k) : HashStep[k][g] \in Nat /\ ReadStep[k][g] \in Nat
      /\ \A g \in Inputs(k) : ReadStep[k][g] = me.step => g = f
      /\ \A g \in Inputs(k) : HashStep[k][g] # me.step
      /\ IF k = "ranks" THEN ReadStep[k][f] < HashStep[k][f] ELSE HashStep[k][f] < ReadStep[k][f]
  <2>1. \A g \in Inputs(k) : HashStep[k][g] \in Nat /\ ReadStep[k][g] \in Nat
    BY <1>3, AccessTable
  <2>2. ASSUME NEW g \in Inputs(k), ReadStep[k][g] = me.step PROVE g = f
    <3>1. Accesses[k][me.step] = Read(g)
      BY <1>3, <2>2, AccessTable
    <3> QED BY <1>3, <3>1 DEF Read
  <2>3. ASSUME NEW g \in Inputs(k), HashStep[k][g] = me.step PROVE FALSE
    <3>1. Accesses[k][me.step] = Hash(g)
      BY <1>3, <2>3, AccessTable
    <3> QED BY <1>1, <1>3, <3>1 DEF Hash
  <2>4. IF k = "ranks" THEN ReadStep[k][f] < HashStep[k][f] ELSE HashStep[k][f] < ReadStep[k][f]
    BY <1>3, <1>4, AccessTable
  <2> QED BY <2>1, <2>2, <2>3, <2>4
<1>6. disturbances' \in 0 .. MaxDisturbances
  BY <1>1 DEF ChainInduction, TypeOK
<1>7. CASE v = Garbage
  <2>1. command' = [command EXCEPT ![c] = Idle]
    BY <1>7 DEF ReadInput
  <2> QED BY <1>1, <1>6, <2>1, CommandStep
<1>8. CASE v # Garbage
  <2>1. command' = [command EXCEPT ![c] = new]
    BY <1>8 DEF ReadInput, At, Advanced, OnwardSeen, WithSeen, Onward
  <2> HIDE DEF me, seen
  <2>2. new = [at |-> k, definition |-> me.definition, attempt |-> me.attempt,
               step |-> me.step + 1, hashed |-> me.hashed, seen |-> seen]
    <3>1. me = [at |-> me.at, definition |-> me.definition, attempt |-> me.attempt,
                step |-> me.step, hashed |-> me.hashed, seen |-> me.seen]
      BY <1>2 DEF IsOnTrack
    <3> QED BY <3>1, MovedOn
  <2> DEFINE H(s) == {g \in Inputs(k) : HashStep[k][g] < s}
             R(s) == {g \in Inputs(k) : ReadStep[k][g] < s}
  <2>3. IsOn(me.hashed, H(me.step)) /\ IsOn(me.seen, R(me.step))
    BY <1>2 DEF IsOnTrack
  <2>4. R(me.step + 1) = R(me.step) \cup {f} /\ H(me.step + 1) = H(me.step) /\ f \notin R(me.step)
    BY <1>4, <1>5
  <2> HIDE DEF H, R
  <2>5. /\ IsOn(seen, R(me.step + 1)) /\ seen[f] = v
        /\ \A g \in R(me.step) : seen[g] = me.seen[g]
    <3>1. seen = Put(me.seen, f, v)
      BY DEF seen
    <3> HIDE DEF f, v
    <3>2. IsOn(seen, R(me.step) \cup {f}) /\ seen[f] = v
      BY <2>3, <3>1, PutExtends
    <3>3. \A g \in R(me.step) : seen[g] = me.seen[g]
      BY <2>3, <2>4, <3>1 DEF Put, IsOn
    <3> QED BY <2>4, <3>2, <3>3
  <2>6. DOMAIN seen = R(me.step) \cup {f} /\ DOMAIN me.hashed = H(me.step)
        /\ DOMAIN me.seen = R(me.step)
    BY <2>3, <2>4, <2>5 DEF IsOn
  <2>7. new.at = k /\ new.definition = me.definition /\ new.attempt = me.attempt
        /\ new.step = me.step + 1 /\ new.hashed = me.hashed /\ new.seen = seen
        /\ new = [at |-> new.at, definition |-> new.definition, attempt |-> new.attempt,
                  step |-> new.step, hashed |-> new.hashed, seen |-> new.seen]
    BY <2>2
  <2> HIDE DEF new
  <2>8. IsCommand(new)
    BY <1>2, <1>4, <2>6, <2>7 DEF IsCommand
  <2>9. ASSUME f \in Layers PROVE IsPast(f, v)
    BY <1>1, <2>9 DEF ChainInduction, TypeOK, IsPast, Versions
  <2>10. \A g \in DOMAIN seen \cap Layers : IsPast(g, seen[g])
    BY <1>2, <2>5, <2>6, <2>9 DEF IsOnTrack
  <2>11. \A g \in DOMAIN me.hashed \cap DOMAIN seen \cap Layers : InOrder(k, me.hashed[g], seen[g])
    <3>1. ASSUME NEW g \in DOMAIN seen, g \in DOMAIN me.hashed, g \in Layers, g # f
          PROVE  InOrder(k, me.hashed[g], seen[g])
      BY <1>2, <2>5, <2>6, <3>1 DEF IsOnTrack
    <3>2. ASSUME f \in DOMAIN me.hashed, f \in Layers PROVE InOrder(k, me.hashed[f], seen[f])
      <4>1. k # "ranks"
        BY <1>4, <1>5, <2>6, <3>2 DEF H
      <4>2. me.hashed[f] <= v
        BY <1>1, <1>2, <3>2 DEF IsOnTrack, IsPast
      <4> QED BY <2>5, <4>1, <4>2 DEF InOrder
    <3> QED BY <3>1, <3>2
  <2>12. IsOnTrack(new)
    <3>1. IsOn(new.hashed, {g \in Inputs(new.at) : HashStep[new.at][g] < new.step})
      BY <2>3, <2>4, <2>7 DEF H
    <3>2. IsOn(new.seen, {g \in Inputs(new.at) : ReadStep[new.at][g] < new.step})
      BY <2>5, <2>7 DEF R
    <3>3. \A g \in DOMAIN me.hashed \cap Layers : IsPast(g, me.hashed[g])
      BY <1>2 DEF IsOnTrack
    <3> QED BY <2>7, <2>10, <2>11, <3>1, <3>2, <3>3 DEF IsOnTrack
  <2>13. ASSUME Cardinality(Materializers) = 1 PROVE ChainUnderWay(new)
    <3>1. ChainUnderWay(me)
      BY <1>2, <2>13
    <3>2. ASSUME k = "ranks", "scores" \in DOMAIN seen
          PROVE  /\ file["scores"] \in {seen["scores"]} \cup Missing
                 /\ IsPast("split", SplitOf(seen["scores"]))
                 /\ "split" \in DOMAIN seen => SplitOf(seen["scores"]) <= seen["split"]
                 /\ "scores" \in DOMAIN me.hashed =>
                        me.hashed["scores"] \in {seen["scores"], Garbage}
      <4>1. Inputs(k) = {"scores", "split"} /\ "split" \in Layers /\ "scores" \in Artifacts
        BY <1>3, <3>2, InputsAreFiles DEF Layers, Artifacts
      <4>2. CASE f = "scores"
        <5>1. file["scores"] \notin Missing /\ seen["scores"] = file["scores"]
          BY <1>1, <1>8, <2>5, <4>2 DEF Missing
        <5>2. IsMadeInOrder("scores", file["scores"])
          BY <4>1, <5>1 DEF ChainInduction, ArtifactsAreMadeInOrder
        <5>3. IsPast("split", SplitOf(file["scores"]))
          BY <4>1, <5>2 DEF IsMadeInOrder, SplitOf, Inputs
        <5>4. "split" \notin R(me.step) /\ "scores" \notin H(me.step)
          <6>1. me.step = 1
            BY <1>4, <3>2, <4>2 DEF ReadStep
          <6> QED BY <3>2, <6>1 DEF R, H, ReadStep, HashStep
        <5>5. "split" \notin DOMAIN seen /\ "scores" \notin DOMAIN me.hashed
          BY <2>6, <4>2, <5>4
        <5> QED BY <5>1, <5>3, <5>5
      <4>3. CASE f # "scores"
        <5>1. f = "split" /\ "scores" \in DOMAIN me.seen /\ seen["scores"] = me.seen["scores"]
          BY <1>4, <2>5, <2>6, <3>2, <4>1, <4>3
        <5>2. /\ file["scores"] \in {seen["scores"]} \cup Missing
              /\ IsPast("split", SplitOf(seen["scores"]))
              /\ "scores" \in DOMAIN me.hashed =>
                    me.hashed["scores"] \in {seen["scores"], Garbage}
          BY <3>1, <3>2, <5>1 DEF ChainUnderWay
        <5>3. SplitOf(seen["scores"]) <= seen["split"]
          BY <1>1, <2>5, <5>1, <5>2 DEF IsPast
        <5> QED BY <5>2, <5>3
      <4> QED BY <4>2, <4>3
    <3>3. ASSUME k = "fit", NEW a \in {"scores", "ranks"}, a \in DOMAIN me.hashed
          PROVE  /\ file[a] \in {me.hashed[a]} \cup Missing
                 /\ a \in DOMAIN seen => seen[a] = me.hashed[a]
      <4>1. /\ file[a] \in {me.hashed[a]} \cup Missing
            /\ a \in DOMAIN me.seen => me.seen[a] = me.hashed[a]
        BY <3>1, <3>3 DEF ChainUnderWay
      <4>2. CASE a = f
        BY <1>1, <1>8, <2>5, <4>1, <4>2 DEF Missing
      <4>3. CASE a # f
        BY <2>5, <2>6, <4>1, <4>3
      <4> QED BY <4>2, <4>3
    <3> QED BY <2>7, <3>2, <3>3 DEF ChainUnderWay
  <2> QED BY <1>1, <1>6, <2>1, <2>8, <2>12, <2>13, CommandStep
<1> QED BY <1>7, <1>8

\* A missing input begins the artifact again, or ends the command.
LEMMA InputIsMissingStep ==
    ASSUME ChainInduction, NEW c \in Materializers, InputIsMissing(c)
    PROVE  ChainInduction'
<1> DEFINE me == command[c]
           new == IF me.attempt < Retries THEN Begin(me.at, me.definition, me.attempt + 1)
                  ELSE Idle
<1>1. Active(c) /\ command' = [command EXCEPT ![c] = new]
      /\ UNCHANGED <<file, manifest, definition, disturbances>>
  BY DEF InputIsMissing
<1>2. /\ me.at \in Artifacts /\ me.definition \in [Artifacts -> 1 .. MaxDefinition]
      /\ me.attempt \in 0 .. Retries /\ Retries \in Nat
  BY <1>1, ActiveIsTracked, ConstantsAssumption DEF IsCommand
<1>3. disturbances' \in 0 .. MaxDisturbances
  BY <1>1 DEF ChainInduction, TypeOK
<1> HIDE DEF me
<1>4. ASSUME new # Idle
      PROVE  IsCommand(new) /\ IsOnTrack(new) /\ ChainUnderWay(new)
  <2>1. new = Begin(me.at, me.definition, me.attempt + 1) /\ me.attempt + 1 \in 0 .. Retries
    BY <1>2, <1>4
  <2> QED BY <1>2, <2>1, BeginIsOnTrack
<1> HIDE DEF new
<1> QED BY <1>1, <1>3, <1>4, CommandStep

\* A command starts with the scores.
LEMMA StartStep ==
    ASSUME ChainInduction, NEW c \in Materializers, Start(c)
    PROVE  ChainInduction'
<1> DEFINE new == Begin("scores", definition, 0)
<1>1. command' = [command EXCEPT ![c] = new]
      /\ UNCHANGED <<file, manifest, definition, disturbances>>
  BY DEF Start
<1>2. definition \in [Artifacts -> 1 .. MaxDefinition] /\ 0 \in 0 .. Retries /\ "scores" \in Artifacts
      /\ disturbances' \in 0 .. MaxDisturbances
  BY <1>1, ConstantsAssumption DEF ChainInduction, TypeOK, Artifacts
<1>3. IsCommand(new) /\ IsOnTrack(new) /\ ChainUnderWay(new)
  BY <1>2, BeginIsOnTrack
<1> HIDE DEF new
<1> QED BY <1>1, <1>2, <1>3, CommandStep

\* A step that accesses no input leaves the command on track.
LEMMA OnwardIsOnTrack ==
    ASSUME ChainInduction, NEW c \in Materializers, Active(c), Access(c).op \in {"check", "write"}
    PROVE  LET me == command[c]
               new == Onward(me)
           IN  /\ IsCommand(new) /\ IsOnTrack(new)
               /\ new.at = me.at /\ new.hashed = me.hashed /\ new.seen = me.seen
               /\ new.definition = me.definition
<1> DEFINE me == command[c]
           k == me.at
           new == Onward(me)
<1>1. IsCommand(me) /\ IsOnTrack(me)
  BY ActiveIsTracked
<1>2. /\ k \in Artifacts /\ me.step \in DOMAIN Accesses[k] /\ Access(c) = Accesses[k][me.step]
  BY AccessOfACommand
<1>3. me.step + 1 \in DOMAIN Accesses[k] /\ me.step \in Nat
  BY <1>2, AccessTable
<1>4. \A f \in Inputs(k) :
        /\ HashStep[k][f] \in Nat /\ ReadStep[k][f] \in Nat
        /\ HashStep[k][f] # me.step /\ ReadStep[k][f] # me.step
  <2>1. ASSUME NEW f \in Inputs(k)
        PROVE  /\ HashStep[k][f] \in Nat /\ ReadStep[k][f] \in Nat
               /\ Accesses[k][HashStep[k][f]].op = "hash" /\ Accesses[k][ReadStep[k][f]].op = "read"
    <3>1. Accesses[k][HashStep[k][f]] = Hash(f) /\ Accesses[k][ReadStep[k][f]] = Read(f)
      BY <1>2, AccessTable
    <3>2. HashStep[k][f] \in DOMAIN Accesses[k] /\ ReadStep[k][f] \in DOMAIN Accesses[k]
      BY <1>2, AccessTable
    <3>3. HashStep[k][f] \in Nat /\ ReadStep[k][f] \in Nat
      BY <1>2, <3>2, AccessTable
    <3> QED BY <3>1, <3>3 DEF Hash, Read
  <2> QED BY <1>2, <2>1
<1> HIDE DEF me
<1>5. new = [at |-> k, definition |-> me.definition, attempt |-> me.attempt,
             step |-> me.step + 1, hashed |-> me.hashed, seen |-> me.seen]
  <2>1. me = [at |-> me.at, definition |-> me.definition, attempt |-> me.attempt,
              step |-> me.step, hashed |-> me.hashed, seen |-> me.seen]
    BY <1>1 DEF IsOnTrack
  <2> QED BY <2>1, MovedOn
<1>6. new.at = k /\ new.definition = me.definition /\ new.attempt = me.attempt
      /\ new.step = me.step + 1 /\ new.hashed = me.hashed /\ new.seen = me.seen
      /\ new = [at |-> new.at, definition |-> new.definition, attempt |-> new.attempt,
                step |-> new.step, hashed |-> new.hashed, seen |-> new.seen]
  BY <1>5
<1> HIDE DEF new
<1>7. IsCommand(new)
  BY <1>1, <1>3, <1>6 DEF IsCommand
<1>8. /\ {f \in Inputs(k) : HashStep[k][f] < me.step + 1} = {f \in Inputs(k) : HashStep[k][f] < me.step}
      /\ {f \in Inputs(k) : ReadStep[k][f] < me.step + 1} = {f \in Inputs(k) : ReadStep[k][f] < me.step}
  BY <1>3, <1>4
<1>9. IsOnTrack(new)
  BY <1>1, <1>6, <1>8 DEF IsOnTrack
<1> QED BY <1>6, <1>7, <1>9 DEF me, new

\* A command that keeps an artifact goes on to the next, one that does not goes on to make it.
LEMMA CheckReuseStep ==
    ASSUME ChainInduction, NEW c \in Materializers, CheckReuse(c)
    PROVE  ChainInduction'
<1> DEFINE me == command[c]
           after == AfterArtifact(me.at, me.definition)
           on == Onward(me)
<1>1. Active(c) /\ Access(c).op = "check" /\ UNCHANGED <<file, manifest, definition, disturbances>>
      /\ (command' = [command EXCEPT ![c] = after] \/ command' = [command EXCEPT ![c] = on])
  BY DEF CheckReuse, At, Advanced, Onward
<1>2. IsCommand(me) /\ (Cardinality(Materializers) = 1 => ChainUnderWay(me))
  BY <1>1, ActiveIsTracked
<1>3. disturbances' \in 0 .. MaxDisturbances
  BY <1>1 DEF ChainInduction, TypeOK
<1>4. after # Idle => IsCommand(after) /\ IsOnTrack(after) /\ ChainUnderWay(after)
  BY <1>2, AfterArtifactIsOnTrack DEF IsCommand
<1>5. /\ IsCommand(on) /\ IsOnTrack(on)
      /\ on.at = me.at /\ on.hashed = me.hashed /\ on.seen = me.seen
  BY <1>1, OnwardIsOnTrack
<1> HIDE DEF after, on, me
<1>6. Cardinality(Materializers) = 1 => ChainUnderWay(on)
  BY <1>2, <1>5 DEF ChainUnderWay
<1>7. CASE command' = [command EXCEPT ![c] = after]
  BY <1>1, <1>3, <1>4, <1>7, CommandStep
<1>8. CASE command' = [command EXCEPT ![c] = on]
  BY <1>1, <1>3, <1>5, <1>6, <1>8, CommandStep
<1> QED BY <1>1, <1>7, <1>8

\* Where there is one command there is no other.
LEMMA OneCommand ==
    ASSUME Cardinality(Materializers) = 1, IsFiniteSet(Materializers),
           NEW c \in Materializers, NEW d \in Materializers
    PROVE  d = c
<1>1. PICK x : Materializers = {x}
  BY FS_Singleton
<1> QED BY <1>1

\* What a command has computed when it writes an artifact was made of all its inputs.
LEMMA ProductIsMadeInOrder ==
    ASSUME ChainInduction, NEW c \in Materializers, Active(c),
           Access(c).op \in {"write", "manifest"}
    PROVE  LET me == command[c]
               k == me.at
           IN  /\ k \in Artifacts
               /\ IsContentOf(k, Product(c)) /\ IsMadeInOrder(k, Product(c))
               /\ Product(c).fingerprint.inputs = me.hashed /\ Product(c).made.inputs = me.seen
               /\ DOMAIN me.hashed = Inputs(k) /\ DOMAIN me.seen = Inputs(k)
<1> DEFINE me == command[c]
           k == me.at
           x == Product(c)
<1>1. IsCommand(me) /\ IsOnTrack(me)
  BY ActiveIsTracked
<1>2. /\ k \in Artifacts /\ me.step \in DOMAIN Accesses[k] /\ Access(c) = Accesses[k][me.step]
  BY AccessOfACommand
<1>3. \A f \in Inputs(k) : HashStep[k][f] < me.step /\ ReadStep[k][f] < me.step
  BY <1>2, AccessTable
<1>4. IsOn(me.hashed, Inputs(k)) /\ IsOn(me.seen, Inputs(k))
  <2>1. /\ {f \in Inputs(k) : HashStep[k][f] < me.step} = Inputs(k)
        /\ {f \in Inputs(k) : ReadStep[k][f] < me.step} = Inputs(k)
    BY <1>3
  <2> QED BY <1>1, <2>1 DEF IsOnTrack
<1>5. DOMAIN me.hashed = Inputs(k) /\ DOMAIN me.seen = Inputs(k)
  BY <1>4 DEF IsOn
<1>6. me.definition[k] \in 1 .. MaxDefinition
  BY <1>1, <1>2 DEF IsCommand
<1>7. /\ x.fingerprint = [definition |-> me.definition[k], inputs |-> me.hashed]
      /\ x.made = [definition |-> me.definition[k], inputs |-> me.seen]
  BY DEF Product, Fingerprint
<1>8. /\ x.fingerprint.definition = me.definition[k] /\ x.made.definition = me.definition[k]
      /\ x.fingerprint.inputs = me.hashed /\ x.made.inputs = me.seen
      /\ x.fingerprint = [definition |-> x.fingerprint.definition, inputs |-> x.fingerprint.inputs]
      /\ x.made = [definition |-> x.made.definition, inputs |-> x.made.inputs]
  BY <1>7
<1> HIDE DEF x
<1>9. /\ \A f \in Inputs(k) \cap Layers : IsPast(f, me.hashed[f]) /\ IsPast(f, me.seen[f])
      /\ \A f \in Inputs(k) \cap Layers : InOrder(k, me.hashed[f], me.seen[f])
  BY <1>1, <1>5 DEF IsOnTrack
<1> HIDE DEF me
<1>10. IsMadeInOrder(k, x)
  BY <1>4, <1>8, <1>9 DEF IsMadeInOrder
<1>11. IsContentOf(k, x)
  BY <1>5, <1>6, <1>8, <1>9 DEF IsContentOf, IsSide, IsPast
<1> QED BY <1>2, <1>5, <1>8, <1>10, <1>11 DEF x, me

\* An artifact is written as it was made.
LEMMA WriteArtifactStep ==
    ASSUME ChainInduction, NEW c \in Materializers, WriteArtifact(c)
    PROVE  ChainInduction'
<1> DEFINE me == command[c]
           k == me.at
           x == Product(c)
           on == Onward(me)
<1>1. /\ Active(c) /\ Access(c).op = "write" /\ UNCHANGED <<manifest, definition, disturbances>>
      /\ file' = [file EXCEPT ![k] = x]
      /\ command' = [command EXCEPT ![c] = on]
  BY DEF WriteArtifact, At, Advanced, Onward
<1>2. /\ k \in Artifacts /\ IsContentOf(k, x) /\ IsMadeInOrder(k, x)
      /\ x.fingerprint.inputs = me.hashed /\ x.made.inputs = me.seen
      /\ DOMAIN me.hashed = Inputs(k) /\ DOMAIN me.seen = Inputs(k)
  BY <1>1, ProductIsMadeInOrder
<1>3. /\ IsCommand(on) /\ IsOnTrack(on)
      /\ on.at = k /\ on.hashed = me.hashed /\ on.seen = me.seen
  BY <1>1, OnwardIsOnTrack
<1>4. Cardinality(Materializers) = 1 => ChainUnderWay(me)
  BY <1>1, ActiveIsTracked
<1>5. TypeOK /\ IsOn(file, Layers \cup Artifacts) /\ IsOn(command, Materializers)
      /\ IsOn(manifest, Artifacts)
  BY DEF ChainInduction
<1> HIDE DEF x, on, me
<1>6. file'[k] = x /\ \A f \in (Layers \cup Artifacts) \ {k} : file'[f] = file[f]
  BY <1>1, <1>2, <1>5 DEF IsOn
<1>7. command'[c] = on /\ \A d \in Materializers \ {c} : command'[d] = command[d]
  BY <1>1, <1>5 DEF IsOn
<1>8. IsOn(file, Layers \cup Artifacts)' /\ IsOn(command, Materializers)' /\ IsOn(manifest, Artifacts)'
  BY <1>1, <1>5 DEF IsOn
<1>9. /\ \A f \in Layers : file'[f] = file[f]
      /\ LayersGrow
  <2>1. Layers \cap Artifacts = {}
    BY DEF Layers, Artifacts
  <2> QED BY <1>2, <1>6, <2>1 DEF LayersGrow
<1>10. ASSUME NEW d \in Materializers, command'[d] # Idle
       PROVE  IsCommand(command'[d]) /\ IsOnTrack(command'[d])
  <2>1. CASE d = c
    BY <1>3, <1>7, <2>1
  <2>2. CASE d # c
    BY <1>7, <1>10, <2>2, ActiveIsTracked DEF Active
  <2> QED BY <2>1, <2>2
<1>11. TypeOK'
  <2>1. \A a \in Artifacts : file'[a] \in Missing \/ IsContentOf(a, file'[a])
    BY <1>2, <1>5, <1>6 DEF TypeOK
  <2> QED BY <1>1, <1>5, <1>9, <1>10, <2>1 DEF TypeOK, Active
<1>12. \A y, f : IsPast(f, y) /\ f \in Layers => IsPast(f, y)'
  BY <1>9 DEF IsPast
<1>13. CommandsAreOnTrack'
  <2>1. ASSUME NEW d \in Materializers, command'[d] # Idle
        PROVE  IsOnTrack(command[d])'
    BY <1>10, <1>12, <2>1 DEF IsOnTrack
  <2> QED BY <2>1 DEF CommandsAreOnTrack, Active
<1>14. ArtifactsAreMadeInOrder'
  <2>1. ASSUME NEW a \in Artifacts, file'[a] \notin Missing PROVE IsMadeInOrder(a, file[a])'
    <3>1. IsMadeInOrder(a, file'[a])
      BY <1>2, <1>6, <2>1 DEF ChainInduction, ArtifactsAreMadeInOrder
    <3> QED BY <1>12, <3>1 DEF IsMadeInOrder
  <2> QED BY <2>1 DEF ArtifactsAreMadeInOrder
<1>15. ASSUME Cardinality(Materializers) = 1
       PROVE  \A d \in Materializers : Active(d)' => ChainUnderWay(command[d])'
  <2>1. \A d \in Materializers : d = c
    BY <1>15, ConstantsAssumption, OneCommand
  <2>2. \A a \in {"scores", "ranks"} : file'[a] = file[a] \/ on.at \in {"scores", a}
    BY <1>3, <1>6 DEF Artifacts
  <2>3. ChainUnderWay(on)
    BY <1>3, <1>4, <1>15 DEF ChainUnderWay
  <2>4. \A m : ChainUnderWay(m) /\ m.at = on.at => ChainUnderWay(m)'
    BY <1>5, <1>9, <2>2, ChainIsKept
  <2>5. ChainUnderWay(command[c])'
    BY <1>7, <2>3, <2>4
  <2> QED BY <2>1, <2>5
<1>16. ASSUME Cardinality(Materializers) = 1 PROVE ChainOfFiles'
  <2>1. ChainOfFiles /\ ChainUnderWay(me)
    BY <1>4, <1>16 DEF ChainInduction, ChainIsHonest
  <2>2. ASSUME file'["ranks"] \notin Missing
        PROVE  LET inputs == file'["ranks"].made.inputs
               IN  /\ file'["ranks"].fingerprint.inputs["scores"] \in {inputs["scores"], Garbage}
                   /\ SplitOf(inputs["scores"]) <= inputs["split"]
    <3>1. CASE k = "ranks"
      <4>1. "scores" \in Inputs(k) /\ "split" \in Inputs(k)
        BY <3>1 DEF Inputs
      <4> QED BY <1>2, <1>6, <2>1, <3>1, <4>1 DEF ChainUnderWay
    <3>2. CASE k # "ranks"
      <4>1. file'["ranks"] = file["ranks"]
        BY <1>6, <3>2 DEF Artifacts
      <4> QED BY <2>1, <2>2, <4>1 DEF ChainOfFiles
    <3> QED BY <3>1, <3>2
  <2>3. ASSUME file'["fit"] \notin Missing, NEW a \in {"scores", "ranks"}
        PROVE  file'["fit"].made.inputs[a] = file'["fit"].fingerprint.inputs[a]
    <3>1. CASE k = "fit"
      <4>1. a \in Inputs(k)
        BY <3>1 DEF Inputs
      <4> QED BY <1>2, <1>6, <2>1, <3>1, <4>1 DEF ChainUnderWay
    <3>2. CASE k # "fit"
      <4>1. file'["fit"] = file["fit"]
        BY <1>6, <3>2 DEF Artifacts
      <4> QED BY <2>1, <2>3, <4>1 DEF ChainOfFiles
    <3> QED BY <3>1, <3>2
  <2> QED BY <2>2, <2>3 DEF ChainOfFiles, SplitOf
<1>17. ChainIsHonest'
  BY <1>15, <1>16 DEF ChainIsHonest
<1> QED BY <1>8, <1>11, <1>13, <1>14, <1>17 DEF ChainInduction

\* The manifest ends the artifact.
LEMMA WriteManifestStep ==
    ASSUME ChainInduction, NEW c \in Materializers, WriteManifest(c)
    PROVE  ChainInduction'
<1> DEFINE me == command[c]
           k == me.at
           x == Product(c)
           new == AfterArtifact(k, me.definition)
<1>1. /\ Active(c) /\ Access(c).op = "manifest" /\ UNCHANGED <<file, definition, disturbances>>
      /\ manifest' = [manifest EXCEPT ![k] = x]
      /\ command' = [command EXCEPT ![c] = new]
  BY DEF WriteManifest, At
<1>2. k \in Artifacts /\ IsContentOf(k, x)
  BY <1>1, ProductIsMadeInOrder
<1>3. me.definition \in [Artifacts -> 1 .. MaxDefinition]
  BY <1>1, ActiveIsTracked DEF IsCommand
<1>4. new # Idle => IsCommand(new) /\ IsOnTrack(new) /\ ChainUnderWay(new)
  BY <1>2, <1>3, AfterArtifactIsOnTrack
<1>5. TypeOK /\ IsOn(file, Layers \cup Artifacts) /\ IsOn(command, Materializers)
      /\ IsOn(manifest, Artifacts)
  BY DEF ChainInduction
<1> HIDE DEF x, new, me
<1>6. command'[c] = new /\ \A d \in Materializers \ {c} : command'[d] = command[d]
  BY <1>1, <1>5 DEF IsOn
<1>7. IsOn(file, Layers \cup Artifacts)' /\ IsOn(command, Materializers)' /\ IsOn(manifest, Artifacts)'
  BY <1>1, <1>5 DEF IsOn
<1>8. \A a \in Artifacts : manifest'[a] = None \/ IsContentOf(a, manifest'[a])
  <2>1. manifest'[k] = x /\ \A a \in Artifacts \ {k} : manifest'[a] = manifest[a]
    BY <1>1, <1>2, <1>5 DEF IsOn
  <2> QED BY <1>2, <1>5, <2>1 DEF TypeOK
<1>9. ASSUME NEW d \in Materializers, command'[d] # Idle
      PROVE  /\ IsCommand(command'[d]) /\ IsOnTrack(command'[d])
             /\ Cardinality(Materializers) = 1 => ChainUnderWay(command'[d])
  <2>1. CASE d = c
    BY <1>4, <1>6, <1>9, <2>1
  <2>2. CASE d # c
    BY <1>6, <1>9, <2>2, ActiveIsTracked DEF Active
  <2> QED BY <2>1, <2>2
<1>10. TypeOK'
  BY <1>1, <1>5, <1>8, <1>9 DEF TypeOK, Active
<1>11. CommandsAreOnTrack'
  BY <1>1, <1>9 DEF CommandsAreOnTrack, Active, IsOnTrack, IsPast
<1>12. ArtifactsAreMadeInOrder'
  BY <1>1 DEF ChainInduction, ArtifactsAreMadeInOrder, IsMadeInOrder, IsPast
<1>13. ChainIsHonest'
  BY <1>1, <1>9 DEF ChainInduction, ChainIsHonest, ChainOfFiles, ChainUnderWay, Active, IsPast
<1> QED BY <1>7, <1>10, <1>11, <1>12, <1>13 DEF ChainInduction

-----------------------------------------------------------------------------
(***************************************************************************)
(* The steps of the environment.                                           *)
(***************************************************************************)
\* A file is replaced: the others stay.
LEMMA FileIsReplaced ==
    ASSUME ChainInduction, NEW f \in Layers \cup Artifacts, NEW v,
           file' = [file EXCEPT ![f] = v]
    PROVE  /\ IsOn(file, Layers \cup Artifacts)'
           /\ file'[f] = v
           /\ \A g \in (Layers \cup Artifacts) \ {f} : file'[g] = file[g]
<1>1. IsOn(file, Layers \cup Artifacts)
  BY DEF ChainInduction
<1> QED BY <1>1 DEF IsOn

\* No layer is an artifact.
LEMMA LayersAreNoArtifacts == Layers \cap Artifacts = {}
  BY DEF Layers, Artifacts

\* A layer is replaced by what comes after it, lost, or rebuilt as the last version.
LEMMA LayerStep ==
    ASSUME ChainInduction, NEW f \in Layers, NEW v,
           file' = [file EXCEPT ![f] = v],
           \/ v = None
           \/ file[f] \in 1 .. MaxVersion - 1 /\ v = file[f] + 1
           \/ v = MaxVersion,
           UNCHANGED <<manifest, definition, command>>,
           disturbances' \in 0 .. MaxDisturbances
    PROVE  ChainInduction'
<1>1. /\ IsOn(file, Layers \cup Artifacts)'
      /\ file'[f] = v
      /\ \A g \in (Layers \cup Artifacts) \ {f} : file'[g] = file[g]
  BY FileIsReplaced
<1>2. TypeOK /\ MaxVersion \in Nat \ {0}
  BY ConstantsAssumption DEF ChainInduction
<1>3. v \in Versions \cup {None}
  BY <1>2 DEF Versions
<1>4. \A g \in Layers : file'[g] \in Versions \cup {None}
  BY <1>1, <1>2, <1>3 DEF TypeOK
<1>5. LayersGrow
  BY <1>1, <1>2 DEF LayersGrow, Versions
<1>6. \A k \in Artifacts : file'[k] = file[k]
  BY <1>1, LayersAreNoArtifacts
<1>7. definition' \in [Artifacts -> 1 .. MaxDefinition]
  BY <1>2 DEF TypeOK
<1> QED BY <1>1, <1>4, <1>5, <1>6, <1>7, FileStep

\* A disturbance is counted.
LEMMA DisturbancesAreCounted ==
    ASSUME ChainInduction, Disturb
    PROVE  disturbances' \in 0 .. MaxDisturbances
  BY ConstantsAssumption DEF ChainInduction, TypeOK, Disturb

\* Whatever happens to the layers is such a step.
LEMMA LayersStep ==
    ASSUME ChainInduction, NEW f \in Layers, ReplaceLayer(f) \/ LoseLayer(f) \/ RestoreLayer(f)
    PROVE  ChainInduction'
<1>1. CASE ReplaceLayer(f)
  <2>1. /\ file' = [file EXCEPT ![f] = file[f] + 1] /\ file[f] \in 1 .. MaxVersion - 1
        /\ UNCHANGED <<manifest, definition, command>> /\ Disturb
    BY <1>1 DEF ReplaceLayer
  <2> QED BY <2>1, DisturbancesAreCounted, LayerStep
<1>2. CASE LoseLayer(f)
  <2>1. /\ file' = [file EXCEPT ![f] = None]
        /\ UNCHANGED <<manifest, definition, command>> /\ Disturb
    BY <1>2 DEF LoseLayer
  <2> QED BY <2>1, DisturbancesAreCounted, LayerStep
<1>3. CASE RestoreLayer(f)
  <2>1. /\ file' = [file EXCEPT ![f] = MaxVersion]
        /\ UNCHANGED <<manifest, definition, command>>
        /\ disturbances' \in 0 .. MaxDisturbances
    BY <1>3 DEF RestoreLayer, ChainInduction, TypeOK
  <2> QED BY <2>1, LayerStep
<1> QED BY <1>1, <1>2, <1>3

\* An edit of a definition leaves every file alone.
LEMMA EditDefinitionStep ==
    ASSUME ChainInduction, EditDefinition
    PROVE  ChainInduction'
<1>1. Disturb /\ UNCHANGED <<file, manifest, command>>
  BY DEF EditDefinition
<1>2. TypeOK /\ IsOn(file, Layers \cup Artifacts)
  BY DEF ChainInduction
<1>3. definition' \in [Artifacts -> 1 .. MaxDefinition]
  <2>1. PICK k \in Artifacts : /\ definition[k] < MaxDefinition
                               /\ definition' = [definition EXCEPT ![k] = @ + 1]
    BY DEF EditDefinition
  <2> QED BY <1>2, <2>1, ConstantsAssumption DEF TypeOK
<1>4. LayersGrow /\ IsOn(file, Layers \cup Artifacts)'
  BY <1>1, <1>2 DEF LayersGrow, IsOn
<1>5. \A f \in Layers : file'[f] \in Versions \cup {None}
  BY <1>1, <1>2 DEF TypeOK
<1> QED BY <1>1, <1>3, <1>4, <1>5, DisturbancesAreCounted, FileStep

\* An artifact that is damaged does not parse, or is gone.
LEMMA DamageArtifactStep ==
    ASSUME ChainInduction, NEW k \in Artifacts, DamageArtifact(k)
    PROVE  ChainInduction'
<1>1. PICK v \in Missing : file' = [file EXCEPT ![k] = v]
  BY DEF DamageArtifact
<1>2. Disturb /\ UNCHANGED <<manifest, definition, command>>
  BY DEF DamageArtifact
<1>3. /\ IsOn(file, Layers \cup Artifacts)'
      /\ file'[k] = v
      /\ \A g \in (Layers \cup Artifacts) \ {k} : file'[g] = file[g]
  BY <1>1, FileIsReplaced
<1>4. \A f \in Layers : file'[f] = file[f]
  BY <1>3, LayersAreNoArtifacts
<1>5. LayersGrow
  BY <1>4 DEF LayersGrow
<1>6. /\ \A f \in Layers : file'[f] \in Versions \cup {None}
      /\ definition' \in [Artifacts -> 1 .. MaxDefinition]
  BY <1>2, <1>4 DEF ChainInduction, TypeOK
<1>7. \A a \in Artifacts : file'[a] = file[a] \/ file'[a] \in Missing
  BY <1>1, <1>3
<1> QED BY <1>2, <1>3, <1>5, <1>6, <1>7, DisturbancesAreCounted, FileStep

\* A command that is killed is idle.
LEMMA KillStep ==
    ASSUME ChainInduction, NEW c \in Materializers, Kill(c)
    PROVE  ChainInduction'
<1>1. /\ command' = [command EXCEPT ![c] = Idle] /\ UNCHANGED <<file, manifest, definition>>
      /\ Disturb
  BY DEF Kill
<1> QED BY <1>1, DisturbancesAreCounted, CommandStep

-----------------------------------------------------------------------------
(***************************************************************************)
(* The theorems.                                                           *)
(***************************************************************************)
\* The first versions of the layers are there, and nothing was made of them.
LEMMA ChainInit == Init => ChainInduction
<1> SUFFICES ASSUME Init PROVE ChainInduction
  OBVIOUS
<1>1. /\ IsOn(file, Layers \cup Artifacts) /\ IsOn(manifest, Artifacts)
      /\ IsOn(command, Materializers)
  BY DEF Init, IsOn
<1>2. /\ \A f \in Layers : file[f] = 1
      /\ \A k \in Artifacts : file[k] = None /\ manifest[k] = None
      /\ \A c \in Materializers : ~Active(c)
  BY LayersAreNoArtifacts DEF Init, Active
<1>3. TypeOK
  BY <1>2, ConstantsAssumption DEF Init, TypeOK, Versions, Missing
<1>4. CommandsAreOnTrack
  BY <1>2 DEF CommandsAreOnTrack
<1>5. ArtifactsAreMadeInOrder
  BY <1>2 DEF ArtifactsAreMadeInOrder, Missing
<1>6. ChainIsHonest
  <2>1. file["ranks"] \in Missing /\ file["fit"] \in Missing
    BY <1>2 DEF Artifacts, Missing
  <2> QED BY <1>2, <2>1 DEF ChainIsHonest, ChainOfFiles
<1> QED BY <1>1, <1>3, <1>4, <1>5, <1>6 DEF ChainInduction

\* Every step of a command and of its environment preserves the invariant.
LEMMA ChainStep == ChainInduction /\ [Next]_vars => ChainInduction'
<1> SUFFICES ASSUME ChainInduction, [Next]_vars PROVE ChainInduction'
  OBVIOUS
<1>1. ASSUME NEW c \in Materializers, Start(c) \/ Step(c) PROVE ChainInduction'
  BY <1>1, StartStep, HashInputStep, ReadInputStep, InputIsMissingStep, CheckReuseStep,
     WriteArtifactStep, WriteManifestStep DEF Step
<1>2. ASSUME Environment PROVE ChainInduction'
  BY <1>2, LayersStep, EditDefinitionStep, DamageArtifactStep, KillStep DEF Environment
<1>3. CASE UNCHANGED vars
  <2> USE <1>3 DEF vars
  <2>1. IsOn(file, Layers \cup Artifacts)' /\ LayersGrow
    BY DEF ChainInduction, IsOn, LayersGrow
  <2>2. /\ \A f \in Layers : file'[f] \in Versions \cup {None}
        /\ definition' \in [Artifacts -> 1 .. MaxDefinition]
        /\ disturbances' \in 0 .. MaxDisturbances
    BY DEF ChainInduction, TypeOK
  <2> QED BY <2>1, <2>2, FileStep
<1> QED BY <1>1, <1>2, <1>3 DEF Next

\* Two sides of the same definition with the same inputs are the same.
LEMMA SidesAgree ==
    ASSUME NEW k, NEW x, IsContentOf(k, x), IsMadeInOrder(k, x),
           \A f \in Inputs(k) : x.made.inputs[f] = x.fingerprint.inputs[f]
    PROVE  x.made = x.fingerprint
<1>1. x.made.inputs = x.fingerprint.inputs
  <2> DEFINE a == x.made.inputs
             b == x.fingerprint.inputs
  <2>1. a = [f \in Inputs(k) |-> a[f]] /\ b = [f \in Inputs(k) |-> b[f]]
    BY DEF IsMadeInOrder, IsOn
  <2>2. \A f \in Inputs(k) : a[f] = b[f]
    OBVIOUS
  <2> HIDE DEF a, b
  <2>3. a = b
    BY <2>1, <2>2
  <2> QED BY <2>3 DEF a, b
<1>2. /\ x.made = [definition |-> x.made.definition, inputs |-> x.made.inputs]
      /\ x.fingerprint = [definition |-> x.fingerprint.definition, inputs |-> x.fingerprint.inputs]
      /\ x.made.definition = x.fingerprint.definition
  BY DEF IsContentOf, IsSide
<1> QED BY <1>1, <1>2

\* What an artifact that is kept names, and when it was made of it.
LEMMA KeptIsInOrder ==
    ASSUME ChainInduction, NEW k \in Artifacts, IsKept(k)
    PROVE  LET x == file[k]
           IN  /\ IsContentOf(k, x) /\ IsMadeInOrder(k, x)
               /\ \A f \in Inputs(k) : x.fingerprint.inputs[f] = file[f]
               /\ \A f \in Inputs(k) \cap Layers :
                    /\ file[f] \in Nat /\ x.made.inputs[f] \in Nat
                    /\ x.made.inputs[f] <= file[f]
                    /\ k # "ranks" => x.made.inputs[f] = file[f]
<1> DEFINE x == file[k]
<1>1. x \notin Missing
  BY DEF IsKept
<1>2. IsContentOf(k, x) /\ IsMadeInOrder(k, x)
  BY <1>1 DEF ChainInduction, TypeOK, ArtifactsAreMadeInOrder
<1>3. DOMAIN x.fingerprint.inputs = Inputs(k)
  BY <1>2 DEF IsMadeInOrder, IsOn
<1>4. \A f \in Inputs(k) : x.fingerprint.inputs[f] = file[f]
  BY <1>3 DEF IsKept
<1>5. ASSUME NEW f \in Inputs(k) \cap Layers
      PROVE  /\ file[f] \in Nat /\ x.made.inputs[f] \in Nat
             /\ x.made.inputs[f] <= file[f]
             /\ k # "ranks" => x.made.inputs[f] = file[f]
  <2>1. /\ IsPast(f, x.fingerprint.inputs[f]) /\ IsPast(f, x.made.inputs[f])
        /\ InOrder(k, x.fingerprint.inputs[f], x.made.inputs[f])
    BY <1>2 DEF IsMadeInOrder
  <2>2. x.fingerprint.inputs[f] = file[f]
    BY <1>4
  <2>3. file[f] \in Versions /\ file[f] # None
    BY <2>1, <2>2, ConstantsAssumption DEF IsPast, Versions
  <2> HIDE DEF x
  <2> QED BY <2>1, <2>2, <2>3 DEF IsPast, Versions, InOrder
<1> QED BY <1>2, <1>4, <1>5

\* Scores that would be kept were made of the layers as they are.
LEMMA ScoresAreFresh == ChainInduction => KeptScoresAreFresh
<1> SUFFICES ASSUME ChainInduction, IsKept("scores")
             PROVE  file["scores"].made = file["scores"].fingerprint
  BY DEF KeptScoresAreFresh
<1>1. "scores" \in Artifacts /\ Inputs("scores") = Layers
  BY InputsAreFiles DEF Artifacts
<1> DEFINE x == file["scores"]
<1>2. /\ IsContentOf("scores", x) /\ IsMadeInOrder("scores", x)
      /\ \A f \in Inputs("scores") : x.made.inputs[f] = x.fingerprint.inputs[f]
  BY <1>1, KeptIsInOrder
<1> HIDE DEF x
<1>3. x.made = x.fingerprint
  BY <1>2, SidesAgree
<1> QED BY <1>3 DEF x

\* With one command a chain that would be kept was made of what is there.
LEMMA ChainIsFresh == ChainInduction => KeptChainIsFresh
<1> SUFFICES ASSUME ChainInduction, Cardinality(Materializers) = 1,
                    \A k \in Artifacts : IsKept(k)
             PROVE  \A k \in Artifacts : file[k].made = file[k].fingerprint
  BY DEF KeptChainIsFresh
<1>1. ChainOfFiles
  BY DEF ChainInduction, ChainIsHonest
<1>2. \A k \in Artifacts : file[k] \notin Missing
  BY DEF IsKept
<1>3. /\ "scores" \in Artifacts /\ "ranks" \in Artifacts /\ "fit" \in Artifacts
      /\ "split" \in Layers
      /\ Inputs("scores") = Layers /\ Inputs("ranks") = {"scores", "split"}
      /\ Inputs("fit") = {"scores", "ranks", "split"}
  BY InputsAreFiles DEF Artifacts, Layers
<1>4. file["scores"].made = file["scores"].fingerprint
  BY <1>3, ScoresAreFresh DEF KeptScoresAreFresh
<1> DEFINE ranks == file["ranks"]
           fit == file["fit"]
<1>5. /\ IsContentOf("ranks", ranks) /\ IsMadeInOrder("ranks", ranks)
      /\ ranks.fingerprint.inputs["scores"] = file["scores"]
      /\ ranks.fingerprint.inputs["split"] = file["split"]
      /\ ranks.made.inputs["split"] \in Nat /\ file["split"] \in Nat
      /\ ranks.made.inputs["split"] <= file["split"]
  BY <1>3, KeptIsInOrder
<1>6. SplitOf(file["scores"]) = file["split"]
  BY <1>3, KeptIsInOrder DEF SplitOf
<1>7. ranks.made.inputs["scores"] = file["scores"]
      /\ SplitOf(file["scores"]) <= ranks.made.inputs["split"]
  BY <1>1, <1>2, <1>3, <1>5 DEF ChainOfFiles, Missing
<1>8. /\ IsContentOf("fit", fit) /\ IsMadeInOrder("fit", fit)
      /\ fit.fingerprint.inputs["split"] = file["split"]
      /\ fit.made.inputs["split"] = file["split"]
  BY <1>3, KeptIsInOrder
<1>9. \A k \in {"scores", "ranks"} : fit.made.inputs[k] = fit.fingerprint.inputs[k]
  BY <1>1, <1>2, <1>3 DEF ChainOfFiles
<1> HIDE DEF ranks, fit
<1>10. ranks.made = ranks.fingerprint
  <2>1. \A f \in Inputs("ranks") : ranks.made.inputs[f] = ranks.fingerprint.inputs[f]
    BY <1>3, <1>5, <1>6, <1>7
  <2> QED BY <1>5, <2>1, SidesAgree
<1>11. fit.made = fit.fingerprint
  <2>1. \A f \in Inputs("fit") : fit.made.inputs[f] = fit.fingerprint.inputs[f]
    BY <1>3, <1>8, <1>9
  <2> QED BY <1>8, <2>1, SidesAgree
<1> QED BY <1>4, <1>10, <1>11 DEF Artifacts, ranks, fit

\* What commands hash and read of the layers is of the past and in the order they do it,
\* through all replacements, damage, kills and repetitions; and one command derives each
\* artifact of the chain from what it names.
THEOREM ChainInductionHolds == Spec => []ChainInduction
<1> QED BY ChainInit, ChainStep, PTL DEF Spec

\* Scores that would be kept were made of the layers as they are, however many commands
\* overlap; and with one command all of a chain that would be kept was.
THEOREM ChainInvariantHolds == Spec => []ChainInvariant
<1>1. ChainInduction => ChainInvariant
  BY ScoresAreFresh, ChainIsFresh DEF ChainInduction, ChainInvariant
<1> QED BY <1>1, ChainInductionHolds, PTL
=============================================================================

------------------------------ MODULE Scalability ------------------------------
(***************************************************************************)
(* The coalition-scalability experiment: for each number of clients it      *)
(* times the scoring over the confirmatory seeds, keeps the measurements    *)
(* of a seed beside a cell record, and writes an aggregate from all seeds.  *)
(* A rerun takes the measurements of the seeds that are kept.               *)
(*                                                                          *)
(* What a seed file holds is identified by what it was measured under (the  *)
(* material and semantics of the command, the machine) and by the timing    *)
(* itself, which comes out differently each time.  A hash is the content.   *)
(***************************************************************************)
EXTENDS Naturals, Sequences

CONSTANTS
    ClientCounts,   \* robustness.scalability_client_counts, a sequence
    Seeds,          \* the confirmatory timing seeds, a sequence
    Machines,       \* bound: timing environments
    Materials,      \* bound: configurations, as far as they are material
    Semantics,      \* bound: versions of the harness semantics
    Timings,        \* bound: outcomes of a measurement
    None,
    MaxUpsets       \* bound: kills, edits, moves and losses

ASSUME ScalabilityAssumption ==
    /\ Len(ClientCounts) \in Nat \ {0} /\ DOMAIN ClientCounts = 1 .. Len(ClientCounts)
    /\ Len(Seeds) \in Nat \ {0} /\ DOMAIN Seeds = 1 .. Len(Seeds)
    /\ None \notin Machines
    /\ MaxUpsets \in Nat

VARIABLES
    environment,    \* timing_environment.json
    seedFile,       \* the measurements of a client count and seed
    cellRecord,     \* the cell record beside them
    aggregate,      \* what the aggregate of a client count was computed from
    runRecord,      \* what the run was completed under
    command,        \* the command that runs, if any
    intended,       \* what the configuration and the code are now
    machine,        \* where the next command runs
    upsets

harnessVars ==
    <<environment, seedFile, cellRecord, aggregate, runRecord, command, intended, machine, upsets>>

Cells == (DOMAIN ClientCounts) \X (DOMAIN Seeds)

Intentions == [material: Materials, semantic: Semantics]

Payloads == [material: Materials, machine: Machines, timing: Timings]

Records == [material: Materials, semantic: Semantics, hash: Payloads]

NoCommand == [pc |-> "idle"]

Running ==
    [pc: {"environment", "seed", "cell", "aggregate", "publish"},
     count: DOMAIN ClientCounts, seed: DOMAIN Seeds,
     collected: UNION {[1 .. n -> Payloads] : n \in 0 .. Len(Seeds)},
     of: Intentions, on: Machines]

HarnessTypeOK ==
    /\ environment \in Machines \cup {None}
    /\ seedFile \in [Cells -> Payloads \cup {None}]
    /\ cellRecord \in [Cells -> Records \cup {None}]
    /\ DOMAIN aggregate = DOMAIN ClientCounts
    /\ runRecord \in Intentions \cup {None}
    /\ command = NoCommand \/ command \in Running
    /\ intended \in Intentions
    /\ machine \in Machines
    /\ upsets \in 0 .. MaxUpsets

HarnessInit ==
    /\ environment = None
    /\ seedFile = [c \in Cells |-> None]
    /\ cellRecord = [c \in Cells |-> None]
    /\ aggregate = [k \in DOMAIN ClientCounts |-> None]
    /\ runRecord = None
    /\ command = NoCommand
    /\ intended \in Intentions
    /\ machine \in Machines
    /\ upsets = 0
-----------------------------------------------------------------------------
\* A cell whose output is what its record says.
IsIntact(c) ==
    cellRecord[c] # None /\ seedFile[c] = cellRecord[c].hash

\* The run is reused as a whole.
RunIsReusable ==
    /\ runRecord = intended
    /\ \E c \in Cells : cellRecord[c] # None
    /\ \A c \in Cells : cellRecord[c] # None =>
        /\ IsIntact(c)
        /\ cellRecord[c].material = intended.material
        /\ cellRecord[c].semantic = intended.semantic

\* Mutant: any intact cell is reused, whatever it was measured under.
AnyIntactSeed(c) == IsIntact(c)

\* A seed is reused: its semantics are not compared.
SeedIsReusable(c) ==
    IsIntact(c) /\ cellRecord[c].material = command.of.material

Cell == <<command.count, command.seed>>

Collect(payload) ==
    command' = [command EXCEPT
        !.pc = IF command.seed < Len(Seeds) THEN "seed" ELSE "aggregate",
        !.seed = IF command.seed < Len(Seeds) THEN command.seed + 1 ELSE command.seed,
        !.collected = Append(command.collected, payload)]

\* --overwrite runs the harness again and goes no further than that.
Start(overwrite) ==
    /\ command = NoCommand
    /\ overwrite \/ ~RunIsReusable
    /\ command' = [pc |-> "environment", count |-> 1, seed |-> 1, collected |-> <<>>,
                   of |-> intended, on |-> machine]
    /\ UNCHANGED <<environment, seedFile, cellRecord, aggregate, runRecord, intended, machine, upsets>>

\* Mutant: the environment on record is not compared with that of the command.
TakeEnvironment ==
    /\ command.pc = "environment"
    /\ environment' = IF environment = None THEN command.on ELSE environment
    /\ command' = [command EXCEPT !.pc = "seed"]
    /\ UNCHANGED <<seedFile, cellRecord, aggregate, runRecord, intended, machine, upsets>>

\* The first command fixes the environment; in another one the command fails.
CheckEnvironment ==
    /\ command.pc = "environment"
    /\ environment' = IF environment = None THEN command.on ELSE environment
    /\ command' = IF environment' = command.on THEN [command EXCEPT !.pc = "seed"] ELSE NoCommand
    /\ UNCHANGED <<seedFile, cellRecord, aggregate, runRecord, intended, machine, upsets>>

\* Mutant: the next seed is taken up without collecting this one.
SkipSeed ==
    /\ command.pc = "seed"
    /\ SeedIsReusable(Cell)
    /\ command' = [command EXCEPT
        !.pc = IF command.seed < Len(Seeds) THEN "seed" ELSE "aggregate",
        !.seed = IF command.seed < Len(Seeds) THEN command.seed + 1 ELSE command.seed]
    /\ UNCHANGED <<environment, seedFile, cellRecord, aggregate, runRecord, intended, machine, upsets>>

ReuseSeed ==
    /\ command.pc = "seed"
    /\ SeedIsReusable(Cell)
    /\ Collect(seedFile[Cell])
    /\ UNCHANGED <<environment, seedFile, cellRecord, aggregate, runRecord, intended, machine, upsets>>

MeasureSeed ==
    /\ command.pc = "seed"
    /\ ~SeedIsReusable(Cell)
    /\ \E timing \in Timings :
        seedFile' = [seedFile EXCEPT ![Cell] =
            [material |-> command.of.material, machine |-> command.on, timing |-> timing]]
    /\ command' = [command EXCEPT !.pc = "cell"]
    /\ UNCHANGED <<environment, cellRecord, aggregate, runRecord, intended, machine, upsets>>

WriteCell ==
    /\ command.pc = "cell"
    /\ cellRecord' = [cellRecord EXCEPT ![Cell] =
        [material |-> command.of.material, semantic |-> command.of.semantic, hash |-> seedFile[Cell]]]
    /\ Collect(seedFile[Cell])
    /\ UNCHANGED <<environment, seedFile, aggregate, runRecord, intended, machine, upsets>>

\* Mutant: the measurements are collected across the client counts.
AggregateKeepingAll ==
    /\ command.pc = "aggregate"
    /\ aggregate' = [aggregate EXCEPT ![command.count] = command.collected]
    /\ command' =
        IF command.count < Len(ClientCounts)
        THEN [command EXCEPT !.pc = "seed", !.count = command.count + 1, !.seed = 1]
        ELSE [command EXCEPT !.pc = "publish"]
    /\ UNCHANGED <<environment, seedFile, cellRecord, runRecord, intended, machine, upsets>>

WriteAggregate ==
    /\ command.pc = "aggregate"
    /\ aggregate' = [aggregate EXCEPT ![command.count] = command.collected]
    /\ command' =
        IF command.count < Len(ClientCounts)
        THEN [command EXCEPT !.pc = "seed", !.count = command.count + 1, !.seed = 1, !.collected = <<>>]
        ELSE [command EXCEPT !.pc = "publish", !.collected = <<>>]
    /\ UNCHANGED <<environment, seedFile, cellRecord, runRecord, intended, machine, upsets>>

Publish ==
    /\ command.pc = "publish"
    /\ runRecord' = command.of
    /\ command' = NoCommand
    /\ UNCHANGED <<environment, seedFile, cellRecord, aggregate, intended, machine, upsets>>

Upset ==
    /\ upsets < MaxUpsets
    /\ upsets' = upsets + 1
    /\ UNCHANGED <<environment, cellRecord, aggregate, runRecord>>

\* A kill, or a measurement that fails more often than it is retried.
KillCommand ==
    /\ command # NoCommand
    /\ command' = NoCommand
    /\ Upset
    /\ UNCHANGED <<seedFile, intended, machine>>

Edit ==
    /\ \E i \in Intentions \ {intended} : intended' = i
    /\ Upset
    /\ UNCHANGED <<seedFile, command, machine>>

Move ==
    /\ \E m \in Machines \ {machine} : machine' = m
    /\ Upset
    /\ UNCHANGED <<seedFile, command, intended>>

LoseSeedFile ==
    /\ command = NoCommand
    /\ \E c \in Cells : seedFile[c] # None /\ seedFile' = [seedFile EXCEPT ![c] = None]
    /\ Upset
    /\ UNCHANGED <<command, intended, machine>>

Progress ==
    \/ CheckEnvironment
    \/ ReuseSeed
    \/ MeasureSeed
    \/ WriteCell
    \/ WriteAggregate
    \/ Publish

HarnessNext ==
    \/ \E overwrite \in BOOLEAN : Start(overwrite)
    \/ Progress
    \/ KillCommand
    \/ Edit
    \/ Move
    \/ LoseSeedFile

HarnessSpec == HarnessInit /\ [][HarnessNext]_harnessVars

\* A command that runs goes on, and one is started again while there is something to do.
FairHarnessSpec == HarnessSpec /\ WF_harnessVars(Progress) /\ WF_harnessVars(Start(FALSE))
-----------------------------------------------------------------------------
(***************************************************************************)
(* The inductive invariant: the environment of the measurements and of the *)
(* command is the one on record, and what the command has collected and    *)
(* aggregated so far is what the files hold.                               *)
(***************************************************************************)
EnvironmentIsFixed ==
    /\ \A c \in Cells : seedFile[c] # None =>
            environment # None /\ seedFile[c].machine = environment
    /\ command.pc \notin {"idle", "environment"} => environment = command.on

\* The command has collected the measurements of the first n seeds of its client count.
HasCollected(n) ==
    /\ command.collected \in Seq(Payloads) /\ Len(command.collected) = n
    /\ \A s \in 1 .. n :
        /\ command.collected[s] = seedFile[<<command.count, s>>]
        /\ command.collected[s].material = command.of.material

CollectionIsCurrent ==
    /\ command.pc = "environment" => command.count = 1 /\ command.seed = 1 /\ HasCollected(0)
    /\ command.pc \in {"seed", "cell"} => HasCollected(command.seed - 1)
    /\ command.pc = "aggregate" => HasCollected(Len(Seeds))

\* The measurements of a seed lie in its file until its cell record is written, and the
\* record is of the configuration they were made under.
MeasurementIsKept ==
    /\ command.pc = "cell" =>
            seedFile[Cell] \in Payloads /\ seedFile[Cell].material = command.of.material
    /\ \A c \in Cells : cellRecord[c] # None => cellRecord[c].hash.material = cellRecord[c].material

\* The aggregate of a client count is over the measurements of every seed that the files
\* hold, and all of them are of the configuration of the command.
IsWhole(k) ==
    /\ aggregate[k] = [s \in DOMAIN Seeds |-> seedFile[<<k, s>>]]
    /\ \A s \in DOMAIN Seeds : aggregate[k][s].material = command.of.material

AggregatesAreWhole ==
    command.pc # "idle" =>
        \A k \in DOMAIN ClientCounts : k < command.count \/ command.pc = "publish" => IsWhole(k)

HarnessInvariant ==
    EnvironmentIsFixed /\ CollectionIsCurrent /\ MeasurementIsKept /\ AggregatesAreWhole
-----------------------------------------------------------------------------
\* All measurements are of one environment, however the harness was interrupted, moved
\* and taken up again: p95 latencies of two machines are never pooled.
OneTimingEnvironment ==
    \A c \in Cells : seedFile[c] # None => seedFile[c].machine = environment

\* The state of the harness has its type and its measurements one environment.
HarnessSafety == HarnessTypeOK /\ OneTimingEnvironment

\* A run is completed when each aggregate is over the measurements of every seed, those
\* the files hold, and over none of another configuration.
PublishedAggregatesAreWhole ==
    command.pc = "publish" =>
        \A k \in DOMAIN ClientCounts : IsWhole(k)

\* What the harness keeps although the code has changed.
OutdatedSeeds ==
    {c \in Cells : IsIntact(c) /\ cellRecord[c].material = intended.material
                               /\ cellRecord[c].semantic # intended.semantic}

\* Repeating the command completes a run that is accepted as it is, unless the machine is
\* not the one the experiment began on or seeds of an earlier version are kept.
HarnessConverges ==
    <>[](environment = machine /\ OutdatedSeeds = {} => RunIsReusable)
=============================================================================

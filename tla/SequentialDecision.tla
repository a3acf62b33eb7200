-------------------------- MODULE SequentialDecision --------------------------
(***************************************************************************)
(* The sequential decision (emhi/evidence.py, emhi/sequential.py,          *)
(* emhi/thresholds.py, detection.py, evaluation/sequential.py,             *)
(* evaluation/metrics.py): evidence of coalitions accumulates into a       *)
(* global statistic, a threshold is calibrated on benign horizons, and a   *)
(* campaign is replayed against that threshold and the local policies.     *)
(*                                                                         *)
(* The reported stops are computed from a whole window                     *)
(* (sequential_trajectory, global_stop_epoch, local_stop_epochs); the loop *)
(* whose latency is measured carries the same state from epoch to epoch    *)
(* (advance_operational_epoch).  Both are here.                            *)
(*                                                                         *)
(* An atom is one signed number, or Abstained where the coalition has no   *)
(* context, cell or rank at that epoch.  Evidence is in fixed point.       *)
(***************************************************************************)
EXTENDS CampaignParameters, SequencesExt, FiniteSetsExt

CONSTANTS Coalitions,          \* sets of clients, the coalition fits
          MaximumOrder,        \* study.maximum_coalition_order
          Atoms,               \* the atoms a coalition may have at an epoch
          Abstained, None,
          Candidates,          \* evidence...threshold_candidates, times One
          AllowedFalseStops,   \* the largest count whose upper bound meets target_pfa
          TrailingWindow,      \* distributed_support.trailing_window_epochs
          Policies,            \* of the clients that have one: [required, window]
          HorizonCount         \* calibration horizons

ASSUME DecisionAssumption ==
    /\ Coalitions \subseteq SUBSET Clients /\ {} \notin Coalitions
    /\ Atoms \subseteq Int /\ Abstained \notin Int
    /\ Candidates \subseteq Nat /\ None \notin Nat
    /\ {MaximumOrder, TrailingWindow, HorizonCount} \subseteq Nat \ {0}
    /\ AllowedFalseStops \in Nat
    /\ DOMAIN Policies \subseteq Clients
    /\ \A c \in DOMAIN Policies :
         Policies[c].required \in Nat \ {0} /\ Policies[c].window \in Nat \ {0}

VARIABLES phase,        \* "calibrating" or "replaying"
          trajectory,   \* of the current window: per epoch its atoms and evidence
          falseStops,   \* per candidate, of the horizons counted so far
          horizons,     \* number of horizons counted so far
          threshold,    \* the calibrated threshold, or None
          exceedances,  \* per client with a policy, of the replayed epochs
          online        \* what the epoch-by-epoch loop carries

vars == <<phase, trajectory, falseStops, horizons, threshold, exceedances, online>>

-----------------------------------------------------------------------------
(* Evidence of one epoch. *)

\* The number one, in fixed point.
One == 8

\* material_coalition_evidence_threshold is 1.25.
Material == 10

Zero == [sum |-> 0, count |-> 0]

AdvanceSum(previous, atom) ==
    [sum |-> previous.sum + atom, count |-> previous.count + 1]

\* The evidence factor exp(X/2 - 1/8) at the clipped statistic X of the norm
\* |sum| / sqrt(count): three of its values, in the order of the norm.
EvidenceFactor(state) ==
    IF state.sum * state.sum >= 4 * state.count THEN 12
    ELSE IF state.sum * state.sum >= state.count THEN 7 ELSE 4

\* The aggregate of the factors of an order, and of the orders.
Mean(values) == SumFunction(values) \div Cardinality(DOMAIN values)

Eligible == {A \in Coalitions : Cardinality(A) <= MaximumOrder}

\* The evidence of an epoch and the sums after it.  A coalition that abstains
\* is neither scored nor kept in the sums.
OperationalEvidence(atom, sums) ==
    LET resolved == {A \in Eligible : atom[A] # Abstained}
        previous(A) == IF A \in DOMAIN sums THEN sums[A] ELSE Zero
        updated == [A \in resolved |-> AdvanceSum(previous(A), atom[A])]
        factor == [A \in resolved |-> EvidenceFactor(updated[A])]
        withinOrder(r) ==
            LET members == {A \in resolved : Cardinality(A) = r}
            IN  IF members = {} THEN One ELSE Mean(Restrict(factor, members))
    IN  [global |-> Mean([r \in 1..MaximumOrder |-> withinOrder(r)]),
         active |-> UNION {A \in resolved : factor[A] >= Material},
         sums   |-> updated]

NextGlobalState(state, factor) == ((state + One) * factor) \div One

LastOf(seq, n) == SubSeq(seq, IF Len(seq) > n THEN Len(seq) - n + 1 ELSE 1, Len(seq))

\* Mutant: the window reaches back one epoch more.
WindowClientsOneMore(history) == UNION Range(LastOf(history, TrailingWindow + 1))

\* The clients of materially active coalitions in the trailing window.
WindowClients(history) == UNION Range(LastOf(history, TrailingWindow))

SupportPredicate(history) == Cardinality(WindowClients(history)) >= MinimumClients

-----------------------------------------------------------------------------
(* The stops of a whole window. *)

\* One more epoch of a trajectory, with the sums of the epoch before it.
Extended(atom) ==
    LET sums == IF trajectory = <<>> THEN <<>> ELSE Last(trajectory).sums
        evidence == OperationalEvidence(atom, sums)
    IN  Append(trajectory, [atom   |-> atom,
                            global |-> evidence.global,
                            active |-> evidence.active,
                            sums   |-> evidence.sums])

Histories(records) == [t \in DOMAIN records |-> [i \in 1..t |-> records[i].active]]

\* The global statistic after each epoch.
GlobalStates(records) ==
    LET state[t \in DOMAIN records] ==
            NextGlobalState(IF t = 1 THEN 0 ELSE state[t - 1], records[t].global)
    IN  state

FirstOf(positions) == IF positions = {} THEN None ELSE Min(positions)

\* The first epoch that meets the threshold and the support predicate.
GlobalStop(records, h) ==
    LET states == GlobalStates(records)
        histories == Histories(records)
    IN  FirstOf({t \in DOMAIN records : states[t] >= h /\ SupportPredicate(histories[t])})

PersistenceIsTriggered(seen, policy) ==
    LET examined == LastOf(seen, policy.window)
    IN  Cardinality({i \in DOMAIN examined : examined[i]}) >= policy.required

\* Mutant: the policy is looked for at the end of what was seen only.
LocalStopAtTheEnd(seen, policy) ==
    IF PersistenceIsTriggered(seen, policy) THEN Len(seen) ELSE None

\* The first epoch at which the exceedances so far trigger the policy.
LocalStop(seen, policy) ==
    FirstOf({t \in DOMAIN seen : PersistenceIsTriggered(SubSeq(seen, 1, t), policy)})

EarliestLocalStop ==
    FirstOf({LocalStop(exceedances[c], Policies[c]) : c \in DOMAIN Policies} \ {None})

\* Mutant: a tie counts as a lead.
TieOdi(globalStop, earliestLocal) ==
    IF globalStop = None THEN 0
    ELSE IF earliestLocal = None THEN 1
    ELSE IF globalStop <= earliestLocal THEN 1 ELSE 0

StrictOdi(globalStop, earliestLocal) ==
    IF globalStop = None THEN 0
    ELSE IF earliestLocal = None THEN 1
    ELSE IF globalStop < earliestLocal THEN 1 ELSE 0

-----------------------------------------------------------------------------
(* The epoch-by-epoch loop. *)

OnlineStart == [sums |-> <<>>, state |-> 0, history |-> <<>>, stopped |-> <<>>]

\* Mutant: the sums are not handed to the next epoch.
AdvanceWithoutSums(atom) ==
    LET record == OperationalEvidence(atom, <<>>)
        history == Append(online.history, record.active)
        state == NextGlobalState(online.state, record.global)
    IN  [sums    |-> record.sums,
         state   |-> state,
         history |-> history,
         stopped |-> Append(online.stopped, state >= threshold /\ SupportPredicate(history))]

AdvanceOperationalEpoch(atom) ==
    LET record == OperationalEvidence(atom, online.sums)
        history == Append(online.history, record.active)
        state == NextGlobalState(online.state, record.global)
    IN  [sums    |-> record.sums,
         state   |-> state,
         history |-> history,
         stopped |-> Append(online.stopped, state >= threshold /\ SupportPredicate(history))]

-----------------------------------------------------------------------------
(* Calibration and replay. *)

EpochAtoms == [Coalitions -> Atoms \cup {Abstained}]

Init ==
    /\ phase = "calibrating"
    /\ trajectory = <<>>
    /\ falseStops = [h \in Candidates |-> 0]
    /\ horizons = 0
    /\ threshold = None
    /\ exceedances = [c \in DOMAIN Policies |-> <<>>]
    /\ online = OnlineStart

\* An epoch of a benign calibration horizon.
ScoreBenignEpoch(atom) ==
    /\ phase = "calibrating"
    /\ horizons < HorizonCount
    /\ Len(trajectory) < Horizon
    /\ trajectory' = Extended(atom)
    /\ UNCHANGED <<phase, falseStops, horizons, threshold, exceedances, online>>

\* A finished horizon is counted for each candidate that stops in it; the next
\* one begins with no state of it.
CountFalseStops ==
    /\ phase = "calibrating"
    /\ Len(trajectory) = Horizon
    /\ falseStops' = [h \in Candidates |->
                        falseStops[h] + IF GlobalStop(trajectory, h) = None THEN 0 ELSE 1]
    /\ horizons' = horizons + 1
    /\ trajectory' = <<>>
    /\ UNCHANGED <<phase, threshold, exceedances, online>>

\* Mutant: the last of the ordered candidates that passes is taken.
SelectLargestThreshold ==
    LET passing == {h \in Candidates : falseStops[h] <= AllowedFalseStops}
    IN  IF passing = {} THEN None ELSE Max(passing)

\* The smallest candidate whose false stops are few enough, if there is one.
SelectCalibratedThreshold ==
    FirstOf({h \in Candidates : falseStops[h] <= AllowedFalseStops})

FixOperatingPoint ==
    /\ phase = "calibrating"
    /\ horizons = HorizonCount
    /\ threshold' = SelectCalibratedThreshold
    /\ phase' = "replaying"
    /\ UNCHANGED <<trajectory, falseStops, horizons, exceedances, online>>

\* An epoch of a replayed campaign.  Without a threshold there is nothing to
\* time and the campaign never stops.
ReplayEpoch(atom, exceeds) ==
    /\ phase = "replaying"
    /\ Len(trajectory) < Horizon
    /\ trajectory' = Extended(atom)
    /\ exceedances' = [c \in DOMAIN Policies |-> Append(exceedances[c], exceeds[c])]
    /\ online' = IF threshold = None THEN online ELSE AdvanceOperationalEpoch(atom)
    /\ UNCHANGED <<phase, falseStops, horizons, threshold>>

Next ==
    \/ \E atom \in EpochAtoms : ScoreBenignEpoch(atom)
    \/ CountFalseStops
    \/ FixOperatingPoint
    \/ \E atom \in EpochAtoms, exceeds \in [DOMAIN Policies -> BOOLEAN] :
            ReplayEpoch(atom, exceeds)

Spec == Init /\ [][Next]_vars

-----------------------------------------------------------------------------
(* Properties. *)

TypeOK ==
    /\ phase \in {"calibrating", "replaying"}
    /\ Len(trajectory) <= Horizon /\ \A t \in DOMAIN trajectory : trajectory[t].atom \in EpochAtoms
    /\ horizons \in 0..HorizonCount
    /\ falseStops \in [Candidates -> 0..horizons]
    /\ threshold \in Candidates \cup {None}
    /\ \A c \in DOMAIN Policies : Len(exceedances[c]) =
            IF phase = "replaying" THEN Len(trajectory) ELSE 0
    /\ DOMAIN online.sums \subseteq Eligible
    /\ Len(online.history) = Len(online.stopped)
    /\ Len(online.history) = IF threshold = None THEN 0 ELSE Len(trajectory)

CampaignStop == IF threshold = None THEN None ELSE GlobalStop(trajectory, threshold)

CampaignOdi == StrictOdi(CampaignStop, EarliestLocalStop)

\* The loop whose latency is reported decides as the trajectory whose stops
\* are reported does, although it only carries its sums, statistic and active
\* clients from epoch to epoch.
OnlineAgreesWithTrajectory ==
    threshold # None =>
        FirstOf({t \in DOMAIN online.stopped : online.stopped[t]}) = CampaignStop

\* The smallest candidate that passes separates the candidates: all below it
\* make too many false stops and none above it does, because a higher
\* threshold never stops a horizon that a lower one does not.
CalibratedThresholdIsSharp ==
    phase = "replaying" =>
        \A h \in Candidates :
            falseStops[h] <= AllowedFalseStops <=> threshold # None /\ h >= threshold

\* The coalition was scored at the epoch and its evidence was material.
MaterialAt(A, t) ==
    /\ A \in DOMAIN trajectory[t].sums
    /\ EvidenceFactor(trajectory[t].sums[A]) >= Material

\* A stop has enough clients behind it, each in a coalition that was
\* materially active in the trailing window of the stop: evidence of a single
\* client, or old evidence, only ever delays a stop.
StopIsSupported ==
    CampaignStop # None =>
        LET window == {t \in 1..CampaignStop : t > CampaignStop - TrailingWindow}
            behind == {c \in Clients : \E A \in Eligible, t \in window :
                                          c \in A /\ MaterialAt(A, t)}
        IN  Cardinality(behind) >= MinimumClients

\* A client's policy is met at an epoch: enough of the epochs up to it exceed.
Burst(c, t) ==
    Cardinality({i \in 1..t : i > t - Policies[c].window /\ exceedances[c][i]})
        >= Policies[c].required

\* Strict outside detection means that no local policy is met until after the
\* global stop; a tie is not a lead.
StrictOdiIsStrict ==
    CampaignOdi = 1 =>
        /\ CampaignStop # None
        /\ \A c \in DOMAIN Policies, t \in 1..CampaignStop : ~Burst(c, t)

\* Stops that were made and a lead that was won are there after the step.
VerdictsStay ==
    phase = "replaying" =>
        /\ CampaignStop # None => CampaignStop' = CampaignStop
        /\ CampaignOdi = 1 => CampaignOdi' = 1
        /\ \A c \in DOMAIN Policies :
             LocalStop(exceedances[c], Policies[c]) # None =>
                LocalStop(exceedances'[c], Policies[c]) = LocalStop(exceedances[c], Policies[c])

\* What later epochs bring never changes a stop that was made or a lead that
\* was won: the replay of a longer horizon extends that of a shorter one.
VerdictsAreFinal == [][VerdictsStay]_vars

\* What holds of every verdict on the way: a stop is supported, a lead is strict.
DecisionInvariant ==
    /\ TypeOK
    /\ StopIsSupported
    /\ StrictOdiIsStrict

-----------------------------------------------------------------------------
(***************************************************************************)
(* The inductive invariant: what the properties rest on that one step      *)
(* hands to the next.                                                      *)
(***************************************************************************)
Sums == UNION {[scored -> [sum : Int, count : Nat]] : scored \in SUBSET Eligible}

EpochRecords == [atom : EpochAtoms, global : Int, active : SUBSET Clients, sums : Sums]

\* What the properties read of the state, with the sets its values are in.
StateIsTyped ==
    /\ trajectory \in Seq(EpochRecords)
    /\ exceedances \in [DOMAIN Policies -> Seq(BOOLEAN)]
    /\ online \in [sums : Sums, state : Int, history : Seq(SUBSET Clients), stopped : Seq(BOOLEAN)]

\* Where a trajectory ends, for the epoch that comes next.
LastSums(records) == IF records = <<>> THEN <<>> ELSE Last(records).sums
LastState(records) == IF records = <<>> THEN 0 ELSE GlobalStates(records)[Len(records)]

\* The active clients of an epoch are those of its materially active coalitions.
ActiveIsMaterial ==
    \A t \in DOMAIN trajectory :
        trajectory[t].active = UNION {A \in Eligible : MaterialAt(A, t)}

\* No epoch is left over when the last horizon is counted, and there is no
\* threshold before that.
CalibrationComesFirst ==
    phase = "calibrating" =>
        /\ threshold = None
        /\ horizons = HorizonCount => trajectory = <<>>

\* A higher candidate never stops more horizons than a lower one.
FalseStopsFall ==
    \A h, k \in Candidates : h <= k => falseStops[k] <= falseStops[h]

ThresholdIsSelected == phase = "replaying" => threshold = SelectCalibratedThreshold

\* The loop carries the end of the trajectory: its sums, its statistic and the
\* active clients of all its epochs; it has decided each epoch by the two
\* conditions of a global stop.  Without a threshold it has not begun.
OnlineFollows ==
    /\ threshold = None => online = OnlineStart
    /\ threshold # None =>
        /\ online.sums = LastSums(trajectory)
        /\ online.state = LastState(trajectory)
        /\ online.history = [t \in DOMAIN trajectory |-> trajectory[t].active]
        /\ \A t \in DOMAIN trajectory :
             online.stopped[t] <=> /\ GlobalStates(trajectory)[t] >= threshold
                                   /\ SupportPredicate(Histories(trajectory)[t])

DecisionInduction ==
    /\ TypeOK
    /\ StateIsTyped
    /\ ActiveIsMaterial
    /\ CalibrationComesFirst
    /\ FalseStopsFall
    /\ ThresholdIsSelected
    /\ OnlineFollows
=============================================================================

-------------------------- MODULE MCPreprocessing --------------------------
(***************************************************************************)
(* A small instance of Preprocessing for TLC.  In its behaviours either    *)
(* one command runs at a time, and everything may change or be lost, twice *)
(* and raw data besides; or a second command may start while the first     *)
(* runs, on the same inputs or on others, and one disturbance happens.     *)
(***************************************************************************)
EXTENDS Preprocessing

CONSTANTS First, Second

Base == [prepared |-> 1, splits |-> 1, partitions |-> 1, campaign |-> 1]

\* Edits of a configuration slice: benign_partition_fractions and the rest of
\* the prepared slice, or the campaign rules.
ConfigurationEdits ==
    {Base, [Base EXCEPT !.prepared = 2], [Base EXCEPT !.campaign = 2]}

\* The configuration edits do not change the split the scaler is fitted on.
ASSUME InstanceFixesSplits == SplitsAreFixed

\* Whether commands may overlap, for the whole of a behaviour.
VARIABLE overlap

InstanceInit == Init /\ overlap \in BOOLEAN /\ (overlap => raw = 1)

OverlapBounds ==
    /\ disturbances' <= 1
    /\ raw' = raw
    /\ pass[Second] = Idle /\ pass'[Second] # Idle => Active(First)

InstanceNext ==
    /\ Next
    /\ UNCHANGED overlap
    /\ IF overlap THEN OverlapBounds ELSE pass'[Second] = Idle

\* The operator repeats one of the commands only.
InstanceSpec ==
    InstanceInit /\ [][InstanceNext]_<<vars, overlap>> /\ Fairness({First})
=============================================================================

----------------------------- MODULE AtomicStore -----------------------------
(***************************************************************************)
(* What write_atomic_json and write_atomic_bytes promise their callers: a  *)
(* destination is a register that holds nothing or one whole payload, and  *)
(* a write changes it in a single step, or not at all when the writer dies *)
(* or gives up.                                                            *)
(***************************************************************************)
CONSTANTS
    Writers,
    Destinations,
    Contents,
    Absent

VARIABLES
    value,      \* the payload a reader of each destination finds
    request     \* what each writer is doing

vars == <<value, request>>

Requests ==
    [state: {"none", "done", "failed"}]
        \cup [state: {"pending"}, to: Destinations, content: Contents]

Init ==
    /\ value = [d \in Destinations |-> Absent]
    /\ request = [w \in Writers |-> [state |-> "none"]]

Pending(w) == request[w].state = "pending"

Ask(w, d, c) ==
    /\ ~Pending(w)
    /\ request' = [request EXCEPT ![w] = [state |-> "pending", to |-> d, content |-> c]]
    /\ UNCHANGED value

Publish(w) ==
    /\ Pending(w)
    /\ value' = [value EXCEPT ![request[w].to] = request[w].content]
    /\ request' = [request EXCEPT ![w] = [state |-> "done"]]

Abandon(w) ==
    /\ Pending(w)
    /\ request' = [request EXCEPT ![w] = [state |-> "failed"]]
    /\ UNCHANGED value

Next ==
    \E w \in Writers :
        \/ \E d \in Destinations, c \in Contents : Ask(w, d, c)
        \/ Publish(w)
        \/ Abandon(w)

Spec == Init /\ [][Next]_vars
=============================================================================

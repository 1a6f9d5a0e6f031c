------------------------------ MODULE WorkPool ------------------------------
(***************************************************************************)
(* What the job queue promises its users, without table, leases or locks:  *)
(* every piece of work has at most one owner, two pieces with the same key *)
(* are never owned together, and only the owner of a piece of work decides *)
(* what becomes of it.  Work whose owner is lost may get a new owner.      *)
(***************************************************************************)
EXTENDS Integers

CONSTANTS Keys, NoKey, Workers, Nobody, Work

VARIABLES
    key,    \* key[j]: what the work is about, NoKey before it is submitted
    state,  \* none, open (may be taken), taken, done or parked for good
    owner   \* owner[j]: the worker on it, or Nobody

vars == <<key, state, owner>>

\* While j is open no other work on its key may start.
Free(j) == \A i \in Work : key[i] = key[j] /\ i # j => state[i] # "taken"

Idle(w) == \A j \in Work : owner[j] # w

Init ==
    /\ key = [j \in Work |-> NoKey]
    /\ state = [j \in Work |-> "none"]
    /\ owner = [j \in Work |-> Nobody]

Submit(j, k) ==
    /\ state[j] = "none"
    /\ key' = [key EXCEPT ![j] = k]
    /\ state' = [state EXCEPT ![j] = "open"]
    /\ UNCHANGED owner

Take(w, j) ==
    /\ Idle(w)
    /\ state[j] = "open" \/ (state[j] = "taken" /\ owner[j] = Nobody)
    /\ Free(j)
    /\ state' = [state EXCEPT ![j] = "taken"]
    /\ owner' = [owner EXCEPT ![j] = w]
    /\ UNCHANGED key

\* The owner gives its work back, finishes it or parks it.
Settle(w, j, s) ==
    /\ owner[j] = w
    /\ s \in {"open", "done", "parked"}
    /\ state' = [state EXCEPT ![j] = s]
    /\ owner' = [owner EXCEPT ![j] = Nobody]
    /\ UNCHANGED key

\* The owner disappears without a word; the work stays taken.
Lose(w, j) ==
    /\ owner[j] = w
    /\ owner' = [owner EXCEPT ![j] = Nobody]
    /\ UNCHANGED <<key, state>>

Next ==
    \/ \E j \in Work, k \in Keys : Submit(j, k)
    \/ \E w \in Workers, j \in Work :
          \/ Take(w, j)
          \/ \E s \in {"open", "done", "parked"} : Settle(w, j, s)
          \/ Lose(w, j)

Spec == Init /\ [][Next]_vars
=============================================================================

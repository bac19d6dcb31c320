--------------------------- MODULE JobSettlement ---------------------------
(***************************************************************************)
(* What the job store promises for each submission, whatever attempts,     *)
(* leases, preemptions, retries and recoveries it takes: the resources it  *)
(* needs are reserved when it is accepted, spent if and only if a result   *)
(* is delivered, and given back in the same step that abandons it.  An     *)
(* abandoned submission nobody paid for may be reopened once, for free.    *)
(***************************************************************************)
CONSTANTS Job, NoJob, Resource, Needs

VARIABLES
    outcome,     \* [Job -> Outcome]
    reserved,    \* [Job -> SUBSET Resource], held for an open submission
    spent,       \* [Job -> SUBSET Resource], taken for a delivered one
    reopenedAs   \* [Job -> Job \cup {NoJob}]

vars == <<outcome, reserved, spent, reopenedAs>>

Outcome == {"none", "open", "delivered", "abandoned"}

Init ==
    /\ outcome = [j \in Job |-> "none"]
    /\ reserved = [j \in Job |-> {}]
    /\ spent = [j \in Job |-> {}]
    /\ reopenedAs = [j \in Job |-> NoJob]

Submit(j) ==
    /\ outcome[j] = "none"
    /\ outcome' = [outcome EXCEPT ![j] = "open"]
    /\ reserved' = [reserved EXCEPT ![j] = Needs[j]]
    /\ UNCHANGED <<spent, reopenedAs>>

Deliver(j) ==
    /\ outcome[j] = "open"
    /\ outcome' = [outcome EXCEPT ![j] = "delivered"]
    /\ spent' = [spent EXCEPT ![j] = reserved[j]]
    /\ reserved' = [reserved EXCEPT ![j] = {}]
    /\ UNCHANGED reopenedAs

\* Maintenance abandons several submissions in one statement.
Abandon(S) ==
    /\ \A j \in S : outcome[j] = "open"
    /\ outcome' = [j \in Job |-> IF j \in S THEN "abandoned" ELSE outcome[j]]
    /\ reserved' = [j \in Job |-> IF j \in S THEN {} ELSE reserved[j]]
    /\ UNCHANGED <<spent, reopenedAs>>

Reopen(j, k) ==
    /\ outcome[j] = "abandoned"
    /\ "balance" \notin Needs[j]
    /\ reopenedAs[j] = NoJob
    /\ outcome[k] = "none"
    /\ outcome' = [outcome EXCEPT ![k] = "open"]
    /\ reopenedAs' = [reopenedAs EXCEPT ![j] = k]
    /\ UNCHANGED <<reserved, spent>>

Next ==
    \/ \E j \in Job : Submit(j) \/ Deliver(j)
    \/ \E S \in SUBSET Job : Abandon(S)
    \/ \E j, k \in Job : Reopen(j, k)

Spec == Init /\ [][Next]_vars
=============================================================================

----------------------------- MODULE Scheduler -----------------------------
(***************************************************************************)
(* What the kernel's scheduler comes down to for its callers: one          *)
(* processor, and a dispatch always runs the youngest READY thread, the    *)
(* one with the greatest UID, however long older ones have been READY.     *)
(***************************************************************************)
EXTENDS Integers

CONSTANT FirstUid       \* the first UID the kernel gives out, a natural number

VARIABLES
    next,       \* the UID the next thread will have
    status      \* the status of each thread that exists

vars == <<next, status>>

Status == {"stagnant", "ready", "running"}

Threads == DOMAIN status
Ready   == { u \in Threads : status[u] = "ready" }
Idle    == \A u \in Threads : status[u] # "running"

TypeOK ==
    /\ next \in Nat
    /\ Threads \subseteq FirstUid .. next - 1
    /\ status \in [Threads -> Status]

Init == next = FirstUid /\ status = << >>

\* A new thread has a UID that no thread had before.
Create ==
    /\ Idle
    /\ next' = next + 1
    /\ status' = [u \in Threads \cup {next} |->
                    IF u = next THEN "stagnant" ELSE status[u]]

Start ==
    /\ Idle
    /\ \E u \in Threads : status' = [status EXCEPT ![u] = "ready"]
    /\ UNCHANGED next

\* One thread goes, or all of them with the kernel.
Remove ==
    /\ Idle
    /\ \E gone \in SUBSET Threads :
         status' = [u \in Threads \ gone |-> status[u]]
    /\ UNCHANGED next

Dispatch ==
    /\ Idle
    /\ \E u \in Ready :
         /\ \A v \in Ready : v <= u
         /\ status' = [status EXCEPT ![u] = "running"]
    /\ UNCHANGED next

Yield ==
    /\ \E u \in Threads :
         status[u] = "running" /\ status' = [status EXCEPT ![u] = "ready"]
    /\ UNCHANGED next

Next == Create \/ Start \/ Remove \/ Dispatch \/ Yield

Spec == Init /\ [][Next]_vars
=============================================================================

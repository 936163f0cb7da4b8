--------------------------- MODULE Reconciliation ---------------------------
(***************************************************************************)
(* What the funding of projects promises, whatever the interleaving of     *)
(* scans, manual records, failures and restarts: money is credited to a    *)
(* funding instruction, it never leaves, and a project is told that an     *)
(* instruction is reconciled only when all it asks for has been credited.  *)
(***************************************************************************)
EXTENDS Integers

CONSTANTS Instructions   \* ids of funding instructions

VARIABLES
    asked,      \* what an instruction asks for, -1 before it exists
    credited,   \* what has been credited to it
    covered     \* the instructions reported to their project as reconciled

vars == <<asked, credited, covered>>

Init ==
    /\ asked = [i \in Instructions |-> -1]
    /\ credited = [i \in Instructions |-> 0]
    /\ covered = {}

Ask(i) ==
    /\ asked[i] = -1
    /\ asked'[i] \in Nat
    /\ asked' = [asked EXCEPT ![i] = asked'[i]]
    /\ UNCHANGED <<credited, covered>>

Credit(i) ==
    /\ asked[i] # -1
    /\ credited'[i] \in Nat /\ credited'[i] > credited[i]
    /\ credited' = [credited EXCEPT ![i] = credited'[i]]
    /\ UNCHANGED <<asked, covered>>

Cover(i) ==
    /\ asked[i] # -1
    /\ credited[i] > 0 /\ credited[i] >= asked[i]
    /\ covered' = covered \cup {i}
    /\ UNCHANGED <<asked, credited>>

Next == \E i \in Instructions : Ask(i) \/ Credit(i) \/ Cover(i)

Spec == Init /\ [][Next]_vars
=============================================================================

----------------------------- MODULE MCLifecycle -----------------------------
(* Instances of ExecutionLifecycle for TLC. *)
EXTENDS ExecutionLifecycle

\* A chain of steps, each bound to the one before it.
Chain == [s \in Step |-> IF s = 1 THEN {} ELSE {s - 1}]

\* Step 1 feeds step 2 and the chain that starts at step 3.
Fork == [s \in Step |-> IF s = 1 THEN {} ELSE IF s \in {2, 3} THEN {1} ELSE {s - 1}]
=============================================================================

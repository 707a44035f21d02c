---------------------------- MODULE OneTimeStore ----------------------------
(***************************************************************************)
(* What the OTP server promises: a one time password stands for a stored   *)
(* key until the key is taken or lost; neither is ever undone, so a key is *)
(* not returned twice for a password, and a password is not used again.    *)
(***************************************************************************)
CONSTANT Tokens

VARIABLE status    \* status[t]: what has become of password t

Init == status = [t \in Tokens |-> "unused"]

Store(t) ==
    /\ status[t] = "unused"
    /\ status' = [status EXCEPT ![t] = "stored"]

Take(t) ==
    /\ status[t] = "stored"
    /\ status' = [status EXCEPT ![t] = "taken"]

\* Its owner was never told of it, or the server restarted.
Lose(S) ==
    /\ \A t \in S : status[t] = "stored"
    /\ status' = [t \in Tokens |-> IF t \in S THEN "lost" ELSE status[t]]

Next == \/ \E t \in Tokens : Store(t) \/ Take(t)
        \/ \E S \in SUBSET Tokens : Lose(S)

Spec == Init /\ [][Next]_status
=============================================================================

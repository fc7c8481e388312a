----------------------------- MODULE LegContract -----------------------------
(***************************************************************************)
(* What Coordinator counts on for one leg of a trade: an order of a client *)
(* with credentials is settled by its venue or not at all; an Ok needs a   *)
(* venue that answered, an error proves nothing; and the call resolves.    *)
(***************************************************************************)
VARIABLES
    order,  \* at the venue; "unsent" without credentials
    reply   \* of the client to execute_both_legs

vars == <<order, reply>>

Init == order \in {"pending", "unsent"} /\ reply = "none"

Settle ==
    /\ order = "pending" /\ order' \in {"executed", "expired", "refused"}
    /\ UNCHANGED reply

ReplyOk ==
    /\ reply = "none" /\ order \in {"executed", "expired"}
    /\ reply' = "ok" /\ UNCHANGED order

ReplyErr ==
    /\ reply = "none" /\ reply' = "err"
    /\ UNCHANGED order

Next == Settle \/ ReplyOk \/ ReplyErr

Safety == Init /\ [][Next]_vars

Spec == Safety /\ WF_vars(ReplyOk \/ ReplyErr)
=============================================================================

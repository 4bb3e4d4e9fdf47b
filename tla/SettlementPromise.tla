--------------------------- MODULE SettlementPromise ---------------------------
(***************************************************************************)
(* What order settlement promises, whatever interleaves: the payment       *)
(* status of an order only moves forward along                             *)
(*                                                                         *)
(*     absent -> PENDING -> PAID          (needs a confirmed payment)      *)
(*               PENDING -> FAILED                                         *)
(*               FAILED  -> PAID          (needs a confirmed payment)      *)
(*                                                                         *)
(* so a paid order is never taken back, and an order is never marked paid  *)
(* without money: either a gateway verified the payment or nothing was due *)
(* (fully covered by the wallet, or mock mode).                            *)
(***************************************************************************)
CONSTANT Orders

VARIABLES
    status,      \* status[o]: the committed payment status of order o
    confirmed    \* orders whose money is in, or that owe none

Statuses == {"absent", "PENDING", "PAID", "FAILED"}

Init ==
    /\ status = [o \in Orders |-> "absent"]
    /\ confirmed = {}

(* The moves one order may make. *)
MayBecome(o, s) ==
    \/ s = status[o]
    \/ status[o] = "absent" /\ s = "PENDING"
    \/ status[o] = "PENDING" /\ s = "FAILED"
    \/ status[o] \in {"PENDING", "FAILED"} /\ s = "PAID" /\ o \in confirmed

Confirm(o) ==
    /\ confirmed' = confirmed \cup {o}
    /\ UNCHANGED status

(* One database commit may move several orders: a checkout releases the    *)
(* user's stale orders and places the new one in the same transaction.     *)
Settle ==
    /\ status' \in [Orders -> Statuses]
    /\ \A o \in Orders : MayBecome(o, status'[o])
    /\ UNCHANGED confirmed

Next == Settle \/ \E o \in Orders : Confirm(o)

Spec == Init /\ [][Next]_<<status, confirmed>>
================================================================================

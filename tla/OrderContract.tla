---------------------------- MODULE OrderContract ----------------------------
(***************************************************************************)
(* What the order system promises of an order, whatever its handlers do to *)
(* each other: the timeline shown to the requester only grows, each stage  *)
(* of fulfilment enters it after the stages before it, the payment enters  *)
(* it (in production) only after Paystack took the exact amount, and a     *)
(* cancellation or a refund only after the payment.                        *)
(***************************************************************************)
EXTENDS OrderStatus

CONSTANTS Requests, Production

VARIABLES timeline,   \* timeline[r]: the statuses logged for the order
          captured,   \* captured[r]: Paystack took an exact amount for it
          returned    \* returned[r]: Paystack gave money back for it

cvars == <<timeline, captured, returned>>

ContractInit ==
  /\ timeline = [r \in Requests |-> {}]
  /\ captured = [r \in Requests |-> FALSE]
  /\ returned = [r \in Requests |-> FALSE]

Log(r, S) ==
  /\ timeline' = [timeline EXCEPT ![r] = @ \cup S]
  /\ UNCHANGED <<captured, returned>>

Created(r) == \E S \in SUBSET {"submitted", "quoted"} : Log(r, S)

Paid(r) ==
  /\ Production => captured[r]
  /\ Log(r, {"approved_paid"})

Advanced(r) ==
  \E s \in POST_PAYMENT : PaidUpTo(s) \ {s} \subseteq timeline[r] /\ Log(r, {s})

Cancelled(r) == "approved_paid" \in timeline[r] /\ Log(r, {"cancelled"})

Captured(r) ==
  /\ captured' = [captured EXCEPT ![r] = TRUE]
  /\ UNCHANGED <<timeline, returned>>

Returned(r) ==
  /\ "approved_paid" \in timeline[r]
  /\ returned' = [returned EXCEPT ![r] = TRUE]
  /\ UNCHANGED <<timeline, captured>>

ContractNext ==
  \E r \in Requests :
    Created(r) \/ Paid(r) \/ Advanced(r) \/ Cancelled(r) \/ Captured(r) \/ Returned(r)

ContractSpec == ContractInit /\ [][ContractNext]_cvars
=============================================================================

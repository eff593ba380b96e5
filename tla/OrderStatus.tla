----------------------------- MODULE OrderStatus -----------------------------
(***************************************************************************)
(* RequestStatus of prisma/schema.prisma and its order along the chain of  *)
(* requests.service.ts.                                                    *)
(***************************************************************************)
EXTENDS Integers

POST_PAYMENT == {"procured", "in_transit_china_warehouse",
                 "in_transit_freight", "arrived_nigeria_warehouse",
                 "delivered"}
PaidStatuses == {"approved_paid"} \cup POST_PAYMENT
Statuses     == {"submitted", "quoted", "cancelled"} \cup PaidStatuses

(* OPS_STATUS_ORDER.indexOf: "cancelled" is not on the chain.              *)
OpsIndex(s) == CASE s = "submitted"                  -> 0
                 [] s = "quoted"                     -> 1
                 [] s = "approved_paid"              -> 2
                 [] s = "procured"                   -> 3
                 [] s = "in_transit_china_warehouse" -> 4
                 [] s = "in_transit_freight"         -> 5
                 [] s = "arrived_nigeria_warehouse"  -> 6
                 [] s = "delivered"                  -> 7
                 [] OTHER                            -> -1

(* The stages an order at status s has been through since its payment.     *)
PaidUpTo(s) == {x \in PaidStatuses : OpsIndex(x) <= OpsIndex(s)}
=============================================================================

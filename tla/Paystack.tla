------------------------------ MODULE Paystack ------------------------------
(***************************************************************************)
(* The payment gateway, as src/ uses it: a transaction is initialised with *)
(* a reference and the metadata {requestId, quoteId}, the customer pays it *)
(* on Paystack's own page, and ops may ask for it to be refunded.  The     *)
(* module is external: it keeps no code of this repository, only what the  *)
(* calls in payments.service.ts and requests.service.ts expect of Paystack *)
(***************************************************************************)
CONSTANTS Requests,     \* order ids
          Quotes,       \* quote ids, never reused
          Refs,         \* Paystack references cp_<request>_<quote>_<time>
          None          \* absent value

VARIABLE charge         \* charge[ref]: what Paystack knows of a reference

ChargeStates == {"none", "open", "success", "refunded"}

(* The amount of a charge is the total of the quote in its metadata.       *)
(* "exact" tells whether Paystack reports that amount, in naira.           *)
Charges == [state : ChargeStates,
            req   : Requests \cup {None},
            quote : Quotes \cup {None},
            exact : BOOLEAN]

NoCharge == [state |-> "none", req |-> None, quote |-> None, exact |-> FALSE]

PaystackInit == charge = [ref \in Refs |-> NoCharge]

(* The customer's money was taken; a success event exists for ref and may  *)
(* be delivered at any later time, any number of times, refunded or not.   *)
Charged(ref) == charge[ref].state \in {"success", "refunded"}

(* POST /transaction/initialize.                                           *)
OpenCharge(ref, r, q) ==
  /\ charge[ref].state = "none"
  /\ charge' = [charge EXCEPT
       ![ref] = [state |-> "open", req |-> r, quote |-> q, exact |-> FALSE]]

(* The customer completes the payment page.                                *)
Capture(ref, exact) ==
  /\ charge[ref].state = "open"
  /\ charge' = [charge EXCEPT ![ref].state = "success", ![ref].exact = exact]

(* POST /refund of a transaction: only a settled, unrefunded one.          *)
Refundable(ref) == ref \in Refs /\ charge[ref].state = "success"

ReturnMoney(ref) == charge' = [charge EXCEPT ![ref].state = "refunded"]
=============================================================================

--------------------------- MODULE PaymentsService ---------------------------
(***************************************************************************)
(* src/payments/payments.service.ts: the Paystack checkout and the two     *)
(* ways its result comes back, the requester's verify call and Paystack's  *)
(* webhook.                                                                *)
(***************************************************************************)
EXTENDS RequestsService

(* initialize up to its call of Paystack.  (On an approved_paid order it   *)
(* returns the order and changes nothing.)                                 *)
Initialize(w, r, q) ==
  /\ Called(w, "initialize")
  /\ PaystackConfigured
  /\ QuoteOf(r, q)
  /\ quotes[q].status # "rejected"
  /\ status[r] = "quoted"
  /\ Begin(w, [Idle EXCEPT !.op = "init", !.req = r, !.quote = q])
  /\ UNCHANGED <<rows, mails, lock, charge>>

(* Paystack answered: the upsert puts the new reference on the order's     *)
(* Payment row, and the requester gets the payment page.  Only the insert  *)
(* of a new row waits for the Request lock.                                *)
InitializeCommit(w, ref) ==
  LET r == job[w].req  q == job[w].quote IN
  /\ job[w].op = "init"
  /\ HasPayment(r) \/ Unlocked(r)
  /\ OpenCharge(ref, r, q)
  /\ payment' = [payment EXCEPT
                   ![r] = [amount |-> q, ref |-> ref, status |-> "unpaid"]]
  /\ Finish(w)
  /\ UNCHANGED <<status, assigned, quotes, history, mails, lock>>

(* Paystack refused to open a transaction: the handler throws.             *)
InitializeRefused(w) ==
  /\ job[w].op = "init"
  /\ Finish(w)
  /\ UNCHANGED <<rows, mails, lock, charge>>

(* handleWebhook on charge.success and verifyReference on a success, both  *)
(* with the metadata Paystack kept: early, late, twice or never.           *)
PaymentReported(w, ref) ==
  /\ Called(w, "complete")
  /\ PaystackConfigured
  /\ Charged(ref)
  /\ CompleteRepeated(w, ref) \/ CompleteRead(w, ref)

CustomerPays(ref, exact) ==
  /\ Capture(ref, exact)
  /\ UNCHANGED <<rows, mails, lock, job>>
=============================================================================

------------------------------- MODULE Orders -------------------------------
(***************************************************************************)
(* The order system: RequestsService, PaymentsService and the approval of  *)
(* finds working on the same rows, with Paystack and its customers, and    *)
(* with handlers that die half way.                                        *)
(***************************************************************************)
EXTENDS PaymentsService, FindApproval

(* The process dies, or the database aborts the transaction (a deadlock,   *)
(* a timeout): the open transaction rolls back and its lock is released,   *)
(* what was committed or asked of Paystack before stays.                   *)
Crash(w) ==
  /\ job[w] # Idle
  /\ Finish(w)
  /\ lock' = [r \in Requests |-> IF lock[r] = w THEN None ELSE lock[r]]
  /\ UNCHANGED <<rows, mails, charge>>

(* A call that reaches a free worker, and the calls done in one step.      *)
Call(w) ==
  \/ \E r \in Requests, q \in Quotes :
       \/ RejectQuote(w, r, q)
       \/ ApproveQuote(w, r, q)
       \/ PayQuote(w, r, q)
       \/ Initialize(w, r, q)
  \/ \E r \in Requests, u \in OpsUsers : SubmitQuotes(w, r, u) \/ ApproveFind(w, r, u)
  \/ \E r \in Requests, target \in OpsTargets : UpdateStatus(w, r, target)
  \/ \E r \in Requests : CancelPaidRequest(w, r) \/ RetryRefund(w, r)
  \/ \E ref \in Refs : PaymentReported(w, ref)

(* The next step of the handler in flight at w.                            *)
Continue(w) ==
  \/ GuidedNotice(w)
  \/ RejectCommit(w)
  \/ RejectOthers(w)
  \/ ApproveCommit(w)
  \/ PayCommit(w)
  \/ CompleteCommit(w)
  \/ \E ref \in Refs : InitializeCommit(w, ref)
  \/ InitializeRefused(w)
  \/ DeleteQuotes(w)
  \/ \E D \in SUBSET Quotes : SubmitQuotesCommit(w, D)
  \/ UpdateCommit(w)
  \/ CancelRefund(w)
  \/ CancelCommit(w)
  \/ RetryCall(w)
  \/ RetryPaid(w)
  \/ RetryLog(w)
  \/ \E q \in Quotes : FindQuote(w, q)
  \/ FindStatus(w)
  \/ FindLog(w)
  \/ SendNotice(w)
  \/ WriteRefused(w)

Environment ==
  \/ \E r \in Requests : CreateRequest(r)
  \/ \E r \in Requests, q \in Quotes, u \in OpsUsers :
       \/ CreateCatalogOrder(r, q, u)
       \/ \E w \in Workers : CreateGuidedRequest(w, r, q, u)
  \/ \E r \in Requests, u \in OpsUsers : Assign(r, u)
  \/ \E ref \in Refs, exact \in BOOLEAN : CustomerPays(ref, exact)

Next ==
  \/ Environment
  \/ \E w \in Workers : Call(w) \/ Continue(w) \/ Crash(w)

(* A handler that was called runs on: the event loop resumes it whenever   *)
(* what it awaits is there, and Postgres grants the row lock in turn, so   *)
(* that a waiter is not overtaken for ever (strong fairness).  Nobody has  *)
(* to call, pay, deliver a webhook or crash.                               *)
Fairness == \A w \in Workers : SF_vars(Continue(w))

Spec == Init /\ [][Next]_vars /\ Fairness

-----------------------------------------------------------------------------
(* Safety.                                                                 *)

(* A paid Payment row that carries a Paystack reference names a charge the *)
(* customer completed, for this order, for the quote whose total the row   *)
(* shows, and for exactly that total.                                      *)
PaidRowIsCharged ==
  \A r \in Requests :
    /\ payment[r].status = "paid"
    /\ payment[r].ref # Demo
    => LET c == charge[payment[r].ref] IN
       /\ Charged(payment[r].ref)
       /\ c.exact
       /\ c.req = r
       /\ c.quote = payment[r].amount

(* updateStatus checks one step at a time on a stale read, and other       *)
(* handlers may move the order under it; still no stage is reached whose   *)
(* predecessors, back to the payment, are not in the order's timeline.     *)
TimelineGapless ==
  \A r \in Requests : PaidUpTo(status[r]) \subseteq history[r]

(* In production no order is paid or past payment unless Paystack took the *)
(* exact total of one of its quotes ("Ops cannot jump to procured+ before  *)
(* approved_paid").                                                        *)
HasCharge(r) ==
  \E ref \in Refs : Charged(ref) /\ charge[ref].req = r /\ charge[ref].exact

FulfilmentIsCharged ==
  Production => \A r \in Requests : status[r] \in PaidStatuses => HasCharge(r)

(* Where Paystack is configured, an order shown as refunded had one of its *)
(* charges refunded at Paystack: no refund is recorded before it is made.  *)
Returned(r) ==
  \E ref \in Refs : charge[ref].req = r /\ charge[ref].state = "refunded"

RefundIsReturned ==
  PaystackConfigured =>
    \A r \in Requests : payment[r].status = "refunded" => Returned(r)

(* The notices about money are true when they are enqueued, and stay so,   *)
(* also the one createGuidedRequest sends for a status it reads late:      *)
(* "payment confirmed" only after a charge went through, an amount said to *)
(* be refunded only after money went back, and "cancelled", without an     *)
(* amount, only of an order that was paid and cancelled.                   *)
NoticesAreTrue ==
  Production =>
    \A r \in Requests :
      /\ <<r, "approved_paid">> \in mails =>
           \E ref \in Refs : Charged(ref) /\ charge[ref].req = r
      /\ <<r, "refunded">> \in mails => Returned(r)
      /\ <<r, "cancelled">> \in mails =>
           {"approved_paid", "cancelled"} \subseteq history[r]

(* Only a paid order is ever cancelled: its Payment row exists, and its    *)
(* timeline shows the payment.                                             *)
CancelledWasPaid ==
  \A r \in Requests : status[r] = "cancelled" =>
    /\ HasPayment(r)
    /\ "approved_paid" \in history[r]

(* An order past submission has a member of staff assigned, although every *)
(* handler that assigns one writes a value it read earlier.                *)
QuotedIsAssigned ==
  \A r \in Requests : status[r] \notin {"none", "submitted"} => assigned[r] # None

(* What completePaystackPayment read under its row lock is still so until  *)
(* it commits: the order waits for the payment, the quote that was paid    *)
(* has not been withdrawn by a re-quote, and no other handler has inserted *)
(* the Payment row it is about to insert.  Money that was taken is never   *)
(* lost to a commit that fails on what changed since the read.             *)
LockedReadsHold ==
  \A w \in Workers : job[w].op = "complete" =>
    LET r == job[w].req IN
    /\ status[r] \in {"quoted", "approved_paid"}
    /\ QuoteOf(r, job[w].quote)
    /\ job[w].hadRow <=> HasPayment(r)

-----------------------------------------------------------------------------
(* Action properties.                                                      *)

(* In production a payment is only recorded on an order that is waiting    *)
(* for it: the lock keeps the status read until the commit, so a payment   *)
(* never brings back an order cancelled or moved on in the meantime.       *)
PaymentRecorded(r) ==
  payment'[r].status = "paid" /\ payment'[r] # payment[r]

PaymentNeedsOpenOrder ==
  [][Production =>
       \A r \in Requests :
         PaymentRecorded(r) => status[r] \in {"quoted", "approved_paid"}]_vars

(* In production a recorded payment settles the choice of quote: the paid  *)
(* one is accepted and every other quote of the order is rejected, the     *)
(* ones a find approval or a re-quote was inserting meanwhile too, because *)
(* an insert waits for the Request lock.  (approveQuote has no lock, and   *)
(* may leave two quotes accepted.)                                         *)
PaymentAcceptsOne ==
  [][Production =>
       \A r \in Requests : PaymentRecorded(r) =>
         /\ QuoteOf(r, payment'[r].amount)
         /\ \A q \in Quotes : QuoteOf(r, q) =>
              quotes'[q].status = IF q = payment'[r].amount
                                  THEN "accepted" ELSE "rejected"]_vars

(* The order system keeps OrderContract's promise.                         *)
Contract == INSTANCE OrderContract WITH
  timeline <- history,
  captured <- [r \in Requests |-> HasCharge(r)],
  returned <- [r \in Requests |-> Returned(r)]

KeepsContract == Contract!ContractSpec

-----------------------------------------------------------------------------
(* Liveness: every handler ends, whatever lock it waits for and whatever   *)
(* the others do to the rows it has read.  (Insertion of a quote stops     *)
(* where the instance's quote ids are spent.)                              *)
OutOfQuotes(w) == job[w].op \in {"submitQuotes", "find"} /\ FreshQuotes = {}

HandlersEnd == \A w \in Workers : job[w] # Idle ~> job[w] = Idle \/ OutOfQuotes(w)

-----------------------------------------------------------------------------
(* What the comments say, and the code does not do.                        *)

(* "Ops may only advance along this chain after payment."                  *)
(* (requests.service.ts:40)                                                *)
OpsOnlyAdvance ==
  [][\A r \in Requests :
       status[r] \in PaidStatuses /\ status'[r] # "cancelled"
         => OpsIndex(status'[r]) >= OpsIndex(status[r])]_vars

(* "Finalize payment after Paystack verify/webhook."                       *)
(* (requests.service.ts:615), followed by "Payment confirmed"              *)
(* (requests.service.ts:1463): a call of completePaystackPayment that      *)
(* returns without an error leaves the order's payment paid, at least when *)
(* customers pay exact amounts.                                            *)
CompletionReturns(w) ==
  /\ job[w] = Idle \/ job[w].op = "complete"
  /\ job'[w].op = "mail" /\ job'[w].target = "approved_paid"
  /\ \A ref \in Refs : Charged(ref) => charge[ref].exact

CompletionRecordsPayment ==
  [][\A w \in Workers :
       CompletionReturns(w) => payment'[job'[w].req].status = "paid"]_vars

(* "Cancel a paid order (before procurement) and refund via Paystack."     *)
(* (requests.service.ts:948)                                               *)
CancelBeforeProcurement ==
  [][\A r \in Requests :
       status'[r] = "cancelled" => status[r] \notin POST_PAYMENT]_vars
=============================================================================

--------------------------- MODULE RequestsService ---------------------------
(***************************************************************************)
(* src/requests/requests.service.ts: the life of an order, from its        *)
(* creation through quotes, payment and fulfilment to its cancellation.    *)
(* A handler that reads before it writes is a Begin action, which takes    *)
(* the snapshot and makes the checks of the code on it, and one action for *)
(* every later commit or remote call.                                      *)
(***************************************************************************)
EXTENDS OrderState

-----------------------------------------------------------------------------
(* Creation.  Nobody can address the order before the transaction commits, *)
(* so that it is one step.                                                 *)

Submit(r) ==
  /\ ~Exists(r)
  /\ MoveTo(r, "submitted")
  /\ UNCHANGED <<assigned, quotes, payment, mails, lock, charge>>

(* The order is born quoted, with one quote and an agent.                  *)
SubmitQuoted(r, q, u, log) ==
  /\ ~Exists(r)
  /\ q \in FreshQuotes
  /\ status'   = [status EXCEPT ![r] = "quoted"]
  /\ assigned' = [assigned EXCEPT ![r] = u]
  /\ quotes'   = [quotes EXCEPT ![q] = [req |-> r, status |-> "sent"]]
  /\ history'  = [history EXCEPT ![r] = @ \cup log]
  /\ UNCHANGED <<payment, mails, lock, charge>>

CreateRequest(r) == "create" \in Handlers /\ Submit(r) /\ UNCHANGED job

(* A preferred product within the budget is quoted at once.                *)
CreateGuidedRequest(w, r, q, u) ==
  /\ Called(w, "guided")
  /\ Submit(r) \/ SubmitQuoted(r, q, u, {"submitted", "quoted"})
  /\ Begin(w, [Idle EXCEPT !.op = "guided", !.req = r])

(* The order is read again after the commit, and the notice is of the      *)
(* status it has by then.                                                  *)
GuidedNotice(w) ==
  /\ job[w].op = "guided"
  /\ Begin(w, Notice(job[w].req, status[job[w].req]))
  /\ UNCHANGED <<rows, mails, lock, charge>>

CreateCatalogOrder(r, q, u) ==
  /\ "catalogOrder" \in Handlers
  /\ SubmitQuoted(r, q, u, {"quoted"})
  /\ UNCHANGED job

-----------------------------------------------------------------------------
(* The requester answers a quote.                                          *)

RejectQuote(w, r, q) ==
  /\ Called(w, "rejectQuote")
  /\ status[r] = "quoted"
  /\ QuoteOf(r, q)
  /\ Begin(w, [Idle EXCEPT !.op = "reject", !.req = r, !.quote = q])
  /\ UNCHANGED <<rows, mails, lock, charge>>

RejectCommit(w) ==
  /\ job[w].op = "reject"
  /\ Live(job[w].quote)
  /\ quotes' = [quotes EXCEPT ![job[w].quote].status = "rejected"]
  /\ Finish(w)
  /\ UNCHANGED <<status, assigned, payment, history, mails, lock, charge>>

ApproveQuote(w, r, q) ==
  /\ Called(w, "approveQuote")
  /\ status[r] = "quoted"
  /\ QuoteOf(r, q)
  /\ Begin(w, [Idle EXCEPT !.op = "approve", !.req = r, !.quote = q])
  /\ UNCHANGED <<rows, mails, lock, charge>>

(* updateMany: the order's other quotes are to be rejected.  approveQuote, *)
(* payQuote and completePaystackPayment begin to write with it.            *)
RejectOthers(w) ==
  /\ job[w].op \in {"approve", "pay", "complete"}
  /\ Sweep(w)
  /\ UNCHANGED <<rows, mails, lock, charge>>

ApproveCommit(w) ==
  /\ job[w].op = "approve"
  /\ AcceptOnly(w)
  /\ Finish(w)
  /\ UNCHANGED <<status, assigned, payment, history, mails, lock, charge>>

-----------------------------------------------------------------------------
(* Payment.                                                                *)

(* The checks payQuote and completePaystackPayment share.                  *)
Payable(r, q) ==
  /\ status[r] \in {"quoted", "approved_paid"}
  /\ QuoteOf(r, q)
  /\ quotes[q].status # "rejected"

(* Slip: whatever was paid is taken for the total.                         *)
AnyAmount(ref) == TRUE

(* Amount and currency Paystack reports, against the quote's totalCost.    *)
(* (The code passes over whichever of the two is absent; Paystack's        *)
(* transactions and charge events have both.)                              *)
AmountMatches(ref) == charge[ref].exact

(* Slip: a plain SELECT.                                                   *)
SelectOnly(w, r) == UNCHANGED lock

(* SELECT id FROM "Request" WHERE id = r FOR UPDATE, held to the commit.   *)
SelectForUpdate(w, r) == lock' = [lock EXCEPT ![r] = w]

AlreadyPaid(r, q) == status[r] = "approved_paid" /\ quotes[q].status = "accepted"

(* Quote, payment, request and history rows of a payment that goes through.*)
(* The Payment row is updated by the id that was read, or created: then    *)
(* requestId must still be free.                                           *)
Settle(w, ref) ==
  LET r == job[w].req  q == job[w].quote IN
  /\ ~job[w].hadRow => ~HasPayment(r)
  /\ AcceptOnly(w)
  /\ payment' = [payment EXCEPT
                   ![r] = [amount |-> q, ref |-> ref, status |-> "paid"]]
  /\ MoveTo(r, "approved_paid")
  /\ Begin(w, Notice(r, "approved_paid"))
  /\ UNCHANGED <<assigned, mails, charge>>

(* payQuote, the demo checkout; initialize falls back on it.               *)
PayQuote(w, r, q) ==
  /\ Called(w, "payQuote")
  /\ ~Production
  /\ Payable(r, q)
  /\ Begin(w, IF AlreadyPaid(r, q)
              THEN Notice(r, "approved_paid")
              ELSE [Idle EXCEPT !.op = "pay", !.req = r, !.quote = q,
                                !.hadRow = HasPayment(r)])
  /\ UNCHANGED <<rows, mails, lock, charge>>

PayCommit(w) ==
  /\ job[w].op = "pay"
  /\ Unlocked(job[w].req)
  /\ Settle(w, Demo)
  /\ UNCHANGED lock

(* completePaystackPayment(requestId, quoteId, gatewayRef), called for a   *)
(* charge Paystack reports as successful.  It locks the Request row before *)
(* it reads; a reference that is on the order's own Payment row returns at *)
(* once, whatever that row says.                                           *)
CompleteRepeated(w, ref) ==
  LET r == charge[ref].req IN
  /\ Unlocked(r)
  /\ payment[r].ref = ref
  /\ Begin(w, Notice(r, "approved_paid"))
  /\ UNCHANGED <<rows, mails, lock, charge>>

CompleteRead(w, ref) ==
  LET r == charge[ref].req  q == charge[ref].quote IN
  /\ Unlocked(r)
  /\ \A other \in Requests : payment[other].ref # ref
  /\ Payable(r, q)
  /\ IF AlreadyPaid(r, q)
     THEN /\ Begin(w, Notice(r, "approved_paid"))
          /\ UNCHANGED lock
     ELSE /\ AmountMatches(ref)
          /\ SelectForUpdate(w, r)
          /\ Begin(w, [Idle EXCEPT !.op = "complete", !.req = r, !.quote = q,
                                   !.ref = ref, !.hadRow = HasPayment(r)])
  /\ UNCHANGED <<rows, mails, charge>>

(* Slip: the row stays locked.                                             *)
CompleteKeepingLock(w) ==
  /\ job[w].op = "complete"
  /\ Settle(w, job[w].ref)
  /\ UNCHANGED lock

CompleteCommit(w) ==
  /\ job[w].op = "complete"
  /\ Settle(w, job[w].ref)
  /\ lock' = [lock EXCEPT ![job[w].req] = None]

-----------------------------------------------------------------------------
(* Ops.                                                                    *)

(* assignInternal, of claimRequest and assignRequest.                      *)
Assign(r, u) ==
  /\ "assign" \in Handlers
  /\ Exists(r)
  /\ Unlocked(r)
  /\ assigned' = [assigned EXCEPT ![r] = u]
  /\ UNCHANGED <<status, quotes, payment, history, mails, lock, job, charge>>

(* Slip: the order keeps the agent it has, or none.                        *)
SubmitUnassigned(w, r, u) ==
  /\ Called(w, "submitQuotes")
  /\ Exists(r)
  /\ Begin(w, [Idle EXCEPT !.op = "submitQuotes", !.req = r, !.agent = assigned[r]])
  /\ UNCHANGED <<rows, mails, lock, charge>>

(* The row read decides who the order is assigned to when it is written.   *)
SubmitQuotes(w, r, u) ==
  /\ Called(w, "submitQuotes")
  /\ Exists(r)
  /\ Begin(w, [Idle EXCEPT !.op = "submitQuotes", !.req = r,
                 !.agent = IF assigned[r] # None THEN assigned[r] ELSE u])
  /\ UNCHANGED <<rows, mails, lock, charge>>

(* deleteMany: the quotes the order has are to be deleted.                 *)
DeleteQuotes(w) ==
  /\ job[w].op = "submitQuotes"
  /\ Sweep(w)
  /\ UNCHANGED <<rows, mails, lock, charge>>

(* D: the drafts, at least one.  A quote somebody else inserted since      *)
(* deleteMany ran stays.                                                   *)
SubmitQuotesCommit(w, D) ==
  LET r == job[w].req IN
  /\ job[w].op = "submitQuotes"
  /\ job[w].swept
  /\ Unlocked(r)
  /\ D # {}
  /\ D \subseteq FreshQuotes
  /\ quotes' = [q \in Quotes |->
                  IF q \in D THEN [req |-> r, status |-> "sent"]
                  ELSE IF q \in job[w].rest /\ QuoteOf(r, q)
                       THEN [quotes[q] EXCEPT !.status = "deleted"]
                       ELSE quotes[q]]
  /\ MoveTo(r, "quoted")
  /\ assigned' = [assigned EXCEPT ![r] = job[w].agent]
  /\ Finish(w)
  /\ UNCHANGED <<payment, mails, lock, charge>>

(* Slips of MayMove: stages may be skipped, fulfilment may start unpaid,   *)
(* ops may cancel.                                                         *)
MayMoveSkipping(current, target) ==
  /\ current # "cancelled" /\ target # "cancelled"
  /\ target = "approved_paid" => current = "approved_paid"
  /\ target \in POST_PAYMENT => OpsIndex(current) >= OpsIndex("approved_paid")

MayMoveUnpaid(current, target) ==
  /\ current # "cancelled" /\ target # "cancelled"
  /\ target = "approved_paid" => current = "approved_paid"

MayCancel(current, target) ==
  /\ current # "cancelled"
  /\ target = "approved_paid" => current = "approved_paid"
  /\ target \in POST_PAYMENT =>
       /\ OpsIndex(current) >= OpsIndex("approved_paid")
       /\ OpsIndex(target) \in {OpsIndex(current), OpsIndex(current) + 1}

(* The transitions updateStatus allows from the status it read.            *)
MayMove(current, target) ==
  /\ current # "cancelled" /\ target # "cancelled"
  /\ ~(target = "quoted" /\ current = "submitted")
  /\ target = "approved_paid" => current = "approved_paid"
  /\ target \in POST_PAYMENT =>
       /\ OpsIndex(current) >= OpsIndex("approved_paid")
       /\ OpsIndex(target) >= OpsIndex(current)
       /\ OpsIndex(target) <= OpsIndex(current) + 1

UpdateStatus(w, r, target) ==
  /\ Called(w, "updateStatus")
  /\ Exists(r)
  /\ MayMove(status[r], target)
  /\ Begin(w, [Idle EXCEPT !.op = "update", !.req = r, !.st = status[r],
                           !.target = target])
  /\ UNCHANGED <<rows, mails, lock, charge>>

UpdateCommit(w) ==
  LET r == job[w].req  target == job[w].target IN
  /\ job[w].op = "update"
  /\ Unlocked(r)
  /\ MoveTo(r, target)
  /\ Begin(w, Notice(r, target))
  /\ UNCHANGED <<assigned, quotes, payment, mails, lock, charge>>

-----------------------------------------------------------------------------
(* Cancellation and refund: read, call Paystack, write.                    *)

CancelPaidRequest(w, r) ==
  /\ Called(w, "cancel")
  /\ status[r] = "approved_paid"
  /\ payment[r].status = "paid"
  /\ Begin(w, [Idle EXCEPT !.op = "cancel", !.req = r, !.ref = payment[r].ref])
  /\ UNCHANGED <<rows, mails, lock, charge>>

RetryRefund(w, r) ==
  /\ Called(w, "retryRefund")
  /\ payment[r].status = "refund_pending"
  /\ Begin(w, [Idle EXCEPT !.op = "retry", !.req = r, !.ref = payment[r].ref])
  /\ UNCHANGED <<rows, mails, lock, charge>>

(* attemptPaystackRefund.  Without a secret it succeeds, outside           *)
(* production, and nothing moves.  With one, Paystack returns the money    *)
(* and says so, returns it and the answer is lost, or returns nothing.     *)
RefundSucceeds(ref) ==
  IF PaystackConfigured
  THEN Refundable(ref) /\ ReturnMoney(ref)
  ELSE ~Production /\ UNCHANGED charge

RefundFails(ref) ==
  /\ PaystackConfigured \/ Production
  /\ \/ UNCHANGED charge
     \/ PaystackConfigured /\ Refundable(ref) /\ ReturnMoney(ref)

CancelRefund(w) ==
  /\ job[w].op = "cancel"
  /\ \/ RefundSucceeds(job[w].ref) /\ Step(w, "cancelRefunded")
     \/ RefundFails(job[w].ref)    /\ Step(w, "cancelPending")
  /\ UNCHANGED <<rows, mails, lock>>

(* Slip: the answer to the refund call is not looked at.                   *)
CancelAsRefunded(w) ==
  /\ job[w].op \in {"cancelRefunded", "cancelPending"}
  /\ Unlocked(job[w].req)
  /\ MoveTo(job[w].req, "cancelled")
  /\ payment' = [payment EXCEPT ![job[w].req].status = "refunded"]
  /\ Begin(w, Notice(job[w].req, "refunded"))
  /\ UNCHANGED <<assigned, quotes, mails, lock, charge>>

CancelCommit(w) ==
  LET r == job[w].req IN
  /\ job[w].op \in {"cancelRefunded", "cancelPending"}
  /\ Unlocked(r)
  /\ MoveTo(r, "cancelled")
  /\ \/ /\ job[w].op = "cancelRefunded"
        /\ payment' = [payment EXCEPT ![r].status = "refunded"]
        /\ Begin(w, Notice(r, "refunded"))
     \/ /\ job[w].op = "cancelPending"
        /\ payment' = [payment EXCEPT ![r].status = "refund_pending"]
        /\ Finish(w)
  /\ UNCHANGED <<assigned, quotes, mails, lock, charge>>

(* Slip: a failed retry goes on.                                           *)
RetryRegardless(w) ==
  /\ job[w].op = "retry"
  /\ RefundSucceeds(job[w].ref) \/ RefundFails(job[w].ref)
  /\ Step(w, "retryRefunded")
  /\ UNCHANGED <<rows, mails, lock>>

(* A retry that fails again throws and writes nothing.                     *)
RetryCall(w) ==
  /\ job[w].op = "retry"
  /\ \/ RefundSucceeds(job[w].ref) /\ Step(w, "retryRefunded")
     \/ RefundFails(job[w].ref)    /\ Finish(w)
  /\ UNCHANGED <<rows, mails, lock>>

(* Two statements, each committed on its own.                              *)
RetryPaid(w) ==
  /\ job[w].op = "retryRefunded"
  /\ payment' = [payment EXCEPT ![job[w].req].status = "refunded"]
  /\ Step(w, "retryLog")
  /\ UNCHANGED <<status, assigned, quotes, history, mails, lock, charge>>

RetryLog(w) ==
  LET r == job[w].req IN
  /\ job[w].op = "retryLog"
  /\ Unlocked(r)
  /\ history' = [history EXCEPT ![r] = @ \cup {"cancelled"}]
  /\ Begin(w, Notice(r, "refunded"))
  /\ UNCHANGED <<status, assigned, quotes, payment, mails, lock, charge>>

-----------------------------------------------------------------------------
(* emailStatusNotice: the notice goes on the mail queue after the commit.  *)
SendNotice(w) ==
  /\ job[w].op = "mail"
  /\ mails' = mails \cup {<<job[w].req, job[w].target>>}
  /\ Finish(w)
  /\ UNCHANGED <<rows, lock, charge>>

(* A write that finds its row deleted, or its unique key taken, throws and *)
(* the transaction rolls back.                                             *)
WriteRefused(w) ==
  LET r == job[w].req IN
  /\ \/ job[w].op = "reject" /\ ~Live(job[w].quote)
     \/ job[w].op \in {"approve", "pay"} /\ job[w].swept /\ ~Live(job[w].quote)
     \/ job[w].op = "pay" /\ job[w].swept /\ ~job[w].hadRow /\ HasPayment(r)
  /\ Finish(w)
  /\ UNCHANGED <<rows, mails, lock, charge>>
=============================================================================

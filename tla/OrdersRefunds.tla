---------------------------- MODULE OrdersRefunds ----------------------------
(***************************************************************************)
(* Cancellations, refunds and the notices about money.  A handler acts on  *)
(* rows it read before it asked Paystack, so the invariant rests on what   *)
(* cannot be undone: a charge keeps its order and stays refunded, a        *)
(* Payment row stays, and a timeline only grows.  With it every step of    *)
(* the order system is shown to be one that OrderContract allows.          *)
(***************************************************************************)
EXTENDS OrdersSafety

\* Someone's money was taken for order r.
Taken(r) == \E ref \in Refs : Charged(ref) /\ charge[ref].req = r

\* A reference kept for order r is of a transaction opened for it.
RefOf(ref, r) == ref \in Refs => charge[ref].state # "none" /\ charge[ref].req = r

WasPaid(r) == HasPayment(r) /\ "approved_paid" \in history[r]

NoticeTrue(r, s) ==
  /\ s = "approved_paid" /\ Production => Taken(r)
  /\ s = "refunded" /\ PaystackConfigured => Returned(r)
  /\ s = "cancelled" => {"approved_paid", "cancelled"} \subseteq history[r]

Refunding == {"cancel", "cancelRefunded", "cancelPending",
              "retry", "retryRefunded", "retryLog"}
MoneyBack == {"cancelRefunded", "retryRefunded", "retryLog"}

JobTrue(j) ==
  /\ j.op \in {"cancel", "retry"} => RefOf(j.ref, j.req)
  /\ j.op \in MoneyBack /\ PaystackConfigured => Returned(j.req)
  /\ j.op \in Refunding => WasPaid(j.req)
  /\ j.op = "mail" => NoticeTrue(j.req, j.target)

PaymentTrue(r) ==
  /\ RefOf(payment[r].ref, r)
  /\ payment[r].status \in {"paid", "refund_pending", "refunded"} =>
       "approved_paid" \in history[r]
  /\ payment[r].status = "refunded" /\ PaystackConfigured => Returned(r)

RefundInv ==
  /\ \A w \in Workers : JobTrue(job[w])
  /\ \A r \in Requests : PaymentTrue(r)
  /\ \A r \in Requests, s \in MoneyNotices : <<r, s>> \in mails => NoticeTrue(r, s)
  /\ CancelledWasPaid
  /\ \A r \in Requests : status[r] = "cancelled" => "cancelled" \in history[r]

LEMMA RefundInit == Init => RefundInv
BY NoneAssumption DEF Init, RefundInv, JobTrue, Idle, PaymentTrue, RefOf, NoPayment,
   CancelledWasPaid, MoneyBack, Refunding

-----------------------------------------------------------------------------
(* What stays.                                                             *)

LEMMA PaymentsStay ==
  ASSUME TypeInv, [Next]_vars
  PROVE  \A r \in Requests : HasPayment(r) => HasPayment(r)'
<1> USE DEF TypeInv, TypeOK, PaymentRows, HasPayment
<1>1. CASE Environment
  BY <1>1 DEF Environment, CreateRequest, CreateGuidedRequest, CreateCatalogOrder, Submit,
     SubmitQuoted, Assign, CustomerPays, rows
<1>2. ASSUME NEW w \in Workers, Call(w) \/ Crash(w) PROVE UNCHANGED payment
  BY <1>2, CallKeepsTables, CrashKeepsTables
<1>3. ASSUME NEW w \in Workers, Continue(w)
      PROVE  \A r \in Requests : HasPayment(r) => HasPayment(r)'
  <2>1. CASE \/ PayCommit(w) \/ CompleteCommit(w) \/ CancelCommit(w) \/ RetryPaid(w)
    <3>1. CASE PayCommit(w) \/ CompleteCommit(w)
      <4>1. PICK ref : payment' = [payment EXCEPT ![job[w].req] =
                                   [amount |-> job[w].quote, ref |-> ref, status |-> "paid"]]
        BY <3>1 DEF PayCommit, CompleteCommit, Settle
      <4> QED BY <4>1
    <3>2. CASE CancelCommit(w)
      BY <3>2 DEF CancelCommit
    <3>3. CASE RetryPaid(w)
      BY <3>3 DEF RetryPaid
    <3> QED BY <2>1, <3>1, <3>2, <3>3
  <2>2. ASSUME NEW ref \in Refs, InitializeCommit(w, ref)
        PROVE  \A r \in Requests : HasPayment(r) => HasPayment(r)'
    BY <2>2 DEF InitializeCommit
  <2>3. ASSUME ~PayCommit(w), ~CompleteCommit(w), ~CancelCommit(w), ~RetryPaid(w),
               \A ref \in Refs : ~InitializeCommit(w, ref)
        PROVE  UNCHANGED payment
    BY <1>3, <2>3, ContinueSteps, QuietKeepsTables
       DEF RejectCommit, ApproveCommit, InitializeRefused,
       SubmitQuotesCommit, UpdateCommit, CancelRefund, RetryCall, RetryLog, FindQuote,
       FindStatus, FindLog, SendNotice, WriteRefused, rows
  <2> QED BY <2>1, <2>2, <2>3
<1>4. CASE UNCHANGED vars
  BY <1>4 DEF vars, rows
<1> QED BY <1>1, <1>2, <1>3, <1>4 DEF Next

LEMMA FactsStay ==
  ASSUME TypeInv, [Next]_vars, NEW r \in Requests
  PROVE  /\ Taken(r) => Taken(r)'
         /\ Returned(r) => Returned(r)'
         /\ WasPaid(r) => WasPaid(r)'
         /\ \A ref \in Refs \cup {Demo, None} : RefOf(ref, r) => RefOf(ref, r)'
         /\ \A s \in MoneyNotices : NoticeTrue(r, s) => NoticeTrue(r, s)'
<1>1. (Taken(r) => Taken(r)') /\ (Returned(r) => Returned(r)')
  BY ChargesKept DEF Taken, Returned, ChargeKept, Charged
<1>2. WasPaid(r) => WasPaid(r)'
  BY PaymentsStay, HistoryGrows DEF WasPaid
<1>3. \A ref \in Refs \cup {Demo, None} : RefOf(ref, r) => RefOf(ref, r)'
  BY ChargesKept DEF RefOf, ChargeKept
<1>4. history[r] \subseteq history'[r]
  BY HistoryGrows
<1> QED BY <1>1, <1>2, <1>3, <1>4 DEF NoticeTrue

LEMMA JobStaysTrue ==
  ASSUME TypeInv, RefundInv, [Next]_vars, NEW v \in Workers, job'[v] = job[v]
  PROVE  JobTrue(job[v])'
<1>1. JobTrue(job[v]) /\ JobOK(job[v])
  BY DEF RefundInv, TypeInv
<1>2. CASE job[v].op = "idle"
  BY <1>2 DEF JobTrue, MoneyBack, Refunding
<1>3. CASE job[v].op # "idle"
  BY <1>1, <1>3, FactsStay DEF JobTrue, JobOK, Jobs
<1> QED BY <1>2, <1>3

-----------------------------------------------------------------------------
(* Notices.                                                                *)

LEMMA NoticeEffect ==
  ASSUME TypeInv, NEW w \in Workers, NEW r, NEW s, Begin(w, Notice(r, s))
  PROVE  \/ job'[w].op = "idle"
         \/ job'[w].op = "mail" /\ job'[w].req = r /\ job'[w].target = s /\ s \in MoneyNotices
<1>1. job'[w] = Notice(r, s)
  BY BeginEffect
<1>2. CASE s \in MoneyNotices
  <2>1. job'[w] = [Idle EXCEPT !.op = "mail", !.req = r, !.target = s]
    BY <1>1, <1>2 DEF Notice
  <2> QED BY <1>2, <2>1 DEF Idle
<1>3. CASE s \notin MoneyNotices
  BY <1>1, <1>3 DEF Notice, Idle
<1> QED BY <1>2, <1>3

\* A notice that is true when the step begins is still true when it ends.
LEMMA CarriesNotice ==
  ASSUME TypeInv, [Next]_vars, NEW w \in Workers, NEW r \in Requests, NEW s,
         Begin(w, Notice(r, s)), s \in MoneyNotices => NoticeTrue(r, s)
  PROVE  JobTrue(job[w])'
<1>1. s \in MoneyNotices => NoticeTrue(r, s)'
  BY FactsStay
<1> QED BY <1>1, NoticeEffect DEF JobTrue, MoneyBack, Refunding, MoneyNotices

LEMMA IdleIsTrue ==
  ASSUME TypeInv, NEW w \in Workers, Finish(w)
  PROVE  JobTrue(job[w])'
BY DEF Finish, TypeInv, TypeOK, Idle, JobTrue, MoneyBack, Refunding

\* The charge behind a payment was taken for its order.
LEMMA PaysForTakes ==
  ASSUME NEW ref \in Refs, NEW r, NEW q, PaysFor(ref, r, q)
  PROVE  Taken(r)
BY DEF PaysFor, Taken

\* In production a logged payment is a charge.
LEMMA LoggedIsTaken ==
  ASSUME ChargeInv, Production, NEW r \in Requests, "approved_paid" \in history[r]
  PROVE  Taken(r)
BY DEF ChargeInv, HasCharge, Taken

-----------------------------------------------------------------------------
(* Calls.                                                                  *)

LEMMA CallsAreTrue ==
  ASSUME SafetyInv, RefundInv, [Next]_vars, NEW w \in Workers, Call(w)
  PROVE  JobTrue(job[w])'
<1> USE DEF SafetyInv
<1>k. UNCHANGED <<status, payment, history, charge>>
  BY CallKeepsTables
<1>1. ASSUME NEW r \in Requests, NEW q \in Quotes, PayQuote(w, r, q) PROVE JobTrue(job[w])'
  BY <1>1, PaymentCallEffect DEF PayQuote, JobTrue, NoticeTrue, MoneyBack, Refunding
<1>2. ASSUME NEW ref \in Refs, PaymentReported(w, ref) PROVE JobTrue(job[w])'
  <2>1. \/ job'[w].op = "mail" /\ job'[w].req = charge[ref].req
           /\ job'[w].target = "approved_paid"
        \/ job'[w].op = "complete"
    BY <1>2, PaymentCallEffect
  <2>2. charge[ref].req \in Requests /\ Taken(charge[ref].req)
    BY <1>2 DEF PaymentReported, Charged, TypeInv, ChargeOK, Taken
  <2>3. Taken(charge[ref].req)'
    BY <1>k, <2>2 DEF Taken, Charged
  <2> QED BY <1>k, <2>1, <2>3 DEF JobTrue, NoticeTrue, MoneyBack, Refunding
<1>3. ASSUME NEW r \in Requests, CancelPaidRequest(w, r) PROVE JobTrue(job[w])'
  <2>1. /\ job'[w].op = "cancel" /\ job'[w].req = r /\ job'[w].ref = payment[r].ref
        /\ status[r] = "approved_paid" /\ payment[r].status = "paid"
    BY <1>3, CallEffect DEF CancelPaidRequest
  <2>2. "approved_paid" \in history[r]
    BY <2>1, PaidUpToValues DEF TimelineInv, TimelineGapless
  <2>3. WasPaid(r)' /\ RefOf(payment[r].ref, r)'
    BY <1>k, <2>1, <2>2 DEF WasPaid, HasPayment, RefundInv, PaymentTrue, RefOf
  <2> QED BY <1>k, <2>1, <2>3 DEF JobTrue, MoneyBack, Refunding
<1>4. ASSUME NEW r \in Requests, RetryRefund(w, r) PROVE JobTrue(job[w])'
  <2>1. job'[w].op = "retry" /\ job'[w].req = r /\ job'[w].ref = payment[r].ref
    BY <1>4, CallEffect
  <2>2. WasPaid(r)' /\ RefOf(payment[r].ref, r)'
    BY <1>4, <1>k DEF RetryRefund, WasPaid, HasPayment, RefundInv, PaymentTrue, RefOf
  <2> QED BY <1>k, <2>1, <2>2 DEF JobTrue, MoneyBack, Refunding
<1>5. CASE /\ \A r \in Requests : ~CancelPaidRequest(w, r) /\ ~RetryRefund(w, r)
           /\ \A ref \in Refs : ~PaymentReported(w, ref)
           /\ \A r \in Requests, q \in Quotes : ~PayQuote(w, r, q)
  BY <1>5, CallEffect DEF Call, JobTrue, MoneyBack, Refunding
<1> QED BY <1>1, <1>2, <1>3, <1>4, <1>5
-----------------------------------------------------------------------------
(* Steps of a handler.                                                     *)

\* A refund Paystack confirms is of the order whose reference was sent.
LEMMA RefundReturns ==
  ASSUME TypeInv, NEW r \in Requests, NEW ref, RefOf(ref, r), RefundSucceeds(ref),
         PaystackConfigured
  PROVE  Returned(r)'
<1>1. ref \in Refs /\ charge' = [charge EXCEPT ![ref].state = "refunded"]
  BY DEF RefundSucceeds, Refundable, ReturnMoney
<1>2. charge'[ref].state = "refunded" /\ charge'[ref].req = r
  BY <1>1 DEF RefOf, TypeInv, TypeOK, Charges
<1> QED BY <1>1, <1>2 DEF Returned

LEMMA ContinueIsTrue ==
  ASSUME SafetyInv, RefundInv, [Next]_vars, NEW w \in Workers, Continue(w)
  PROVE  JobTrue(job[w])'
<1> USE DEF SafetyInv
<1> PICK r : r = job[w].req
  OBVIOUS
<1>1. JobTrue(job[w]) /\ JobOK(job[w]) /\ PaymentJobOK(job[w])
  BY DEF RefundInv, TypeInv, ChargeInv
<1>2. CASE PayCommit(w) \/ CompleteCommit(w)
  <2>1. r \in Requests /\ Begin(w, Notice(r, "approved_paid"))
    BY <1>1, <1>2 DEF PayCommit, CompleteCommit, Settle, JobOK
  <2>2. Production => Taken(r)
    BY <1>1, <1>2, PaysForTakes DEF PayCommit, CompleteCommit, PaymentJobOK, JobOK
  <2> QED BY <2>1, <2>2, CarriesNotice DEF NoticeTrue
<1>3. CASE UpdateCommit(w)
  <2>1. /\ r \in Requests /\ Begin(w, Notice(r, job[w].target))
        /\ job[w].st \in Statuses /\ job[w].target \in Statuses
        /\ MayMove(job[w].st, job[w].target)
    BY <1>1, <1>3 DEF UpdateCommit, JobOK
  <2>2. /\ job[w].target # "cancelled"
        /\ job[w].target = "approved_paid" => job[w].st = "approved_paid"
    BY <2>1, MayMoveStep
  <2>3. job[w].target = "approved_paid" => "approved_paid" \in history[r]
    BY <1>3, <2>2, PaidUpToValues DEF UpdateCommit, TimelineInv, ReadIsLogged
  <2>4. job[w].target # "refunded"
    BY <2>1 DEF Statuses, PaidStatuses, POST_PAYMENT
  <2>5. job[w].target \in MoneyNotices => NoticeTrue(r, job[w].target)
    BY <2>1, <2>2, <2>3, <2>4, LoggedIsTaken DEF NoticeTrue
  <2> QED BY <2>1, <2>5, CarriesNotice
<1>4. CASE CancelRefund(w)
  <2>1. /\ r \in Requests /\ RefOf(job[w].ref, r) /\ WasPaid(r)
        /\ \/ RefundSucceeds(job[w].ref) /\ Step(w, "cancelRefunded")
           \/ Step(w, "cancelPending")
    BY <1>1, <1>4 DEF CancelRefund, JobOK, JobTrue, Refunding
  <2>2. /\ job'[w].req = r /\ job'[w].op \in {"cancelRefunded", "cancelPending"}
        /\ job'[w].op = "cancelRefunded" => RefundSucceeds(job[w].ref)
    <3>1. CASE Step(w, "cancelPending")
      <4>1. job'[w].op = "cancelPending" /\ job'[w].req = job[w].req
        BY <3>1, StepEffect
      <4> QED BY <4>1
    <3>2. CASE RefundSucceeds(job[w].ref) /\ Step(w, "cancelRefunded")
      BY <3>2, StepEffect
    <3> QED BY <2>1, <3>1, <3>2
  <2>3. PaystackConfigured /\ job'[w].op = "cancelRefunded" => Returned(r)'
    BY <2>1, <2>2, RefundReturns
  <2>4. WasPaid(r)'
    BY <2>1, FactsStay
  <2> QED BY <2>2, <2>3, <2>4 DEF JobTrue, MoneyBack, Refunding
<1>5. CASE CancelCommit(w) \/ RetryLog(w)
  <2>1. /\ r \in Requests
        /\ job[w].op \in MoneyBack => NoticeTrue(r, "refunded")
    BY <1>1, <1>5 DEF CancelCommit, RetryLog, JobOK, JobTrue, NoticeTrue, MoneyBack
  <2>2. \/ job[w].op \in MoneyBack /\ Begin(w, Notice(r, "refunded"))
        \/ Finish(w)
    BY <1>5 DEF CancelCommit, RetryLog, MoneyBack
  <2> QED BY <2>1, <2>2, CarriesNotice, IdleIsTrue
<1>6. CASE RetryCall(w)
  <2>1. /\ r \in Requests /\ RefOf(job[w].ref, r) /\ WasPaid(r)
        /\ \/ RefundSucceeds(job[w].ref) /\ Step(w, "retryRefunded")
           \/ Finish(w)
    BY <1>1, <1>6 DEF RetryCall, JobOK, JobTrue, Refunding
  <2>2. CASE RefundSucceeds(job[w].ref) /\ Step(w, "retryRefunded")
    <3>1. job'[w].req = r /\ job'[w].op = "retryRefunded"
      BY <2>2, StepEffect
    <3>2. PaystackConfigured => Returned(r)'
      BY <2>1, <2>2, RefundReturns
    <3>3. WasPaid(r)'
      BY <2>1, FactsStay
    <3> QED BY <3>1, <3>2, <3>3 DEF JobTrue, MoneyBack, Refunding
  <2> QED BY <2>1, <2>2, IdleIsTrue
<1>7. CASE RetryPaid(w)
  <2>1. /\ r \in Requests /\ WasPaid(r) /\ Step(w, "retryLog")
        /\ PaystackConfigured => Returned(r)
    BY <1>1, <1>7 DEF RetryPaid, JobOK, JobTrue, MoneyBack, Refunding
  <2>2. job'[w].req = r /\ job'[w].op = "retryLog"
    BY <2>1, StepEffect
  <2>3. WasPaid(r)' /\ (PaystackConfigured => Returned(r)')
    BY <2>1, FactsStay
  <2> QED BY <2>2, <2>3 DEF JobTrue, MoneyBack, Refunding
<1>8. ASSUME NEW op \in {"findStatus", "findLog"}, Step(w, op) PROVE JobTrue(job[w])'
  BY <1>8, StepEffect DEF JobTrue, MoneyBack, Refunding
<1>9. ASSUME NEW ref \in Refs, InitializeCommit(w, ref) PROVE JobTrue(job[w])'
  BY <1>9, IdleIsTrue DEF InitializeCommit
<1>10. ASSUME NEW D \in SUBSET Quotes, SubmitQuotesCommit(w, D) PROVE JobTrue(job[w])'
  BY <1>10, IdleIsTrue DEF SubmitQuotesCommit
<1>11. ASSUME NEW q \in Quotes, FindQuote(w, q) PROVE JobTrue(job[w])'
  BY <1>8, <1>11, IdleIsTrue DEF FindQuote
<1>12. CASE FindStatus(w)
  BY <1>8, <1>12 DEF FindStatus
<1>13. CASE \/ RejectCommit(w) \/ ApproveCommit(w) \/ InitializeRefused(w) \/ FindLog(w)
           \/ SendNotice(w) \/ WriteRefused(w)
  BY <1>13, IdleIsTrue DEF RejectCommit, ApproveCommit, InitializeRefused, FindLog, SendNotice,
     WriteRefused
<1>14. CASE GuidedNotice(w)
  <2>1. r \in Requests /\ Begin(w, Notice(r, status[r]))
    BY <1>1, <1>14 DEF GuidedNotice, JobOK
  <2>2. status[r] # "refunded"
    BY <2>1 DEF TypeInv, TypeOK, Statuses, PaidStatuses, POST_PAYMENT
  <2>3. status[r] = "approved_paid" => "approved_paid" \in history[r]
    BY <2>1, PaidUpToValues DEF TimelineInv, TimelineGapless
  <2>4. status[r] = "cancelled" => {"approved_paid", "cancelled"} \subseteq history[r]
    BY <2>1 DEF RefundInv, CancelledWasPaid
  <2>5. status[r] \in MoneyNotices => NoticeTrue(r, status[r])
    BY <2>1, <2>2, <2>3, <2>4, LoggedIsTaken DEF NoticeTrue
  <2> QED BY <2>1, <2>5, CarriesNotice
<1>15. CASE Sweeps(w)
  BY <1>15, SweepEffect DEF JobTrue, MoneyBack, Refunding
<1> QED BY <1>2, <1>3, <1>4, <1>5, <1>6, <1>7, <1>9, <1>10, <1>11, <1>12, <1>13, <1>14, <1>15,
           ContinueSteps DEF Quiet

LEMMA PaymentsAreTrue ==
  ASSUME SafetyInv, RefundInv, [Next]_vars, NEW w \in Workers, Continue(w), NEW r \in Requests
  PROVE  PaymentTrue(r)'
<1> USE DEF SafetyInv
<1>k. /\ RefOf(payment[r].ref, r)' \/ payment'[r].ref # payment[r].ref
      /\ payment[r].status \in {"paid", "refund_pending", "refunded"} =>
           "approved_paid" \in history'[r]
      /\ payment[r].status = "refunded" /\ PaystackConfigured => Returned(r)'
  <2>1. PaymentTrue(r) /\ payment[r].ref \in Refs \cup {Demo, None}
    BY DEF RefundInv, TypeInv, TypeOK, PaymentRows
  <2>2. RefOf(payment[r].ref, r) /\ payment'[r].ref = payment[r].ref => RefOf(payment[r].ref, r)'
    BY <2>1, ChargesKept DEF RefOf, ChargeKept
  <2> QED BY <2>1, <2>2, FactsStay, HistoryGrows DEF PaymentTrue
<1>1. ASSUME payment'[r].ref = payment[r].ref,
             \/ payment'[r].status = payment[r].status
             \/ /\ "approved_paid" \in history'[r]
                /\ payment'[r].status = "refunded" /\ PaystackConfigured => Returned(r)'
      PROVE  PaymentTrue(r)'
  BY <1>1, <1>k DEF PaymentTrue
<1>2. CASE PayCommit(w) \/ CompleteCommit(w)
  <2>1. CASE job[w].req # r
    <3>1. payment'[r] = payment[r]
      BY <1>2, <2>1 DEF PayCommit, CompleteCommit, Settle, TypeInv, TypeOK
    <3> QED BY <1>1, <3>1
  <2>2. CASE job[w].req = r
    <3>0. PICK ref \in Refs \cup {Demo} :
            Settle(w, ref) /\ (ref = Demo \/ PaysFor(ref, r, job[w].quote))
      BY <1>2, <2>2 DEF PayCommit, CompleteCommit, TypeInv, JobOK, ChargeInv, PaymentJobOK
    <3>1. /\ payment'[r] = [amount |-> job[w].quote, ref |-> ref, status |-> "paid"]
          /\ "approved_paid" \in history'[r]
      BY <2>2, <3>0 DEF Settle, MoveTo, TypeInv, TypeOK
    <3>2. ref \in Refs => RefOf(ref, r)
      BY <3>0, NoneAssumption DEF RefOf, PaysFor, Charged
    <3>3. ref \in Refs => RefOf(ref, r)'
      BY <3>2, FactsStay
    <3> QED BY <3>1, <3>3, NoneAssumption DEF PaymentTrue, RefOf
  <2> QED BY <2>1, <2>2
<1>3. CASE CancelCommit(w) \/ RetryPaid(w)
  <2>1. /\ payment'[r].ref = payment[r].ref
        /\ \/ payment'[r].status = payment[r].status
           \/ /\ payment'[r].status = "refunded" => job[w].op \in MoneyBack
              /\ job[w].op \in Refunding /\ job[w].req = r
    <3>1. CASE CancelCommit(w)
      <4>1. PICK st \in {"refunded", "refund_pending"} :
              /\ payment' = [payment EXCEPT ![job[w].req].status = st]
              /\ st = "refunded" => job[w].op \in MoneyBack
              /\ job[w].op \in Refunding
        BY <3>1 DEF CancelCommit, MoneyBack, Refunding
      <4> QED BY <4>1 DEF TypeInv, TypeOK, PaymentRows
    <3>2. CASE RetryPaid(w)
      BY <3>2 DEF RetryPaid, MoneyBack, Refunding, TypeInv, TypeOK, PaymentRows
    <3> QED BY <1>3, <3>1, <3>2
  <2>2. job[w].op \in MoneyBack /\ job[w].req = r /\ PaystackConfigured => Returned(r)'
    BY FactsStay DEF RefundInv, JobTrue
  <2>3. job[w].op \in Refunding /\ job[w].req = r => "approved_paid" \in history'[r]
    BY HistoryGrows DEF RefundInv, JobTrue, WasPaid
  <2> QED BY <1>1, <2>1, <2>2, <2>3
<1>4. ASSUME NEW ref \in Refs, InitializeCommit(w, ref) PROVE PaymentTrue(r)'
  <2>1. /\ charge' = [charge EXCEPT ![ref] = [state |-> "open", req |-> job[w].req,
                                              quote |-> job[w].quote, exact |-> FALSE]]
        /\ payment' = [payment EXCEPT ![job[w].req] =
                         [amount |-> job[w].quote, ref |-> ref, status |-> "unpaid"]]
    BY <1>4 DEF InitializeCommit, OpenCharge
  <2>2. CASE job[w].req # r
    <3>1. payment'[r] = payment[r]
      BY <2>1, <2>2 DEF TypeInv, TypeOK
    <3> QED BY <1>1, <3>1
  <2>3. CASE job[w].req = r
    <3>1. /\ payment'[r].ref = ref /\ payment'[r].status = "unpaid"
          /\ charge'[ref].state = "open" /\ charge'[ref].req = r
      BY <2>1, <2>3 DEF TypeInv, TypeOK
    <3> QED BY <3>1 DEF PaymentTrue, RefOf
  <2> QED BY <2>2, <2>3
<1>5. ASSUME ~PayCommit(w), ~CompleteCommit(w), ~CancelCommit(w), ~RetryPaid(w),
             \A ref \in Refs : ~InitializeCommit(w, ref)
      PROVE  UNCHANGED payment
  BY <1>5, ContinueSteps, QuietKeepsTables
     DEF RejectCommit, ApproveCommit, InitializeRefused, SubmitQuotesCommit,
     UpdateCommit, CancelRefund, RetryCall, RetryLog, FindQuote, FindStatus, FindLog, SendNotice,
     WriteRefused, rows
<1> QED BY <1>1, <1>2, <1>3, <1>4, <1>5

\* Only the second half of a cancellation cancels.
LEMMA CancelWriters ==
  ASSUME TypeInv, NEW w \in Workers, Continue(w), NEW r \in Requests,
         status'[r] = "cancelled", status[r] # "cancelled"
  PROVE  CancelCommit(w) /\ job[w].req = r
<1> USE DEF TypeInv, TypeOK, MoveTo
<1>1. CASE CancelCommit(w)
  BY <1>1 DEF CancelCommit
<1>2. CASE PayCommit(w) \/ CompleteCommit(w)
  BY <1>2 DEF PayCommit, CompleteCommit, Settle
<1>3. CASE UpdateCommit(w)
  <2>1. job[w].target # "cancelled"
    BY <1>3, MayMoveStep DEF UpdateCommit, JobOK
  <2> QED BY <1>3, <2>1 DEF UpdateCommit
<1>4. CASE FindStatus(w)
  BY <1>4 DEF FindStatus
<1>5. ASSUME NEW D \in SUBSET Quotes, SubmitQuotesCommit(w, D) PROVE FALSE
  BY <1>5 DEF SubmitQuotesCommit
<1>6. ASSUME ~CancelCommit(w), ~PayCommit(w), ~CompleteCommit(w), ~UpdateCommit(w),
             ~FindStatus(w), \A D \in SUBSET Quotes : ~SubmitQuotesCommit(w, D)
      PROVE  UNCHANGED status
  BY <1>6, ContinueSteps, QuietKeepsTables
     DEF RejectCommit, ApproveCommit, InitializeCommit, InitializeRefused,
     CancelRefund, RetryCall, RetryPaid, RetryLog, FindQuote, FindLog, SendNotice,
     WriteRefused, rows
<1> QED BY <1>1, <1>2, <1>3, <1>4, <1>5, <1>6

\* Only SendNotice enqueues, and what its handler carries.
LEMMA MailWriters ==
  ASSUME NEW w \in Workers, Continue(w), NEW m \in mails', m \notin mails
  PROVE  job[w].op = "mail" /\ m = <<job[w].req, job[w].target>>
BY ContinueSteps, QuietKeepsTables
   DEF RejectCommit, ApproveCommit, PayCommit, CompleteCommit, Settle, InitializeCommit,
   InitializeRefused, SubmitQuotesCommit, UpdateCommit, CancelRefund,
   CancelCommit, RetryCall, RetryPaid, RetryLog, FindQuote, FindStatus, FindLog, SendNotice,
   WriteRefused, rows

LEMMA RefundStep ==
  ASSUME SafetyInv, RefundInv, [Next]_vars
  PROVE  RefundInv'
<1> USE DEF SafetyInv
<1>1. ASSUME NEW r \in Requests, payment'[r] = payment[r] PROVE PaymentTrue(r)'
  <2>1. PaymentTrue(r) /\ payment[r].ref \in Refs \cup {Demo, None}
    BY DEF RefundInv, TypeInv, TypeOK, PaymentRows
  <2>2. PaymentTrue(r) => RefOf(payment[r].ref, r)'
    BY <1>1, <2>1, ChargesKept DEF PaymentTrue, RefOf, ChargeKept
  <2> QED BY <1>1, <2>1, <2>2, FactsStay, HistoryGrows DEF PaymentTrue
<1>2. ASSUME NEW r \in Requests, NEW s \in MoneyNotices, <<r, s>> \in mails
      PROVE  NoticeTrue(r, s)'
  BY <1>2, FactsStay DEF RefundInv
<1>3. ASSUME NEW r \in Requests, status[r] = "cancelled"
      PROVE  WasPaid(r)' /\ "cancelled" \in history'[r]
  BY <1>3, FactsStay, HistoryGrows DEF RefundInv, CancelledWasPaid, WasPaid
<1>4. ASSUME \A w \in Workers : JobTrue(job[w])', UNCHANGED <<payment, mails>>,
             \A r \in Requests : status'[r] = "cancelled" => status[r] = "cancelled"
      PROVE  RefundInv'
  BY <1>1, <1>2, <1>3, <1>4 DEF RefundInv, CancelledWasPaid, WasPaid
<1>5. CASE Environment
  <2>1. UNCHANGED <<payment, mails>>
    BY <1>5, EnvironmentKeepsJobs DEF Environment, CreateRequest, CreateGuidedRequest,
       CreateCatalogOrder, Submit, SubmitQuoted, Assign, CustomerPays, rows
  <2>2. \A r \in Requests : status'[r] = "cancelled" => status[r] = "cancelled"
    BY <1>5 DEF Environment, CreateRequest, CreateGuidedRequest, CreateCatalogOrder, Submit,
     SubmitQuoted, Assign, CustomerPays, rows, MoveTo, TypeInv, TypeOK
  <2>3. \A v \in Workers : JobTrue(job[v])'
    BY <1>5, EnvironmentKeepsJobs, JobStaysTrue DEF JobTrue, MoneyBack, Refunding
  <2> QED BY <1>4, <2>1, <2>2, <2>3
<1>6. ASSUME NEW w \in Workers, Call(w) PROVE RefundInv'
  <2>1. \A v \in Workers : JobTrue(job[v])'
    BY <1>6, CallsAreTrue, JobStaysTrue, OthersKeep DEF Working
  <2> QED BY <1>4, <1>6, <2>1, CallKeepsTables
<1>7. ASSUME NEW w \in Workers, Crash(w) PROVE RefundInv'
  <2>1. \A v \in Workers : JobTrue(job[v])'
    BY <1>7, IdleIsTrue, JobStaysTrue, OthersKeep DEF Working, Crash
  <2> QED BY <1>4, <1>7, <2>1, CrashKeepsTables
<1>8. ASSUME NEW w \in Workers, Continue(w) PROVE RefundInv'
  <2>1. \A v \in Workers : JobTrue(job[v])'
    BY <1>8, ContinueIsTrue, JobStaysTrue, OthersKeep DEF Working
  <2>2. \A r \in Requests : PaymentTrue(r)'
    BY <1>8, PaymentsAreTrue
  <2>3. ASSUME NEW r \in Requests, NEW s \in MoneyNotices, <<r, s>> \in mails'
        PROVE  NoticeTrue(r, s)'
    <3>1. CASE <<r, s>> \in mails
      BY <1>2, <3>1
    <3>2. CASE <<r, s>> \notin mails
      <4>1. job[w].op = "mail" /\ job[w].req = r /\ job[w].target = s
        BY <1>8, <2>3, <3>2, MailWriters
      <4>2. NoticeTrue(r, s)
        BY <4>1 DEF RefundInv, JobTrue
      <4> QED BY <4>2, FactsStay
    <3> QED BY <3>1, <3>2
  <2>4. ASSUME NEW r \in Requests, status'[r] = "cancelled"
        PROVE  WasPaid(r)' /\ "cancelled" \in history'[r]
    <3>1. CASE status[r] # "cancelled"
      <4>0. CancelCommit(w) /\ job[w].req = r
        BY <1>8, <2>4, <3>1, CancelWriters
      <4>1. /\ job[w].op \in Refunding /\ job[w].req = r
            /\ "cancelled" \in history'[r]
        BY <4>0 DEF CancelCommit, Refunding, MoveTo, TypeInv, TypeOK
      <4>2. WasPaid(r)
        BY <4>1 DEF RefundInv, JobTrue
      <4> QED BY <4>1, <4>2, FactsStay
    <3> QED BY <1>3, <3>1
  <2> QED BY <2>1, <2>2, <2>3, <2>4 DEF RefundInv, CancelledWasPaid, WasPaid
<1>9. CASE UNCHANGED vars
  BY <1>4, <1>9, JobStaysTrue DEF vars, rows
<1> QED BY <1>5, <1>6, <1>7, <1>8, <1>9 DEF Next

-----------------------------------------------------------------------------
(* The contract.  Each step is one of OrderContract's, or changes nothing  *)
(* it sees.                                                                *)

SameCharges == \A r \in Requests : HasCharge(r)' = HasCharge(r) /\ Returned(r)' = Returned(r)

LEMMA LogIsALog ==
  ASSUME TypeInv, NEW r \in Requests, NEW S, history' = [history EXCEPT ![r] = @ \cup S],
         SameCharges
  PROVE  Contract!Log(r, S)
BY DEF SameCharges, Contract!Log

LEMMA NothingIsAStutter ==
  ASSUME UNCHANGED history, SameCharges
  PROVE  UNCHANGED Contract!cvars
BY DEF SameCharges, Contract!cvars

LEMMA ChargesAsBefore ==
  ASSUME UNCHANGED charge
  PROVE  SameCharges
BY DEF SameCharges, HasCharge, Returned, Charged

\* A refund, acknowledged or not, is a return to an order that was paid.
LEMMA RefundIsAReturn ==
  ASSUME SafetyInv, RefundInv, NEW w \in Workers, job[w].op \in {"cancel", "retry"},
         RefundSucceeds(job[w].ref) \/ RefundFails(job[w].ref), UNCHANGED history
  PROVE  (\E r \in Requests : Contract!Returned(r)) \/ UNCHANGED Contract!cvars
<1> PICK r, ref : r = job[w].req /\ ref = job[w].ref
  OBVIOUS
<1>1. r \in Requests /\ RefOf(ref, r) /\ "approved_paid" \in history[r]
  BY DEF SafetyInv, TypeInv, JobOK, RefundInv, JobTrue, Refunding, WasPaid
<1>2. CASE UNCHANGED charge
  BY <1>2, ChargesAsBefore, NothingIsAStutter
<1>3. CASE ref \in Refs /\ charge[ref].state = "success" /\ ReturnMoney(ref)
  <2>1. /\ charge'[ref].state = "refunded" /\ charge'[ref].req = r
        /\ charge'[ref].exact = charge[ref].exact /\ charge[ref].req = r
        /\ \A x \in Refs \ {ref} : charge'[x] = charge[x]
    BY <1>1, <1>3 DEF ReturnMoney, RefOf, SafetyInv, TypeInv, TypeOK, Charges
  <2>2. \A o \in Requests : HasCharge(o)' = HasCharge(o)
    BY <1>3, <2>1 DEF HasCharge, Charged
  <2>3. Returned(r)' = TRUE
    BY <1>3, <2>1 DEF Returned
  <2>4. \A o \in Requests \ {r} : Returned(o)' = Returned(o)
    BY <1>3, <2>1 DEF Returned
  <2>5. [o \in Requests |-> Returned(o)]'
          = [[o \in Requests |-> Returned(o)] EXCEPT ![r] = TRUE]
    BY <1>1, <2>3, <2>4
  <2> QED BY <1>1, <2>2, <2>5 DEF Contract!Returned
<1> QED BY <1>2, <1>3, RefundOutcome

LEMMA CaptureIsACapture ==
  ASSUME TypeInv, NEW ref \in Refs, NEW exact \in BOOLEAN, CustomerPays(ref, exact)
  PROVE  (\E r \in Requests : Contract!Captured(r)) \/ UNCHANGED Contract!cvars
<1> PICK r : r = charge[ref].req
  OBVIOUS
<1>1. /\ r \in Requests /\ charge[ref].state = "open" /\ UNCHANGED history
      /\ charge'[ref].state = "success" /\ charge'[ref].req = r
      /\ charge'[ref].exact = exact
      /\ \A x \in Refs \ {ref} : charge'[x] = charge[x]
  BY DEF CustomerPays, Capture, TypeInv, TypeOK, Charges, ChargeOK, rows
<1>2. \A o \in Requests : Returned(o)' = Returned(o)
  BY <1>1 DEF Returned
<1>3. \A o \in Requests \ {r} : HasCharge(o)' = HasCharge(o)
  BY <1>1 DEF HasCharge, Charged
<1>4. CASE exact
  <2>1. HasCharge(r)' = TRUE
    BY <1>1, <1>4 DEF HasCharge, Charged
  <2>2. [o \in Requests |-> HasCharge(o)]'
          = [[o \in Requests |-> HasCharge(o)] EXCEPT ![r] = TRUE]
    BY <1>1, <1>3, <2>1
  <2> QED BY <1>1, <1>2, <2>2 DEF Contract!Captured
<1>5. CASE ~exact
  <2>1. HasCharge(r)' = HasCharge(r)
    BY <1>1, <1>5 DEF HasCharge, Charged
  <2> QED BY <1>1, <1>2, <1>3, <2>1, NothingIsAStutter DEF SameCharges
<1> QED BY <1>4, <1>5

LEMMA ContinueKeepsContract ==
  ASSUME SafetyInv, RefundInv, NEW w \in Workers, Continue(w)
  PROVE  [Contract!ContractNext]_(Contract!cvars)
<1> USE DEF SafetyInv
<1> PICK r : r = job[w].req
  OBVIOUS
<1>1. JobTrue(job[w]) /\ JobOK(job[w]) /\ PaymentJobOK(job[w])
  BY DEF RefundInv, TypeInv, ChargeInv
<1>2. ASSUME UNCHANGED <<history, charge>> PROVE UNCHANGED Contract!cvars
  BY <1>2, ChargesAsBefore, NothingIsAStutter
<1>3. ASSUME NEW S, history' = [history EXCEPT ![r] = @ \cup S], UNCHANGED charge,
             r \in Requests
      PROVE  Contract!Log(r, S)
  BY <1>3, ChargesAsBefore, LogIsALog
<1>4. CASE PayCommit(w) \/ CompleteCommit(w)
  <2>1. /\ r \in Requests /\ history' = [history EXCEPT ![r] = @ \cup {"approved_paid"}]
        /\ UNCHANGED charge
    BY <1>1, <1>4 DEF PayCommit, CompleteCommit, Settle, MoveTo, JobOK
  <2>2. Production => HasCharge(r)
    BY <1>1, <1>4 DEF PayCommit, CompleteCommit, PaymentJobOK, JobOK, PaysFor, HasCharge
  <2> QED BY <2>1, <2>2, <1>3 DEF Contract!ContractNext, Contract!Paid
<1>5. CASE UpdateCommit(w)
  <2> PICK t : t = job[w].target
    OBVIOUS
  <2>1. /\ r \in Requests /\ history' = [history EXCEPT ![r] = @ \cup {t}]
        /\ UNCHANGED charge /\ job[w].st \in Statuses /\ t \in Statuses
        /\ MayMove(job[w].st, t) /\ PaidUpTo(job[w].st) \subseteq history[r]
    BY <1>1, <1>5 DEF UpdateCommit, MoveTo, JobOK, TimelineInv, ReadIsLogged
  <2>2. Contract!Log(r, {t})
    BY <1>3, <2>1
  <2>3. /\ PaidUpTo(t) \subseteq PaidUpTo(job[w].st) \cup {t}
        /\ t # "cancelled"
        /\ t = "approved_paid" => job[w].st = "approved_paid"
    BY <2>1, MayMoveStep
  <2>4. CASE t \in {"submitted", "quoted"}
    BY <2>1, <2>2, <2>4 DEF Contract!ContractNext, Contract!Created
  <2>5. CASE t = "approved_paid"
    <3>1. Production => HasCharge(r)
      BY <2>1, <2>3, <2>5, PaidUpToValues DEF ChargeInv
    <3> QED BY <2>1, <2>2, <2>5, <3>1 DEF Contract!ContractNext, Contract!Paid
  <2>6. CASE t \in POST_PAYMENT
    <3>1. PaidUpTo(t) \ {t} \subseteq history[r]
      BY <2>1, <2>3
    <3>2. t \in Contract!POST_PAYMENT /\ Contract!PaidUpTo(t) = PaidUpTo(t)
      BY <2>6 DEF POST_PAYMENT, Contract!POST_PAYMENT, PaidUpTo, Contract!PaidUpTo, OpsIndex,
         Contract!OpsIndex, PaidStatuses, Contract!PaidStatuses
    <3> QED BY <2>1, <2>2, <3>1, <3>2 DEF Contract!ContractNext, Contract!Advanced
  <2> QED BY <2>1, <2>3, <2>4, <2>5, <2>6 DEF Statuses, PaidStatuses
<1>6. CASE CancelCommit(w) \/ RetryLog(w)
  <2>1. /\ r \in Requests /\ history' = [history EXCEPT ![r] = @ \cup {"cancelled"}]
        /\ UNCHANGED charge
    BY <1>1, <1>6 DEF CancelCommit, RetryLog, MoveTo, JobOK
  <2>2. "approved_paid" \in history[r]
    BY <1>1, <1>6 DEF CancelCommit, RetryLog, JobTrue, Refunding, WasPaid
  <2> QED BY <2>1, <2>2, <1>3 DEF Contract!ContractNext, Contract!Cancelled
<1>7. CASE CancelRefund(w) \/ RetryCall(w)
  BY <1>7, RefundIsAReturn DEF CancelRefund, RetryCall, rows, Contract!ContractNext
<1>8. ASSUME NEW D \in SUBSET Quotes, SubmitQuotesCommit(w, D)
      PROVE  Contract!ContractNext
  <2>1. /\ r \in Requests /\ history' = [history EXCEPT ![r] = @ \cup {"quoted"}]
        /\ UNCHANGED charge
    BY <1>1, <1>8 DEF SubmitQuotesCommit, MoveTo, JobOK
  <2> QED BY <2>1, <1>3 DEF Contract!ContractNext, Contract!Created
<1>9. CASE FindLog(w)
  <2>1. /\ r \in Requests /\ history' = [history EXCEPT ![r] = @ \cup {"quoted"}]
        /\ UNCHANGED charge
    BY <1>1, <1>9 DEF FindLog, JobOK
  <2> QED BY <2>1, <1>3 DEF Contract!ContractNext, Contract!Created
<1>10. ASSUME NEW ref \in Refs, InitializeCommit(w, ref) PROVE UNCHANGED Contract!cvars
  <2>1. /\ charge[ref].state = "none" /\ charge'[ref].state = "open" /\ UNCHANGED history
        /\ \A x \in Refs \ {ref} : charge'[x] = charge[x]
    BY <1>10 DEF InitializeCommit, OpenCharge, TypeInv, TypeOK
  <2>2. SameCharges
    BY <2>1 DEF SameCharges, HasCharge, Returned, Charged
  <2> QED BY <2>1, <2>2, NothingIsAStutter
<1>11. ASSUME NEW q \in Quotes, FindQuote(w, q) PROVE UNCHANGED Contract!cvars
  BY <1>2, <1>11 DEF FindQuote
<1>12. CASE \/ RejectCommit(w) \/ ApproveCommit(w) \/ InitializeRefused(w) \/ FindStatus(w)
           \/ RetryPaid(w) \/ SendNotice(w) \/ WriteRefused(w)
  BY <1>2, <1>12 DEF RejectCommit, ApproveCommit, InitializeRefused, FindStatus, RetryPaid,
     SendNotice, WriteRefused, rows
<1>13. CASE Quiet(w)
  BY <1>2, <1>13, QuietKeepsTables
<1> QED BY <1>4, <1>5, <1>6, <1>7, <1>8, <1>9, <1>10, <1>11, <1>12, <1>13, ContinueSteps

LEMMA StepKeepsContract ==
  SafetyInv /\ RefundInv /\ [Next]_vars => [Contract!ContractNext]_(Contract!cvars)
<1> SUFFICES ASSUME SafetyInv, RefundInv, [Next]_vars
             PROVE  [Contract!ContractNext]_(Contract!cvars)
  OBVIOUS
<1> USE DEF SafetyInv
<1>1. ASSUME UNCHANGED <<history, charge>> PROVE UNCHANGED Contract!cvars
  BY <1>1, ChargesAsBefore, NothingIsAStutter
<1>2. ASSUME NEW r \in Requests, NEW S \in SUBSET {"submitted", "quoted"},
             history' = [history EXCEPT ![r] = @ \cup S], UNCHANGED charge
      PROVE  Contract!ContractNext
  BY <1>2, ChargesAsBefore, LogIsALog DEF Contract!ContractNext, Contract!Created
<1>3. CASE Environment
  <2>1. ASSUME NEW r \in Requests, Submit(r) PROVE Contract!ContractNext
    BY <1>2, <2>1 DEF Submit, MoveTo
  <2>2. ASSUME NEW r \in Requests, NEW q \in Quotes, NEW u \in OpsUsers,
               NEW S \in SUBSET {"submitted", "quoted"}, SubmitQuoted(r, q, u, S)
        PROVE  Contract!ContractNext
    BY <1>2, <2>2 DEF SubmitQuoted
  <2>3. ASSUME NEW r \in Requests, NEW u \in OpsUsers, Assign(r, u)
        PROVE  UNCHANGED Contract!cvars
    BY <1>1, <2>3 DEF Assign
  <2> QED BY <1>3, <2>1, <2>2, <2>3, CaptureIsACapture DEF Environment, CreateRequest,
       CreateGuidedRequest, CreateCatalogOrder, Contract!ContractNext
<1>4. ASSUME NEW w \in Workers, Call(w) \/ Crash(w) PROVE UNCHANGED Contract!cvars
  BY <1>1, <1>4, CallKeepsTables, CrashKeepsTables
<1>5. CASE UNCHANGED vars
  BY <1>1, <1>5 DEF vars, rows
<1> QED BY <1>3, <1>4, <1>5, ContinueKeepsContract DEF Next

-----------------------------------------------------------------------------
(* The theorems.                                                           *)

LEMMA RefundAlways == Spec => []RefundInv
<1>1. Init => RefundInv
  BY RefundInit
<1>2. SafetyInv /\ RefundInv /\ [Next]_vars => RefundInv'
  BY RefundStep
<1> QED BY <1>1, <1>2, SafetyInvariant, PTL DEF Spec

(* Where Paystack is configured, an order shown as refunded had one of its *)
(* charges refunded: cancelPaidRequest and retryRefund write "refunded"    *)
(* only after Paystack said so of a reference opened for that order.       *)
THEOREM RefundsAreReturned == Spec => []RefundIsReturned
<1>1. RefundInv => RefundIsReturned
  BY DEF RefundInv, PaymentTrue, RefundIsReturned
<1> QED BY <1>1, RefundAlways, PTL

(* In production "payment confirmed" is only enqueued after a charge of    *)
(* that order went through, a refunded amount only after money went back,  *)
(* and a bare "cancelled" only of an order that was paid and cancelled:    *)
(* whichever handler enqueues it, createGuidedRequest after its late read  *)
(* too, and whatever it read before.                                       *)
THEOREM NoticesStayTrue == Spec => []NoticesAreTrue
<1>1. RefundInv => NoticesAreTrue
  BY ConfigAssumption DEF RefundInv, NoticeTrue, NoticesAreTrue, MoneyNotices, Taken
<1> QED BY <1>1, RefundAlways, PTL

(* Only a paid order is ever cancelled: its Payment row exists and its     *)
(* timeline shows the payment.                                             *)
THEOREM CancelledOrdersWerePaid == Spec => []CancelledWasPaid
<1>1. RefundInv => CancelledWasPaid
  BY DEF RefundInv
<1> QED BY <1>1, RefundAlways, PTL

(* The order system implements OrderContract: whatever its handlers do to  *)
(* each other, a timeline grows only by what the contract allows, and      *)
(* money goes back only to an order that was paid.                         *)
THEOREM OrdersKeepContract == Spec => KeepsContract
<1>1. Init => Contract!ContractInit
  BY DEF Init, PaystackInit, NoCharge, Contract!ContractInit, HasCharge, Returned, Charged
<1>2. SafetyInv /\ RefundInv /\ [Next]_vars => [Contract!ContractNext]_(Contract!cvars)
  BY StepKeepsContract
<1> QED BY <1>1, <1>2, SafetyInvariant, RefundAlways, PTL
        DEF Spec, KeepsContract, Contract!ContractSpec
-----------------------------------------------------------------------------
(* What is read under the row lock.  The quotes of an order are inserted   *)
(* and withdrawn, and its Payment row is inserted, only by who finds the   *)
(* order unlocked; who writes a Payment row without looking at the lock    *)
(* knows there is one.                                                     *)

LockedRead(j) ==
  j.op = "complete" =>
    /\ QuoteOf(j.req, j.quote)
    /\ j.hadRow <=> HasPayment(j.req)
    /\ j.swept => \A x \in Quotes \ {j.quote} : QuoteOf(j.req, x) => x \in j.rest

ReadInv == \A w \in Workers : LockedRead(job[w])

LEMMA ReadInit == Init => ReadInv
BY DEF Init, ReadInv, LockedRead, Idle

(* Re-quotes and find approvals wait for the lock, and an answer to a      *)
(* quote neither makes one nor withdraws one.                              *)
LEMMA LockedQuotesStay ==
  ASSUME TypeInv, NEW w \in Workers, Continue(w), NEW r \in Requests, lock[r] # None,
         NEW q \in Quotes
  PROVE  QuoteOf(r, q)' <=> QuoteOf(r, q)
<1> USE DEF TypeInv, TypeOK, QuoteRows, QuoteOf, Live
<1>1. CASE RejectCommit(w)
  BY <1>1 DEF RejectCommit
<1>2. CASE ApproveCommit(w) \/ PayCommit(w) \/ CompleteCommit(w)
  <2>1. AcceptOnly(w)
    BY <1>2 DEF ApproveCommit, PayCommit, CompleteCommit, Settle
  <2> QED BY <2>1 DEF AcceptOnly
<1>3. ASSUME NEW D \in SUBSET Quotes, SubmitQuotesCommit(w, D)
      PROVE  QuoteOf(r, q)' <=> QuoteOf(r, q)
  <2>1. /\ job[w].req # r
        /\ quotes'[q] = IF q \in D THEN [req |-> job[w].req, status |-> "sent"]
                       ELSE IF q \in job[w].rest /\ QuoteOf(job[w].req, q)
                            THEN [quotes[q] EXCEPT !.status = "deleted"]
                            ELSE quotes[q]
        /\ q \in D => quotes[q].status = "none"
    BY <1>3 DEF SubmitQuotesCommit, Unlocked, FreshQuotes
  <2> QED BY <2>1
<1>4. ASSUME NEW x \in Quotes, FindQuote(w, x) PROVE QuoteOf(r, q)' <=> QuoteOf(r, q)
  BY <1>4 DEF FindQuote, FreshQuotes, Unlocked
<1>5. ASSUME NEW ref \in Refs, InitializeCommit(w, ref) PROVE UNCHANGED quotes
  BY <1>5 DEF InitializeCommit
<1>6. CASE \/ InitializeRefused(w) \/ UpdateCommit(w) \/ CancelRefund(w) \/ CancelCommit(w)
           \/ RetryCall(w) \/ RetryPaid(w) \/ RetryLog(w) \/ FindStatus(w) \/ FindLog(w)
           \/ SendNotice(w) \/ WriteRefused(w)
  BY <1>6 DEF InitializeRefused, UpdateCommit, CancelRefund, CancelCommit, RetryCall, RetryPaid,
     RetryLog, FindStatus, FindLog, SendNotice, WriteRefused, rows
<1> QED BY <1>1, <1>2, <1>3, <1>4, <1>5, <1>6, ContinueSteps, QuietKeepsTables

(* A new Payment row waits for the lock.                                   *)
LEMMA LockedRowsStay ==
  ASSUME TypeInv, RefundInv, NEW w \in Workers, Continue(w), NEW r \in Requests,
         lock[r] # None, ~(job[w].op = "complete" /\ job[w].req = r), ~HasPayment(r)
  PROVE  ~HasPayment(r)'
<1> USE DEF TypeInv, TypeOK, HasPayment
<1>1. CASE PayCommit(w) \/ CompleteCommit(w)
  BY <1>1 DEF PayCommit, CompleteCommit, Settle, Unlocked
<1>2. ASSUME NEW ref \in Refs, InitializeCommit(w, ref) PROVE ~HasPayment(r)'
  BY <1>2 DEF InitializeCommit, Unlocked
<1>3. CASE CancelCommit(w)
  BY <1>3 DEF CancelCommit, Unlocked
<1>4. CASE RetryPaid(w)
  <2>1. WasPaid(job[w].req)
    BY <1>4 DEF RetryPaid, RefundInv, JobTrue, Refunding
  <2>2. job[w].req # r
    BY <2>1 DEF WasPaid
  <2> QED BY <1>4, <2>2 DEF RetryPaid
<1>5. ASSUME ~PayCommit(w), ~CompleteCommit(w), ~CancelCommit(w), ~RetryPaid(w),
             \A ref \in Refs : ~InitializeCommit(w, ref)
      PROVE  UNCHANGED payment
  BY <1>5, ContinueSteps, QuietKeepsTables
     DEF RejectCommit, ApproveCommit, InitializeRefused, SubmitQuotesCommit, UpdateCommit,
     CancelRefund, RetryCall, RetryLog, FindQuote, FindStatus, FindLog, SendNotice,
     WriteRefused, rows
<1> QED BY <1>1, <1>2, <1>3, <1>4, <1>5

LEMMA ReadStep ==
  ASSUME SafetyInv, RefundInv, ReadInv, [Next]_vars
  PROVE  ReadInv'
<1> USE DEF SafetyInv
<1>1. ASSUME NEW v \in Workers, job'[v] = job[v], UNCHANGED <<quotes, payment>>
      PROVE  LockedRead(job[v])'
  BY <1>1 DEF ReadInv, LockedRead, QuoteOf, Live, HasPayment
<1>2. CASE Environment
  <2>1. UNCHANGED payment
    BY <1>2 DEF Environment, CreateRequest, CreateGuidedRequest, CreateCatalogOrder, Submit,
       SubmitQuoted, Assign, CustomerPays, rows
  <2>2. ASSUME NEW q \in Quotes, quotes[q].status # "none" PROVE quotes'[q] = quotes[q]
    BY <1>2, <2>2 DEF Environment, CreateRequest, CreateGuidedRequest, CreateCatalogOrder, Submit,
       SubmitQuoted, Assign, CustomerPays, rows, FreshQuotes, TypeInv, TypeOK
  <2>3. ASSUME NEW r \in Requests, Exists(r), NEW q \in Quotes, quotes[q].status = "none",
               quotes'[q].req = r
        PROVE  quotes'[q] = quotes[q]
    <3>1. ASSUME NEW o \in Requests, NEW x \in Quotes, NEW u \in OpsUsers, NEW log,
                 SubmitQuoted(o, x, u, log)
          PROVE  quotes'[q] = quotes[q]
      <4>1. quotes' = [quotes EXCEPT ![x] = [req |-> o, status |-> "sent"]] /\ o # r
        BY <2>3, <3>1 DEF SubmitQuoted
      <4> QED BY <2>3, <4>1 DEF TypeInv, TypeOK
    <3>2. ASSUME NEW o \in Requests, Submit(o) PROVE UNCHANGED quotes
      BY <3>2 DEF Submit
    <3> QED BY <1>2, <3>1, <3>2 DEF Environment, CreateRequest, CreateGuidedRequest,
         CreateCatalogOrder, Assign, CustomerPays, rows
  <2>4. ASSUME NEW r \in Requests, Exists(r), NEW q \in Quotes
        PROVE  QuoteOf(r, q)' <=> QuoteOf(r, q)
    BY <2>2, <2>3, <2>4 DEF QuoteOf, Live
  <2>5. ASSUME NEW v \in Workers, job'[v].op = "complete" PROVE LockedRead(job[v])'
    <3>1. /\ job'[v] = job[v] /\ LockedRead(job[v]) /\ job[v].req \in Requests
          /\ job[v].quote \in Quotes /\ Exists(job[v].req)
      BY <1>2, <2>5, EnvironmentKeepsJobs DEF ReadInv, LockInv, Exists, TypeInv, JobOK
    <3> QED BY <2>1, <2>4, <2>5, <3>1 DEF LockedRead, HasPayment
  <2> QED BY <2>5 DEF ReadInv, LockedRead
<1>3. ASSUME NEW w \in Workers, Call(w) PROVE ReadInv'
  <2>1. UNCHANGED <<quotes, payment>>
    BY <1>3, CallKeepsTables
  <2>2. ASSUME NEW ref \in Refs, PaymentReported(w, ref), job'[w].op = "complete"
        PROVE  LockedRead(job[w])'
    <3>1. /\ job'[w].req = charge[ref].req /\ job'[w].quote = charge[ref].quote
          /\ job'[w].hadRow = HasPayment(charge[ref].req) /\ ~job'[w].swept
          /\ Payable(charge[ref].req, charge[ref].quote)
      BY <2>2, PaymentCallEffect
    <3> QED BY <2>1, <3>1 DEF LockedRead, Payable, QuoteOf, Live, HasPayment
  <2>3. LockedRead(job[w])'
    BY <1>3, <2>2, CallEffect, PaymentCallEffect DEF Call, LockedRead
  <2> QED BY <1>1, <1>3, <2>1, <2>3, OthersKeep DEF ReadInv, Working
<1>4. ASSUME NEW w \in Workers, Continue(w) PROVE ReadInv'
  <2>1. LockedRead(job[w])'
    <3>1. CASE ~Sweeps(w)
      BY <1>4, <3>1, ContinueStartsNothing DEF Started, LockedRead
    <3>2. CASE Sweeps(w)
      BY <3>2, SweepEffect DEF ReadInv, LockedRead, QuoteOf, Live, HasPayment, rows
    <3> QED BY <3>1, <3>2
  <2>2. ASSUME NEW v \in Workers, v # w, job[v].op = "complete" PROVE LockedRead(job[v])'
    <3> DEFINE r == job[v].req
    <3>1. /\ job'[v] = job[v] /\ LockedRead(job[v])
          /\ r \in Requests /\ job[v].quote \in Quotes /\ lock[r] = v
      BY <1>4, <2>2, OthersKeep DEF Working, ReadInv, LockInv, TypeInv, JobOK
    <3>2. lock[r] # None /\ ~(job[w].op = "complete" /\ job[w].req = r)
      BY <2>2, <3>1, NoneAssumption DEF LockInv
    <3>3. \A q \in Quotes : QuoteOf(r, q)' <=> QuoteOf(r, q)
      BY <1>4, <3>1, <3>2, LockedQuotesStay
    <3>4. HasPayment(r)' <=> HasPayment(r)
      BY <1>4, <3>1, <3>2, LockedRowsStay, PaymentsStay
    <3> QED BY <2>2, <3>1, <3>3, <3>4 DEF LockedRead
  <2> QED BY <1>4, <2>1, <2>2, OthersKeep DEF ReadInv, LockedRead, Working
<1>5. ASSUME NEW w \in Workers, Crash(w) PROVE ReadInv'
  BY <1>1, <1>5, CrashKeepsTables, ContinueStartsNothing, OthersKeep
     DEF ReadInv, LockedRead, Started, Working
<1>6. CASE UNCHANGED vars
  BY <1>1, <1>6 DEF vars, rows, ReadInv
<1> QED BY <1>2, <1>3, <1>4, <1>5, <1>6 DEF Next

LEMMA ReadAlways == Spec => []ReadInv
<1>1. Init => ReadInv
  BY ReadInit
<1>2. SafetyInv /\ RefundInv /\ ReadInv /\ [Next]_vars => ReadInv'
  BY ReadStep
<1> QED BY <1>1, <1>2, SafetyInvariant, RefundAlways, PTL DEF Spec

(* What completePaystackPayment read under its row lock still holds when   *)
(* it commits, so its commit never fails on a quote that was withdrawn or  *)
(* a Payment row that was inserted meanwhile.                              *)
THEOREM LockedReadsStand == Spec => []LockedReadsHold
<1>1. SafetyInv /\ ReadInv => LockedReadsHold
  BY DEF SafetyInv, LockInv, ReadInv, LockedRead, LockedReadsHold
<1> QED BY <1>1, SafetyInvariant, ReadAlways, PTL

(* In production a payment accepts the quote that was paid and rejects     *)
(* every other one of its order: completePaystackPayment's updateMany and  *)
(* update are two statements, but the Request row they are made under is   *)
(* locked, and a quote that would slip in between them waits for it.       *)
THEOREM PaymentsAcceptOneQuote == Spec => PaymentAcceptsOne
<1> DEFINE Settled == Production => \A r \in Requests : PaymentRecorded(r) =>
                        /\ QuoteOf(r, payment'[r].amount)
                        /\ \A q \in Quotes : QuoteOf(r, q) =>
                             quotes'[q].status = IF q = payment'[r].amount
                                                 THEN "accepted" ELSE "rejected"
<1>1. SafetyInv /\ ReadInv /\ [Next]_vars => [Settled]_vars
  <2> SUFFICES ASSUME SafetyInv, ReadInv, Next, Production, NEW r \in Requests, PaymentRecorded(r)
               PROVE  /\ QuoteOf(r, payment'[r].amount)
                      /\ \A q \in Quotes : QuoteOf(r, q) =>
                           quotes'[q].status = IF q = payment'[r].amount
                                               THEN "accepted" ELSE "rejected"
    OBVIOUS
  <2> USE DEF SafetyInv, TypeInv, TypeOK
  <2>1. PICK w \in Workers : CompleteCommit(w) /\ job[w].req = r
    BY PaymentWriter
  <2>2. payment'[r].amount = job[w].quote
    BY <2>1 DEF CompleteCommit, Settle
  <2>3. job[w].op = "complete" /\ AcceptOnly(w)
    BY <2>1 DEF CompleteCommit, Settle
  <2>4. /\ QuoteOf(r, job[w].quote)
        /\ \A x \in Quotes \ {job[w].quote} : QuoteOf(r, x) => x \in job[w].rest
    BY <2>1, <2>3 DEF ReadInv, LockedRead, AcceptOnly
  <2>5. ASSUME NEW q \in Quotes, QuoteOf(r, q)
        PROVE  quotes'[q].status = IF q = job[w].quote THEN "accepted" ELSE "rejected"
    <3>1. quotes'[q] = IF q = job[w].quote THEN [quotes[q] EXCEPT !.status = "accepted"]
                       ELSE IF q \in job[w].rest /\ QuoteOf(job[w].req, q)
                            THEN [quotes[q] EXCEPT !.status = "rejected"]
                            ELSE quotes[q]
      BY <2>3 DEF AcceptOnly
    <3>2. q # job[w].quote => q \in job[w].rest /\ QuoteOf(job[w].req, q)
      BY <2>1, <2>4, <2>5
    <3>3. quotes[q] \in QuoteRows
      OBVIOUS
    <3> HIDE DEF SafetyInv, TypeInv, TypeOK
    <3> QED BY <3>1, <3>2, <3>3 DEF QuoteRows
  <2> QED BY <2>2, <2>4, <2>5
<1> QED BY <1>1, SafetyInvariant, ReadAlways, PTL DEF Spec, PaymentAcceptsOne
=============================================================================

---------------------------- MODULE OrdersProofs ----------------------------
(***************************************************************************)
(* Theorems about Orders, for every number of orders, quotes, references,  *)
(* staff accounts and workers, and for every configuration.                *)
(***************************************************************************)
EXTENDS Orders, TLAPS

-----------------------------------------------------------------------------
(* Typing.  What a handler in flight carries depends on how far it is.     *)

JobOK(j) ==
  /\ j \in Jobs
  /\ j.op # "idle" => j.req \in Requests
  /\ j.op \in {"reject", "approve", "pay", "complete", "init"} => j.quote \in Quotes
  /\ j.op = "complete" => j.ref \in Refs
  /\ j.op = "mail" => j.target \in MoneyNotices
  /\ j.op = "update" => /\ j.st \in Statuses
                        /\ j.target \in Statuses
                        /\ MayMove(j.st, j.target)
  /\ j.op \in {"submitQuotes", "find", "findStatus"} => j.agent \in OpsUsers

ChargeOK(c) == c.state # "none" => c.req \in Requests /\ c.quote \in Quotes

TypeInv ==
  /\ TypeOK
  /\ \A w \in Workers : JobOK(job[w])
  /\ \A ref \in Refs : ChargeOK(charge[ref])

(* A notice, and a worker without a handler, are well-formed jobs.         *)
LEMMA NoticeOK ==
  ASSUME NEW r \in Requests, NEW s
  PROVE  JobOK(Notice(r, s)) /\ JobOK(Idle)
BY NoneAssumption DEF Notice, Idle, JobOK, Jobs, JobOps, MoneyNotices

(* Taking up, continuing or ending a handler touches one worker's job.     *)
LEMMA BeginOK ==
  ASSUME TypeInv, NEW w \in Workers, NEW j, JobOK(j), Begin(w, j)
  PROVE  job' \in [Workers -> Jobs] /\ \A v \in Workers : JobOK(job'[v])
BY DEF TypeInv, TypeOK, Begin, JobOK

LEMMA StepOK ==
  ASSUME TypeInv, NEW w \in Workers, NEW op, Step(w, op), JobOK([job[w] EXCEPT !.op = op])
  PROVE  job' \in [Workers -> Jobs] /\ \A v \in Workers : JobOK(job'[v])
<1>1. job' = [job EXCEPT ![w] = [job[w] EXCEPT !.op = op]]
  BY DEF Step
<1>2. [job[w] EXCEPT !.op = op] \in Jobs
  BY DEF JobOK
<1> QED BY <1>1, <1>2 DEF TypeInv, TypeOK

LEMMA FinishOK ==
  ASSUME TypeInv, NEW w \in Workers, Finish(w)
  PROVE  job' \in [Workers -> Jobs] /\ \A v \in Workers : JobOK(job'[v])
<1>1. JobOK(Idle)
  BY NoneAssumption DEF Idle, JobOK, Jobs, JobOps
<1> QED BY <1>1 DEF TypeInv, TypeOK, Finish, JobOK

(* A statement over the order's quotes leaves the handler where it is.     *)
LEMMA SweepOK ==
  ASSUME TypeInv, NEW w \in Workers, Sweep(w)
  PROVE  job' \in [Workers -> Jobs] /\ \A v \in Workers : JobOK(job'[v])
<1> DEFINE found == {x \in Quotes \ {job[w].quote} : QuoteOf(job[w].req, x)}
           j == [job[w] EXCEPT !.swept = TRUE, !.rest = found]
<1>1. job' = [job EXCEPT ![w] = j]
  BY DEF Sweep, TypeInv, TypeOK, Jobs
<1>2. JobOK(job[w]) /\ job[w] \in Jobs
  BY DEF TypeInv, JobOK
<1>3. found \in SUBSET Quotes
  OBVIOUS
<1>4. j \in Jobs
  BY <1>2, <1>3 DEF Jobs
<1>5. JobOK(j)
  BY <1>2, <1>4 DEF JobOK, Jobs
<1> HIDE DEF j
<1> QED BY <1>1, <1>4, <1>5 DEF TypeInv, TypeOK

(* Whatever a refund call does, at most one charge goes from success to    *)
(* refunded.                                                               *)
LEMMA RefundOutcome ==
  ASSUME NEW ref, RefundSucceeds(ref) \/ RefundFails(ref)
  PROVE  (ref \in Refs /\ charge[ref].state = "success" /\ ReturnMoney(ref)) \/ UNCHANGED charge
BY DEF RefundSucceeds, RefundFails, Refundable

LEMMA RefundOK ==
  ASSUME TypeInv, NEW ref, RefundSucceeds(ref) \/ RefundFails(ref)
  PROVE  charge' \in [Refs -> Charges] /\ \A x \in Refs : ChargeOK(charge'[x])
<1>1. CASE ref \in Refs /\ charge[ref].state = "success" /\ ReturnMoney(ref)
  BY <1>1 DEF ReturnMoney, TypeInv, TypeOK, Charges, ChargeStates, ChargeOK
<1>2. CASE UNCHANGED charge
  BY <1>2 DEF TypeInv, TypeOK
<1> QED BY <1>1, <1>2, RefundOutcome

LEMMA MoveToOK ==
  ASSUME TypeInv, NEW r \in Requests, NEW s \in Statuses, MoveTo(r, s)
  PROVE  /\ status' \in [Requests -> Statuses \cup {"none"}]
         /\ history' \in [Requests -> SUBSET Statuses]
BY DEF TypeInv, TypeOK, MoveTo

LEMMA AcceptOnlyOK ==
  ASSUME TypeInv, NEW w \in Workers, AcceptOnly(w)
  PROVE  quotes' \in [Quotes -> QuoteRows]
BY DEF TypeInv, TypeOK, AcceptOnly, QuoteRows, QuoteStatuses

LEMMA SettleOK ==
  ASSUME TypeInv, NEW w \in Workers, NEW ref \in Refs \cup {Demo},
         job[w].op \in {"pay", "complete"}, Settle(w, ref),
         lock' \in [Requests -> Workers \cup {None}]
  PROVE  TypeInv'
<1> DEFINE r == job[w].req
           q == job[w].quote
<1>1. r \in Requests /\ q \in Quotes
  BY DEF TypeInv, JobOK
<1>2. "approved_paid" \in Statuses
  BY DEF Statuses, PaidStatuses
<1>3. quotes' \in [Quotes -> QuoteRows]
  BY <1>1, AcceptOnlyOK DEF Settle
<1>4. status' \in [Requests -> Statuses \cup {"none"}] /\ history' \in [Requests -> SUBSET Statuses]
  BY <1>1, <1>2, MoveToOK DEF Settle
<1>5. JobOK(Notice(r, "approved_paid"))
  BY <1>1, NoticeOK
<1>6. job' \in [Workers -> Jobs] /\ \A v \in Workers : JobOK(job'[v])
  BY <1>5, BeginOK DEF Settle
<1>7. payment' \in [Requests -> PaymentRows]
  BY <1>1 DEF Settle, TypeInv, TypeOK, PaymentRows, PaymentStatuses
<1>8. UNCHANGED <<assigned, mails, charge>>
  BY DEF Settle
<1> QED BY <1>3, <1>4, <1>6, <1>7, <1>8 DEF TypeInv, TypeOK

LEMMA TypeInit == Init => TypeInv
BY NoneAssumption DEF Init, PaystackInit, TypeInv, TypeOK, NoCharge, Charges, ChargeStates,
   ChargeOK, NoQuote, QuoteRows, QuoteStatuses, NoPayment, PaymentRows, PaymentStatuses,
   Idle, JobOK, Jobs, JobOps

(* Calls: only the caller's job changes, and the lock if it is taken.      *)
LEMMA TypeCall ==
  ASSUME TypeInv, NEW w \in Workers, Call(w)
  PROVE  TypeInv'
<1> USE NoneAssumption, ConfigAssumption
<1>1. CASE \E r \in Requests, q \in Quotes : RejectQuote(w, r, q)
  <2> PICK r \in Requests, q \in Quotes : RejectQuote(w, r, q)
    BY <1>1
  <2>1. JobOK([Idle EXCEPT !.op = "reject", !.req = r, !.quote = q])
    BY DEF RejectQuote, JobOK, Jobs, JobOps, Idle, TypeInv, TypeOK
  <2> QED BY <2>1, BeginOK DEF RejectQuote, TypeInv, TypeOK, rows
<1>2. CASE \E r \in Requests, q \in Quotes : ApproveQuote(w, r, q)
  <2> PICK r \in Requests, q \in Quotes : ApproveQuote(w, r, q)
    BY <1>2
  <2>1. JobOK([Idle EXCEPT !.op = "approve", !.req = r, !.quote = q])
    BY DEF ApproveQuote, JobOK, Jobs, JobOps, Idle, TypeInv, TypeOK
  <2> QED BY <2>1, BeginOK DEF ApproveQuote, TypeInv, TypeOK, rows
<1>3. CASE \E r \in Requests, q \in Quotes : Initialize(w, r, q)
  <2> PICK r \in Requests, q \in Quotes : Initialize(w, r, q)
    BY <1>3
  <2>1. JobOK([Idle EXCEPT !.op = "init", !.req = r, !.quote = q])
    BY DEF Initialize, JobOK, Jobs, JobOps, Idle, TypeInv, TypeOK
  <2> QED BY <2>1, BeginOK DEF Initialize, TypeInv, TypeOK, rows
<1>4. CASE \E r \in Requests, u \in OpsUsers : SubmitQuotes(w, r, u)
  <2> PICK r \in Requests, u \in OpsUsers : SubmitQuotes(w, r, u)
    BY <1>4
  <2>1. JobOK([Idle EXCEPT !.op = "submitQuotes", !.req = r,
                         !.agent = IF assigned[r] # None THEN assigned[r] ELSE u])
    <3>1. (IF assigned[r] # None THEN assigned[r] ELSE u) \in OpsUsers
      BY DEF TypeInv, TypeOK
    <3> QED BY <3>1 DEF JobOK, Jobs, JobOps, Idle
  <2> QED BY <2>1, BeginOK DEF SubmitQuotes, TypeInv, TypeOK, rows
<1>5. CASE \E r \in Requests, u \in OpsUsers : ApproveFind(w, r, u)
  <2> PICK r \in Requests, u \in OpsUsers : ApproveFind(w, r, u)
    BY <1>5
  <2>1. JobOK([Idle EXCEPT !.op = "find", !.req = r, !.st = status[r],
                         !.agent = IF assigned[r] # None THEN assigned[r] ELSE u])
    <3>1. status[r] \in Statuses
      BY DEF ApproveFind, Exists, TypeInv, TypeOK
    <3>2. (IF assigned[r] # None THEN assigned[r] ELSE u) \in OpsUsers
      BY DEF TypeInv, TypeOK
    <3> QED BY <3>1, <3>2 DEF JobOK, Jobs, JobOps, Idle
  <2> QED BY <2>1, BeginOK DEF ApproveFind, TypeInv, TypeOK, rows
<1>6. CASE \E r \in Requests, target \in OpsTargets : UpdateStatus(w, r, target)
  <2> PICK r \in Requests, target \in OpsTargets : UpdateStatus(w, r, target)
    BY <1>6
  <2>1. JobOK([Idle EXCEPT !.op = "update", !.req = r, !.st = status[r],
                         !.target = target])
    <3>1. status[r] \in Statuses /\ target \in Statuses /\ MayMove(status[r], target)
      BY DEF UpdateStatus, Exists, TypeInv, TypeOK
    <3> QED BY <3>1 DEF JobOK, Jobs, JobOps, Idle
  <2> QED BY <2>1, BeginOK DEF UpdateStatus, TypeInv, TypeOK, rows
<1>7. CASE \E r \in Requests : CancelPaidRequest(w, r)
  <2> PICK r \in Requests : CancelPaidRequest(w, r)
    BY <1>7
  <2>1. JobOK([Idle EXCEPT !.op = "cancel", !.req = r, !.ref = payment[r].ref])
    <3>1. payment[r].ref \in Refs \cup {Demo, None}
      BY DEF CancelPaidRequest, TypeInv, TypeOK, PaymentRows
    <3> QED BY <3>1 DEF JobOK, Jobs, JobOps, Idle
  <2> QED BY <2>1, BeginOK DEF CancelPaidRequest, TypeInv, TypeOK, rows
<1>8. CASE \E r \in Requests : RetryRefund(w, r)
  <2> PICK r \in Requests : RetryRefund(w, r)
    BY <1>8
  <2>1. JobOK([Idle EXCEPT !.op = "retry", !.req = r, !.ref = payment[r].ref])
    <3>1. payment[r].ref \in Refs \cup {Demo, None}
      BY DEF RetryRefund, TypeInv, TypeOK, PaymentRows
    <3> QED BY <3>1 DEF JobOK, Jobs, JobOps, Idle
  <2> QED BY <2>1, BeginOK DEF RetryRefund, TypeInv, TypeOK, rows
<1>9. CASE \E r \in Requests, q \in Quotes : PayQuote(w, r, q)
  <2> PICK r \in Requests, q \in Quotes : PayQuote(w, r, q)
    BY <1>9
  <2>1. JobOK(Notice(r, "approved_paid"))
    BY NoticeOK
  <2>2. JobOK([Idle EXCEPT !.op = "pay", !.req = r, !.quote = q, !.hadRow = HasPayment(r)])
    BY DEF JobOK, Jobs, JobOps, Idle, HasPayment
  <2> QED BY <2>1, <2>2, BeginOK DEF PayQuote, TypeInv, TypeOK, rows
<1>10. CASE \E ref \in Refs : PaymentReported(w, ref)
  <2> PICK ref \in Refs : PaymentReported(w, ref)
    BY <1>10
  <2> DEFINE r == charge[ref].req
             q == charge[ref].quote
  <2>1. r \in Requests /\ q \in Quotes
    BY DEF PaymentReported, Charged, TypeInv, ChargeOK
  <2>2. JobOK(Notice(r, "approved_paid"))
    BY <2>1, NoticeOK
  <2>3. CASE CompleteRepeated(w, ref)
    BY <2>2, <2>3, BeginOK DEF CompleteRepeated, TypeInv, TypeOK, rows
  <2>4. CASE CompleteRead(w, ref)
    <3>1. JobOK([Idle EXCEPT !.op = "complete", !.req = r, !.quote = q,
                             !.ref = ref, !.hadRow = HasPayment(r)])
      BY <2>1 DEF JobOK, Jobs, JobOps, Idle, HasPayment
    <3>2. lock' \in [Requests -> Workers \cup {None}]
      BY <2>4 DEF CompleteRead, SelectForUpdate, TypeInv, TypeOK
    <3>3. job' \in [Workers -> Jobs] /\ \A v \in Workers : JobOK(job'[v])
      BY <2>2, <2>4, <3>1, BeginOK DEF CompleteRead
    <3> QED BY <2>4, <3>2, <3>3 DEF CompleteRead, TypeInv, TypeOK, rows
  <2> QED BY <2>3, <2>4 DEF PaymentReported
<1> QED BY <1>1, <1>2, <1>3, <1>4, <1>5, <1>6, <1>7, <1>8, <1>9, <1>10 DEF Call

LEMMA TypeEnvironment == TypeInv /\ Environment => TypeInv'
<1> SUFFICES ASSUME TypeInv, Environment PROVE TypeInv'
  OBVIOUS
<1> DEFINE JobsOK == job' \in [Workers -> Jobs] /\ \A v \in Workers : JobOK(job'[v])
<1>j. UNCHANGED job => JobsOK
  BY DEF TypeInv, TypeOK
<1>1. ASSUME NEW r \in Requests, Submit(r), JobsOK PROVE TypeInv'
  BY <1>1, MoveToOK DEF Submit, TypeInv, TypeOK, Statuses
<1>2. ASSUME NEW r \in Requests, NEW q \in Quotes, NEW u \in OpsUsers,
             NEW log \in SUBSET Statuses, SubmitQuoted(r, q, u, log), JobsOK
      PROVE  TypeInv'
  BY <1>2 DEF SubmitQuoted, TypeInv, TypeOK, Statuses, QuoteRows, QuoteStatuses
<1>3. ASSUME NEW r \in Requests, NEW u \in OpsUsers, Assign(r, u) PROVE TypeInv'
  BY <1>3 DEF Assign, TypeInv, TypeOK
<1>4. ASSUME NEW ref \in Refs, NEW exact \in BOOLEAN, CustomerPays(ref, exact) PROVE TypeInv'
  BY <1>4 DEF CustomerPays, Capture, TypeInv, TypeOK, Charges, ChargeStates, ChargeOK, rows
<1>5. {"quoted"} \in SUBSET Statuses /\ {"submitted", "quoted"} \in SUBSET Statuses
  BY DEF Statuses
<1>6. ASSUME NEW w \in Workers, NEW r \in Requests, NEW q \in Quotes, NEW u \in OpsUsers,
             CreateGuidedRequest(w, r, q, u)
      PROVE  JobsOK
  <2>1. JobOK([Idle EXCEPT !.op = "guided", !.req = r])
    BY NoneAssumption DEF JobOK, Jobs, JobOps, Idle
  <2> QED BY <1>6, <2>1, BeginOK DEF CreateGuidedRequest
<1> HIDE DEF JobsOK
<1> QED BY <1>j, <1>1, <1>2, <1>3, <1>4, <1>5, <1>6
        DEF Environment, CreateRequest, CreateGuidedRequest, CreateCatalogOrder

LEMMA TypeCrash ==
  ASSUME TypeInv, NEW w \in Workers, Crash(w)
  PROVE  TypeInv'
BY FinishOK DEF Crash, TypeInv, TypeOK, rows

(* The steps of a handler in flight.                                       *)
LEMMA TypeContinue ==
  ASSUME TypeInv, NEW w \in Workers, Continue(w)
  PROVE  TypeInv'
<1> DEFINE r == job[w].req
           q == job[w].quote
<1> USE NoneAssumption, ConfigAssumption
<1>t. TypeOK /\ JobOK(job[w]) /\ job[w] \in Jobs
  BY DEF TypeInv, JobOK
<1>1. CASE RejectCommit(w)
  BY <1>1, <1>t, FinishOK DEF RejectCommit, TypeInv, TypeOK, QuoteRows, QuoteStatuses
<1>2. CASE ApproveCommit(w)
  <2> QED BY <1>2, AcceptOnlyOK, FinishOK DEF ApproveCommit, TypeInv, TypeOK
<1>3. CASE PayCommit(w)
  <2>1. lock' \in [Requests -> Workers \cup {None}]
    BY <1>3 DEF PayCommit, TypeInv, TypeOK
  <2> QED BY <1>3, <2>1, SettleOK DEF PayCommit
<1>4. CASE CompleteCommit(w)
  <2>1. lock' \in [Requests -> Workers \cup {None}]
    BY <1>4 DEF CompleteCommit, TypeInv, TypeOK
  <2>2. job[w].ref \in Refs
    BY <1>4, <1>t DEF CompleteCommit, JobOK
  <2> QED BY <1>4, <2>1, <2>2, SettleOK DEF CompleteCommit
<1>5. ASSUME NEW ref \in Refs, InitializeCommit(w, ref) PROVE TypeInv'
  <2>1. r \in Requests /\ q \in Quotes
    BY <1>5, <1>t DEF InitializeCommit, JobOK
  <2>2. charge' \in [Refs -> Charges] /\ \A x \in Refs : ChargeOK(charge'[x])
    BY <1>5, <2>1 DEF InitializeCommit, OpenCharge, TypeInv, TypeOK, Charges, ChargeStates, ChargeOK
  <2>3. payment' \in [Requests -> PaymentRows]
    BY <1>5, <2>1 DEF InitializeCommit, TypeInv, TypeOK, PaymentRows, PaymentStatuses
  <2> QED BY <1>5, <2>2, <2>3, FinishOK DEF InitializeCommit, TypeInv, TypeOK
<1>6. CASE InitializeRefused(w)
  BY <1>6, FinishOK DEF InitializeRefused, TypeInv, TypeOK, rows
<1>7. ASSUME NEW D \in SUBSET Quotes, SubmitQuotesCommit(w, D) PROVE TypeInv'
  <2>1. r \in Requests /\ job[w].agent \in OpsUsers /\ "quoted" \in Statuses
    BY <1>7, <1>t DEF SubmitQuotesCommit, JobOK, Statuses
  <2>2. quotes' \in [Quotes -> QuoteRows]
    BY <1>7, <2>1 DEF SubmitQuotesCommit, TypeInv, TypeOK, QuoteRows, QuoteStatuses
  <2>3. assigned' \in [Requests -> OpsUsers \cup {None}]
    BY <1>7, <2>1 DEF SubmitQuotesCommit, TypeInv, TypeOK
  <2> QED BY <1>7, <2>1, <2>2, <2>3, MoveToOK, FinishOK DEF SubmitQuotesCommit, TypeInv, TypeOK
<1>8. CASE UpdateCommit(w)
  <2>1. r \in Requests /\ job[w].target \in Statuses
    BY <1>8, <1>t DEF UpdateCommit, JobOK
  <2>2. JobOK(Notice(r, job[w].target))
    BY <2>1, NoticeOK
  <2> QED BY <1>8, <2>1, <2>2, MoveToOK, BeginOK DEF UpdateCommit, TypeInv, TypeOK
<1>9. CASE CancelRefund(w)
  <2>1. charge' \in [Refs -> Charges] /\ \A x \in Refs : ChargeOK(charge'[x])
    BY <1>9, RefundOK DEF CancelRefund
  <2>2. \A op \in {"cancelRefunded", "cancelPending"} : JobOK([job[w] EXCEPT !.op = op])
    BY <1>9, <1>t DEF CancelRefund, JobOK, Jobs, JobOps
  <2>3. job' \in [Workers -> Jobs] /\ \A v \in Workers : JobOK(job'[v])
    BY <1>9, <2>2, StepOK DEF CancelRefund
  <2> QED BY <1>9, <2>1, <2>3 DEF CancelRefund, TypeInv, TypeOK, rows
<1>10. CASE CancelCommit(w)
  <2>1. r \in Requests /\ "cancelled" \in Statuses
    BY <1>10, <1>t DEF CancelCommit, JobOK, Statuses
  <2>2. payment' \in [Requests -> PaymentRows]
    <3>1. \A st \in {"refunded", "refund_pending"} :
            [payment[r] EXCEPT !.status = st] \in PaymentRows
      BY <2>1 DEF TypeInv, TypeOK, PaymentRows, PaymentStatuses
    <3>2. \E st \in {"refunded", "refund_pending"} :
            payment' = [payment EXCEPT ![r] = [payment[r] EXCEPT !.status = st]]
      BY <1>10 DEF CancelCommit
    <3>3. PICK row \in PaymentRows : payment' = [payment EXCEPT ![r] = row]
      BY <3>1, <3>2
    <3> QED BY <3>3 DEF TypeInv, TypeOK
  <2>3. JobOK(Notice(r, "refunded"))
    BY <2>1, NoticeOK
  <2>4. job' \in [Workers -> Jobs] /\ \A v \in Workers : JobOK(job'[v])
    BY <1>10, <2>3, BeginOK, FinishOK DEF CancelCommit
  <2> QED BY <1>10, <2>1, <2>2, <2>4, MoveToOK DEF CancelCommit, TypeInv, TypeOK
<1>11. CASE RetryCall(w)
  <2>1. charge' \in [Refs -> Charges] /\ \A x \in Refs : ChargeOK(charge'[x])
    BY <1>11, RefundOK DEF RetryCall
  <2>2. RetryCall(w) /\ Step(w, "retryRefunded") => JobOK([job[w] EXCEPT !.op = "retryRefunded"])
    BY <1>t DEF RetryCall, JobOK, Jobs, JobOps
  <2>3. job' \in [Workers -> Jobs] /\ \A v \in Workers : JobOK(job'[v])
    BY <1>11, <2>2, StepOK, FinishOK DEF RetryCall
  <2> QED BY <1>11, <2>1, <2>3 DEF RetryCall, TypeInv, TypeOK, rows
<1>12. CASE RetryPaid(w)
  <2>1. payment' \in [Requests -> PaymentRows]
    <3>1. r \in Requests
      BY <1>12, <1>t DEF RetryPaid, JobOK
    <3>2. payment' = [payment EXCEPT ![r] = [payment[r] EXCEPT !.status = "refunded"]]
      BY <1>12 DEF RetryPaid
    <3>3. payment[r] \in PaymentRows
      BY <3>1 DEF TypeInv, TypeOK
    <3>4. [payment[r] EXCEPT !.status = "refunded"] \in PaymentRows
      BY <3>3 DEF PaymentRows, PaymentStatuses
    <3> QED BY <3>2, <3>4 DEF TypeInv, TypeOK
  <2>2. JobOK([job[w] EXCEPT !.op = "retryLog"])
    BY <1>12, <1>t DEF RetryPaid, JobOK, Jobs, JobOps
  <2>3. job' \in [Workers -> Jobs] /\ \A v \in Workers : JobOK(job'[v])
    BY <1>12, <2>2, StepOK DEF RetryPaid
  <2> QED BY <1>12, <2>1, <2>3 DEF RetryPaid, TypeInv, TypeOK
<1>13. CASE RetryLog(w)
  <2>1. r \in Requests /\ "cancelled" \in Statuses
    BY <1>13, <1>t DEF RetryLog, JobOK, Statuses
  <2>2. JobOK(Notice(r, "refunded"))
    BY <2>1, NoticeOK
  <2> QED BY <1>13, <2>1, <2>2, BeginOK DEF RetryLog, TypeInv, TypeOK
<1>14. ASSUME NEW x \in Quotes, FindQuote(w, x) PROVE TypeInv'
  <2>1. r \in Requests
    BY <1>14, <1>t DEF FindQuote, JobOK
  <2>2. quotes' \in [Quotes -> QuoteRows]
    BY <1>14, <2>1 DEF FindQuote, TypeInv, TypeOK, QuoteRows, QuoteStatuses
  <2>3. JobOK([job[w] EXCEPT !.op = "findStatus"])
    BY <1>14, <1>t DEF FindQuote, JobOK, Jobs, JobOps
  <2>4. job' \in [Workers -> Jobs] /\ \A v \in Workers : JobOK(job'[v])
    BY <1>14, <2>3, StepOK, FinishOK DEF FindQuote
  <2> QED BY <1>14, <2>2, <2>4 DEF FindQuote, TypeInv, TypeOK
<1>15. CASE FindStatus(w)
  <2>1. r \in Requests /\ job[w].agent \in OpsUsers /\ "quoted" \in Statuses
    BY <1>15, <1>t DEF FindStatus, JobOK, Statuses
  <2>2. JobOK([job[w] EXCEPT !.op = "findLog"])
    BY <1>15, <1>t DEF FindStatus, JobOK, Jobs, JobOps
  <2>3. job' \in [Workers -> Jobs] /\ \A v \in Workers : JobOK(job'[v])
    BY <1>15, <2>2, StepOK DEF FindStatus
  <2> QED BY <1>15, <2>1, <2>3 DEF FindStatus, TypeInv, TypeOK
<1>16. CASE FindLog(w)
  BY <1>16, FinishOK DEF FindLog, TypeInv, TypeOK, Statuses
<1>17. CASE SendNotice(w)
  <2>1. <<r, job[w].target>> \in Requests \X MoneyNotices
    BY <1>17, <1>t DEF SendNotice, JobOK
  <2> QED BY <1>17, <2>1, FinishOK DEF SendNotice, TypeInv, TypeOK, rows
<1>18. CASE WriteRefused(w)
  BY <1>18, FinishOK DEF WriteRefused, TypeInv, TypeOK, rows
<1>19. CASE GuidedNotice(w)
  <2>1. JobOK(Notice(r, status[r]))
    BY <1>19, <1>t, NoticeOK DEF GuidedNotice, JobOK
  <2> QED BY <1>19, <2>1, BeginOK DEF GuidedNotice, TypeInv, TypeOK, rows
<1>20. CASE RejectOthers(w) \/ DeleteQuotes(w)
  BY <1>20, SweepOK DEF RejectOthers, DeleteQuotes, TypeInv, TypeOK, rows
<1> QED BY <1>1, <1>2, <1>3, <1>4, <1>5, <1>6, <1>7, <1>8, <1>9, <1>10, <1>11, <1>12,
           <1>13, <1>14, <1>15, <1>16, <1>17, <1>18, <1>19, <1>20 DEF Continue

LEMMA TypeStep == TypeInv /\ [Next]_vars => TypeInv'
<1> SUFFICES ASSUME TypeInv, [Next]_vars PROVE TypeInv'
  OBVIOUS
<1>1. CASE UNCHANGED vars
  BY <1>1 DEF vars, rows, TypeInv, TypeOK
<1>2. CASE Environment
  BY <1>2, TypeEnvironment
<1>3. ASSUME NEW w \in Workers, Call(w) \/ Continue(w) \/ Crash(w) PROVE TypeInv'
  BY <1>3, TypeCall, TypeContinue, TypeCrash
<1> QED BY <1>1, <1>2, <1>3 DEF Next

(* Every row, charge, lock and handler in flight keeps its type.           *)
THEOREM TypeCorrect == Spec => []TypeOK
<1>1. Init => TypeInv
  BY TypeInit
<1>2. TypeInv /\ [Next]_vars => TypeInv'
  BY TypeStep
<1>3. TypeInv => TypeOK
  BY DEF TypeInv
<1> QED BY <1>1, <1>2, <1>3, PTL DEF Spec
=============================================================================

---------------------------- MODULE OrdersSafety ----------------------------
(***************************************************************************)
(* The safety invariants of Orders, proved from an inductive invariant.    *)
(* What a handler read before it commits may no longer hold when it does,  *)
(* so the invariant says what survives: facts that, once true of an order, *)
(* stay true (its timeline, its charges, its having an owner), and what    *)
(* the row lock protects.                                                  *)
(***************************************************************************)
EXTENDS OrdersProofs

Working(w) == Call(w) \/ Continue(w) \/ Crash(w)

(* Statements over an order's quotes, which show at the commit only.       *)
Sweeps(w) == RejectOthers(w) \/ DeleteQuotes(w)

(* The steps of a handler that write nothing another one sees.             *)
Quiet(w) == GuidedNotice(w) \/ Sweeps(w)

LEMMA QuietKeepsTables ==
  ASSUME NEW w, Quiet(w)
  PROVE  UNCHANGED <<status, assigned, quotes, payment, history, mails, lock, charge>>
BY DEF Quiet, Sweeps, GuidedNotice, RejectOthers, DeleteQuotes, rows

(* What a handler does next, named apart from the quiet steps.             *)
LEMMA ContinueSteps ==
  ASSUME NEW w, Continue(w)
  PROVE  \/ Quiet(w) \/ RejectCommit(w) \/ ApproveCommit(w) \/ PayCommit(w) \/ CompleteCommit(w)
         \/ (\E ref \in Refs : InitializeCommit(w, ref)) \/ InitializeRefused(w)
         \/ (\E D \in SUBSET Quotes : SubmitQuotesCommit(w, D)) \/ UpdateCommit(w)
         \/ CancelRefund(w) \/ CancelCommit(w) \/ RetryCall(w) \/ RetryPaid(w) \/ RetryLog(w)
         \/ (\E q \in Quotes : FindQuote(w, q)) \/ FindStatus(w) \/ FindLog(w)
         \/ SendNotice(w) \/ WriteRefused(w)
BY DEF Continue, Quiet, Sweeps

-----------------------------------------------------------------------------
(* How one step changes the tables.                                        *)

(* updateStatus moves to a stage only from the stage before or the same.   *)
LEMMA MayMoveStep ==
  ASSUME NEW c \in Statuses, NEW t \in Statuses, MayMove(c, t)
  PROVE  /\ PaidUpTo(t) \subseteq PaidUpTo(c) \cup {t}
         /\ t # "cancelled"
         /\ t = "approved_paid" => c = "approved_paid"
         /\ t \in POST_PAYMENT => "approved_paid" \in PaidUpTo(c)
         /\ c = "submitted" => t = "submitted"
BY DEF MayMove, PaidUpTo, OpsIndex, Statuses, PaidStatuses, POST_PAYMENT

LEMMA PaidUpToValues ==
  /\ PaidUpTo("none") = {} /\ PaidUpTo("submitted") = {} /\ PaidUpTo("quoted") = {}
  /\ PaidUpTo("cancelled") = {} /\ PaidUpTo("approved_paid") = {"approved_paid"}
  /\ \A s \in PaidStatuses : s \in PaidUpTo(s) /\ "approved_paid" \in PaidUpTo(s)
BY DEF PaidUpTo, OpsIndex, PaidStatuses, POST_PAYMENT

(* The other workers' handlers stay where they are.                        *)
LEMMA OthersKeep ==
  ASSUME TypeInv, NEW w \in Workers, Working(w)
  PROVE  \A v \in Workers : v # w => job'[v] = job[v]
<1> USE DEF TypeInv, TypeOK, Begin, Step, Finish
<1>1. CASE Call(w)
  BY <1>1 DEF Call, RejectQuote, ApproveQuote, PayQuote, Initialize, SubmitQuotes, ApproveFind,
     UpdateStatus, CancelPaidRequest, RetryRefund, PaymentReported, CompleteRepeated, CompleteRead
<1>2. CASE Continue(w)
  BY <1>2 DEF Continue, RejectCommit, ApproveCommit, PayCommit, CompleteCommit, Settle,
     InitializeCommit, InitializeRefused, SubmitQuotesCommit, UpdateCommit, CancelRefund,
     CancelCommit, RetryCall, RetryPaid, RetryLog, FindQuote, FindStatus, FindLog, SendNotice,
     WriteRefused, GuidedNotice, RejectOthers, DeleteQuotes, Sweep
<1>3. CASE Crash(w)
  BY <1>3 DEF Crash
<1> QED BY <1>1, <1>2, <1>3 DEF Working

(* Of the environment only createGuidedRequest leaves a handler at work.   *)
LEMMA EnvironmentKeepsJobs ==
  ASSUME TypeInv, Environment
  PROVE  /\ UNCHANGED <<lock, mails>>
         /\ \A v \in Workers : job'[v] = job[v] \/ job'[v].op = "guided"
<1>1. UNCHANGED <<lock, mails>>
  BY DEF Environment, CreateRequest, CreateGuidedRequest, CreateCatalogOrder, Submit,
     SubmitQuoted, Assign, CustomerPays
<1>2. ASSUME NEW w \in Workers, NEW r \in Requests, NEW q \in Quotes, NEW u \in OpsUsers,
             CreateGuidedRequest(w, r, q, u)
      PROVE  \A v \in Workers : job'[v] = job[v] \/ job'[v].op = "guided"
  <2>1. job' = [job EXCEPT ![w] = [Idle EXCEPT !.op = "guided", !.req = r]]
    BY <1>2 DEF CreateGuidedRequest, Begin
  <2>2. [Idle EXCEPT !.op = "guided", !.req = r].op = "guided"
    BY DEF Idle
  <2> QED BY <2>1, <2>2 DEF TypeInv, TypeOK
<1>3. ASSUME \A w \in Workers, r \in Requests, q \in Quotes, u \in OpsUsers :
               ~CreateGuidedRequest(w, r, q, u)
      PROVE  UNCHANGED job
  BY <1>3 DEF Environment, CreateRequest, CreateCatalogOrder, Assign, CustomerPays
<1> QED BY <1>1, <1>2, <1>3

(* The handler each call leaves at its worker.                             *)
LEMMA BeginEffect ==
  ASSUME TypeInv, NEW w \in Workers, NEW j, Begin(w, j)
  PROVE  job'[w] = j
BY DEF TypeInv, TypeOK, Begin

LEMMA CallEffect ==
  ASSUME TypeInv, NEW w \in Workers
  PROVE  /\ \A r \in Requests, q \in Quotes :
              /\ RejectQuote(w, r, q)  => job'[w].op = "reject"  /\ job'[w].req = r
              /\ ApproveQuote(w, r, q) => job'[w].op = "approve" /\ job'[w].req = r
              /\ Initialize(w, r, q)   => /\ job'[w].op = "init" /\ job'[w].req = r
                                          /\ job'[w].quote = q
         /\ \A r \in Requests, u \in OpsUsers :
              /\ SubmitQuotes(w, r, u) => job'[w].op = "submitQuotes" /\ job'[w].req = r
              /\ ApproveFind(w, r, u)  => job'[w].op = "find" /\ job'[w].req = r
         /\ \A r \in Requests, target \in OpsTargets :
              UpdateStatus(w, r, target) => /\ job'[w].op = "update" /\ job'[w].req = r
                                            /\ job'[w].st = status[r]
                                            /\ job'[w].target = target
         /\ \A r \in Requests :
              /\ CancelPaidRequest(w, r) => /\ job'[w].op = "cancel" /\ job'[w].req = r
                                            /\ job'[w].ref = payment[r].ref
              /\ RetryRefund(w, r)       => /\ job'[w].op = "retry" /\ job'[w].req = r
                                            /\ job'[w].ref = payment[r].ref
<1>1. ASSUME NEW r \in Requests, NEW q \in Quotes, RejectQuote(w, r, q)
      PROVE  job'[w].op = "reject" /\ job'[w].req = r
  <2>1. job'[w] = [Idle EXCEPT !.op = "reject", !.req = r, !.quote = q]
    BY <1>1, BeginEffect DEF RejectQuote
  <2> QED BY <2>1 DEF Idle
<1>2. ASSUME NEW r \in Requests, NEW q \in Quotes, ApproveQuote(w, r, q)
      PROVE  job'[w].op = "approve" /\ job'[w].req = r
  <2>1. job'[w] = [Idle EXCEPT !.op = "approve", !.req = r, !.quote = q]
    BY <1>2, BeginEffect DEF ApproveQuote
  <2> QED BY <2>1 DEF Idle
<1>3. ASSUME NEW r \in Requests, NEW q \in Quotes, Initialize(w, r, q)
      PROVE  job'[w].op = "init" /\ job'[w].req = r /\ job'[w].quote = q
  <2>1. job'[w] = [Idle EXCEPT !.op = "init", !.req = r, !.quote = q]
    BY <1>3, BeginEffect DEF Initialize
  <2> QED BY <2>1 DEF Idle
<1>4. ASSUME NEW r \in Requests, NEW u \in OpsUsers, SubmitQuotes(w, r, u)
      PROVE  job'[w].op = "submitQuotes" /\ job'[w].req = r
  <2>1. job'[w] = [Idle EXCEPT !.op = "submitQuotes", !.req = r,
                       !.agent = IF assigned[r] # None THEN assigned[r] ELSE u]
    BY <1>4, BeginEffect DEF SubmitQuotes
  <2> QED BY <2>1 DEF Idle
<1>5. ASSUME NEW r \in Requests, NEW u \in OpsUsers, ApproveFind(w, r, u)
      PROVE  job'[w].op = "find" /\ job'[w].req = r
  <2>1. job'[w] = [Idle EXCEPT !.op = "find", !.req = r, !.st = status[r],
                       !.agent = IF assigned[r] # None THEN assigned[r] ELSE u]
    BY <1>5, BeginEffect DEF ApproveFind
  <2> QED BY <2>1 DEF Idle
<1>6. ASSUME NEW r \in Requests, NEW target \in OpsTargets, UpdateStatus(w, r, target)
      PROVE  job'[w].op = "update" /\ job'[w].req = r
             /\ job'[w].st = status[r] /\ job'[w].target = target
  <2>1. job'[w] = [Idle EXCEPT !.op = "update", !.req = r, !.st = status[r],
                                 !.target = target]
    BY <1>6, BeginEffect DEF UpdateStatus
  <2> QED BY <2>1 DEF Idle
<1>7. ASSUME NEW r \in Requests, CancelPaidRequest(w, r)
      PROVE  job'[w].op = "cancel" /\ job'[w].req = r /\ job'[w].ref = payment[r].ref
  <2>1. job'[w] = [Idle EXCEPT !.op = "cancel", !.req = r, !.ref = payment[r].ref]
    BY <1>7, BeginEffect DEF CancelPaidRequest
  <2> QED BY <2>1 DEF Idle
<1>8. ASSUME NEW r \in Requests, RetryRefund(w, r)
      PROVE  job'[w].op = "retry" /\ job'[w].req = r /\ job'[w].ref = payment[r].ref
  <2>1. job'[w] = [Idle EXCEPT !.op = "retry", !.req = r, !.ref = payment[r].ref]
    BY <1>8, BeginEffect DEF RetryRefund
  <2> QED BY <2>1 DEF Idle
<1> QED BY <1>1, <1>2, <1>3, <1>4, <1>5, <1>6, <1>7, <1>8

(* A payment call that has something to write is in flight with what it    *)
(* read; one that returns early has only its notice to send.               *)
LEMMA PaymentCallEffect ==
  ASSUME TypeInv, NEW w \in Workers
  PROVE  /\ \A r \in Requests, q \in Quotes : PayQuote(w, r, q) =>
              \/ job'[w].op = "mail" /\ job'[w].req = r /\ job'[w].target = "approved_paid"
                 /\ AlreadyPaid(r, q)
              \/ job'[w].op = "pay" /\ job'[w].req = r
         /\ \A ref \in Refs : PaymentReported(w, ref) =>
              \/ /\ job'[w].op = "mail" /\ job'[w].req = charge[ref].req
                 /\ job'[w].target = "approved_paid" /\ UNCHANGED lock
              \/ /\ job'[w].op = "complete" /\ job'[w].req = charge[ref].req
                 /\ job'[w].quote = charge[ref].quote /\ job'[w].ref = ref
                 /\ job'[w].hadRow = HasPayment(charge[ref].req) /\ ~job'[w].swept
                 /\ SelectForUpdate(w, charge[ref].req) /\ AmountMatches(ref)
                 /\ Unlocked(charge[ref].req) /\ Payable(charge[ref].req, charge[ref].quote)
<1>n. ASSUME NEW r, job'[w] = Notice(r, "approved_paid")
      PROVE  job'[w].op = "mail" /\ job'[w].req = r /\ job'[w].target = "approved_paid"
  BY <1>n DEF Notice, MoneyNotices, Idle
<1>1. ASSUME NEW r \in Requests, NEW q \in Quotes, PayQuote(w, r, q)
      PROVE  \/ job'[w].op = "mail" /\ job'[w].req = r /\ job'[w].target = "approved_paid"
                /\ AlreadyPaid(r, q)
             \/ job'[w].op = "pay" /\ job'[w].req = r
  <2>1. CASE AlreadyPaid(r, q)
    <3>1. job'[w] = Notice(r, "approved_paid")
      BY <1>1, <2>1, BeginEffect DEF PayQuote
    <3> QED BY <2>1, <3>1, <1>n
  <2>2. CASE ~AlreadyPaid(r, q)
    <3>1. job'[w] = [Idle EXCEPT !.op = "pay", !.req = r, !.quote = q, !.hadRow = HasPayment(r)]
      BY <1>1, <2>2, BeginEffect DEF PayQuote
    <3> QED BY <3>1 DEF Idle
  <2> QED BY <2>1, <2>2
<1>2. ASSUME NEW ref \in Refs, PaymentReported(w, ref)
      PROVE  \/ /\ job'[w].op = "mail" /\ job'[w].req = charge[ref].req
                /\ job'[w].target = "approved_paid" /\ UNCHANGED lock
             \/ /\ job'[w].op = "complete" /\ job'[w].req = charge[ref].req
                /\ job'[w].quote = charge[ref].quote /\ job'[w].ref = ref
                /\ job'[w].hadRow = HasPayment(charge[ref].req) /\ ~job'[w].swept
                /\ SelectForUpdate(w, charge[ref].req) /\ AmountMatches(ref)
                /\ Unlocked(charge[ref].req) /\ Payable(charge[ref].req, charge[ref].quote)
  <2> DEFINE r == charge[ref].req
             q == charge[ref].quote
  <2>1. CASE CompleteRepeated(w, ref)
    <3>1. job'[w] = Notice(r, "approved_paid") /\ UNCHANGED lock
      BY <2>1, BeginEffect DEF CompleteRepeated
    <3> QED BY <3>1, <1>n
  <2>2. CASE CompleteRead(w, ref) /\ AlreadyPaid(r, q)
    <3>1. job'[w] = Notice(r, "approved_paid") /\ UNCHANGED lock
      BY <2>2, BeginEffect DEF CompleteRead
    <3> QED BY <3>1, <1>n
  <2>3. CASE CompleteRead(w, ref) /\ ~AlreadyPaid(r, q)
    <3>1. job'[w] = [Idle EXCEPT !.op = "complete", !.req = r, !.quote = q, !.ref = ref,
                                 !.hadRow = HasPayment(r)]
      BY <2>3, BeginEffect DEF CompleteRead
    <3>2. /\ job'[w].op = "complete" /\ job'[w].req = r /\ job'[w].quote = q /\ job'[w].ref = ref
          /\ job'[w].hadRow = HasPayment(r) /\ ~job'[w].swept
      BY <3>1 DEF Idle
    <3>3. /\ SelectForUpdate(w, r) /\ AmountMatches(ref)
          /\ Unlocked(r) /\ Payable(r, q)
      BY <2>3 DEF CompleteRead
    <3> QED BY <3>2, <3>3
  <2> QED BY <1>2, <2>1, <2>2, <2>3 DEF PaymentReported
<1> QED BY <1>1, <1>2

LEMMA StepEffect ==
  ASSUME TypeInv, NEW w \in Workers, NEW op, Step(w, op)
  PROVE  /\ job'[w] = [job[w] EXCEPT !.op = op]
         /\ job'[w].op = op /\ job'[w].req = job[w].req
<1>1. job \in [Workers -> Jobs] /\ job[w] \in Jobs
  BY DEF TypeInv, TypeOK
<1>2. job'[w] = [job[w] EXCEPT !.op = op]
  BY <1>1 DEF Step
<1>3. \A j \in Jobs : [j EXCEPT !.op = op].op = op /\ [j EXCEPT !.op = op].req = j.req
  BY DEF Jobs
<1> QED BY <1>1, <1>2, <1>3

(* A statement over the quotes changes nothing but the handler's memory of *)
(* what it found.                                                          *)
LEMMA SweepEffect ==
  ASSUME TypeInv, NEW w \in Workers, Sweeps(w)
  PROVE  /\ UNCHANGED <<rows, mails, lock, charge>>
         /\ job[w].op \in {"approve", "pay", "complete", "submitQuotes"}
         /\ job'[w].op = job[w].op /\ job'[w].req = job[w].req
         /\ job'[w].quote = job[w].quote /\ job'[w].ref = job[w].ref
         /\ job'[w].hadRow = job[w].hadRow
         /\ job'[w].rest = {x \in Quotes \ {job[w].quote} : QuoteOf(job[w].req, x)}
<1> DEFINE found == {x \in Quotes \ {job[w].quote} : QuoteOf(job[w].req, x)}
<1>1. /\ UNCHANGED <<rows, mails, lock, charge>> /\ Sweep(w)
      /\ job[w].op \in {"approve", "pay", "complete", "submitQuotes"}
  BY DEF Sweeps, RejectOthers, DeleteQuotes
<1>2. job'[w] = [job[w] EXCEPT !.swept = TRUE, !.rest = found]
  BY <1>1 DEF Sweep, TypeInv, TypeOK, Jobs
<1>3. job[w] \in Jobs
  BY DEF TypeInv, TypeOK
<1> HIDE DEF found
<1>4. /\ job'[w].op = job[w].op /\ job'[w].req = job[w].req
      /\ job'[w].quote = job[w].quote /\ job'[w].ref = job[w].ref
      /\ job'[w].hadRow = job[w].hadRow /\ job'[w].rest = found
  BY <1>2, <1>3 DEF Jobs
<1> QED BY <1>1, <1>4 DEF found

(* A step that continues a handler never leaves the worker at the start    *)
(* of one: only calls do, and a statement over the quotes leaves it there. *)
Started == {"reject", "approve", "pay", "complete", "init", "submitQuotes", "update",
            "cancel", "retry", "find"}

LEMMA ContinueStartsNothing ==
  ASSUME TypeInv, NEW w \in Workers, (Continue(w) /\ ~Sweeps(w)) \/ Crash(w)
  PROVE  job'[w].op \notin Started
<1> USE DEF TypeInv, TypeOK, Started
<1>i. Idle.op = "idle" /\ \A r, s : Notice(r, s).op \in {"idle", "mail"}
  BY DEF Idle, Notice
<1>f. Finish(w) => job'[w].op \notin Started
  BY <1>i DEF Finish
<1>b. ASSUME NEW r, NEW s, Begin(w, Notice(r, s)) PROVE job'[w].op \notin Started
  BY <1>b, <1>i DEF Begin
<1>s. ASSUME NEW op \in {"cancelRefunded", "cancelPending", "retryRefunded", "retryLog",
                         "findStatus", "findLog"}, Step(w, op)
      PROVE  job'[w].op \notin Started
  BY <1>s, StepEffect
<1> HIDE DEF TypeInv, TypeOK, Started
<1>1. CASE \/ RejectCommit(w) \/ ApproveCommit(w) \/ InitializeRefused(w) \/ FindLog(w)
          \/ SendNotice(w) \/ WriteRefused(w) \/ Crash(w)
  BY <1>1, <1>f DEF RejectCommit, ApproveCommit, InitializeRefused, FindLog, SendNotice,
     WriteRefused, Crash
<1>2. CASE PayCommit(w) \/ CompleteCommit(w) \/ UpdateCommit(w) \/ RetryLog(w) \/ GuidedNotice(w)
  BY <1>2, <1>b DEF PayCommit, CompleteCommit, Settle, UpdateCommit, RetryLog, GuidedNotice
<1>3. CASE CancelRefund(w) \/ RetryPaid(w) \/ FindStatus(w)
  BY <1>3, <1>s DEF CancelRefund, RetryPaid, FindStatus
<1>4. CASE CancelCommit(w)
  BY <1>4, <1>f, <1>b DEF CancelCommit
<1>5. CASE RetryCall(w)
  BY <1>5, <1>f, <1>s DEF RetryCall
<1>6. ASSUME NEW ref \in Refs, InitializeCommit(w, ref) PROVE job'[w].op \notin Started
  BY <1>6, <1>f DEF InitializeCommit
<1>7. ASSUME NEW D \in SUBSET Quotes, SubmitQuotesCommit(w, D) PROVE job'[w].op \notin Started
  BY <1>7, <1>f DEF SubmitQuotesCommit
<1>8. ASSUME NEW q \in Quotes, FindQuote(w, q) PROVE job'[w].op \notin Started
  BY <1>8, <1>f, <1>s DEF FindQuote
<1> QED BY <1>1, <1>2, <1>3, <1>4, <1>5, <1>6, <1>7, <1>8 DEF Continue, Sweeps

(* Rows are only ever added to an order's timeline.                        *)
LEMMA HistoryGrows ==
  ASSUME TypeInv, [Next]_vars
  PROVE  \A r \in Requests : history[r] \subseteq history'[r]
<1> USE DEF TypeInv, TypeOK, MoveTo
<1>1. CASE Environment
  <2>1. ASSUME NEW r \in Requests, Submit(r)
        PROVE  \A o \in Requests : history[o] \subseteq history'[o]
    BY <2>1 DEF Submit
  <2>2. ASSUME NEW r \in Requests, NEW q \in Quotes, NEW u \in OpsUsers, NEW log,
               SubmitQuoted(r, q, u, log)
        PROVE  \A o \in Requests : history[o] \subseteq history'[o]
    BY <2>2 DEF SubmitQuoted
  <2>3. ASSUME NEW r \in Requests, NEW u \in OpsUsers, Assign(r, u) PROVE UNCHANGED history
    BY <2>3 DEF Assign
  <2>4. ASSUME NEW ref \in Refs, NEW exact \in BOOLEAN, CustomerPays(ref, exact)
        PROVE  UNCHANGED history
    BY <2>4 DEF CustomerPays, rows
  <2> QED BY <1>1, <2>1, <2>2, <2>3, <2>4
       DEF Environment, CreateRequest, CreateGuidedRequest, CreateCatalogOrder
<1>2. ASSUME NEW w \in Workers, Call(w) PROVE UNCHANGED history
  BY <1>2 DEF Call, RejectQuote, ApproveQuote, PayQuote, Initialize, SubmitQuotes, ApproveFind,
     UpdateStatus, CancelPaidRequest, RetryRefund, PaymentReported, CompleteRepeated,
     CompleteRead, rows
<1>3. ASSUME NEW w \in Workers, Continue(w)
      PROVE  \A r \in Requests : history[r] \subseteq history'[r]
  <2>1. \A r, s : MoveTo(r, s) => \A o \in Requests : history[o] \subseteq history'[o]
    BY DEF MoveTo
  <2>2. \A r, s : history' = [history EXCEPT ![r] = @ \cup {s}]
                 => \A o \in Requests : history[o] \subseteq history'[o]
    OBVIOUS
  <2> HIDE DEF MoveTo
  <2> QED BY <1>3, <2>1, <2>2, QuietKeepsTables, ContinueSteps
     DEF RejectCommit, ApproveCommit, PayCommit, CompleteCommit, Settle,
         InitializeCommit, InitializeRefused, SubmitQuotesCommit, UpdateCommit, CancelRefund,
         CancelCommit, RetryCall, RetryPaid, RetryLog, FindQuote, FindStatus, FindLog, SendNotice,
         WriteRefused, rows
<1>4. ASSUME NEW w \in Workers, Crash(w) PROVE UNCHANGED history
  BY <1>4 DEF Crash, rows
<1>5. CASE UNCHANGED vars
  BY <1>5 DEF vars, rows
<1> QED BY <1>1, <1>2, <1>3, <1>4, <1>5 DEF Next

-----------------------------------------------------------------------------
(* The timeline.  An updateStatus in flight moves on from the status it    *)
(* read, so it is of that status that the stages before must be logged.    *)

ReadIsLogged(j) == j.op = "update" => PaidUpTo(j.st) \subseteq history[j.req]

TimelineInv == TimelineGapless /\ \A w \in Workers : ReadIsLogged(job[w])


(* Only UpdateStatus puts an updateStatus in flight.                       *)
LEMMA UpdateCalls ==
  ASSUME TypeInv, NEW w \in Workers, Call(w), job'[w].op = "update"
  PROVE  \E r \in Requests, target \in OpsTargets : UpdateStatus(w, r, target)
BY CallEffect, PaymentCallEffect DEF Call

LEMMA TimelineInit == Init => TimelineInv
BY PaidUpToValues DEF Init, TimelineInv, TimelineGapless, ReadIsLogged, Idle

LEMMA TimelineMove ==
  ASSUME TypeInv, TimelineInv, NEW r \in Requests, NEW s \in Statuses, MoveTo(r, s),
         PaidUpTo(s) \subseteq history[r] \cup {s}
  PROVE  TimelineGapless'
<1>1. ASSUME NEW o \in Requests PROVE PaidUpTo(status'[o]) \subseteq history'[o]
  <2>1. CASE o = r
    BY <2>1 DEF MoveTo, TypeInv, TypeOK
  <2>2. CASE o # r
    BY <2>2 DEF MoveTo, TypeInv, TypeOK, TimelineInv, TimelineGapless
  <2> QED BY <2>1, <2>2
<1> QED BY <1>1 DEF TimelineGapless, PaidUpTo

LEMMA TimelineStep ==
  ASSUME TypeInv, TimelineInv, [Next]_vars
  PROVE  TimelineInv'
<1> USE PaidUpToValues
<1>g. \A r \in Requests : history[r] \subseteq history'[r]
  BY HistoryGrows
<1>k. UNCHANGED status => TimelineGapless'
  BY <1>g DEF TimelineInv, TimelineGapless, PaidUpTo
<1>1. CASE Environment
  <2>1. ASSUME NEW r \in Requests, Submit(r) PROVE TimelineGapless'
    BY <2>1, TimelineMove DEF Submit, Statuses
  <2>2. ASSUME NEW r \in Requests, NEW q \in Quotes, NEW u \in OpsUsers, NEW log,
               SubmitQuoted(r, q, u, log)
        PROVE  TimelineGapless'
    <3>1. ASSUME NEW o \in Requests PROVE PaidUpTo(status'[o]) \subseteq history'[o]
      BY <1>g, <2>2 DEF SubmitQuoted, TypeInv, TypeOK, TimelineInv, TimelineGapless
    <3> QED BY <3>1 DEF TimelineGapless, PaidUpTo
  <2>3. ASSUME NEW r \in Requests, NEW u \in OpsUsers, Assign(r, u) PROVE TimelineGapless'
    BY <1>k, <2>3 DEF Assign
  <2>4. ASSUME NEW ref \in Refs, NEW exact \in BOOLEAN, CustomerPays(ref, exact)
        PROVE  TimelineGapless'
    BY <1>k, <2>4 DEF CustomerPays, rows
  <2>5. TimelineGapless'
    BY <1>1, <2>1, <2>2, <2>3, <2>4
       DEF Environment, CreateRequest, CreateGuidedRequest, CreateCatalogOrder
  <2>6. \A w \in Workers : ReadIsLogged(job[w])'
    <3>1. ASSUME NEW w \in Workers, job'[w] = job[w] PROVE ReadIsLogged(job[w])'
      BY <1>g, <3>1 DEF TimelineInv, ReadIsLogged, TypeInv, JobOK
    <3> QED BY <1>1, <3>1, EnvironmentKeepsJobs DEF ReadIsLogged
  <2> QED BY <2>5, <2>6 DEF TimelineInv
<1>2. ASSUME NEW w \in Workers, Call(w) PROVE TimelineInv'
  <2>1. UNCHANGED <<status, history>>
    BY <1>2 DEF Call, RejectQuote, ApproveQuote, PayQuote, Initialize, SubmitQuotes, ApproveFind,
       UpdateStatus, CancelPaidRequest, RetryRefund, PaymentReported, CompleteRepeated,
       CompleteRead, rows
  <2>2. ASSUME job'[w].op = "update" 
        PROVE  PaidUpTo(job'[w].st) \subseteq history'[job'[w].req]
    <3>1. PICK r \in Requests, target \in OpsTargets : UpdateStatus(w, r, target)
      BY <1>2, <2>2, UpdateCalls
    <3>2. job'[w].st = status[r] /\ job'[w].req = r
      BY <3>1 DEF UpdateStatus, Begin, Idle, TypeInv, TypeOK
    <3> QED BY <2>1, <3>2 DEF TimelineInv, TimelineGapless
  <2>3. \A v \in Workers : ReadIsLogged(job[v])'
    BY <1>2, <2>1, <2>2, OthersKeep DEF Working, TimelineInv, ReadIsLogged
  <2> QED BY <1>k, <2>1, <2>3 DEF TimelineInv
<1>3. ASSUME NEW w \in Workers, Continue(w) \/ Crash(w) PROVE TimelineInv'
  <2> DEFINE r == job[w].req
  <2>1. ASSUME UpdateCommit(w) PROVE TimelineGapless'
    <3>1. r \in Requests /\ job[w].st \in Statuses /\ job[w].target \in Statuses
          /\ MayMove(job[w].st, job[w].target)
      BY <2>1 DEF UpdateCommit, TypeInv, JobOK
    <3>2. PaidUpTo(job[w].target) \subseteq history[r] \cup {job[w].target}
      BY <2>1, <3>1, MayMoveStep DEF UpdateCommit, TimelineInv, ReadIsLogged
    <3>3. MoveTo(r, job[w].target)
      BY <2>1 DEF UpdateCommit
    <3> QED BY <3>1, <3>2, <3>3, TimelineMove
  <2>2. ASSUME PayCommit(w) \/ CompleteCommit(w) PROVE TimelineGapless'
    <3>1. r \in Requests /\ "approved_paid" \in Statuses
      BY <2>2 DEF PayCommit, CompleteCommit, TypeInv, JobOK, Statuses, PaidStatuses
    <3>2. /\ MoveTo(r, "approved_paid")
          /\ PaidUpTo("approved_paid") \subseteq history[r] \cup {"approved_paid"}
      BY <2>2 DEF PayCommit, CompleteCommit, Settle
    <3> QED BY <3>1, <3>2, TimelineMove
  <2>3. ASSUME NEW D \in SUBSET Quotes, SubmitQuotesCommit(w, D) PROVE TimelineGapless'
    <3>1. r \in Requests /\ "quoted" \in Statuses
      BY <2>3 DEF SubmitQuotesCommit, TypeInv, JobOK, Statuses
    <3>2. MoveTo(r, "quoted") /\ PaidUpTo("quoted") \subseteq history[r] \cup {"quoted"}
      BY <2>3 DEF SubmitQuotesCommit
    <3> QED BY <3>1, <3>2, TimelineMove
  <2>4. ASSUME CancelCommit(w) PROVE TimelineGapless'
    <3>1. r \in Requests /\ "cancelled" \in Statuses
      BY <2>4 DEF CancelCommit, TypeInv, JobOK, Statuses
    <3>2. MoveTo(r, "cancelled") /\ PaidUpTo("cancelled") \subseteq history[r] \cup {"cancelled"}
      BY <2>4 DEF CancelCommit
    <3> QED BY <3>1, <3>2, TimelineMove
  <2>5. ASSUME FindStatus(w) PROVE TimelineGapless'
    <3>1. ASSUME NEW o \in Requests PROVE PaidUpTo(status'[o]) \subseteq history'[o]
      BY <1>g, <2>5 DEF FindStatus, TypeInv, TypeOK, TimelineInv, TimelineGapless
    <3> QED BY <3>1 DEF TimelineGapless, PaidUpTo
  <2>6. ASSUME \/ RejectCommit(w) \/ ApproveCommit(w) \/ Quiet(w) \/ InitializeRefused(w)
               \/ CancelRefund(w) \/ RetryCall(w) \/ RetryPaid(w) \/ RetryLog(w)
               \/ FindLog(w) \/ SendNotice(w) \/ WriteRefused(w) \/ Crash(w)
        PROVE  TimelineGapless'
    BY <1>k, <2>6, QuietKeepsTables
       DEF RejectCommit, ApproveCommit, InitializeRefused, CancelRefund, RetryCall, RetryPaid,
           RetryLog, FindLog, SendNotice, WriteRefused, Crash, rows
  <2>7. ASSUME NEW ref \in Refs, InitializeCommit(w, ref) PROVE TimelineGapless'
    BY <1>k, <2>7 DEF InitializeCommit
  <2>8. ASSUME NEW q \in Quotes, FindQuote(w, q) PROVE TimelineGapless'
    BY <1>k, <2>8 DEF FindQuote
  <2>9. TimelineGapless'
    BY <1>3, <2>1, <2>2, <2>3, <2>4, <2>5, <2>6, <2>7, <2>8, ContinueSteps
  <2>10. \A v \in Workers : ReadIsLogged(job[v])'
    BY <1>3, <1>g, OthersKeep, ContinueStartsNothing, SweepEffect
       DEF Working, Started, TimelineInv, ReadIsLogged, TypeInv, JobOK
  <2> QED BY <2>9, <2>10 DEF TimelineInv
<1>4. CASE UNCHANGED vars
  BY <1>4, <1>k DEF vars, rows, TimelineInv, ReadIsLogged
<1> QED BY <1>1, <1>2, <1>3, <1>4 DEF Next

-----------------------------------------------------------------------------
(* The row lock.  While completePaystackPayment holds it, the order stays  *)
(* open for the payment.                                                   *)

LockInv ==
  \A w \in Workers : job[w].op = "complete" =>
    /\ lock[job[w].req] = w
    /\ status[job[w].req] \in {"quoted", "approved_paid"}

(* A handler writes the status of an unlocked order, or of its own.        *)
LEMMA StatusWriters ==
  ASSUME TypeInv, NEW w \in Workers, Continue(w), NEW r \in Requests, status'[r] # status[r]
  PROVE  lock[r] = None \/ (job[w].op = "complete" /\ job[w].req = r)
<1> USE DEF TypeInv, TypeOK, Unlocked, MoveTo
<1>1. CASE \/ RejectCommit(w) \/ ApproveCommit(w) \/ Quiet(w) \/ InitializeRefused(w)
          \/ CancelRefund(w) \/ RetryCall(w) \/ RetryPaid(w) \/ RetryLog(w)
          \/ FindLog(w) \/ SendNotice(w) \/ WriteRefused(w)
  BY <1>1, QuietKeepsTables
     DEF RejectCommit, ApproveCommit, InitializeRefused, CancelRefund, RetryCall, RetryPaid,
         RetryLog, FindLog, SendNotice, WriteRefused, rows
<1>2. CASE PayCommit(w) \/ CompleteCommit(w)
  BY <1>2 DEF PayCommit, CompleteCommit, Settle
<1>3. CASE UpdateCommit(w) \/ CancelCommit(w) \/ FindStatus(w)
  BY <1>3 DEF UpdateCommit, CancelCommit, FindStatus
<1>4. ASSUME NEW ref \in Refs, InitializeCommit(w, ref) PROVE FALSE
  BY <1>4 DEF InitializeCommit
<1>5. ASSUME NEW D \in SUBSET Quotes, SubmitQuotesCommit(w, D) PROVE lock[r] = None
  BY <1>5 DEF SubmitQuotesCommit
<1>6. ASSUME NEW q \in Quotes, FindQuote(w, q) PROVE FALSE
  BY <1>6 DEF FindQuote
<1> QED BY <1>1, <1>2, <1>3, <1>4, <1>5, <1>6, ContinueSteps

(* A worker takes a lock nobody holds, and releases only its own.          *)
LEMMA LockWriters ==
  ASSUME TypeInv, LockInv, NEW w \in Workers, Working(w), NEW r \in Requests,
         lock'[r] # lock[r]
  PROVE  lock[r] = None \/ lock[r] = w
<1> USE DEF TypeInv, TypeOK
<1>1. CASE Call(w)
  <2>1. CASE \E ref \in Refs : PaymentReported(w, ref)
    BY <2>1 DEF PaymentReported, CompleteRepeated, CompleteRead, SelectForUpdate, Unlocked
  <2>2. CASE ~\E ref \in Refs : PaymentReported(w, ref)
    BY <1>1, <2>2 DEF Call, RejectQuote, ApproveQuote, PayQuote, Initialize, SubmitQuotes,
       ApproveFind, UpdateStatus, CancelPaidRequest, RetryRefund
  <2> QED BY <2>1, <2>2
<1>2. CASE CompleteCommit(w)
  BY <1>2 DEF CompleteCommit, LockInv
<1>3. CASE Continue(w) /\ ~CompleteCommit(w)
  BY <1>3, QuietKeepsTables, ContinueSteps
     DEF RejectCommit, ApproveCommit, PayCommit, InitializeCommit, InitializeRefused,
         SubmitQuotesCommit, UpdateCommit, CancelRefund, CancelCommit, RetryCall, RetryPaid,
         RetryLog, FindQuote, FindStatus, FindLog, SendNotice, WriteRefused
<1>4. CASE Crash(w)
  BY <1>4 DEF Crash
<1> QED BY <1>1, <1>2, <1>3, <1>4 DEF Working

LEMMA CallKeepsTables ==
  ASSUME NEW w \in Workers, Call(w)
  PROVE  UNCHANGED <<status, assigned, quotes, payment, history, mails, charge>>
BY DEF Call, RejectQuote, ApproveQuote, PayQuote, Initialize, SubmitQuotes, ApproveFind,
   UpdateStatus, CancelPaidRequest, RetryRefund, PaymentReported, CompleteRepeated,
   CompleteRead, rows

LEMMA CrashKeepsTables ==
  ASSUME NEW w \in Workers, Crash(w)
  PROVE  UNCHANGED <<status, assigned, quotes, payment, history, mails, charge>>
BY DEF Crash, rows

LEMMA LockInit == Init => LockInv
BY DEF Init, LockInv, Idle

LEMMA LockStep ==
  ASSUME TypeInv, LockInv, [Next]_vars
  PROVE  LockInv'
<1>1. CASE Environment
  <2>1. ASSUME NEW r \in Requests, status[r] \in {"quoted", "approved_paid"}
        PROVE  status'[r] = status[r]
    BY <1>1, <2>1 DEF Environment, CreateRequest, CreateGuidedRequest, CreateCatalogOrder, Submit,
     SubmitQuoted, Assign, CustomerPays, rows,
       Exists, MoveTo, TypeInv, TypeOK
  <2>2. ASSUME NEW v \in Workers, job'[v].op = "complete" PROVE job'[v] = job[v]
    BY <1>1, <2>2, EnvironmentKeepsJobs
  <2> QED BY <1>1, <2>1, <2>2, EnvironmentKeepsJobs DEF LockInv, TypeInv, JobOK
<1>2. ASSUME NEW w \in Workers, Working(w), NEW v \in Workers, job'[v].op = "complete"
      PROVE  /\ lock'[job'[v].req] = v
             /\ status'[job'[v].req] \in {"quoted", "approved_paid"}
  <2>1. CASE v # w
    <3> DEFINE r == job[v].req
    <3>1. /\ job'[v] = job[v] /\ job[v].op = "complete" /\ r \in Requests
          /\ lock[r] = v /\ status[r] \in {"quoted", "approved_paid"}
      BY <1>2, <2>1, OthersKeep DEF LockInv, TypeInv, JobOK
    <3>2. lock'[r] = v
      BY <1>2, <2>1, <3>1, LockWriters, NoneAssumption
    <3>3. status'[r] = status[r]
      <4>1. CASE Continue(w)
        <5>1. job[w].op = "complete" /\ job[w].req = r => FALSE
          BY <2>1, <3>1 DEF LockInv
        <5> QED BY <3>1, <4>1, <5>1, StatusWriters, NoneAssumption
      <4>2. CASE Call(w) \/ Crash(w)
        BY <4>2, CallKeepsTables, CrashKeepsTables
      <4> QED BY <1>2, <4>1, <4>2 DEF Working
    <3> QED BY <3>1, <3>2, <3>3
  <2>2. CASE v = w /\ Sweeps(w)
    BY <1>2, <2>2, SweepEffect DEF LockInv, rows
  <2>3. CASE v = w /\ ~Sweeps(w)
    <3>1. Call(w)
      BY <1>2, <2>3, ContinueStartsNothing DEF Working, Started
    <3>2. PICK ref \in Refs : PaymentReported(w, ref)
      BY <1>2, <2>3, <3>1, CallEffect, PaymentCallEffect DEF Call
    <3> DEFINE r == charge[ref].req
    <3>3. /\ job'[w].req = r /\ SelectForUpdate(w, r)
          /\ Payable(r, charge[ref].quote)
      BY <1>2, <2>3, <3>2, PaymentCallEffect
    <3>4. r \in Requests
      BY <3>2 DEF PaymentReported, Charged, TypeInv, ChargeOK
    <3>5. UNCHANGED status
      BY <3>1, CallKeepsTables
    <3> QED BY <2>3, <3>3, <3>4, <3>5 DEF SelectForUpdate, Payable, TypeInv, TypeOK
  <2> QED BY <2>1, <2>2, <2>3
<1>3. CASE UNCHANGED vars
  BY <1>3 DEF vars, rows, LockInv
<1> QED BY <1>1, <1>2, <1>3 DEF Next, Working, LockInv

-----------------------------------------------------------------------------
(* Charges.  What Paystack did cannot be undone: a charge keeps its order  *)
(* and its quote, and once taken or refunded stays so.                     *)

ChargeKept(ref) ==
  charge[ref].state # "none" =>
    /\ charge'[ref].state # "none"
    /\ charge'[ref].req = charge[ref].req
    /\ charge'[ref].quote = charge[ref].quote
    /\ Charged(ref) => Charged(ref)' /\ charge'[ref].exact = charge[ref].exact
    /\ charge[ref].state = "refunded" => charge'[ref].state = "refunded"

LEMMA ChargesKept ==
  ASSUME TypeInv, [Next]_vars
  PROVE  \A ref \in Refs : ChargeKept(ref)
<1> USE DEF TypeInv, TypeOK, Charges, ChargeKept, Charged
<1>s. UNCHANGED charge => \A ref \in Refs : ChargeKept(ref)
  OBVIOUS
<1>1. ASSUME NEW x \in Refs, NEW exact \in BOOLEAN, CustomerPays(x, exact)
      PROVE  \A ref \in Refs : ChargeKept(ref)
  BY <1>1 DEF CustomerPays, Capture
<1>2. ASSUME NEW w \in Workers, NEW x \in Refs, InitializeCommit(w, x)
      PROVE  \A ref \in Refs : ChargeKept(ref)
  BY <1>2 DEF InitializeCommit, OpenCharge
<1>3. ASSUME NEW w \in Workers, CancelRefund(w) \/ RetryCall(w)
      PROVE  \A ref \in Refs : ChargeKept(ref)
  <2>1. \/ UNCHANGED charge
        \/ \E x \in Refs : charge[x].state = "success" /\ ReturnMoney(x)
    BY <1>3, RefundOutcome DEF CancelRefund, RetryCall
  <2>2. ASSUME NEW x \in Refs, charge[x].state = "success", ReturnMoney(x)
        PROVE  \A ref \in Refs : ChargeKept(ref)
    BY <2>2 DEF ReturnMoney
  <2> QED BY <1>s, <2>1, <2>2
<1> HIDE DEF TypeInv, TypeOK, Charges, ChargeKept, Charged
<1>4. CASE Environment
  BY <1>4, <1>s, <1>1 DEF Environment, CreateRequest, CreateGuidedRequest, CreateCatalogOrder,
     Submit, SubmitQuoted, Assign
<1>5. ASSUME NEW w \in Workers, Call(w) \/ Crash(w) PROVE UNCHANGED charge
  BY <1>5, CallKeepsTables, CrashKeepsTables
<1>6. ASSUME NEW w \in Workers, Continue(w) PROVE \A ref \in Refs : ChargeKept(ref)
  BY <1>6, <1>s, <1>2, <1>3, QuietKeepsTables, ContinueSteps
     DEF RejectCommit, ApproveCommit, PayCommit, CompleteCommit, Settle,
         InitializeRefused, SubmitQuotesCommit, UpdateCommit, CancelCommit, RetryPaid, RetryLog,
         FindQuote, FindStatus, FindLog, SendNotice, WriteRefused, rows
<1>7. CASE UNCHANGED vars
  BY <1>7, <1>s DEF vars
<1> QED BY <1>4, <1>s, <1>5, <1>6, <1>7 DEF Next

(* A charge that pays for quote q of order r.                              *)
PaysFor(ref, r, q) ==
  /\ Charged(ref) /\ charge[ref].exact
  /\ charge[ref].req = r /\ charge[ref].quote = q

PaymentJobOK(j) ==
  /\ j.op = "complete" => PaysFor(j.ref, j.req, j.quote)
  /\ j.op = "pay" => ~Production

PaidRow(p, r) ==
  p.status = "paid" => p.ref = Demo \/ (p.ref \in Refs /\ PaysFor(p.ref, r, p.amount))

ChargeInv ==
  /\ \A w \in Workers : PaymentJobOK(job[w])
  /\ \A r \in Requests : PaidRow(payment[r], r)
  /\ Production => \A r \in Requests : "approved_paid" \in history[r] => HasCharge(r)

LEMMA ChargeInit == Init => ChargeInv
BY DEF Init, ChargeInv, PaymentJobOK, Idle, PaidRow, NoPayment

LEMMA PaysForKept ==
  ASSUME TypeInv, [Next]_vars, NEW ref \in Refs, NEW r, NEW q, PaysFor(ref, r, q)
  PROVE  PaysFor(ref, r, q)'
BY ChargesKept DEF ChargeKept, PaysFor, Charged

LEMMA HasChargeKept ==
  ASSUME TypeInv, [Next]_vars, NEW r \in Requests, HasCharge(r)
  PROVE  HasCharge(r)'
BY ChargesKept DEF ChargeKept, HasCharge, Charged

(* Only a payment that goes through, or an updateStatus that read          *)
(* approved_paid, logs approved_paid.                                      *)
LEMMA PaidLogged ==
  ASSUME TypeInv, TimelineInv, NEW w \in Workers, Continue(w), NEW r \in Requests,
         "approved_paid" \in history'[r], "approved_paid" \notin history[r]
  PROVE  (PayCommit(w) \/ CompleteCommit(w)) /\ job[w].req = r
<1> USE DEF TypeInv, TypeOK, MoveTo
<1>1. CASE \/ RejectCommit(w) \/ ApproveCommit(w) \/ Quiet(w) \/ InitializeRefused(w)
          \/ CancelRefund(w) \/ RetryCall(w) \/ RetryPaid(w) \/ FindStatus(w)
          \/ SendNotice(w) \/ WriteRefused(w)
  BY <1>1, QuietKeepsTables
     DEF RejectCommit, ApproveCommit, InitializeRefused, CancelRefund, RetryCall, RetryPaid,
         FindStatus, SendNotice, WriteRefused, rows
<1>2. CASE PayCommit(w) \/ CompleteCommit(w)
  BY <1>2 DEF PayCommit, CompleteCommit, Settle
<1>3. CASE CancelCommit(w) \/ RetryLog(w) \/ FindLog(w)
  BY <1>3 DEF CancelCommit, RetryLog, FindLog
<1>4. ASSUME NEW ref \in Refs, InitializeCommit(w, ref) PROVE FALSE
  BY <1>4 DEF InitializeCommit
<1>5. ASSUME NEW D \in SUBSET Quotes, SubmitQuotesCommit(w, D) PROVE FALSE
  BY <1>5 DEF SubmitQuotesCommit
<1>6. ASSUME NEW q \in Quotes, FindQuote(w, q) PROVE FALSE
  BY <1>6 DEF FindQuote
<1>7. CASE UpdateCommit(w)
  <2>1. job[w].target = "approved_paid" /\ job[w].req = r
    BY <1>7 DEF UpdateCommit
  <2>2. job[w].st = "approved_paid"
    BY <1>7, <2>1, MayMoveStep DEF UpdateCommit, JobOK
  <2>3. "approved_paid" \in history[r]
    BY <1>7, <2>1, <2>2, PaidUpToValues DEF UpdateCommit, TimelineInv, ReadIsLogged
  <2> QED BY <2>3
<1> QED BY <1>1, <1>2, <1>3, <1>4, <1>5, <1>6, <1>7, ContinueSteps

(* A payment that goes through writes a row its charge pays for.           *)
LEMMA SettleRow ==
  ASSUME TypeInv, ChargeInv, [Next]_vars, NEW w \in Workers, NEW ref,
         NEW r \in Requests, NEW q \in Quotes, job[w].req = r, job[w].quote = q,
         Settle(w, ref), ref = Demo \/ (ref \in Refs /\ PaysFor(ref, r, q))
  PROVE  \A o \in Requests : PaidRow(payment[o], o)'
<1>1. payment' = [payment EXCEPT ![r] = [amount |-> q, ref |-> ref, status |-> "paid"]]
  BY DEF Settle
<1>2. ref = Demo \/ (ref \in Refs /\ PaysFor(ref, r, q)')
  BY PaysForKept
<1>3. PaidRow(payment[r], r)'
  <2>1. payment'[r].amount = q /\ payment'[r].ref = ref
    BY <1>1 DEF TypeInv, TypeOK
  <2> QED BY <1>2, <2>1 DEF PaidRow
<1>4. ASSUME NEW o \in Requests, o # r PROVE PaidRow(payment[o], o)'
  <2>1. payment'[o] = payment[o]
    BY <1>1, <1>4 DEF TypeInv, TypeOK
  <2> QED BY <2>1, PaysForKept DEF ChargeInv, PaidRow
<1> QED BY <1>3, <1>4

(* No other step of a handler writes "paid".                               *)
LEMMA PaidWriters ==
  ASSUME TypeInv, NEW w \in Workers, Continue(w), ~PayCommit(w), ~CompleteCommit(w)
  PROVE  \A o \in Requests : payment'[o] = payment[o] \/ payment'[o].status # "paid"
<1> USE DEF TypeInv, TypeOK, PaymentRows
<1>1. CASE \/ RejectCommit(w) \/ ApproveCommit(w) \/ Quiet(w) \/ InitializeRefused(w)
          \/ CancelRefund(w) \/ RetryCall(w) \/ RetryLog(w) \/ FindStatus(w)
          \/ FindLog(w) \/ SendNotice(w) \/ WriteRefused(w) \/ UpdateCommit(w)
  BY <1>1, QuietKeepsTables
     DEF RejectCommit, ApproveCommit, InitializeRefused, CancelRefund, RetryCall, RetryLog,
         FindStatus, FindLog, SendNotice, WriteRefused, UpdateCommit, rows
<1>2. CASE CancelCommit(w) \/ RetryPaid(w)
  BY <1>2 DEF CancelCommit, RetryPaid
<1>3. ASSUME NEW ref \in Refs, InitializeCommit(w, ref)
      PROVE  \A o \in Requests : payment'[o] = payment[o] \/ payment'[o].status # "paid"
  BY <1>3 DEF InitializeCommit
<1>4. ASSUME NEW D \in SUBSET Quotes, SubmitQuotesCommit(w, D) PROVE UNCHANGED payment
  BY <1>4 DEF SubmitQuotesCommit
<1>5. ASSUME NEW q \in Quotes, FindQuote(w, q) PROVE UNCHANGED payment
  BY <1>5 DEF FindQuote
<1> QED BY <1>1, <1>2, <1>3, <1>4, <1>5, ContinueSteps

LEMMA ChargeStep ==
  ASSUME TypeInv, TimelineInv, ChargeInv, [Next]_vars
  PROVE  ChargeInv'
<1>1. ASSUME NEW v \in Workers, job'[v] = job[v] PROVE PaymentJobOK(job[v])'
  BY <1>1, PaysForKept DEF ChargeInv, PaymentJobOK, TypeInv, JobOK
<1>2. ASSUME NEW r \in Requests, payment'[r] = payment[r] PROVE PaidRow(payment[r], r)'
  BY <1>2, PaysForKept DEF ChargeInv, PaidRow
<1>3. ASSUME NEW r \in Requests, history'[r] = history[r], Production,
             "approved_paid" \in history'[r]
      PROVE  HasCharge(r)'
  BY <1>3, HasChargeKept DEF ChargeInv
<1>4. CASE Environment
  <2>1. UNCHANGED payment
    BY <1>4 DEF Environment, CreateRequest, CreateGuidedRequest, CreateCatalogOrder, Submit,
     SubmitQuoted, Assign, CustomerPays, rows
  <2>2. ASSUME NEW r \in Requests, "approved_paid" \in history'[r]
        PROVE  "approved_paid" \in history[r]
    <3> USE DEF TypeInv, TypeOK
    <3>1. ASSUME NEW o \in Requests, Submit(o) PROVE "approved_paid" \in history[r]
      BY <2>2, <3>1 DEF Submit, MoveTo
    <3>2. ASSUME NEW o \in Requests, NEW q \in Quotes, NEW u \in OpsUsers,
                 NEW log \in {{"submitted", "quoted"}, {"quoted"}}, SubmitQuoted(o, q, u, log)
          PROVE  "approved_paid" \in history[r]
      BY <2>2, <3>2 DEF SubmitQuoted
    <3>3. ASSUME NEW o \in Requests, NEW u \in OpsUsers, Assign(o, u) PROVE UNCHANGED history
      BY <3>3 DEF Assign
    <3>4. ASSUME NEW ref \in Refs, NEW exact \in BOOLEAN, CustomerPays(ref, exact)
          PROVE  UNCHANGED history
      BY <3>4 DEF CustomerPays, rows
    <3> QED BY <1>4, <2>2, <3>1, <3>2, <3>3, <3>4
         DEF Environment, CreateRequest, CreateGuidedRequest, CreateCatalogOrder
  <2>3. \A v \in Workers : PaymentJobOK(job[v])'
    BY <1>1, <1>4, EnvironmentKeepsJobs DEF PaymentJobOK
  <2> QED BY <1>2, <2>1, <2>2, <2>3, HasChargeKept DEF ChargeInv
<1>5. ASSUME NEW w \in Workers, Call(w) PROVE ChargeInv'
  <2>1. UNCHANGED <<payment, history>>
    BY <1>5, CallKeepsTables
  <2>2. PaymentJobOK(job[w])'
    <3>1. ASSUME NEW r \in Requests, NEW q \in Quotes, PayQuote(w, r, q) PROVE PaymentJobOK(job[w])'
      BY <3>1, PaymentCallEffect DEF PayQuote, PaymentJobOK
    <3>2. ASSUME NEW ref \in Refs, PaymentReported(w, ref) PROVE PaymentJobOK(job[w])'
      BY <3>2, <1>5, PaymentCallEffect, CallKeepsTables
         DEF PaymentReported, PaymentJobOK, PaysFor, AmountMatches, Charged
    <3> QED BY <1>5, <3>1, <3>2, CallEffect DEF Call, PaymentJobOK
  <2>3. \A v \in Workers : PaymentJobOK(job[v])'
    BY <1>1, <1>5, <2>2, OthersKeep DEF Working
  <2> QED BY <1>2, <1>3, <2>1, <2>3 DEF ChargeInv
<1>6. ASSUME NEW w \in Workers, Crash(w) PROVE ChargeInv'
  <2>1. UNCHANGED <<payment, history>>
    BY <1>6, CrashKeepsTables
  <2>2. \A v \in Workers : PaymentJobOK(job[v])'
    BY <1>1, <1>6, OthersKeep, ContinueStartsNothing DEF Working, Started, PaymentJobOK
  <2> QED BY <1>2, <1>3, <2>1, <2>2 DEF ChargeInv
<1>7. ASSUME NEW w \in Workers, Continue(w) PROVE ChargeInv'
  <2> DEFINE r == job[w].req
             q == job[w].quote
  <2>1. \A v \in Workers : PaymentJobOK(job[v])'
    <3>1. CASE Sweeps(w)
      <4>1. PaymentJobOK(job[w])'
        BY <3>1, SweepEffect DEF ChargeInv, PaymentJobOK, PaysFor, Charged
      <4> QED BY <1>1, <1>7, <4>1, OthersKeep DEF Working
    <3>2. CASE ~Sweeps(w)
      BY <1>1, <1>7, <3>2, OthersKeep, ContinueStartsNothing DEF Working, Started, PaymentJobOK
    <3> QED BY <3>1, <3>2
  <2>4. \A o \in Requests : PaidRow(payment[o], o)'
    <3>1. CASE PayCommit(w)
      BY <3>1, SettleRow DEF PayCommit, TypeInv, JobOK
    <3>2. CASE CompleteCommit(w)
      BY <3>2, SettleRow DEF CompleteCommit, TypeInv, JobOK, ChargeInv, PaymentJobOK
    <3>3. CASE ~PayCommit(w) /\ ~CompleteCommit(w)
      BY <1>7, <1>2, <3>3, PaidWriters DEF PaidRow
    <3> QED BY <3>1, <3>2, <3>3
  <2>5. ASSUME NEW o \in Requests, Production, "approved_paid" \in history'[o]
        PROVE  HasCharge(o)'
    <3>1. CASE "approved_paid" \in history[o]
      BY <2>5, <3>1, HasChargeKept DEF ChargeInv
    <3>2. CASE "approved_paid" \notin history[o]
      <4>1. (PayCommit(w) \/ CompleteCommit(w)) /\ r = o
        BY <1>7, <2>5, <3>2, PaidLogged
      <4>2. job[w].ref \in Refs /\ PaysFor(job[w].ref, o, q)
        BY <2>5, <4>1 DEF PayCommit, CompleteCommit, ChargeInv, PaymentJobOK, TypeInv, JobOK
      <4>3. HasCharge(o)
        BY <4>2 DEF PaysFor, HasCharge
      <4> QED BY <4>3, HasChargeKept
    <3> QED BY <3>1, <3>2
  <2> QED BY <2>1, <2>4, <2>5 DEF ChargeInv
<1>8. CASE UNCHANGED vars
  BY <1>8, <1>1, <1>2, <1>3 DEF vars, rows, ChargeInv
<1> QED BY <1>4, <1>5, <1>6, <1>7, <1>8 DEF Next

-----------------------------------------------------------------------------
(* The inductive invariant, and what follows from it.                      *)

SafetyInv == TypeInv /\ TimelineInv /\ LockInv /\ ChargeInv

(* The inductive invariant holds in every behaviour.                       *)
THEOREM SafetyInvariant == Spec => []SafetyInv
<1>1. Init => SafetyInv
  BY TypeInit, TimelineInit, LockInit, ChargeInit DEF SafetyInv
<1>2. SafetyInv /\ [Next]_vars => SafetyInv'
  BY TypeStep, TimelineStep, LockStep, ChargeStep DEF SafetyInv
<1> QED BY <1>1, <1>2, PTL DEF Spec

(* No order reaches a stage before every earlier stage, back to the        *)
(* payment, is in its timeline: a stale updateStatus cannot skip one.      *)
THEOREM TimelineHasNoGap == Spec => []TimelineGapless
<1>1. SafetyInv => TimelineGapless
  BY DEF SafetyInv, TimelineInv
<1> QED BY <1>1, SafetyInvariant, PTL

(* A paid Payment row with a Paystack reference is backed by a completed   *)
(* charge of the same order, quote and amount.                             *)
THEOREM PaidRowsAreCharged == Spec => []PaidRowIsCharged
<1>1. SafetyInv => PaidRowIsCharged
  BY DEF SafetyInv, ChargeInv, PaidRow, PaysFor, PaidRowIsCharged
<1> QED BY <1>1, SafetyInvariant, PTL

(* In production only an order Paystack took the exact amount for is paid  *)
(* or in fulfilment: its timeline shows approved_paid, and that is logged  *)
(* with a charge only.                                                     *)
THEOREM FulfilledOrdersAreCharged == Spec => []FulfilmentIsCharged
<1>1. SafetyInv => FulfilmentIsCharged
  <2> SUFFICES ASSUME SafetyInv, Production, NEW r \in Requests, status[r] \in PaidStatuses
               PROVE  HasCharge(r)
    BY DEF FulfilmentIsCharged
  <2>1. "approved_paid" \in history[r]
    BY PaidUpToValues DEF SafetyInv, TimelineInv, TimelineGapless
  <2> QED BY <2>1 DEF SafetyInv, ChargeInv
<1> QED BY <1>1, SafetyInvariant, PTL

(* In production only completePaystackPayment records a payment.           *)
LEMMA PaymentWriter ==
  ASSUME SafetyInv, Next, Production, NEW r \in Requests, PaymentRecorded(r)
  PROVE  \E w \in Workers : CompleteCommit(w) /\ job[w].req = r
<1>1. ASSUME Environment PROVE FALSE
  BY <1>1 DEF PaymentRecorded, Environment, CreateRequest, CreateGuidedRequest,
     CreateCatalogOrder, Submit, SubmitQuoted, Assign, CustomerPays, rows
<1>2. PICK w \in Workers : Call(w) \/ Continue(w) \/ Crash(w)
  BY <1>1 DEF Next
<1>3. Continue(w)
  BY <1>2, CallKeepsTables, CrashKeepsTables DEF PaymentRecorded
<1>4. CompleteCommit(w)
  BY <1>3, PaidWriters DEF SafetyInv, PaymentRecorded, ChargeInv, PaymentJobOK, PayCommit
<1>5. job[w].req = r
  BY <1>4 DEF CompleteCommit, Settle, PaymentRecorded, SafetyInv, TypeInv, TypeOK
<1> QED BY <1>4, <1>5

(* In production a payment is recorded only on an order that waits for it: *)
(* the row lock keeps what completePaystackPayment read true until it      *)
(* commits.                                                                *)
THEOREM PaymentsNeedAnOpenOrder == Spec => PaymentNeedsOpenOrder
<1> DEFINE Allowed == Production => \A r \in Requests :
                        PaymentRecorded(r) => status[r] \in {"quoted", "approved_paid"}
<1>1. SafetyInv /\ [Next]_vars => [Allowed]_vars
  <2> SUFFICES ASSUME SafetyInv, Next, Production, NEW r \in Requests, PaymentRecorded(r)
               PROVE  status[r] \in {"quoted", "approved_paid"}
    OBVIOUS
  <2> QED BY PaymentWriter DEF CompleteCommit, SafetyInv, LockInv
<1> QED BY <1>1, SafetyInvariant, PTL DEF Spec, PaymentNeedsOpenOrder

-----------------------------------------------------------------------------
(* Ownership.                                                              *)

Owned(r) == assigned[r] # None

(* A handler that will move its order past submission has read one that    *)
(* is owned, or carries the owner it writes.                               *)
OwnedJob(j) ==
  \/ j.op \in {"pay", "complete", "cancel", "cancelRefunded", "cancelPending"}
  \/ j.op = "update" /\ j.target # "submitted"
  => Owned(j.req)

OwnerInv == QuotedIsAssigned /\ \A w \in Workers : OwnedJob(job[w])

(* No handler takes the owner away.                                        *)
LEMMA OwnersKept ==
  ASSUME TypeInv, [Next]_vars
  PROVE  \A r \in Requests : Owned(r) => Owned(r)'
<1> USE NoneAssumption DEF TypeInv, TypeOK, Owned
<1>1. CASE Environment
  BY <1>1 DEF Environment, CreateRequest, CreateGuidedRequest, CreateCatalogOrder, Submit,
     SubmitQuoted, Assign, CustomerPays, rows
<1>2. ASSUME NEW w \in Workers, Call(w) \/ Crash(w) PROVE UNCHANGED assigned
  BY <1>2, CallKeepsTables, CrashKeepsTables
<1>3. ASSUME NEW w \in Workers, Continue(w)
      PROVE  \A r \in Requests : Owned(r) => Owned(r)'
  <2>1. ASSUME NEW D \in SUBSET Quotes, SubmitQuotesCommit(w, D)
        PROVE  \A r \in Requests : Owned(r) => Owned(r)'
    BY <2>1 DEF SubmitQuotesCommit, JobOK
  <2>2. CASE FindStatus(w)
    BY <2>2 DEF FindStatus, JobOK
  <2>3. ASSUME NEW ref \in Refs, InitializeCommit(w, ref) PROVE UNCHANGED assigned
    BY <2>3 DEF InitializeCommit
  <2>4. ASSUME NEW q \in Quotes, FindQuote(w, q) PROVE UNCHANGED assigned
    BY <2>4 DEF FindQuote
  <2>5. CASE \/ RejectCommit(w) \/ ApproveCommit(w) \/ PayCommit(w) \/ CompleteCommit(w)
             \/ Quiet(w) \/ InitializeRefused(w) \/ UpdateCommit(w) \/ CancelRefund(w)
             \/ CancelCommit(w) \/ RetryCall(w) \/ RetryPaid(w) \/ RetryLog(w) \/ FindLog(w) \/ SendNotice(w)
             \/ WriteRefused(w)
    BY <2>5, QuietKeepsTables
       DEF RejectCommit, ApproveCommit, PayCommit, CompleteCommit, Settle, InitializeRefused,
           UpdateCommit, CancelRefund, CancelCommit, RetryCall, RetryPaid, RetryLog, FindLog,
           SendNotice, WriteRefused, rows
  <2> QED BY <1>3, <2>1, <2>2, <2>3, <2>4, <2>5, ContinueSteps
<1>4. CASE UNCHANGED vars
  BY <1>4 DEF vars, rows
<1> QED BY <1>1, <1>2, <1>3, <1>4 DEF Next

LEMMA OwnerInit == Init => OwnerInv
BY DEF Init, OwnerInv, QuotedIsAssigned, OwnedJob, Idle

LEMMA CallsFindOwnedOrders ==
  ASSUME TypeInv, QuotedIsAssigned, NEW w \in Workers, Call(w)
  PROVE  OwnedJob(job[w])'
<1>k. UNCHANGED <<assigned, status>>
  BY CallKeepsTables
<1>o. ASSUME NEW r \in Requests, status[r] \notin {"none", "submitted"} PROVE Owned(r)'
  BY <1>o, <1>k DEF QuotedIsAssigned, Owned
<1>1. ASSUME NEW r \in Requests, NEW q \in Quotes, PayQuote(w, r, q) PROVE OwnedJob(job[w])'
  BY <1>1, <1>o, PaymentCallEffect DEF PayQuote, Payable, OwnedJob
<1>2. ASSUME NEW ref \in Refs, PaymentReported(w, ref) PROVE OwnedJob(job[w])'
  <2>1. charge[ref].req \in Requests
    BY <1>2 DEF PaymentReported, Charged, TypeInv, ChargeOK
  <2> QED BY <1>2, <2>1, <1>o, PaymentCallEffect DEF Payable, OwnedJob
<1>3. ASSUME NEW r \in Requests, NEW target \in OpsTargets, UpdateStatus(w, r, target)
      PROVE  OwnedJob(job[w])'
  <2>1. /\ status[r] \in Statuses /\ target \in Statuses
        /\ MayMove(status[r], target)
    BY <1>3, ConfigAssumption DEF UpdateStatus, Exists, TypeInv, TypeOK
  <2>2. status[r] = "submitted" => target = "submitted"
    BY <2>1, MayMoveStep
  <2>3. status[r] # "none"
    BY <2>1 DEF Statuses, PaidStatuses, POST_PAYMENT
  <2>4. target # "submitted" => Owned(r)'
    BY <2>2, <2>3, <1>o
  <2> QED BY <1>3, <2>4, CallEffect DEF OwnedJob
<1>4. ASSUME NEW r \in Requests, CancelPaidRequest(w, r) PROVE OwnedJob(job[w])'
  BY <1>4, <1>o, CallEffect DEF CancelPaidRequest, OwnedJob
<1> QED BY <1>1, <1>2, <1>3, <1>4, CallEffect DEF Call, OwnedJob

(* The steps that may take an order past submission.                       *)
LEMMA OwnedMoves ==
  ASSUME TypeInv, OwnerInv, [Next]_vars, NEW w \in Workers, Continue(w), NEW r \in Requests,
         status'[r] # status[r], status'[r] # "submitted"
  PROVE  Owned(r)'
<1> USE NoneAssumption DEF TypeInv, TypeOK, Owned, MoveTo
<1>1. ASSUME NEW D \in SUBSET Quotes, SubmitQuotesCommit(w, D) PROVE Owned(r)'
  BY <1>1 DEF SubmitQuotesCommit, JobOK
<1>2. CASE FindStatus(w)
  BY <1>2 DEF FindStatus, JobOK
<1>3. CASE PayCommit(w) \/ CompleteCommit(w) \/ CancelCommit(w) \/ UpdateCommit(w)
  <2>1. job[w].req = r /\ Owned(job[w].req)
    BY <1>3 DEF PayCommit, CompleteCommit, Settle, CancelCommit, UpdateCommit, OwnerInv, OwnedJob
  <2> QED BY <2>1, OwnersKept
<1>4. ASSUME NEW ref \in Refs, InitializeCommit(w, ref) PROVE FALSE
  BY <1>4 DEF InitializeCommit
<1>5. ASSUME NEW q \in Quotes, FindQuote(w, q) PROVE FALSE
  BY <1>5 DEF FindQuote
<1>6. CASE \/ RejectCommit(w) \/ ApproveCommit(w) \/ Quiet(w) \/ InitializeRefused(w)
           \/ CancelRefund(w) \/ RetryCall(w) \/ RetryPaid(w) \/ RetryLog(w) \/ FindLog(w) \/ SendNotice(w)
           \/ WriteRefused(w)
  BY <1>6, QuietKeepsTables
     DEF RejectCommit, ApproveCommit, InitializeRefused, CancelRefund, RetryCall, RetryPaid,
         RetryLog, FindLog, SendNotice, WriteRefused, rows
<1> QED BY <1>1, <1>2, <1>3, <1>4, <1>5, <1>6, ContinueSteps

(* Only Paystack's answer to a cancellation starts its second half.        *)
LEMMA OnlyCancelRefund ==
  ASSUME TypeInv, NEW w \in Workers, Continue(w) \/ Crash(w),
         job'[w].op \in {"cancelRefunded", "cancelPending"}
  PROVE  CancelRefund(w)
<1>i. Idle.op = "idle" /\ \A r, s : Notice(r, s).op \in {"idle", "mail"}
  BY DEF Idle, Notice
<1>f. Finish(w) => job'[w].op = "idle"
  BY <1>i DEF Finish, TypeInv, TypeOK
<1>b. ASSUME NEW r, NEW s, Begin(w, Notice(r, s)) PROVE job'[w].op \in {"idle", "mail"}
  BY <1>b, <1>i, BeginEffect
<1>s. ASSUME NEW op \in {"retryRefunded", "retryLog", "findStatus", "findLog"}, Step(w, op)
      PROVE  job'[w].op \notin {"cancelRefunded", "cancelPending"}
  BY <1>s, StepEffect
<1>1. CASE \/ RejectCommit(w) \/ ApproveCommit(w) \/ InitializeRefused(w) \/ FindLog(w)
          \/ SendNotice(w) \/ WriteRefused(w) \/ Crash(w)
  BY <1>1, <1>f DEF RejectCommit, ApproveCommit, InitializeRefused, FindLog, SendNotice,
     WriteRefused, Crash
<1>2. CASE PayCommit(w) \/ CompleteCommit(w) \/ UpdateCommit(w) \/ RetryLog(w) \/ GuidedNotice(w)
  BY <1>2, <1>b DEF PayCommit, CompleteCommit, Settle, UpdateCommit, RetryLog, GuidedNotice
<1>3. CASE RetryPaid(w) \/ FindStatus(w)
  BY <1>3, <1>s DEF RetryPaid, FindStatus
<1>4. CASE CancelCommit(w)
  BY <1>4, <1>f, <1>b DEF CancelCommit
<1>5. CASE RetryCall(w)
  BY <1>5, <1>f, <1>s DEF RetryCall
<1>6. ASSUME NEW ref \in Refs, InitializeCommit(w, ref) PROVE FALSE
  BY <1>6, <1>f DEF InitializeCommit
<1>7. ASSUME NEW D \in SUBSET Quotes, SubmitQuotesCommit(w, D) PROVE FALSE
  BY <1>7, <1>f DEF SubmitQuotesCommit
<1>8. ASSUME NEW q \in Quotes, FindQuote(w, q) PROVE FALSE
  BY <1>8, <1>f, <1>s DEF FindQuote
<1>9. CASE Sweeps(w)
  BY <1>9, SweepEffect
<1> QED BY <1>1, <1>2, <1>3, <1>4, <1>5, <1>6, <1>7, <1>8, <1>9 DEF Continue, Sweeps

(* The handler a step goes on with was owned already.                      *)
LEMMA ContinueKeepsOwned ==
  ASSUME TypeInv, OwnerInv, [Next]_vars, NEW w \in Workers, Continue(w) \/ Crash(w)
  PROVE  OwnedJob(job[w])'
<1>1. CASE Sweeps(w)
  BY <1>1, SweepEffect, OwnersKept DEF OwnerInv, OwnedJob, TypeInv, JobOK
<1>2. SUFFICES ASSUME ~Sweeps(w), job'[w].op \in {"cancelRefunded", "cancelPending"}
               PROVE  Owned(job[w].req)'
  BY <1>1, ContinueStartsNothing DEF Started, OwnedJob
<1>3. CancelRefund(w)
  BY <1>2, OnlyCancelRefund
<1>4. job'[w].req = job[w].req
  BY <1>3, StepEffect DEF CancelRefund
<1> QED BY <1>3, <1>4, OwnersKept DEF CancelRefund, OwnerInv, OwnedJob, TypeInv, JobOK

LEMMA OwnerStep ==
  ASSUME TypeInv, OwnerInv, [Next]_vars
  PROVE  OwnerInv'
<1>1. ASSUME NEW v \in Workers, job'[v] = job[v] PROVE OwnedJob(job[v])'
  BY <1>1, OwnersKept DEF OwnerInv, OwnedJob, TypeInv, JobOK
<1>2. ASSUME NEW r \in Requests, status'[r] = status[r], status'[r] \notin {"none", "submitted"}
      PROVE  Owned(r)'
  BY <1>2, OwnersKept DEF OwnerInv, QuotedIsAssigned, Owned
<1>3. CASE Environment
  <2>1. QuotedIsAssigned'
    <3> SUFFICES ASSUME NEW r \in Requests, status'[r] \notin {"none", "submitted"}
                 PROVE  Owned(r)'
      BY DEF QuotedIsAssigned, Owned
    <3>1. CASE status'[r] = status[r]
      BY <1>2, <3>1
    <3>2. CASE status'[r] # status[r]
      BY <1>3, <3>2, NoneAssumption DEF Environment, CreateRequest, CreateGuidedRequest,
         CreateCatalogOrder, Submit, SubmitQuoted, Assign, CustomerPays, rows, MoveTo, TypeInv,
         TypeOK, Owned
    <3> QED BY <3>1, <3>2
  <2>2. \A v \in Workers : OwnedJob(job[v])'
    BY <1>1, <1>3, EnvironmentKeepsJobs DEF OwnedJob
  <2> QED BY <2>1, <2>2 DEF OwnerInv
<1>4. ASSUME NEW w \in Workers, Call(w) PROVE OwnerInv'
  <2>1. \A v \in Workers : OwnedJob(job[v])'
    BY <1>1, <1>4, CallsFindOwnedOrders, OthersKeep DEF OwnerInv, Working
  <2>2. UNCHANGED <<status, assigned>>
    BY <1>4, CallKeepsTables
  <2> QED BY <2>1, <2>2 DEF OwnerInv, QuotedIsAssigned
<1>5. ASSUME NEW w \in Workers, Continue(w) \/ Crash(w) PROVE OwnerInv'
  <2>1. \A v \in Workers : OwnedJob(job[v])'
    BY <1>1, <1>5, ContinueKeepsOwned, OthersKeep DEF Working
  <2>2. ASSUME NEW r \in Requests, status'[r] \notin {"none", "submitted"} PROVE Owned(r)'
    BY <1>2, <1>5, <2>2, OwnedMoves, CrashKeepsTables
  <2> QED BY <2>1, <2>2 DEF OwnerInv, QuotedIsAssigned, Owned
<1>6. CASE UNCHANGED vars
  BY <1>6, <1>1, <1>2 DEF vars, rows, OwnerInv, QuotedIsAssigned, Owned
<1> QED BY <1>3, <1>4, <1>5, <1>6 DEF Next

(* An order past submission has an owner, although submitQuotes and find   *)
(* approvals write an owner they read earlier.                             *)
THEOREM QuotedOrdersAreAssigned == Spec => []QuotedIsAssigned
<1> DEFINE Inv == TypeInv /\ OwnerInv
<1>1. Init => Inv
  BY TypeInit, OwnerInit
<1>2. Inv /\ [Next]_vars => Inv'
  BY TypeStep, OwnerStep
<1>3. Inv => QuotedIsAssigned
  BY DEF OwnerInv
<1> QED BY <1>1, <1>2, <1>3, PTL DEF Spec
=============================================================================

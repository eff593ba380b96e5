----------------------------- MODULE OrderState -----------------------------
(***************************************************************************)
(* The rows the order handlers share (Request, Quote, Payment,             *)
(* StatusUpdate of prisma/schema.prisma), the notices they enqueue and the *)
(* handlers in flight.                                                     *)
(*                                                                         *)
(* Every handler is asynchronous.  It reads the rows it decides on (its    *)
(* snapshot, kept in job[w]) and writes in a later step, so that the       *)
(* handlers of other workers interleave between the two.  The interactive  *)
(* transactions run at Postgres' default READ COMMITTED: a snapshot may be *)
(* stale when it is acted on, each statement sees what was committed when  *)
(* it began, and the row lock of completePaystackPayment (SELECT ... FOR   *)
(* UPDATE) is the only lock kept here.  Handlers that would also wait for  *)
(* each other's quote rows may pass each other, which allows more than the *)
(* program does.                                                           *)
(***************************************************************************)
EXTENDS Paystack, OrderStatus

CONSTANTS OpsUsers,           \* staff accounts
          Workers,            \* handlers that may be in flight at once
          Demo,               \* the gatewayRef demo_<quoteId> of payQuote
          Production,         \* NODE_ENV = production
          PaystackConfigured, \* PAYSTACK_SECRET_KEY is set
          Handlers,           \* the endpoints the clients call in this run
          OpsTargets          \* the statuses ops ask updateStatus for

VARIABLES status,    \* status[r]: Request.status, "none" before creation
          assigned,  \* assigned[r]: Request.assignedOpsUserId
          quotes,    \* quotes[q]: the Quote row
          payment,   \* payment[r]: the Payment row, unique per request
          history,   \* history[r]: the statuses StatusUpdate has logged
          mails,     \* the money notices put on the mail queue
          lock,      \* lock[r]: worker that holds the Request row lock
          job        \* job[w]: the handler worker w is running

rows == <<status, assigned, quotes, payment, history>>
vars == <<rows, mails, lock, job, charge>>

-----------------------------------------------------------------------------
AllHandlers == {"create", "guided", "catalogOrder", "rejectQuote",
                "approveQuote", "payQuote", "submitQuotes", "cancel", "retryRefund",
                "updateStatus", "assign", "approveFind", "initialize",
                "complete"}

ASSUME ConfigAssumption ==
  /\ Production \in BOOLEAN /\ PaystackConfigured \in BOOLEAN
  /\ Production => PaystackConfigured
  /\ Handlers \subseteq AllHandlers
  /\ OpsTargets \subseteq Statuses

ASSUME NoneAssumption ==
  /\ None \notin Requests \cup Quotes \cup Refs \cup OpsUsers \cup Workers
  /\ None # Demo /\ Demo \notin Refs

-----------------------------------------------------------------------------
(* Rows.  A money amount is the quote whose totalCost it is.               *)
QuoteStatuses   == {"none", "sent", "accepted", "rejected", "deleted"}
PaymentStatuses == {"none", "unpaid", "paid", "refund_pending", "refunded"}

QuoteRows   == [req : Requests \cup {None}, status : QuoteStatuses]
PaymentRows == [amount : Quotes \cup {None},
                ref    : Refs \cup {Demo, None},
                status : PaymentStatuses]

NoQuote   == [req |-> None, status |-> "none"]
NoPayment == [amount |-> None, ref |-> None, status |-> "none"]

Exists(r)      == status[r] # "none"
HasPayment(r)  == payment[r].status # "none"
Live(q)        == quotes[q].status \in {"sent", "accepted", "rejected"}
QuoteOf(r, q)  == quotes[q].req = r /\ Live(q)
FreshQuotes    == {q \in Quotes : quotes[q].status = "none"}

MoveTo(r, s) ==
  /\ status' = [status EXCEPT ![r] = s]
  /\ history' = [history EXCEPT ![r] = @ \cup {s}]

-----------------------------------------------------------------------------
(* Handlers in flight: what the handler read, and how far it is.           *)

(* emailStatusNotice runs after the commit.  Only the notices about money  *)
(* are kept: payment confirmed; cancelled, with the amount that was        *)
(* refunded; cancelled, without an amount.                                 *)
MoneyNotices == {"approved_paid", "refunded", "cancelled"}

JobOps == {"idle", "guided", "reject", "approve", "pay", "complete", "init",
           "submitQuotes", "update", "cancel", "cancelRefunded",
           "cancelPending", "retry", "retryRefunded", "retryLog",
           "find", "findStatus", "findLog", "mail"}

Jobs == [op     : JobOps,
         req    : Requests \cup {None},
         quote  : Quotes \cup {None},
         ref    : Refs \cup {Demo, None},
         st     : Statuses \cup {None},      \* Request.status as read
         target : Statuses \cup MoneyNotices \cup {None}, \* to write or announce
         agent  : OpsUsers \cup {None},      \* assignedOpsUserId to write
         hadRow : BOOLEAN,                   \* a Payment row was read
         swept  : BOOLEAN,                   \* its statement over the order's
         rest   : SUBSET Quotes]             \* quotes has run, and found these

Idle == [op |-> "idle", req |-> None, quote |-> None, ref |-> None,
         st |-> None, target |-> None, agent |-> None, hadRow |-> FALSE,
         swept |-> FALSE, rest |-> {}]

(* A client calls an endpoint and a free worker picks it up.               *)
Called(w, handler) == job[w] = Idle /\ handler \in Handlers

Begin(w, j)  == job' = [job EXCEPT ![w] = j]
Step(w, op)  == job' = [job EXCEPT ![w].op = op]
Finish(w)    == job' = [job EXCEPT ![w] = Idle]

(* A statement over all quotes of the order: it finds its rows when it     *)
(* runs; a quote inserted before the transaction commits is not among them.*)
Sweep(w) ==
  /\ ~job[w].swept
  /\ job' = [job EXCEPT ![w].swept = TRUE,
                        ![w].rest  = {x \in Quotes \ {job[w].quote} :
                                        QuoteOf(job[w].req, x)}]

(* The two statements of an acceptance, as they are when committed: the    *)
(* quotes the first one found are rejected, this one is accepted.          *)
AcceptOnly(w) ==
  /\ job[w].swept
  /\ Live(job[w].quote)
  /\ quotes' = [x \in Quotes |->
       IF x = job[w].quote THEN [quotes[x] EXCEPT !.status = "accepted"]
       ELSE IF x \in job[w].rest /\ QuoteOf(job[w].req, x)
            THEN [quotes[x] EXCEPT !.status = "rejected"]
            ELSE quotes[x]]

(* Slip: every status is announced as if it were about money.              *)
NoticeOfAny(r, s) == [Idle EXCEPT !.op = "mail", !.req = r, !.target = s]

Notice(r, s) == IF s \in MoneyNotices
                THEN [Idle EXCEPT !.op = "mail", !.req = r, !.target = s]
                ELSE Idle

(* A write to the Request row, or an insert that refers to it, waits for   *)
(* the FOR UPDATE lock.                                                    *)
Unlocked(r) == lock[r] = None

Init ==
  /\ PaystackInit
  /\ status   = [r \in Requests |-> "none"]
  /\ assigned = [r \in Requests |-> None]
  /\ quotes   = [q \in Quotes |-> NoQuote]
  /\ payment  = [r \in Requests |-> NoPayment]
  /\ history  = [r \in Requests |-> {}]
  /\ mails    = {}
  /\ lock     = [r \in Requests |-> None]
  /\ job      = [w \in Workers |-> Idle]

TypeOK ==
  /\ charge   \in [Refs -> Charges]
  /\ status   \in [Requests -> Statuses \cup {"none"}]
  /\ assigned \in [Requests -> OpsUsers \cup {None}]
  /\ quotes   \in [Quotes -> QuoteRows]
  /\ payment  \in [Requests -> PaymentRows]
  /\ history  \in [Requests -> SUBSET Statuses]
  /\ mails    \subseteq Requests \X MoneyNotices
  /\ lock     \in [Requests -> Workers \cup {None}]
  /\ job      \in [Workers -> Jobs]
=============================================================================

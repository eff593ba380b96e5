------------------------------ MODULE MailQueue ------------------------------
(***************************************************************************)
(* Sending mail off the request path (src/queue/queue.module.ts,           *)
(* src/mail/mail.service.ts), on the list commands of                      *)
(* src/redis/redis.module.ts.                                              *)
(*                                                                         *)
(* With Redis, a timer in every process calls drainOnce each 400 ms        *)
(* whether or not the previous call came back: it pops one mail, then      *)
(* sends it.  Without, the mail is sent by the process itself as soon as   *)
(* the handler that enqueued it yields.                                    *)
(***************************************************************************)
EXTENDS Naturals, Sequences, Functions

CONSTANTS Mails,   \* mails, each enqueued at most once
          Drains,  \* calls of drainOnce that may be in flight at once
          NoMail

ASSUME MailAssumption == NoMail \notin Mails

VARIABLES redis,     \* REDIS_URL is set; settled when the process starts
          queue,     \* the list cp:queue:email
          outbox,    \* mails that wait for setImmediate, or are being sent inline
          drain,     \* drain[d]: the mail that call d popped and is sending
          accepted,  \* mails that were enqueued (history)
          copies     \* copies[m]: how often the provider took m (history)

mailVars == <<redis, queue, outbox, drain, accepted, copies>>

MailTypeOK ==
  /\ redis \in BOOLEAN
  /\ queue \in Seq(Mails)
  /\ outbox \subseteq Mails
  /\ drain \in [Drains -> Mails \cup {NoMail}]
  /\ accepted \subseteq Mails
  /\ copies \in [Mails -> Nat]

MailInit ==
  /\ redis \in BOOLEAN
  /\ queue = <<>> /\ outbox = {} /\ accepted = {}
  /\ drain = [d \in Drains |-> NoMail]
  /\ copies = [m \in Mails |-> 0]

\* enqueue: RPUSH, or setImmediate.  What it answers ("queued") only decides
\* whether a development build also shows the code.
Enqueue(m) ==
  /\ accepted' = accepted \cup {m}
  /\ IF redis
     THEN queue' = Append(queue, m) /\ UNCHANGED outbox
     ELSE outbox' = outbox \cup {m} /\ UNCHANGED queue
  /\ UNCHANGED <<redis, drain, copies>>

\* drainOnce, first half: LPOP.
Pop(d) ==
  /\ redis
  /\ drain[d] = NoMail
  /\ queue # <<>>
  /\ drain' = [drain EXCEPT ![d] = Head(queue)]
  /\ queue' = Tail(queue)
  /\ UNCHANGED <<redis, outbox, accepted, copies>>

\* send: whether Resend took the mail and whether the answer arrived are two
\* questions; the answer is only logged.
Send(m, taken) == copies' = IF taken THEN [copies EXCEPT ![m] = @ + 1] ELSE copies

\* Slip: a mail that seems not to be delivered is pushed back.
SendOrRequeue(d) ==
  /\ drain[d] # NoMail
  /\ \E taken, answered \in BOOLEAN :
        /\ Send(drain[d], taken)
        /\ queue' = IF taken /\ answered THEN queue ELSE Append(queue, drain[d])
  /\ drain' = [drain EXCEPT ![d] = NoMail]
  /\ UNCHANGED <<redis, outbox, accepted>>

\* drainOnce, second half.  A mail that was not delivered is logged and gone.
SendPopped(d) ==
  /\ drain[d] # NoMail
  /\ \E taken \in BOOLEAN : Send(drain[d], taken)
  /\ drain' = [drain EXCEPT ![d] = NoMail]
  /\ UNCHANGED <<redis, queue, outbox, accepted>>

SendInline(m) ==
  /\ m \in outbox
  /\ \E taken \in BOOLEAN : Send(m, taken)
  /\ outbox' = outbox \ {m}
  /\ UNCHANGED <<redis, queue, drain, accepted>>

\* A process that dies takes along the mails it popped, or was to send inline.
DrainDies(d) ==
  /\ drain[d] # NoMail
  /\ drain' = [drain EXCEPT ![d] = NoMail]
  /\ UNCHANGED <<redis, queue, outbox, accepted, copies>>

OutboxDies ==
  /\ outbox' = {}
  /\ UNCHANGED <<redis, queue, drain, accepted, copies>>

MailNext ==
  \/ \E m \in Mails : (m \notin accepted /\ Enqueue(m)) \/ SendInline(m)
  \/ \E d \in Drains : Pop(d) \/ SendPopped(d) \/ DrainDies(d)
  \/ OutboxDies

\* The timer of some process keeps ticking, a call of the provider ends with or
\* without an answer, and setImmediate runs its callback.
MailFairness ==
  /\ WF_mailVars(\E d \in Drains : Pop(d))
  /\ \A d \in Drains : WF_mailVars(SendPopped(d))
  /\ \A m \in Mails : WF_mailVars(SendInline(m))

MailSpec == MailInit /\ [][MailNext]_mailVars /\ MailFairness

-----------------------------------------------------------------------------
\* Mails on their way.
OnTheWay == Range(queue) \cup outbox \cup (Range(drain) \ {NoMail})

Delivery == INSTANCE MailDelivery WITH pending <- OnTheWay

(* What callers may rely on: a mail that was enqueued leaves at most once, *)
(* however many drains overlap and whoever dies, and it is decided in the  *)
(* end: it was sent, or lost with a process or a refusal (drainOnce).      *)
KeepsDelivery == Delivery!Spec
=============================================================================

---------------------------- MODULE MailDelivery ----------------------------
(***************************************************************************)
(* What the rest of the system may expect of MailQueueService.enqueue      *)
(* (src/queue/queue.module.ts): a mail is handed to the provider at most   *)
(* once, only after it was enqueued, and it does not stay undecided.  A    *)
(* mail may be dropped: nothing is sent twice to be on the safe side.      *)
(***************************************************************************)
EXTENDS Naturals

CONSTANT Mails

VARIABLES accepted,  \* mails that were enqueued
          pending,   \* those among them that are not decided yet
          copies     \* copies[m]: how often the provider took mail m

deliveryVars == <<accepted, pending, copies>>

Init == /\ accepted = {} /\ pending = {}
        /\ copies = [m \in Mails |-> 0]

Accept(m) == /\ m \notin accepted
             /\ accepted' = accepted \cup {m}
             /\ pending'  = pending \cup {m}
             /\ UNCHANGED copies

Deliver(m) == /\ m \in pending
              /\ pending' = pending \ {m}
              /\ copies'  = [copies EXCEPT ![m] = 1]
              /\ UNCHANGED accepted

\* Mails die together with the process that holds them.
Drop == /\ pending' \subseteq pending
        /\ UNCHANGED <<accepted, copies>>

Next == Drop \/ \E m \in Mails : Accept(m) \/ Deliver(m)

Decided == \A m \in Mails : m \in pending ~> m \notin pending

Spec == Init /\ [][Next]_deliveryVars /\ Decided
=============================================================================

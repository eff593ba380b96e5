---------------------------- MODULE FindApproval ----------------------------
(***************************************************************************)
(* What OpsConsoleService.approveProductFind does to an order: statements  *)
(* without a transaction, each committed on its own.  The find may be      *)
(* approved whatever the order's status is; which finds wait for review is *)
(* left open here.                                                         *)
(***************************************************************************)
EXTENDS OrderState

(* The find is read with its order; the status acted on is the one read.   *)
ApproveFind(w, r, u) ==
  /\ Called(w, "approveFind")
  /\ Exists(r)
  /\ Begin(w, [Idle EXCEPT !.op = "find", !.req = r, !.st = status[r],
                 !.agent = IF assigned[r] # None THEN assigned[r] ELSE u])
  /\ UNCHANGED <<rows, mails, lock, charge>>

FindQuote(w, q) ==
  LET r == job[w].req IN
  /\ job[w].op = "find"
  /\ Unlocked(r)
  /\ q \in FreshQuotes
  /\ quotes' = [quotes EXCEPT ![q] = [req |-> r, status |-> "sent"]]
  /\ IF job[w].st = "submitted" THEN Step(w, "findStatus") ELSE Finish(w)
  /\ UNCHANGED <<status, assigned, payment, history, mails, lock, charge>>

FindStatus(w) ==
  LET r == job[w].req IN
  /\ job[w].op = "findStatus"
  /\ Unlocked(r)
  /\ status'   = [status EXCEPT ![r] = "quoted"]
  /\ assigned' = [assigned EXCEPT ![r] = job[w].agent]
  /\ Step(w, "findLog")
  /\ UNCHANGED <<quotes, payment, history, mails, lock, charge>>

FindLog(w) ==
  LET r == job[w].req IN
  /\ job[w].op = "findLog"
  /\ Unlocked(r)
  /\ history' = [history EXCEPT ![r] = @ \cup {"quoted"}]
  /\ Finish(w)
  /\ UNCHANGED <<status, assigned, quotes, payment, mails, lock, charge>>
=============================================================================

--------------------------------- MODULE Otp ---------------------------------
(***************************************************************************)
(* One-time codes for sign-up and password reset                           *)
(* (src/auth/auth.service.ts).                                             *)
(*                                                                         *)
(* A code is stored in a row of EmailOtp, then mailed.  Whoever answers    *)
(* with it makes the account, or replaces its password; the rows of that   *)
(* address and purpose are deleted afterwards.  Nothing here runs in a     *)
(* transaction: each handler acts on the row that was the newest when it   *)
(* looked.  The session and the sign-in lock, which come next, are in      *)
(* Sessions; what becomes of a mail once it is enqueued is in MailQueue.   *)
(***************************************************************************)
EXTENDS Naturals, FiniteSets, Combinatorics

CONSTANTS Emails,       \* addresses
          Workers,      \* handlers that may be in flight at once
          None,
          MaxAttempts,  \* OTP_MAX_ATTEMPTS
          MaxCodes      \* bound: how many codes are made up

\* Codes are numbered as they are made up; a row is named by its first code.
Codes  == 1..MaxCodes
NoCode == 0

Purposes == {"signup", "password_reset"}

\* What a handler is about to do.
Stages == {"idle", "ask", "clear", "insert", "renew", "mail", "drop", "count",
           "look", "refuse", "create", "replace", "purge"}

ASSUME OtpAssumption ==
  /\ None \notin Emails /\ IsFiniteSet(Workers)
  /\ MaxAttempts \in Nat \ {0} /\ MaxCodes \in Nat

VARIABLES otp,     \* the table EmailOtp: a function on the ids of its rows
          clock,   \* how many rows were created: the last createdAt
          known,   \* addresses that have a credential
          issued,  \* how many codes were made up
          job,     \* job[w]: the handler worker w is running
          spent,   \* codes whose handlers deleted their rows (history)
          resets   \* codes that replaced a password (history)

rowVars == <<otp, clock, known>>
history == <<spent, resets>>
vars    == <<rowVars, issued, job, history>>

-----------------------------------------------------------------------------
\* wrong is history: how many answers to the row were told to be incorrect.
Rows == [email : Emails, purpose : Purposes, code : Codes, attempts : 0..MaxAttempts,
         live : BOOLEAN, createdAt : Nat, wrong : Nat]

\* row and attempts are what the handler read of the row it acts on.
Jobs == [op : Stages, email : Emails \cup {None}, purpose : Purposes,
         code : Codes \cup {NoCode}, row : Codes \cup {NoCode}, attempts : Nat]
Idle == [op |-> "idle", email |-> None, purpose |-> "signup", code |-> NoCode,
         row |-> NoCode, attempts |-> 0]

TypeOK ==
  /\ DOMAIN otp \subseteq Codes /\ \A id \in DOMAIN otp : otp[id] \in Rows
  /\ clock \in Nat
  /\ known \subseteq Emails
  /\ issued \in 0..MaxCodes
  /\ job \in [Workers -> Jobs]
  /\ resets \subseteq Codes
  /\ spent \subseteq [code : Codes, email : Emails, purpose : Purposes]

Init ==
  /\ otp = [id \in {} |-> 0] /\ clock = 0 /\ issued = 0
  /\ known \in SUBSET Emails
  /\ job = [w \in Workers |-> Idle]
  /\ spent = {} /\ resets = {}

-----------------------------------------------------------------------------
(* The table.                                                              *)

Pending(e, why) == {id \in DOMAIN otp : otp[id].email = e /\ otp[id].purpose = why}

\* findFirst, orderBy createdAt desc.
Newest(id, e, why) ==
  /\ id \in Pending(e, why)
  /\ \A other \in Pending(e, why) : otp[other].createdAt <= otp[id].createdAt

KeepRows(ids) == otp' = [id \in ids |-> otp[id]]
DeleteRow(id) == KeepRows(DOMAIN otp \ {id})

\* Slip: the constant that selects the purpose is the other one.
DeleteSignups(e, why) == KeepRows(DOMAIN otp \ Pending(e, "signup"))

DeleteMany(e, why) == KeepRows(DOMAIN otp \ Pending(e, why))

-----------------------------------------------------------------------------
(* Handlers in flight.                                                     *)

Free(w)     == job[w] = Idle
At(w, op)   == job[w].op = op
Step(w, op) == job' = [job EXCEPT ![w].op = op]
Finish(w)   == job' = [job EXCEPT ![w] = Idle]

\* A handler that is to send a code.  The code is numbered before it is
\* needed, which nobody can tell.  A call that exceeds the budget of its
\* address (assertOtpResendBudget: counted, then looked at) changes nothing
\* here, and may be any call.
Ask(w, e, why, op) ==
  /\ Free(w)
  /\ issued < MaxCodes
  /\ issued' = issued + 1
  /\ job' = [job EXCEPT ![w] = [Idle EXCEPT !.op = op, !.email = e, !.purpose = why,
                                           !.code = issued + 1]]
  /\ UNCHANGED <<rowVars, history>>

-----------------------------------------------------------------------------
(* Asking for a code.                                                      *)

StartSignup(w, e)        == Ask(w, e, "signup", "ask")
StartPasswordReset(w, e) == Ask(w, e, "password_reset", "ask")
ResendSignupOtp(w, e)    == Ask(w, e, "signup", "renew")

\* Sign-up goes on for an unknown address, a reset for an account that is not
\* disabled (which staff may be at any time, see OpsAccess); the answer does
\* not tell which it was.
Eligible(e, why) == IF why = "signup" THEN e \notin known ELSE e \in known

AskCredential(w) ==
  /\ At(w, "ask")
  /\ \/ Eligible(job[w].email, job[w].purpose) /\ Step(w, "clear")
     \/ /\ ~Eligible(job[w].email, job[w].purpose) \/ job[w].purpose = "password_reset"
        /\ Finish(w)
  /\ UNCHANGED <<rowVars, issued, history>>

ClearPending(w) ==
  /\ At(w, "clear")
  /\ DeleteMany(job[w].email, job[w].purpose)
  /\ Step(w, "insert")
  /\ UNCHANGED <<clock, known, issued, history>>

NewRow(j) == [email |-> j.email, purpose |-> j.purpose, code |-> j.code, attempts |-> 0,
              live |-> TRUE, createdAt |-> clock + 1, wrong |-> 0]

InsertCode(w) ==
  /\ At(w, "insert")
  /\ otp' = [id \in DOMAIN otp \cup {job[w].code} |->
               IF id = job[w].code THEN NewRow(job[w]) ELSE otp[id]]
  /\ clock' = clock + 1
  /\ Step(w, "mail")
  /\ UNCHANGED <<known, issued, history>>

\* resendSignupOtp: the newest row is found, then given the new code and a new
\* lifetime.
FindPending(w) ==
  /\ At(w, "renew") /\ job[w].row = NoCode
  /\ \/ Pending(job[w].email, "signup") = {} /\ Finish(w)
     \/ \E id \in Codes : /\ Newest(id, job[w].email, "signup")
                         /\ job' = [job EXCEPT ![w].row = id]
  /\ UNCHANGED <<rowVars, issued, history>>

\* Slip: the attempts start again with the new code.
RenewedFromZero(r, c) == [r EXCEPT !.code = c, !.live = TRUE, !.attempts = 0]

Renewed(r, c) == [r EXCEPT !.code = c, !.live = TRUE]

\* The update of a row that is gone throws.
RenewCode(w) ==
  /\ At(w, "renew") /\ job[w].row # NoCode
  /\ IF job[w].row \in DOMAIN otp
     THEN /\ otp' = [otp EXCEPT ![job[w].row] = Renewed(otp[job[w].row], job[w].code)]
          /\ Step(w, "mail")
     ELSE Finish(w) /\ UNCHANGED otp
  /\ UNCHANGED <<clock, known, issued, history>>

\* enqueue: what becomes of the mail is up to MailQueue.
MailCode(w) ==
  /\ At(w, "mail")
  /\ Finish(w)
  /\ UNCHANGED <<rowVars, issued, history>>

-----------------------------------------------------------------------------
(* Answering with a code.                                                  *)

\* Slip: >.
TriedUp(r) == r.attempts > MaxAttempts

TooManyAttempts(r) == r.attempts >= MaxAttempts

\* What verifySignupOtp and resetPassword do next about the row they found.
Verdict(r, right) ==
  CASE ~r.live \/ TooManyAttempts(r)            -> "drop"
    [] r.live /\ ~TooManyAttempts(r) /\ ~right -> "count"
    [] r.live /\ ~TooManyAttempts(r) /\ right  -> "look"

\* The code is kept to name what was used up, the attempts to be counted.
Answer(w, e, why, right) ==
  /\ Free(w)
  /\ \E id \in Codes :
       LET next == Verdict(otp[id], right) IN
       /\ Newest(id, e, why)
       /\ job' = [job EXCEPT ![w] =
                    [op |-> next, email |-> e, purpose |-> why, row |-> id,
                     code |-> IF next = "look" THEN otp[id].code ELSE NoCode,
                     attempts |-> IF next = "count" THEN otp[id].attempts ELSE 0]]
  /\ UNCHANGED <<rowVars, issued, history>>

VerifySignupOtp(w, e, right) == Answer(w, e, "signup", right)
ResetPassword(w, e, right)   == Answer(w, e, "password_reset", right)

\* Expired, tried up, or of an account that cannot be reset.
DropRow(w) ==
  /\ At(w, "drop")
  /\ DeleteRow(job[w].row)
  /\ Finish(w)
  /\ UNCHANGED <<clock, known, issued, history>>

\* Slip: the attempt is counted in the database, by two.
CountedTwice(r, n) == [r EXCEPT !.attempts = r.attempts + 2, !.wrong = r.wrong + 1]

\* attempts becomes what was read, plus one.
Counted(r, n) == [r EXCEPT !.attempts = n + 1, !.wrong = r.wrong + 1]

\* The update of a row that is gone throws.
CountAttempt(w) ==
  /\ At(w, "count")
  /\ IF job[w].row \in DOMAIN otp
     THEN otp' = [otp EXCEPT ![job[w].row] = Counted(otp[job[w].row], job[w].attempts)]
     ELSE UNCHANGED otp
  /\ Finish(w)
  /\ UNCHANGED <<clock, known, issued, history>>

\* The credential is read after the code was accepted (a reset hashes the new
\* password in between).
LookUp(w) ==
  LET e == job[w].email IN
  /\ At(w, "look")
  /\ \/ job[w].purpose = "signup" /\ e \in known    /\ Step(w, "refuse")
     \/ job[w].purpose = "signup" /\ e \notin known /\ Step(w, "create")
     \/ job[w].purpose = "password_reset" /\ Step(w, "drop")
     \/ job[w].purpose = "password_reset" /\ e \in known /\ Step(w, "replace")
  /\ UNCHANGED <<rowVars, issued, history>>

Spending(w) == [code |-> job[w].code, email |-> job[w].email, purpose |-> job[w].purpose]

\* Slip: the rows go before the account is there.
PurgeFirst(w) ==
  LET e == job[w].email IN
  /\ At(w, "create")
  /\ DeleteMany(e, "signup")
  /\ spent' = spent \cup {Spending(w)}
  /\ Step(w, "refuse")
  /\ UNCHANGED <<clock, known, issued, resets>>

\* user.create fails when the address got an account meanwhile.
CreateUser(w) ==
  LET e == job[w].email IN
  /\ At(w, "create")
  /\ known' = known \cup {e}
  /\ IF e \in known THEN Finish(w) ELSE Step(w, "purge")
  /\ UNCHANGED <<otp, clock, issued, history>>

ReplacePassword(w) ==
  /\ At(w, "replace")
  /\ resets' = resets \cup {job[w].code}
  /\ Step(w, "purge")
  /\ UNCHANGED <<rowVars, issued, spent>>

\* deleteMany after the account was made, the password replaced, or a sign-up
\* refused because the account was there.  (A new account is also welcomed by
\* mail, which carries no code.)
PurgeRows(w) ==
  /\ At(w, "purge") \/ At(w, "refuse")
  /\ DeleteMany(job[w].email, job[w].purpose)
  /\ spent' = spent \cup {Spending(w)}
  /\ Finish(w)
  /\ UNCHANGED <<clock, known, issued, resets>>

-----------------------------------------------------------------------------
(* Around the handlers.                                                    *)

\* Ten minutes pass.  (sweepExpiredOtps, which would delete such rows, is
\* called from nowhere.)
Expire(id) ==
  /\ id \in DOMAIN otp /\ otp[id].live
  /\ otp' = [otp EXCEPT ![id].live = FALSE]
  /\ UNCHANGED <<clock, known, issued, job, history>>

\* The process that runs the handler dies.
Crash(w) ==
  /\ ~Free(w)
  /\ Finish(w)
  /\ UNCHANGED <<rowVars, issued, history>>

Call(w) ==
  \E e \in Emails :
     \/ StartSignup(w, e) \/ ResendSignupOtp(w, e) \/ StartPasswordReset(w, e)
     \/ \E right \in BOOLEAN : VerifySignupOtp(w, e, right) \/ ResetPassword(w, e, right)

Continue(w) ==
  \/ AskCredential(w) \/ ClearPending(w) \/ InsertCode(w)
  \/ FindPending(w) \/ RenewCode(w) \/ MailCode(w)
  \/ DropRow(w) \/ CountAttempt(w) \/ LookUp(w) \/ CreateUser(w) \/ ReplacePassword(w)
  \/ PurgeRows(w)

Next ==
  \/ \E w \in Workers : Call(w) \/ Continue(w) \/ Crash(w)
  \/ \E id \in Codes : Expire(id)

Spec == Init /\ [][Next]_vars

-----------------------------------------------------------------------------
(* A row never counts more wrong answers than were given to it: nobody is  *)
(* told "Too many attempts" early, however many answers race               *)
(* (verifySignupOtp, resetPassword).                                       *)
CountsAreHonest == \A id \in DOMAIN otp : otp[id].attempts <= otp[id].wrong

(* What OTP_MAX_ATTEMPTS comes to when answers race: attempts is written   *)
(* as read plus one, so a slow handler can set it back.  With n handlers a *)
(* row takes at most Choose(MaxAttempts + n, n) - 1 wrong answers, also    *)
(* when its code is renewed ("Keep attempts across resends").              *)
AttemptsAreBounded ==
  LET n == Cardinality(Workers) IN
  \A id \in DOMAIN otp : otp[id].wrong <= choose(MaxAttempts + n, n) - 1

(* A code is used up once its handler is through: no row has it any more,  *)
(* whatever sign-ups, renewals and answers ran beside it.                  *)
SpentCodesAreGone == \A id \in DOMAIN otp, s \in spent : otp[id].code # s.code

(* A code is not used up in vain: when the rows are deleted the account    *)
(* exists, or the password was replaced (verifySignupOtp, resetPassword),  *)
(* even if the handler dies half way.                                      *)
SpentCodesTookEffect ==
  \A s \in spent : IF s.purpose = "signup" THEN s.email \in known ELSE s.code \in resets

=============================================================================

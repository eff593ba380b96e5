------------------------------ MODULE OtpProofs ------------------------------
(***************************************************************************)
(* Proofs about Otp, for any numbers of addresses, codes and workers.      *)
(* TypeInv adds to TypeOK what a handler carries at each stage.  UsedInv   *)
(* keeps the codes apart: a code that a handler is still to store is       *)
(* nobody else's, so that a code never comes back once its row is gone.    *)
(***************************************************************************)
EXTENDS Otp, Binomials, FiniteSetTheorems, TLAPS

\* Handlers that are still to store their code.
Holding == {"ask", "clear", "insert", "renew"}
\* Handlers whose code was accepted.
Accepted == {"look", "refuse", "create", "replace", "purge"}

\* k and r stand for known and resets.
JobOK(j, k, r) ==
  /\ j.op \in Holding \cup Accepted => j.email \in Emails /\ j.code \in Codes
  /\ j.op = "count" => j.attempts < MaxAttempts
  /\ j.op \in {"refuse", "create"} => j.purpose = "signup"
  /\ j.op = "replace" => j.purpose = "password_reset"
  /\ j.op \in {"refuse", "purge"} =>
       IF j.purpose = "signup" THEN j.email \in k ELSE j.code \in r

JobsInv == \A w \in Workers : JobOK(job[w], known, resets)
TypeInv == TypeOK /\ JobsInv

LEMMA InitType == Init => TypeInv
BY OtpAssumption DEF Init, TypeInv, TypeOK, JobsInv, JobOK, Holding, Accepted, Jobs, Idle,
   Stages, Purposes, Codes, NoCode

-----------------------------------------------------------------------------
(* What a handler becomes when it goes on or ends.                         *)

LEMMA OneJobMoves ==
  ASSUME TypeInv, NEW w \in Workers, NEW j \in Jobs, job' = [job EXCEPT ![w] = j],
         known \subseteq known', resets \subseteq resets', JobOK(j, known', resets')
  PROVE  job' \in [Workers -> Jobs] /\ JobsInv'
<1>1. job \in [Workers -> Jobs]
  BY DEF TypeInv, TypeOK
<1>2. job' \in [Workers -> Jobs] /\ job'[w] = j /\ \A v \in Workers \ {w} : job'[v] = job[v]
  BY <1>1
<1>3. ASSUME NEW v \in Workers \ {w}
      PROVE  JobOK(job'[v], known', resets')
  <2>1. JobOK(job[v], known, resets) /\ job'[v] = job[v]
    BY <1>2, <1>3 DEF TypeInv, JobsInv
  <2> QED
    BY <2>1 DEF JobOK
<1> QED
  BY <1>2, <1>3 DEF JobsInv

LEMMA StepRecord ==
  ASSUME TypeInv, NEW w \in Workers, NEW op \in Stages, Step(w, op)
  PROVE  LET j == [job[w] EXCEPT !.op = op] IN
         /\ j \in Jobs /\ job' = [job EXCEPT ![w] = j]
         /\ j.op = op /\ j.email = job[w].email /\ j.purpose = job[w].purpose
         /\ j.code = job[w].code /\ j.row = job[w].row /\ j.attempts = job[w].attempts
         /\ job'[w] = j /\ \A v \in Workers \ {w} : job'[v] = job[v]
BY DEF TypeInv, TypeOK, Step, Jobs

LEMMA StepKeepsJobs ==
  ASSUME TypeInv, NEW w \in Workers, NEW op \in Stages, Step(w, op),
         known \subseteq known', resets \subseteq resets',
         op \in Holding \cup Accepted => job[w].op \in Holding \cup Accepted,
         op # "count",
         op \in {"refuse", "create"} => job[w].purpose = "signup",
         op = "replace" => job[w].purpose = "password_reset",
         op \in {"refuse", "purge"} =>
           IF job[w].purpose = "signup" THEN job[w].email \in known' ELSE job[w].code \in resets'
  PROVE  job' \in [Workers -> Jobs] /\ JobsInv'
<1> DEFINE j == [job[w] EXCEPT !.op = op]
<1>1. /\ j \in Jobs /\ job' = [job EXCEPT ![w] = j]
      /\ j.op = op /\ j.email = job[w].email /\ j.purpose = job[w].purpose
      /\ j.code = job[w].code
  BY StepRecord
<1>2. JobOK(job[w], known, resets)
  BY DEF TypeInv, JobsInv
<1> HIDE DEF j
<1>3. JobOK(j, known', resets')
  BY <1>1, <1>2 DEF JobOK
<1> QED
  BY <1>1, <1>3, OneJobMoves

LEMMA FinishKeepsJobs ==
  ASSUME TypeInv, NEW w \in Workers, Finish(w),
         known \subseteq known', resets \subseteq resets'
  PROVE  /\ job' \in [Workers -> Jobs] /\ JobsInv'
         /\ job'[w] = Idle /\ \A v \in Workers \ {w} : job'[v] = job[v]
<1>1. Idle \in Jobs /\ JobOK(Idle, known', resets')
  BY DEF Idle, Jobs, Stages, Purposes, NoCode, JobOK, Holding, Accepted
<1>2. job' = [job EXCEPT ![w] = Idle] /\ job \in [Workers -> Jobs]
  BY DEF Finish, TypeInv, TypeOK
<1> QED
  BY <1>1, <1>2, OneJobMoves

LEMMA VerdictOK ==
  ASSUME NEW r \in Rows, NEW right \in BOOLEAN
  PROVE  /\ Verdict(r, right) \in {"drop", "count", "look"}
         /\ Verdict(r, right) = "count" => r.attempts < MaxAttempts
BY OtpAssumption DEF Verdict, TooManyAttempts, Rows

-----------------------------------------------------------------------------
(* Typing.                                                                 *)

RowsOK == DOMAIN otp \subseteq Codes /\ \A id \in DOMAIN otp : otp[id] \in Rows

LEMMA KeptRowsOK ==
  ASSUME RowsOK, NEW ids, ids \subseteq DOMAIN otp, KeepRows(ids)
  PROVE  RowsOK' /\ DOMAIN otp' = ids /\ \A id \in ids : otp'[id] = otp[id]
BY DEF RowsOK, KeepRows

LEMMA OneRowOK ==
  ASSUME RowsOK, NEW id \in DOMAIN otp, NEW r \in Rows, otp' = [otp EXCEPT ![id] = r]
  PROVE  RowsOK' /\ DOMAIN otp' = DOMAIN otp /\ otp'[id] = r
         /\ \A other \in DOMAIN otp \ {id} : otp'[other] = otp[other]
BY DEF RowsOK

LEMMA InsertedRow ==
  ASSUME TypeInv, NEW w \in Workers, InsertCode(w)
  PROVE  /\ RowsOK' /\ DOMAIN otp' = DOMAIN otp \cup {job[w].code}
         /\ NewRow(job[w]) \in Rows /\ otp'[job[w].code] = NewRow(job[w])
         /\ \A id \in DOMAIN otp \ {job[w].code} : otp'[id] = otp[id]
<1>1. job[w] \in Jobs /\ job[w].email \in Emails /\ job[w].code \in Codes
  BY DEF TypeInv, TypeOK, JobsInv, JobOK, InsertCode, At, Holding
<1>2. NewRow(job[w]) \in Rows
  BY <1>1, OtpAssumption DEF NewRow, Rows, Jobs, TypeInv, TypeOK
<1> QED
  BY <1>1, <1>2 DEF InsertCode, RowsOK, TypeInv, TypeOK

LEMMA RenewedRow ==
  ASSUME NEW r \in Rows, NEW c \in Codes
  PROVE  /\ Renewed(r, c) \in Rows /\ Renewed(r, c).code = c
         /\ Renewed(r, c).email = r.email /\ Renewed(r, c).purpose = r.purpose
         /\ Renewed(r, c).wrong = r.wrong /\ Renewed(r, c).attempts = r.attempts
BY DEF Renewed, Rows

LEMMA CountedRow ==
  ASSUME NEW r \in Rows, NEW n \in Nat, n < MaxAttempts
  PROVE  /\ Counted(r, n) \in Rows /\ Counted(r, n).code = r.code
         /\ Counted(r, n).email = r.email /\ Counted(r, n).purpose = r.purpose
         /\ Counted(r, n).wrong = r.wrong + 1 /\ Counted(r, n).attempts = n + 1
<1>1. n + 1 \in 0..MaxAttempts /\ r.wrong + 1 \in Nat
  BY OtpAssumption DEF Rows
<1> QED
  BY <1>1 DEF Counted, Rows

LEMMA ExpiredRow ==
  ASSUME TypeInv, NEW id \in Codes, Expire(id)
  PROVE  LET r == [otp[id] EXCEPT !.live = FALSE] IN
         /\ id \in DOMAIN otp /\ r \in Rows /\ otp' = [otp EXCEPT ![id] = r]
         /\ r.code = otp[id].code /\ r.email = otp[id].email
         /\ r.purpose = otp[id].purpose /\ r.wrong = otp[id].wrong
         /\ r.attempts = otp[id].attempts
BY DEF TypeInv, TypeOK, Expire, Rows

LEMMA AskKeepsTypes ==
  ASSUME TypeInv, NEW w \in Workers, NEW e \in Emails, NEW why \in Purposes,
         NEW op \in Holding, Ask(w, e, why, op)
  PROVE  TypeInv'
<1> DEFINE j == [Idle EXCEPT !.op = op, !.email = e, !.purpose = why, !.code = issued + 1]
<1>1. issued \in 0..MaxCodes /\ issued' = issued + 1 /\ issued + 1 \in Codes
  BY OtpAssumption DEF Ask, TypeInv, TypeOK, Codes
<1>2. j \in Jobs /\ j.op = op /\ j.email = e /\ j.code = issued + 1
  BY <1>1 DEF Idle, Jobs, Stages, NoCode, Holding
<1>3. job' = [job EXCEPT ![w] = j] /\ UNCHANGED <<rowVars, history>>
  BY DEF Ask
<1> HIDE DEF j
<1>4. JobOK(j, known', resets')
  BY <1>1, <1>2 DEF JobOK, Holding, Accepted
<1>5. job' \in [Workers -> Jobs] /\ JobsInv'
  BY <1>2, <1>3, <1>4, OneJobMoves DEF rowVars, history
<1> QED
  BY <1>1, <1>3, <1>5, OtpAssumption DEF TypeInv, TypeOK, rowVars, history, Codes

LEMMA CallKeepsTypes ==
  ASSUME TypeInv, NEW w \in Workers, Call(w)
  PROVE  TypeInv'
<1>1. PICK e \in Emails :
        \/ StartSignup(w, e) \/ ResendSignupOtp(w, e) \/ StartPasswordReset(w, e)
        \/ \E right \in BOOLEAN : VerifySignupOtp(w, e, right) \/ ResetPassword(w, e, right)
  BY DEF Call
<1>2. CASE StartSignup(w, e) \/ ResendSignupOtp(w, e) \/ StartPasswordReset(w, e)
  BY <1>2, AskKeepsTypes DEF StartSignup, ResendSignupOtp, StartPasswordReset, Holding, Purposes
<1>3. ASSUME NEW right \in BOOLEAN, NEW why \in Purposes, Answer(w, e, why, right)
      PROVE  TypeInv'
  <2>1. PICK id \in Codes :
          LET next == Verdict(otp[id], right) IN
          /\ Newest(id, e, why)
          /\ job' = [job EXCEPT ![w] =
                       [op |-> next, email |-> e, purpose |-> why, row |-> id,
                        code |-> IF next = "look" THEN otp[id].code ELSE NoCode,
                        attempts |-> IF next = "count" THEN otp[id].attempts ELSE 0]]
    BY <1>3 DEF Answer
  <2> DEFINE next == Verdict(otp[id], right)
             j == [op |-> next, email |-> e, purpose |-> why, row |-> id,
                   code |-> IF next = "look" THEN otp[id].code ELSE NoCode,
                   attempts |-> IF next = "count" THEN otp[id].attempts ELSE 0]
  <2>2. otp[id] \in Rows
    BY <2>1 DEF Newest, Pending, TypeInv, TypeOK
  <2>3. next \in {"drop", "count", "look"} /\ (next = "count" => otp[id].attempts < MaxAttempts)
    BY <2>2, VerdictOK
  <2> HIDE DEF next
  <2>4. j \in Jobs /\ JobOK(j, known', resets')
    BY <2>2, <2>3, OtpAssumption DEF Jobs, Stages, Rows, NoCode, JobOK, Holding, Accepted
  <2>5. job' = [job EXCEPT ![w] = j] /\ UNCHANGED <<rowVars, issued, history>>
    BY <1>3, <2>1 DEF Answer, next
  <2>6. job' \in [Workers -> Jobs] /\ JobsInv'
    BY <2>4, <2>5, OneJobMoves DEF rowVars, history
  <2> QED
    BY <2>5, <2>6 DEF TypeInv, TypeOK, rowVars, history
<1> QED
  BY <1>1, <1>2, <1>3 DEF VerifySignupOtp, ResetPassword, Purposes

LEMMA ContinueKeepsTypes ==
  ASSUME TypeInv, NEW w \in Workers, Continue(w)
  PROVE  TypeInv'
<1>1. JobOK(job[w], known, resets) /\ job[w] \in Jobs /\ RowsOK
  BY DEF TypeInv, TypeOK, JobsInv, RowsOK
<1>2. ASSUME RowsOK', clock' \in Nat, known' \subseteq Emails, issued' = issued,
             resets' \subseteq Codes,
             spent' \subseteq [code : Codes, email : Emails, purpose : Purposes],
             job' \in [Workers -> Jobs], JobsInv'
      PROVE  TypeInv'
  BY <1>2 DEF TypeInv, TypeOK, RowsOK
<1>3. /\ clock \in Nat /\ known \subseteq Emails /\ resets \subseteq Codes
      /\ spent \subseteq [code : Codes, email : Emails, purpose : Purposes]
  BY DEF TypeInv, TypeOK
<1>4. (UNCHANGED otp => RowsOK') /\ \A ids \in SUBSET DOMAIN otp : KeepRows(ids) => RowsOK'
  BY <1>1, KeptRowsOK DEF RowsOK
<1> USE DEF rowVars, history, At
<1>5. CASE AskCredential(w)
  <2>1. (job[w].op = "ask" /\ Step(w, "clear")) \/ Finish(w)
    BY <1>5 DEF AskCredential
  <2>2. job' \in [Workers -> Jobs] /\ JobsInv'
    BY <2>1, <1>5, StepKeepsJobs, FinishKeepsJobs DEF AskCredential, Holding, Accepted, Stages
  <2> QED
    BY <1>5, <2>2, <1>2, <1>3, <1>4 DEF AskCredential
<1>6. CASE ClearPending(w)
  <2>1. job' \in [Workers -> Jobs] /\ JobsInv'
    BY <1>6, StepKeepsJobs DEF ClearPending, Holding, Accepted, Stages
  <2> QED
    BY <1>6, <2>1, <1>2, <1>3, <1>4 DEF ClearPending, DeleteMany
<1>7. CASE InsertCode(w)
  <2>1. job' \in [Workers -> Jobs] /\ JobsInv'
    BY <1>7, StepKeepsJobs DEF InsertCode, Holding, Accepted, Stages
  <2> QED
    BY <1>7, <2>1, <1>2, <1>3, InsertedRow DEF InsertCode
<1>8. CASE FindPending(w)
  <2>1. ASSUME NEW id \in Codes, job' = [job EXCEPT ![w].row = id]
        PROVE  job' \in [Workers -> Jobs] /\ JobsInv'
    <3> DEFINE j == [job[w] EXCEPT !.row = id]
    <3>1. /\ j \in Jobs /\ job' = [job EXCEPT ![w] = j] /\ j.op = job[w].op
          /\ j.email = job[w].email /\ j.purpose = job[w].purpose /\ j.code = job[w].code
          /\ j.attempts = job[w].attempts
      BY <1>1, <2>1 DEF Jobs
    <3> HIDE DEF j
    <3>2. JobOK(j, known', resets')
      BY <3>1, <1>1, <1>8 DEF JobOK, FindPending
    <3> QED
      BY <3>1, <3>2, <1>8, OneJobMoves DEF FindPending
  <2>2. job' \in [Workers -> Jobs] /\ JobsInv'
    BY <2>1, <1>8, FinishKeepsJobs DEF FindPending
  <2> QED
    BY <1>8, <2>2, <1>2, <1>3, <1>4 DEF FindPending
<1>9. CASE RenewCode(w)
  <2>1. job' \in [Workers -> Jobs] /\ JobsInv'
    BY <1>9, StepKeepsJobs, FinishKeepsJobs DEF RenewCode, Holding, Accepted, Stages
  <2>2. RowsOK'
    <3>1. job[w].code \in Codes
      BY <1>1, <1>9 DEF JobOK, RenewCode, Holding
    <3>2. CASE job[w].row \in DOMAIN otp
      BY <3>1, <3>2, <1>1, <1>9, RenewedRow, OneRowOK DEF RenewCode, RowsOK
    <3> QED
      BY <3>2, <1>4, <1>9 DEF RenewCode
  <2> QED
    BY <1>9, <2>1, <2>2, <1>2, <1>3 DEF RenewCode
<1>10. CASE MailCode(w)
  BY <1>10, FinishKeepsJobs, <1>2, <1>3, <1>4 DEF MailCode
<1>11. CASE DropRow(w)
  BY <1>11, FinishKeepsJobs, <1>2, <1>3, <1>4 DEF DropRow, DeleteRow
<1>12. CASE CountAttempt(w)
  <2>1. job[w].attempts \in Nat /\ job[w].attempts < MaxAttempts
    BY <1>1, <1>12 DEF JobOK, CountAttempt, Jobs
  <2>2. RowsOK'
    <3>1. CASE job[w].row \in DOMAIN otp
      BY <3>1, <2>1, <1>1, <1>12, CountedRow, OneRowOK DEF CountAttempt, RowsOK
    <3> QED
      BY <3>1, <1>4, <1>12 DEF CountAttempt
  <2> QED
    BY <1>12, <2>2, FinishKeepsJobs, <1>2, <1>3 DEF CountAttempt
<1>13. CASE LookUp(w)
  <2>1. job' \in [Workers -> Jobs] /\ JobsInv'
    BY <1>13, StepKeepsJobs DEF LookUp, Holding, Accepted, Stages
  <2> QED
    BY <1>13, <2>1, <1>2, <1>3, <1>4 DEF LookUp
<1>14. CASE CreateUser(w)
  <2>1. job[w].email \in Emails /\ job[w].purpose = "signup" /\ job[w].email \in known'
    BY <1>1, <1>14 DEF JobOK, CreateUser, Accepted
  <2>2. job' \in [Workers -> Jobs] /\ JobsInv'
    BY <2>1, <1>14, StepKeepsJobs, FinishKeepsJobs DEF CreateUser, Holding, Accepted, Stages
  <2> QED
    BY <1>14, <2>1, <2>2, <1>2, <1>3, <1>4 DEF CreateUser
<1>15. CASE ReplacePassword(w)
  <2>1. job[w].code \in Codes /\ job[w].purpose = "password_reset" /\ job[w].code \in resets'
    BY <1>1, <1>15 DEF JobOK, ReplacePassword, Accepted
  <2>2. job' \in [Workers -> Jobs] /\ JobsInv'
    BY <2>1, <1>15, StepKeepsJobs DEF ReplacePassword, Holding, Accepted, Stages
  <2> QED
    BY <1>15, <2>1, <2>2, <1>2, <1>3, <1>4 DEF ReplacePassword
<1>16. CASE PurgeRows(w)
  <2>1. job[w].email \in Emails /\ job[w].code \in Codes /\ job[w].purpose \in Purposes
    BY <1>1, <1>16 DEF JobOK, PurgeRows, Accepted, Jobs
  <2>2. Spending(w) \in [code : Codes, email : Emails, purpose : Purposes]
    BY <2>1 DEF Spending
  <2> QED
    BY <1>16, <2>2, FinishKeepsJobs, <1>2, <1>3, <1>4 DEF PurgeRows, DeleteMany
<1> QED
  BY <1>5, <1>6, <1>7, <1>8, <1>9, <1>10, <1>11, <1>12, <1>13, <1>14, <1>15, <1>16 DEF Continue

LEMMA NextType == TypeInv /\ [Next]_vars => TypeInv'
<1> SUFFICES ASSUME TypeInv, [Next]_vars PROVE TypeInv'
  OBVIOUS
<1>1. ASSUME NEW w \in Workers, Crash(w) PROVE TypeInv'
  BY <1>1, FinishKeepsJobs DEF Crash, TypeInv, TypeOK, rowVars, history
<1>2. ASSUME NEW id \in Codes, Expire(id) PROVE TypeInv'
  <2>1. RowsOK'
    BY <1>2, ExpiredRow, OneRowOK DEF RowsOK, TypeInv, TypeOK
  <2> QED
    BY <1>2, <2>1 DEF Expire, TypeInv, TypeOK, JobsInv, RowsOK, history
<1>3. CASE UNCHANGED vars
  BY <1>3 DEF vars, rowVars, history, TypeInv, TypeOK, JobsInv
<1> QED
  BY <1>1, <1>2, <1>3, CallKeepsTypes, ContinueKeepsTypes DEF Next

(* otp, job and the others keep their types, and only accepted codes reach *)
(* an account (Otp.TypeOK).                                                *)
THEOREM CodesTyped == Spec => []TypeOK
<1>1. TypeInv => TypeOK
  BY DEF TypeInv
<1> QED
  BY InitType, NextType, <1>1, PTL DEF Spec

-----------------------------------------------------------------------------
(* How a step changes jobs and rows, whichever action it is.               *)

Holds(w) == job[w].op \in Holding

\* A code that was made up and that nobody is still to store.
UsedIn(c, n, j) == c \in 0..n /\ \A w \in Workers : j[w].op \in Holding => j[w].code # c

Used(c)      == UsedIn(c, issued, job)
UsedAfter(c) == UsedIn(c, issued', job')

\* A job goes on, takes a code or a row from the table, or a new code.
JobMoved(w) ==
  /\ Holds(w)' =>
       \/ Holds(w) /\ job'[w].code = job[w].code /\ issued' = issued
       \/ ~Holds(w) /\ job'[w].code = issued + 1 /\ issued' = issued + 1
  /\ ~Holds(w)' =>
       /\ issued' = issued
       /\ \/ job'[w].code \in {job[w].code, NoCode}
          \/ \E id \in DOMAIN otp : job'[w].code = otp[id].code
  /\ job'[w].row \in {job[w].row, NoCode} \cup DOMAIN otp

LEMMA AskMoves ==
  ASSUME TypeInv, NEW w \in Workers, NEW e \in Emails, NEW why \in Purposes,
         NEW op \in Holding, Ask(w, e, why, op)
  PROVE  JobMoved(w) /\ \A v \in Workers \ {w} : job'[v] = job[v]
<1> DEFINE j == [Idle EXCEPT !.op = op, !.email = e, !.purpose = why, !.code = issued + 1]
<1>1. j.op = op /\ j.code = issued + 1 /\ j.row = NoCode
  BY DEF Idle
<1>2. job' = [job EXCEPT ![w] = j] /\ job \in [Workers -> Jobs] /\ issued' = issued + 1
  BY DEF Ask, TypeInv, TypeOK
<1>3. job'[w] = j /\ \A v \in Workers \ {w} : job'[v] = job[v]
  BY <1>2
<1>4. ~Holds(w)
  BY DEF Ask, Free, Idle, Holds, Holding
<1> HIDE DEF j
<1> QED
  BY <1>1, <1>2, <1>3, <1>4 DEF JobMoved, Holds

LEMMA AnswerMoves ==
  ASSUME TypeInv, NEW w \in Workers, NEW e \in Emails, NEW why \in Purposes,
         NEW right \in BOOLEAN, Answer(w, e, why, right)
  PROVE  \E id \in Pending(e, why) :
           LET next == Verdict(otp[id], right) IN
           /\ next \in {"drop", "count", "look"}
           /\ job'[w] = [op |-> next, email |-> e, purpose |-> why, row |-> id,
                         code |-> IF next = "look" THEN otp[id].code ELSE NoCode,
                         attempts |-> IF next = "count" THEN otp[id].attempts ELSE 0]
           /\ \A v \in Workers \ {w} : job'[v] = job[v]
<1>1. PICK id \in Codes :
        LET next == Verdict(otp[id], right) IN
        /\ Newest(id, e, why)
        /\ job' = [job EXCEPT ![w] =
                     [op |-> next, email |-> e, purpose |-> why, row |-> id,
                      code |-> IF next = "look" THEN otp[id].code ELSE NoCode,
                      attempts |-> IF next = "count" THEN otp[id].attempts ELSE 0]]
  BY DEF Answer
<1>2. id \in Pending(e, why) /\ id \in DOMAIN otp /\ otp[id] \in Rows
  BY <1>1 DEF Newest, Pending, TypeInv, TypeOK
<1>3. Verdict(otp[id], right) \in {"drop", "count", "look"}
  BY <1>2, VerdictOK
<1> QED
  BY <1>1, <1>2, <1>3 DEF TypeInv, TypeOK

LEMMA CallMoves ==
  ASSUME TypeInv, NEW w \in Workers, Call(w)
  PROVE  /\ JobMoved(w) /\ \A v \in Workers \ {w} : job'[v] = job[v]
         /\ UNCHANGED <<rowVars, history>>
<1>1. PICK e \in Emails :
        \/ StartSignup(w, e) \/ ResendSignupOtp(w, e) \/ StartPasswordReset(w, e)
        \/ \E right \in BOOLEAN : VerifySignupOtp(w, e, right) \/ ResetPassword(w, e, right)
  BY DEF Call
<1>2. CASE StartSignup(w, e) \/ ResendSignupOtp(w, e) \/ StartPasswordReset(w, e)
  <2>1. PICK why \in Purposes, op \in Holding : Ask(w, e, why, op)
    BY <1>2 DEF StartSignup, ResendSignupOtp, StartPasswordReset, Holding, Purposes
  <2> QED
    BY <2>1, AskMoves DEF Ask
<1>3. ASSUME NEW right \in BOOLEAN, NEW why \in Purposes, Answer(w, e, why, right)
      PROVE  /\ JobMoved(w) /\ \A v \in Workers \ {w} : job'[v] = job[v]
             /\ UNCHANGED <<rowVars, history>>
  <2>1. PICK id \in Pending(e, why) :
          LET next == Verdict(otp[id], right) IN
          /\ next \in {"drop", "count", "look"}
          /\ job'[w] = [op |-> next, email |-> e, purpose |-> why, row |-> id,
                        code |-> IF next = "look" THEN otp[id].code ELSE NoCode,
                        attempts |-> IF next = "count" THEN otp[id].attempts ELSE 0]
          /\ \A v \in Workers \ {w} : job'[v] = job[v]
    BY <1>3, AnswerMoves
  <2>2. id \in DOMAIN otp /\ issued' = issued /\ UNCHANGED <<rowVars, history>>
    BY <2>1, <1>3 DEF Pending, Answer
  <2>3. /\ job'[w].op \in {"drop", "count", "look"} /\ job'[w].row = id
        /\ job'[w].code \in {otp[id].code, NoCode}
    BY <2>1
  <2> QED
    BY <2>1, <2>2, <2>3 DEF JobMoved, Holds, Holding
<1> QED
  BY <1>1, <1>2, <1>3 DEF VerifySignupOtp, ResetPassword, Purposes

LEMMA FinishMoves ==
  ASSUME TypeInv, NEW w \in Workers, Finish(w), issued' = issued
  PROVE  /\ JobMoved(w) /\ ~Holds(w)' /\ job'[w].op = "idle"
         /\ \A v \in Workers \ {w} : job'[v] = job[v]
BY DEF TypeInv, TypeOK, Finish, Idle, JobMoved, Holds, Holding

LEMMA StepMoves ==
  ASSUME TypeInv, NEW w \in Workers, NEW op \in Stages, Step(w, op), issued' = issued,
         op \in Holding => Holds(w)
  PROVE  /\ JobMoved(w) /\ (op \notin Holding => ~Holds(w)')
         /\ job'[w].op = op /\ job'[w].code = job[w].code /\ job'[w].email = job[w].email
         /\ job'[w].purpose = job[w].purpose /\ job'[w].row = job[w].row
         /\ \A v \in Workers \ {w} : job'[v] = job[v]
<1> DEFINE j == [job[w] EXCEPT !.op = op]
<1>1. /\ j.op = op /\ j.email = job[w].email /\ j.purpose = job[w].purpose
      /\ j.code = job[w].code /\ j.row = job[w].row
      /\ job'[w] = j /\ \A v \in Workers \ {w} : job'[v] = job[v]
  BY StepRecord
<1> HIDE DEF j
<1> QED
  BY <1>1 DEF JobMoved, Holds

LEMMA ContinueMoves ==
  ASSUME TypeInv, NEW w \in Workers, Continue(w)
  PROVE  JobMoved(w) /\ \A v \in Workers \ {w} : job'[v] = job[v]
<1>1. CASE AskCredential(w)
  <2>1. (At(w, "ask") /\ Step(w, "clear")) \/ Finish(w)
    BY <1>1 DEF AskCredential
  <2> QED
    BY <2>1, <1>1, StepMoves, FinishMoves DEF AskCredential, At, Holds, Holding, Stages
<1>2. CASE FindPending(w)
  <2>1. ASSUME NEW id \in Codes, Newest(id, job[w].email, "signup"),
               job' = [job EXCEPT ![w].row = id]
        PROVE  JobMoved(w) /\ \A v \in Workers \ {w} : job'[v] = job[v]
    <3>1. job \in [Workers -> Jobs] /\ id \in DOMAIN otp
      BY <2>1 DEF TypeInv, TypeOK, Newest, Pending
    <3>2. /\ job'[w].op = job[w].op /\ job'[w].code = job[w].code /\ job'[w].row = id
          /\ \A v \in Workers \ {w} : job'[v] = job[v]
      BY <3>1, <2>1 DEF Jobs
    <3> QED
      BY <3>1, <3>2, <1>2 DEF JobMoved, Holds, FindPending
  <2> QED
    BY <2>1, <1>2, FinishMoves DEF FindPending
<1> QED
  BY <1>1, <1>2, StepMoves, FinishMoves DEF Continue, ClearPending, InsertCode, RenewCode,
     MailCode, DropRow, CountAttempt, LookUp, CreateUser, ReplacePassword, PurgeRows,
     At, Holds, Holding, Stages

\* A row stays, at least as far as its code, or takes the code of a handler
\* that held it.
RowKept(id) ==
  /\ id \in DOMAIN otp
  /\ otp'[id].code = otp[id].code
  /\ otp'[id].email = otp[id].email /\ otp'[id].purpose = otp[id].purpose

RowGiven(id) ==
  \E w \in Workers :
    /\ Holds(w) /\ ~Holds(w)'
    /\ otp'[id].code = job[w].code
    /\ IF job[w].op = "insert" THEN id = job[w].code
                               ELSE id = job[w].row /\ id \in DOMAIN otp

LEMMA RowsMove ==
  ASSUME TypeInv, [Next]_vars, NEW id \in DOMAIN otp'
  PROVE  RowKept(id) \/ RowGiven(id)
<1>1. RowsOK
  BY DEF TypeInv, TypeOK, RowsOK
<1>2. ASSUME UNCHANGED otp PROVE RowKept(id)
  BY <1>2 DEF RowKept
<1>3. ASSUME NEW ids \in SUBSET DOMAIN otp, KeepRows(ids) PROVE RowKept(id)
  BY <1>1, <1>3, KeptRowsOK DEF RowKept
<1>4. ASSUME NEW w \in Workers, InsertCode(w) PROVE RowKept(id) \/ RowGiven(id)
  <2>1. /\ DOMAIN otp' = DOMAIN otp \cup {job[w].code}
        /\ otp'[job[w].code] = NewRow(job[w])
        /\ \A other \in DOMAIN otp \ {job[w].code} : otp'[other] = otp[other]
    BY <1>4, InsertedRow
  <2>2. Holds(w) /\ ~Holds(w)'
    BY <1>4, StepMoves DEF InsertCode, At, Holds, Holding, Stages
  <2>3. CASE id = job[w].code
    BY <2>1, <2>2, <2>3, <1>4 DEF RowGiven, NewRow, InsertCode, At
  <2>4. CASE id # job[w].code
    BY <2>1, <2>4 DEF RowKept
  <2> QED
    BY <2>3, <2>4
<1>5. ASSUME NEW w \in Workers, RenewCode(w) PROVE RowKept(id) \/ RowGiven(id)
  <2>1. CASE job[w].row \in DOMAIN otp
    <3>1. job[w].code \in Codes
      BY <1>5 DEF TypeInv, JobsInv, JobOK, RenewCode, At, Holding
    <3>2. Holds(w) /\ ~Holds(w)'
      BY <1>5, <2>1, StepMoves DEF RenewCode, At, Holds, Holding, Stages
    <3>3. /\ DOMAIN otp' = DOMAIN otp
          /\ otp'[job[w].row] = Renewed(otp[job[w].row], job[w].code)
          /\ \A other \in DOMAIN otp \ {job[w].row} : otp'[other] = otp[other]
      BY <1>1, <1>5, <2>1, <3>1, RenewedRow, OneRowOK DEF RenewCode, RowsOK
    <3>4. otp'[job[w].row].code = job[w].code
      <4>1. otp[job[w].row] \in Rows
        BY <1>1, <2>1 DEF RowsOK
      <4> QED
        BY <3>1, <3>3, <4>1, RenewedRow
    <3> QED
      BY <3>2, <3>3, <3>4, <1>5 DEF RowKept, RowGiven, RenewCode, At
  <2> QED
    BY <2>1, <1>2, <1>5 DEF RenewCode
<1>6. ASSUME NEW w \in Workers, CountAttempt(w) PROVE RowKept(id)
  <2>1. CASE job[w].row \in DOMAIN otp
    <3>1. job[w].attempts \in Nat /\ job[w].attempts < MaxAttempts
      BY <1>6 DEF TypeInv, TypeOK, JobsInv, JobOK, CountAttempt, At, Jobs
    <3> DEFINE r == Counted(otp[job[w].row], job[w].attempts)
    <3>2. /\ r \in Rows /\ r.code = otp[job[w].row].code /\ r.email = otp[job[w].row].email
          /\ r.purpose = otp[job[w].row].purpose
      BY <1>1, <2>1, <3>1, CountedRow DEF RowsOK
    <3>3. otp' = [otp EXCEPT ![job[w].row] = r]
      BY <1>6, <2>1 DEF CountAttempt
    <3> HIDE DEF r
    <3>4. /\ DOMAIN otp' = DOMAIN otp /\ otp'[job[w].row] = r
          /\ \A other \in DOMAIN otp \ {job[w].row} : otp'[other] = otp[other]
      BY <1>1, <2>1, <3>2, <3>3, OneRowOK
    <3> QED
      BY <3>2, <3>4 DEF RowKept
  <2> QED
    BY <2>1, <1>2, <1>6 DEF CountAttempt
<1>7. ASSUME NEW other \in Codes, Expire(other) PROVE RowKept(id)
  <2> DEFINE r == [otp[other] EXCEPT !.live = FALSE]
  <2>1. /\ other \in DOMAIN otp /\ r \in Rows /\ otp' = [otp EXCEPT ![other] = r]
        /\ r.code = otp[other].code /\ r.email = otp[other].email
        /\ r.purpose = otp[other].purpose
    BY <1>7, ExpiredRow
  <2> HIDE DEF r
  <2>2. /\ DOMAIN otp' = DOMAIN otp /\ otp'[other] = r
        /\ \A x \in DOMAIN otp \ {other} : otp'[x] = otp[x]
    BY <1>1, <2>1, OneRowOK
  <2> QED
    BY <2>1, <2>2 DEF RowKept
<1>8. ASSUME NEW w \in Workers, Call(w) \/ Crash(w) PROVE RowKept(id)
  BY <1>2, <1>8, CallMoves DEF Crash, rowVars
<1>9. ASSUME NEW w \in Workers, Continue(w) PROVE RowKept(id) \/ RowGiven(id)
  BY <1>2, <1>3, <1>4, <1>5, <1>6, <1>9 DEF Continue, AskCredential, ClearPending, FindPending,
     MailCode, DropRow, LookUp, CreateUser, ReplacePassword, PurgeRows, DeleteRow, DeleteMany,
     rowVars
<1>10. CASE UNCHANGED vars
  BY <1>2, <1>10 DEF vars, rowVars
<1> QED
  BY <1>7, <1>8, <1>9, <1>10 DEF Next

-----------------------------------------------------------------------------
(* Codes are kept apart.                                                   *)

UsedInv ==
  /\ \A id \in DOMAIN otp : Used(id) /\ Used(otp[id].code)
  /\ \A id, other \in DOMAIN otp : otp[id].code = otp[other].code => id = other
  /\ \A s \in spent : Used(s.code)
  /\ \A w \in Workers : Used(job[w].row)
  /\ \A w \in Workers : IF Holds(w) THEN job[w].code \in 1..issued ELSE Used(job[w].code)
  /\ \A w, v \in Workers :
       Holds(w) /\ Holds(v) /\ job[w].code = job[v].code => w = v

LEMMA InitUsed == Init => UsedInv
BY OtpAssumption DEF Init, UsedInv, Used, UsedIn, Holds, Holding, Idle, NoCode

\* Every step moves one job.
LEMMA OneMoves ==
  ASSUME TypeInv, [Next]_vars
  PROVE  \/ UNCHANGED <<job, issued>>
         \/ \E w \in Workers : JobMoved(w) /\ \A v \in Workers \ {w} : job'[v] = job[v]
<1>1. ASSUME NEW w \in Workers, Crash(w)
      PROVE  JobMoved(w) /\ \A v \in Workers \ {w} : job'[v] = job[v]
  BY <1>1, FinishMoves DEF Crash
<1> QED
  BY <1>1, CallMoves, ContinueMoves DEF Next, Expire, vars

LEMMA UsedStays ==
  ASSUME TypeInv, [Next]_vars, NEW c, Used(c)
  PROVE  UsedAfter(c)
<1>1. issued \in Nat /\ c \in 0..issued /\ \A v \in Workers : Holds(v) => job[v].code # c
  BY OtpAssumption DEF Used, UsedIn, Holds, TypeInv, TypeOK
<1>2. CASE UNCHANGED <<job, issued>>
  BY <1>1, <1>2 DEF Used, UsedAfter, UsedIn, Holds
<1>3. ASSUME NEW w \in Workers, JobMoved(w), \A v \in Workers \ {w} : job'[v] = job[v]
      PROVE  UsedAfter(c)
  <2>1. issued' \in {issued, issued + 1}
    BY <1>3 DEF JobMoved
  <2>2. c \in 0..issued'
    BY <1>1, <2>1
  <2>3. ASSUME NEW v \in Workers, Holds(v)' PROVE job'[v].code # c
    BY <1>1, <1>3, <2>3 DEF JobMoved, Holds
  <2> QED
    BY <2>2, <2>3 DEF UsedAfter, UsedIn, Holds
<1> QED
  BY <1>2, <1>3, OneMoves

\* A code is used once its holder stored it.
LEMMA CodeReleased ==
  ASSUME TypeInv, UsedInv, [Next]_vars, NEW w \in Workers, Holds(w), ~Holds(w)'
  PROVE  UsedAfter(job[w].code)
<1>1. issued \in Nat /\ job[w].code \in 1..issued
  BY OtpAssumption DEF UsedInv, TypeInv, TypeOK
<1>2. ~UNCHANGED <<job, issued>>
  BY DEF Holds
<1>3. PICK u \in Workers : JobMoved(u) /\ \A v \in Workers \ {u} : job'[v] = job[v]
  BY <1>2, OneMoves
<1>4. u = w
  BY <1>3 DEF Holds
<1>5. issued' = issued
  BY <1>3, <1>4 DEF JobMoved
<1>6. ASSUME NEW v \in Workers, Holds(v)' PROVE job'[v].code # job[w].code
  BY <1>3, <1>4, <1>6 DEF Holds, UsedInv
<1> QED
  BY <1>1, <1>5, <1>6 DEF UsedAfter, UsedIn, Holds

\* What becomes used, and by whom.
LEMMA SpentMoves ==
  ASSUME TypeInv, [Next]_vars, NEW s \in spent', s \notin spent
  PROVE  \E w \in Workers :
           /\ job[w].op \in {"refuse", "purge"} /\ s = Spending(w)
           /\ DeleteMany(job[w].email, job[w].purpose)
<1>1. PICK w \in Workers : PurgeRows(w)
  BY CallMoves DEF Next, Continue, AskCredential, ClearPending, InsertCode, FindPending,
     RenewCode, MailCode, DropRow, CountAttempt, LookUp, CreateUser, ReplacePassword,
     Crash, Expire, vars, history
<1> QED
  BY <1>1 DEF PurgeRows, At

LEMMA NextUsed == TypeInv /\ UsedInv /\ [Next]_vars => UsedInv'
<1> SUFFICES ASSUME TypeInv, UsedInv, [Next]_vars PROVE UsedInv'
  OBVIOUS
<1> USE DEF UsedInv
<1>1. issued \in Nat /\ Used(NoCode)
  BY OtpAssumption DEF TypeInv, TypeOK, Used, UsedIn, NoCode, Holds
<1>2. ASSUME NEW id \in DOMAIN otp' PROVE UsedAfter(id) /\ UsedAfter(otp'[id].code)
  BY <1>2, RowsMove, UsedStays, CodeReleased DEF RowKept, RowGiven
<1>3. ASSUME NEW id \in DOMAIN otp', NEW other \in DOMAIN otp', otp'[id].code = otp'[other].code
      PROVE  id = other
  <2>1. CASE RowKept(id) /\ RowKept(other)
    BY <1>3, <2>1 DEF RowKept
  <2>2. ASSUME NEW x \in DOMAIN otp, NEW w \in Workers, Holds(w) PROVE otp[x].code # job[w].code
    BY <2>2 DEF Used, UsedIn, Holds
  <2>3. ~(RowKept(id) /\ RowGiven(other)) /\ ~(RowGiven(id) /\ RowKept(other))
    BY <1>3, <2>2 DEF RowKept, RowGiven
  <2>4. CASE RowGiven(id) /\ RowGiven(other)
    <3>1. PICK w \in Workers :
            /\ Holds(w) /\ otp'[id].code = job[w].code
            /\ IF job[w].op = "insert" THEN id = job[w].code ELSE id = job[w].row
      BY <2>4 DEF RowGiven
    <3>2. PICK v \in Workers :
            /\ Holds(v) /\ otp'[other].code = job[v].code
            /\ IF job[v].op = "insert" THEN other = job[v].code ELSE other = job[v].row
      BY <2>4 DEF RowGiven
    <3>3. w = v
      BY <1>3, <3>1, <3>2
    <3> QED
      BY <3>1, <3>2, <3>3
  <2> QED
    BY <2>1, <2>3, <2>4, RowsMove
<1>4. ASSUME NEW s \in spent' PROVE UsedAfter(s.code)
  <2>1. CASE s \in spent
    BY <2>1, UsedStays
  <2>2. CASE s \notin spent
    <3>1. PICK w \in Workers : job[w].op \in {"refuse", "purge"} /\ s = Spending(w)
      BY <2>2, SpentMoves
    <3>2. ~Holds(w) /\ s.code = job[w].code
      BY <3>1 DEF Holds, Holding, Spending
    <3> QED
      BY <3>2, UsedStays
  <2> QED
    BY <2>1, <2>2
<1>5. ASSUME NEW w \in Workers
      PROVE  /\ UsedAfter(job'[w].row)
             /\ IF Holds(w)' THEN job'[w].code \in 1..issued' ELSE UsedAfter(job'[w].code)
  <2>1. CASE UNCHANGED <<job, issued>>
    BY <1>5, <2>1, UsedStays DEF Holds
  <2>2. CASE job'[w] = job[w] /\ ~UNCHANGED <<job, issued>>
    <3>1. issued' \in {issued, issued + 1}
      BY <2>2, OneMoves DEF JobMoved
    <3> QED
      BY <1>1, <1>5, <2>2, <3>1, UsedStays DEF Holds
  <2>3. CASE JobMoved(w)
    <3>1. UsedAfter(job'[w].row)
      BY <1>1, <2>3, UsedStays DEF JobMoved
    <3>2. CASE Holds(w)'
      BY <1>1, <2>3, <3>1, <3>2 DEF JobMoved
    <3>3. CASE ~Holds(w)'
      <4>1. UsedAfter(job'[w].code) \/ Used(job'[w].code)
        BY <1>1, <2>3, <3>3, CodeReleased DEF JobMoved
      <4> QED
        BY <1>1, <2>3, <3>1, <3>3, <4>1, UsedStays, CodeReleased DEF JobMoved
    <3> QED
      BY <3>2, <3>3
  <2> QED
    BY <2>1, <2>2, <2>3, OneMoves
<1>6. ASSUME NEW w \in Workers, NEW v \in Workers, Holds(w)', Holds(v)',
             job'[w].code = job'[v].code
      PROVE  w = v
  <2>1. CASE UNCHANGED <<job, issued>>
    BY <1>6, <2>1 DEF Holds
  <2>2. ASSUME NEW u \in Workers, JobMoved(u), \A x \in Workers \ {u} : job'[x] = job[x],
               w = u \/ v = u, w # v
        PROVE  FALSE
    <3>1. ASSUME NEW a \in Workers, NEW b \in Workers, Holds(a)', Holds(b)', a = u, b # u,
                 job'[a].code = job'[b].code
          PROVE  FALSE
      <4>1. Holds(b) /\ job[b].code \in 1..issued /\ job[b].code = job'[b].code
        BY <2>2, <3>1 DEF Holds
      <4> QED
        BY <1>1, <2>2, <3>1, <4>1 DEF JobMoved
    <3> QED
      BY <1>6, <2>2, <3>1
  <2>3. ASSUME NEW u \in Workers, \A x \in Workers \ {u} : job'[x] = job[x], w # u, v # u
        PROVE  w = v
    BY <1>6, <2>3 DEF Holds
  <2> QED
    BY <2>1, <2>2, <2>3, OneMoves
<1> QED
  BY <1>2, <1>3, <1>4, <1>5, <1>6 DEF UsedAfter, Used

-----------------------------------------------------------------------------
(* Counting.  A handler that is about to count read no more attempts than  *)
(* its row has wrong answers by now: a row's wrong answers never shrink,   *)
(* and a row that is gone does not come back.                              *)

CountsInv ==
  /\ CountsAreHonest
  /\ \A w \in Workers :
       job[w].op = "count" /\ job[w].row \in DOMAIN otp
         => job[w].attempts <= otp[job[w].row].wrong

LEMMA InitCounts == Init => CountsInv
BY DEF Init, CountsInv, CountsAreHonest, Idle

\* What a step does to the counts of a row: nothing, or they begin, or it is
\* counted an answer.
SameCounts(id) ==
  /\ id \in DOMAIN otp
  /\ otp'[id].attempts = otp[id].attempts /\ otp'[id].wrong = otp[id].wrong
NoCounts(id) ==
  id \notin DOMAIN otp /\ otp'[id].attempts = 0 /\ otp'[id].wrong = 0
CountedBy(w, id) ==
  /\ CountAttempt(w) /\ job[w].row = id /\ id \in DOMAIN otp
  /\ otp'[id].attempts = job[w].attempts + 1 /\ otp'[id].wrong = otp[id].wrong + 1

LEMMA CountsMove ==
  ASSUME TypeInv, UsedInv, [Next]_vars, NEW id \in DOMAIN otp'
  PROVE  SameCounts(id) \/ NoCounts(id) \/ \E w \in Workers : CountedBy(w, id)
<1>1. RowsOK
  BY DEF TypeInv, TypeOK, RowsOK
<1>2. ASSUME UNCHANGED otp PROVE SameCounts(id)
  BY <1>2 DEF SameCounts
<1>3. ASSUME NEW ids \in SUBSET DOMAIN otp, KeepRows(ids) PROVE SameCounts(id)
  BY <1>1, <1>3, KeptRowsOK DEF SameCounts
<1>4. ASSUME NEW x \in DOMAIN otp, NEW r \in Rows, otp' = [otp EXCEPT ![x] = r],
             r.attempts = otp[x].attempts, r.wrong = otp[x].wrong
      PROVE  SameCounts(id)
  <2>1. /\ DOMAIN otp' = DOMAIN otp /\ otp'[x] = r
        /\ \A other \in DOMAIN otp \ {x} : otp'[other] = otp[other]
    BY <1>1, <1>4, OneRowOK
  <2> QED
    BY <1>4, <2>1 DEF SameCounts
<1>5. ASSUME NEW w \in Workers, InsertCode(w) PROVE SameCounts(id) \/ NoCounts(id)
  <2>1. /\ DOMAIN otp' = DOMAIN otp \cup {job[w].code}
        /\ otp'[job[w].code] = NewRow(job[w])
        /\ \A other \in DOMAIN otp \ {job[w].code} : otp'[other] = otp[other]
    BY <1>5, InsertedRow
  <2>2. job[w].code \notin DOMAIN otp
    BY <1>5 DEF InsertCode, At, Holds, Holding, UsedInv, Used, UsedIn
  <2> QED
    BY <2>1, <2>2 DEF SameCounts, NoCounts, NewRow
<1>6. ASSUME NEW w \in Workers, RenewCode(w) PROVE SameCounts(id)
  <2>1. CASE job[w].row \in DOMAIN otp
    <3>1. job[w].code \in Codes
      BY <1>6 DEF TypeInv, JobsInv, JobOK, RenewCode, At, Holding
    <3> DEFINE r == Renewed(otp[job[w].row], job[w].code)
    <3>2. /\ r \in Rows /\ r.wrong = otp[job[w].row].wrong
          /\ r.attempts = otp[job[w].row].attempts
      BY <1>1, <2>1, <3>1, RenewedRow DEF RowsOK
    <3>3. otp' = [otp EXCEPT ![job[w].row] = r]
      BY <1>6, <2>1 DEF RenewCode
    <3> HIDE DEF r
    <3> QED
      BY <1>4, <2>1, <3>2, <3>3
  <2> QED
    BY <2>1, <1>2, <1>6 DEF RenewCode
<1>7. ASSUME NEW w \in Workers, CountAttempt(w) PROVE SameCounts(id) \/ CountedBy(w, id)
  <2>1. CASE job[w].row \in DOMAIN otp
    <3>1. job[w].attempts \in Nat /\ job[w].attempts < MaxAttempts
      BY <1>7 DEF TypeInv, TypeOK, JobsInv, JobOK, CountAttempt, At, Jobs
    <3> DEFINE r == Counted(otp[job[w].row], job[w].attempts)
    <3>2. /\ r \in Rows /\ r.wrong = otp[job[w].row].wrong + 1
          /\ r.attempts = job[w].attempts + 1
      BY <1>1, <2>1, <3>1, CountedRow DEF RowsOK
    <3>3. otp' = [otp EXCEPT ![job[w].row] = r]
      BY <1>7, <2>1 DEF CountAttempt
    <3> HIDE DEF r
    <3>4. /\ DOMAIN otp' = DOMAIN otp /\ otp'[job[w].row] = r
          /\ \A other \in DOMAIN otp \ {job[w].row} : otp'[other] = otp[other]
      BY <1>1, <2>1, <3>2, <3>3, OneRowOK
    <3> QED
      BY <1>7, <2>1, <3>2, <3>4 DEF SameCounts, CountedBy
  <2> QED
    BY <2>1, <1>2, <1>7 DEF CountAttempt
<1>8. ASSUME NEW x \in Codes, Expire(x) PROVE SameCounts(id)
  <2> DEFINE r == [otp[x] EXCEPT !.live = FALSE]
  <2>1. /\ x \in DOMAIN otp /\ r \in Rows /\ otp' = [otp EXCEPT ![x] = r]
        /\ r.wrong = otp[x].wrong /\ r.attempts = otp[x].attempts
    BY <1>8, ExpiredRow
  <2> HIDE DEF r
  <2> QED
    BY <1>4, <2>1
<1>9. ASSUME NEW w \in Workers, Call(w) \/ Crash(w) PROVE SameCounts(id)
  BY <1>2, <1>9, CallMoves DEF Crash, rowVars
<1>10. ASSUME NEW w \in Workers, Continue(w)
       PROVE  SameCounts(id) \/ NoCounts(id) \/ CountedBy(w, id)
  BY <1>2, <1>3, <1>5, <1>6, <1>7, <1>10 DEF Continue, AskCredential, ClearPending, FindPending,
     MailCode, DropRow, LookUp, CreateUser, ReplacePassword, PurgeRows, DeleteRow, DeleteMany,
     rowVars
<1>11. CASE UNCHANGED vars
  BY <1>2, <1>11 DEF vars, rowVars
<1> QED
  BY <1>8, <1>9, <1>10, <1>11 DEF Next

\* Wrong answers only add up, and are at least what is counted.
Grown(id) ==
  /\ otp'[id].attempts <= otp'[id].wrong
  /\ id \in DOMAIN otp => otp[id].wrong <= otp'[id].wrong

LEMMA WrongGrows ==
  ASSUME TypeInv, UsedInv, CountsInv, [Next]_vars, NEW id \in DOMAIN otp'
  PROVE  Grown(id)
<1>1. id \in DOMAIN otp =>
        /\ otp[id].attempts \in Nat /\ otp[id].wrong \in Nat
        /\ otp[id].attempts <= otp[id].wrong
  BY OtpAssumption DEF TypeInv, TypeOK, Rows, CountsInv, CountsAreHonest
<1>2. CASE SameCounts(id)
  BY <1>1, <1>2 DEF SameCounts, Grown
<1>3. CASE NoCounts(id)
  BY <1>3 DEF NoCounts, Grown
<1>4. ASSUME NEW w \in Workers, CountedBy(w, id) PROVE Grown(id)
  <2>1. job[w].attempts \in Nat /\ job[w].attempts <= otp[id].wrong
    BY <1>4 DEF CountedBy, CountAttempt, At, CountsInv, TypeInv, TypeOK, Jobs
  <2> QED
    BY <1>1, <1>4, <2>1 DEF CountedBy, Grown
<1> QED
  BY <1>2, <1>3, <1>4, CountsMove

\* Only a call makes a counter, of a row it has just read.
LEMMA CountersRead ==
  ASSUME TypeInv, [Next]_vars, NEW w \in Workers, job'[w].op = "count", job'[w] # job[w]
  PROVE  /\ UNCHANGED otp
         /\ job'[w].row \in DOMAIN otp /\ job'[w].attempts = otp[job'[w].row].attempts
<1>1. ASSUME NEW v \in Workers, Crash(v) PROVE FALSE
  BY <1>1, FinishMoves DEF Crash
<1>2. ASSUME NEW v \in Workers, Continue(v) PROVE FALSE
  <2>1. CASE FindPending(v)
    <3>1. ASSUME NEW id \in Codes, job' = [job EXCEPT ![v].row = id] PROVE FALSE
      <4>1. job \in [Workers -> Jobs]
        BY DEF TypeInv, TypeOK
      <4>2. job'[v].op = job[v].op /\ (v # w => job'[w] = job[w])
        BY <3>1, <4>1 DEF Jobs
      <4> QED
        BY <2>1, <4>2 DEF FindPending, At
    <3> QED
      BY <2>1, <3>1, FinishMoves DEF FindPending
  <2>2. ASSUME NEW op \in Stages \ {"count"}, Step(v, op) PROVE FALSE
    <3>1. job \in [Workers -> Jobs] /\ op # "count"
      BY <2>2 DEF TypeInv, TypeOK
    <3>2. job'[v].op = op /\ (v # w => job'[w] = job[w])
      BY <2>2, <3>1 DEF Step, Jobs
    <3> QED
      BY <3>1, <3>2
  <2>3. ASSUME Finish(v) PROVE FALSE
    BY <2>3, FinishKeepsJobs DEF Finish, Idle, TypeInv, TypeOK
  <2> QED
    BY <1>2, <2>1, <2>2, <2>3 DEF Continue, AskCredential, ClearPending, InsertCode, RenewCode,
       MailCode, DropRow, CountAttempt, LookUp, CreateUser, ReplacePassword, PurgeRows, Stages
<1>3. ASSUME NEW v \in Workers, Call(v)
      PROVE  /\ UNCHANGED otp
             /\ job'[w].row \in DOMAIN otp /\ job'[w].attempts = otp[job'[w].row].attempts
  <2>1. v = w /\ UNCHANGED otp
    BY <1>3, CallMoves DEF rowVars
  <2>2. PICK e \in Emails :
          \/ StartSignup(v, e) \/ ResendSignupOtp(v, e) \/ StartPasswordReset(v, e)
          \/ \E right \in BOOLEAN : VerifySignupOtp(v, e, right) \/ ResetPassword(v, e, right)
    BY <1>3 DEF Call
  <2>3. ASSUME NEW why \in Purposes, NEW op \in Holding, Ask(v, e, why, op) PROVE FALSE
    <3>1. job'[v].op = op
      BY <2>3 DEF Ask, Idle, TypeInv, TypeOK
    <3> QED
      BY <2>1, <3>1 DEF Holding
  <2>4. PICK right \in BOOLEAN, why \in Purposes : Answer(v, e, why, right)
    BY <2>2, <2>3 DEF StartSignup, ResendSignupOtp, StartPasswordReset, VerifySignupOtp,
       ResetPassword, Purposes, Holding
  <2>5. PICK id \in Pending(e, why) :
          LET next == Verdict(otp[id], right) IN
          job'[v] = [op |-> next, email |-> e, purpose |-> why, row |-> id,
                     code |-> IF next = "look" THEN otp[id].code ELSE NoCode,
                     attempts |-> IF next = "count" THEN otp[id].attempts ELSE 0]
    BY <2>4, AnswerMoves
  <2> QED
    BY <2>1, <2>5 DEF Pending
<1> QED
  BY <1>1, <1>2, <1>3 DEF Next, Expire, vars

LEMMA NextCounts == TypeInv /\ UsedInv /\ CountsInv /\ [Next]_vars => CountsInv'
<1> SUFFICES ASSUME TypeInv, UsedInv, CountsInv, [Next]_vars PROVE CountsInv'
  OBVIOUS
<1>1. TypeInv'
  BY NextType
<1>2. CountsAreHonest'
  BY WrongGrows DEF CountsAreHonest, Grown
<1>3. ASSUME NEW w \in Workers, job'[w].op = "count", job'[w].row \in DOMAIN otp'
      PROVE  job'[w].attempts <= otp'[job'[w].row].wrong
  <2>1. CASE job'[w] # job[w]
    BY <1>3, <2>1, CountersRead DEF CountsInv, CountsAreHonest
  <2>2. CASE job'[w] = job[w]
    <3>1. job[w].row \in DOMAIN otp
      BY <1>3, <2>2, RowsMove DEF RowKept, RowGiven, UsedInv, Used, UsedIn, Holds
    <3>2. /\ job[w].attempts <= otp[job[w].row].wrong
          /\ otp[job[w].row].wrong <= otp'[job[w].row].wrong
      BY <1>3, <2>2, <3>1, WrongGrows DEF CountsInv, Grown
    <3>3. /\ job[w].attempts \in Nat /\ otp[job[w].row].wrong \in Nat
          /\ otp'[job[w].row].wrong \in Nat
      BY <1>1, <1>3, <2>2, <3>1 DEF TypeInv, TypeOK, Jobs, Rows
    <3> QED
      BY <2>2, <3>2, <3>3
  <2> QED
    BY <2>1, <2>2
<1> QED
  BY <1>2, <1>3 DEF CountsInv

(* Nobody is told too many attempts early: a row never counts more wrong   *)
(* answers than it got, however many answers and renewals race             *)
(* (Otp.CountsAreHonest).                                                  *)
THEOREM CountsStayHonest == Spec => []CountsAreHonest
<1>1. Init => TypeInv /\ UsedInv /\ CountsInv
  BY InitType, InitUsed, InitCounts
<1>2. TypeInv /\ UsedInv /\ CountsInv /\ [Next]_vars => (TypeInv /\ UsedInv /\ CountsInv)'
  BY NextType, NextUsed, NextCounts
<1>3. CountsInv => CountsAreHonest
  BY DEF CountsInv
<1> QED
  BY <1>1, <1>2, <1>3, PTL DEF Spec

-----------------------------------------------------------------------------
(* How many wrong answers a row takes.  lowest is, for each handler, what  *)
(* it can still bring the attempts of the row down to: what they are, or   *)
(* what it read if that is less.  The budget at t is the number of         *)
(* handlers that cannot bring them down to MaxAttempts - t.  An answer     *)
(* that is counted adds its handler at one place of the budget, and may    *)
(* empty the places below; reading adds nothing and takes nothing.  So the *)
(* wrong answers stay within what the budget affords (see Binomials).      *)

Budget(lowest) ==
  [t \in 1..MaxAttempts |-> Cardinality({w \in Workers : lowest[w] > MaxAttempts - t})]

Lowest(id) ==
  [w \in Workers |->
     IF job[w].op = "count" /\ job[w].row = id /\ job[w].attempts < otp[id].attempts
     THEN job[w].attempts ELSE otp[id].attempts]

BudgetInv ==
  \A id \in DOMAIN otp : Affords(MaxAttempts, Budget(Lowest(id)), otp[id].wrong)

LEMMA WorkersCounted ==
  \A A, B \in SUBSET Workers :
    /\ Cardinality(A) \in Nat /\ Cardinality(A) <= Cardinality(Workers)
    /\ A \subseteq B => Cardinality(A) <= Cardinality(B)
    /\ \A w \in Workers : A \subseteq B /\ w \in B \ A => Cardinality(A) + 1 <= Cardinality(B)
<1> TAKE A \in SUBSET Workers, B \in SUBSET Workers
<1>1. IsFiniteSet(Workers) /\ IsFiniteSet(A) /\ IsFiniteSet(B)
  BY OtpAssumption, FS_Subset
<1>2. Cardinality(A) \in Nat /\ Cardinality(A) <= Cardinality(Workers)
  BY <1>1, FS_CardinalityType, FS_Subset
<1>3. A \subseteq B => Cardinality(A) <= Cardinality(B)
  BY <1>1, FS_Subset
<1>4. ASSUME NEW w \in B \ A, A \subseteq B PROVE Cardinality(A) + 1 <= Cardinality(B)
  <2>1. Cardinality(A \cup {w}) = Cardinality(A) + 1 /\ A \cup {w} \subseteq B
    BY <1>1, <1>4, FS_AddElement
  <2> QED
    BY <1>1, <2>1, FS_Subset
<1> QED
  BY <1>2, <1>3, <1>4

LEMMA BudgetType ==
  ASSUME NEW lowest
  PROVE  /\ Budget(lowest) \in [1..MaxAttempts -> Nat]
         /\ \A t \in 1..MaxAttempts : Budget(lowest)[t] <= Cardinality(Workers)
<1>1. ASSUME NEW t \in 1..MaxAttempts
      PROVE  LET n == Cardinality({w \in Workers : lowest[w] > MaxAttempts - t})
             IN  n \in Nat /\ n <= Cardinality(Workers)
  BY WorkersCounted
<1> QED
  BY <1>1 DEF Budget

LEMMA BudgetGrows ==
  ASSUME NEW lowest \in [Workers -> Nat], NEW after \in [Workers -> Nat],
         \A w \in Workers : lowest[w] <= after[w]
  PROVE  \A t \in 1..MaxAttempts : Budget(lowest)[t] <= Budget(after)[t]
<1> TAKE t \in 1..MaxAttempts
<1>1. MaxAttempts - t \in Nat
  BY OtpAssumption
<1>2. {w \in Workers : lowest[w] > MaxAttempts - t}
        \subseteq {w \in Workers : after[w] > MaxAttempts - t}
  BY <1>1
<1> QED
  BY <1>2, WorkersCounted DEF Budget

LEMMA BudgetStep ==
  ASSUME NEW lowest \in [Workers -> Nat], NEW after \in [Workers -> Nat],
         NEW w \in Workers, lowest[w] < MaxAttempts, lowest[w] < after[w],
         \A v \in Workers, x \in Nat : x <= lowest[w] /\ x < lowest[v] => x < after[v]
  PROVE  LET k == MaxAttempts - lowest[w] IN
         /\ k \in 1..MaxAttempts
         /\ \A t \in 1..k : Budget(lowest)[t] <= Budget(lowest)[k]
         /\ Budget(lowest)[k] + 1 <= Budget(after)[k]
         /\ \A t \in (k + 1)..MaxAttempts : Budget(lowest)[t] <= Budget(after)[t]
<1> DEFINE k == MaxAttempts - lowest[w]
           Over(s, t) == {v \in Workers : s[v] > MaxAttempts - t}
<1>1. k \in 1..MaxAttempts /\ MaxAttempts - k = lowest[w]
  BY OtpAssumption
<1>2. \A s, t : Over(s, t) \in SUBSET Workers
  OBVIOUS
<1>3. \A t \in 1..MaxAttempts :
        /\ MaxAttempts - t \in Nat
        /\ Budget(lowest)[t] = Cardinality(Over(lowest, t))
        /\ Budget(after)[t] = Cardinality(Over(after, t))
  BY OtpAssumption DEF Budget
<1>4. ASSUME NEW t \in 1..k PROVE Budget(lowest)[t] <= Budget(lowest)[k]
  <2>1. t \in 1..MaxAttempts /\ lowest[w] <= MaxAttempts - t
    BY OtpAssumption
  <2>2. \A n \in Nat : n > MaxAttempts - t => n > MaxAttempts - k
    BY <1>1, <2>1, OtpAssumption
  <2>3. Over(lowest, t) \subseteq Over(lowest, k)
    BY <2>2
  <2> HIDE DEF k, Over
  <2> QED
    BY <1>1, <1>2, <1>3, <2>1, <2>3, WorkersCounted
<1>5. Budget(lowest)[k] + 1 <= Budget(after)[k]
  <2>1. Over(lowest, k) \subseteq Over(after, k)
    BY <1>1
  <2>2. w \in Over(after, k) \ Over(lowest, k)
    BY <1>1
  <2> HIDE DEF k, Over
  <2> QED
    BY <1>1, <1>2, <1>3, <2>1, <2>2, WorkersCounted
<1>6. ASSUME NEW t \in (k + 1)..MaxAttempts PROVE Budget(lowest)[t] <= Budget(after)[t]
  <2>1. t \in 1..MaxAttempts /\ MaxAttempts - t \in Nat /\ MaxAttempts - t <= lowest[w]
    BY <1>1, OtpAssumption
  <2>2. Over(lowest, t) \subseteq Over(after, t)
    BY <2>1
  <2> HIDE DEF k, Over
  <2> QED
    BY <1>2, <1>3, <2>1, <2>2, WorkersCounted
<1> HIDE DEF k
<1>7. /\ k \in 1..MaxAttempts
      /\ \A t \in 1..k : Budget(lowest)[t] <= Budget(lowest)[k]
      /\ Budget(lowest)[k] + 1 <= Budget(after)[k]
      /\ \A t \in (k + 1)..MaxAttempts : Budget(lowest)[t] <= Budget(after)[t]
  BY <1>1, <1>4, <1>5, <1>6
<1> QED
  BY <1>7 DEF k

LEMMA LowestType ==
  ASSUME TypeInv, NEW id \in DOMAIN otp
  PROVE  Lowest(id) \in [Workers -> Nat]
BY OtpAssumption DEF Lowest, TypeInv, TypeOK, Rows, Jobs

LEMMA InitBudget == Init => BudgetInv
BY DEF Init, BudgetInv

\* While the attempts of a row stay, no handler can bring them further down.
LEMMA LowestStays ==
  ASSUME TypeInv, TypeInv', UsedInv, [Next]_vars, NEW id \in DOMAIN otp', SameCounts(id)
  PROVE  \A w \in Workers : Lowest(id)[w] <= Lowest(id)'[w]
<1> TAKE w \in Workers
<1>1. /\ otp[id].attempts \in Nat /\ otp'[id].attempts = otp[id].attempts
      /\ job[w].attempts \in Nat /\ job'[w].attempts \in Nat
  BY OtpAssumption DEF TypeInv, TypeOK, Rows, Jobs, SameCounts
<1>2. Lowest(id)[w] <= otp[id].attempts
  BY <1>1 DEF Lowest
<1>3. CASE job'[w] = job[w]
  BY <1>1, <1>3 DEF Lowest
<1>4. CASE job'[w].op = "count" /\ job'[w].row = id /\ job'[w] # job[w]
  <2>1. job'[w].attempts = otp[id].attempts
    BY <1>4, CountersRead
  <2> QED
    BY <1>1, <1>2, <2>1 DEF Lowest
<1>5. CASE ~(job'[w].op = "count" /\ job'[w].row = id)
  BY <1>1, <1>2, <1>5 DEF Lowest
<1> QED
  BY <1>3, <1>4, <1>5

\* Counting gives up what the handler could do, and lets the others do no
\* more than bring the attempts down to where it left them.
LEMMA LowestCounted ==
  ASSUME TypeInv, NEW id \in DOMAIN otp, NEW w \in Workers, CountedBy(w, id)
  PROVE  /\ Lowest(id)[w] < MaxAttempts /\ Lowest(id)[w] < Lowest(id)'[w]
         /\ \A v \in Workers, x \in Nat :
              x <= Lowest(id)[w] /\ x < Lowest(id)[v] => x < Lowest(id)'[v]
<1>1. job[w].op = "count" /\ job[w].row = id
  BY DEF CountedBy, CountAttempt, At
<1>2. /\ job[w].attempts < MaxAttempts /\ otp[id].attempts \in Nat /\ MaxAttempts \in Nat
      /\ \A v \in Workers : job[v].attempts \in Nat
  BY <1>1, OtpAssumption DEF TypeInv, TypeOK, JobsInv, JobOK, Rows, Jobs
<1>3. /\ job'[w].op = "idle" /\ \A v \in Workers \ {w} : job'[v] = job[v]
      /\ otp'[id].attempts = job[w].attempts + 1
  BY FinishMoves DEF CountedBy, CountAttempt
<1>4. /\ Lowest(id)[w] <= job[w].attempts
      /\ \A v \in Workers \ {w} :
           /\ Lowest(id)[v] <= otp[id].attempts
           /\ job[v].op = "count" /\ job[v].row = id => Lowest(id)[v] <= job[v].attempts
  BY <1>1, <1>2 DEF Lowest
<1>5. Lowest(id)'[w] = job[w].attempts + 1
  BY <1>3 DEF Lowest
<1>6. ASSUME NEW v \in Workers \ {w}
      PROVE  \/ Lowest(id)'[v] = job[w].attempts + 1
             \/ /\ job[v].op = "count" /\ job[v].row = id
                /\ Lowest(id)'[v] = job[v].attempts
  BY <1>3 DEF Lowest
<1>7. \A v \in Workers : Lowest(id)[v] \in Nat
  BY LowestType
<1>8. ASSUME NEW v \in Workers, NEW x \in Nat, x <= Lowest(id)[w], x < Lowest(id)[v]
      PROVE  x < Lowest(id)'[v]
  <2>1. x < job[w].attempts + 1
    BY <1>2, <1>4, <1>7, <1>8
  <2>2. CASE v = w
    BY <1>5, <2>1, <2>2
  <2>3. CASE v # w
    BY <1>2, <1>4, <1>6, <1>7, <1>8, <2>1, <2>3
  <2> QED
    BY <2>2, <2>3
<1> QED
  BY <1>2, <1>4, <1>5, <1>7, <1>8

LEMMA NextBudget == TypeInv /\ UsedInv /\ BudgetInv /\ [Next]_vars => BudgetInv'
<1> SUFFICES ASSUME TypeInv, UsedInv, BudgetInv, [Next]_vars, NEW id \in DOMAIN otp'
             PROVE  Affords(MaxAttempts, Budget(Lowest(id)'), otp'[id].wrong)
  BY DEF BudgetInv, Budget
<1>1. TypeInv'
  BY NextType
<1>2. MaxAttempts \in Nat /\ Lowest(id)' \in [Workers -> Nat]
  <2>1. Lowest(id)' \in [Workers -> Nat]
    BY <1>1, OtpAssumption DEF Lowest, TypeInv, TypeOK, Rows, Jobs
  <2> QED
    BY <2>1, OtpAssumption
<1>3. ASSUME id \in DOMAIN otp
      PROVE  /\ otp[id].wrong \in Nat /\ Lowest(id) \in [Workers -> Nat]
             /\ Affords(MaxAttempts, Budget(Lowest(id)), otp[id].wrong)
  BY <1>3, LowestType DEF BudgetInv, TypeInv, TypeOK, Rows
<1>4. Budget(Lowest(id)) \in [1..MaxAttempts -> Nat] /\ Budget(Lowest(id)') \in [1..MaxAttempts -> Nat]
  BY BudgetType
<1>5. CASE SameCounts(id)
  <2>1. \A t \in 1..MaxAttempts : Budget(Lowest(id))[t] <= Budget(Lowest(id)')[t]
    BY <1>1, <1>2, <1>3, <1>5, LowestStays, BudgetGrows DEF SameCounts
  <2> QED
    BY <1>2, <1>3, <1>4, <1>5, <2>1, AffordsGrows DEF SameCounts
<1>6. CASE NoCounts(id)
  BY <1>2, <1>4, <1>6, AffordsNothing DEF NoCounts
<1>7. ASSUME NEW w \in Workers, CountedBy(w, id)
      PROVE  Affords(MaxAttempts, Budget(Lowest(id)'), otp'[id].wrong)
  <2>1. id \in DOMAIN otp /\ otp'[id].wrong = otp[id].wrong + 1
    BY <1>7 DEF CountedBy
  <2> DEFINE k == MaxAttempts - Lowest(id)[w]
  <2>2. /\ k \in 1..MaxAttempts
        /\ \A t \in 1..k : Budget(Lowest(id))[t] <= Budget(Lowest(id))[k]
        /\ Budget(Lowest(id))[k] + 1 <= Budget(Lowest(id)')[k]
        /\ \A t \in (k + 1)..MaxAttempts : Budget(Lowest(id))[t] <= Budget(Lowest(id)')[t]
    BY <1>2, <1>3, <1>7, <2>1, LowestCounted, BudgetStep
  <2> HIDE DEF k
  <2> QED
    BY <1>2, <1>3, <1>4, <2>1, <2>2, AffordsOneMore
<1> QED
  BY <1>5, <1>6, <1>7, CountsMove

(* With n handlers in flight a row takes at most                           *)
(* Choose(MaxAttempts + n, n) - 1 wrong answers, although a slow handler   *)
(* sets the attempts back to what it read plus one                         *)
(* (Otp.AttemptsAreBounded).                                               *)
THEOREM WrongAnswersAreBounded == Spec => []AttemptsAreBounded
<1>1. Init => TypeInv /\ UsedInv /\ BudgetInv
  BY InitType, InitUsed, InitBudget
<1>2. TypeInv /\ UsedInv /\ BudgetInv /\ [Next]_vars => (TypeInv /\ UsedInv /\ BudgetInv)'
  BY NextType, NextUsed, NextBudget
<1>3. TypeInv /\ BudgetInv => AttemptsAreBounded
  <2> SUFFICES ASSUME TypeInv, BudgetInv, NEW id \in DOMAIN otp
               PROVE  LET n == Cardinality(Workers)
                      IN  otp[id].wrong <= choose(MaxAttempts + n, n) - 1
    BY DEF AttemptsAreBounded
  <2>1. otp[id].wrong \in Nat /\ MaxAttempts \in Nat /\ Cardinality(Workers) \in Nat
    BY OtpAssumption, WorkersCounted DEF TypeInv, TypeOK, Rows
  <2>2. Affords(MaxAttempts, Budget(Lowest(id)), otp[id].wrong)
    BY DEF BudgetInv
  <2> QED
    BY <2>1, <2>2, BudgetType, AffordsBounded
<1> QED
  BY <1>1, <1>2, <1>3, PTL DEF Spec

-----------------------------------------------------------------------------
(* Using up.  A handler whose code was accepted knows whose code it is,    *)
(* so the deletion at its end takes the row that has the code.             *)

Known(w, id) == otp[id].email = job[w].email /\ otp[id].purpose = job[w].purpose

SpentInv ==
  /\ SpentCodesAreGone
  /\ SpentCodesTookEffect
  /\ \A w \in Workers, id \in DOMAIN otp :
       job[w].op \in Accepted /\ otp[id].code = job[w].code => Known(w, id)

LEMMA InitSpent == Init => SpentInv
BY DEF Init, SpentInv, SpentCodesAreGone, SpentCodesTookEffect

LEMMA EffectsStay ==
  ASSUME TypeInv, [Next]_vars
  PROVE  known \subseteq known' /\ resets \subseteq resets'
BY CallMoves DEF Next, Continue, AskCredential, ClearPending, InsertCode, FindPending,
   RenewCode, MailCode, DropRow, CountAttempt, LookUp, CreateUser, ReplacePassword, PurgeRows,
   Crash, Expire, vars, rowVars, history

\* A handler that has a code accepted had it before, or reads it now.
LEMMA AcceptedMoves ==
  ASSUME TypeInv, [Next]_vars, NEW w \in Workers, job'[w].op \in Accepted
  PROVE  \/ /\ job[w].op \in Accepted /\ job'[w].code = job[w].code
            /\ job'[w].email = job[w].email /\ job'[w].purpose = job[w].purpose
         \/ /\ UNCHANGED otp
            /\ \E id \in DOMAIN otp :
                 /\ job'[w].code = otp[id].code
                 /\ job'[w].email = otp[id].email /\ job'[w].purpose = otp[id].purpose
<1> DEFINE Same == /\ job[w].op \in Accepted /\ job'[w].code = job[w].code
                   /\ job'[w].email = job[w].email /\ job'[w].purpose = job[w].purpose
           Read == /\ UNCHANGED otp
                   /\ \E id \in DOMAIN otp :
                        /\ job'[w].code = otp[id].code
                        /\ job'[w].email = otp[id].email /\ job'[w].purpose = otp[id].purpose
<1>1. ASSUME job'[w] = job[w] PROVE Same
  BY <1>1
<1>2. ASSUME NEW v \in Workers, Finish(v) PROVE Same
  BY <1>1, <1>2, FinishKeepsJobs DEF Finish, Idle, TypeInv, TypeOK, Accepted
<1>3. ASSUME NEW v \in Workers, NEW op \in Stages, Step(v, op),
             op \in Accepted => job[v].op \in Accepted
      PROVE  Same
  <2>1. job \in [Workers -> Jobs]
    BY DEF TypeInv, TypeOK
  <2>2. /\ job'[v].op = op /\ job'[v].code = job[v].code /\ job'[v].email = job[v].email
        /\ job'[v].purpose = job[v].purpose /\ (v # w => job'[w] = job[w])
    BY <1>3, <2>1 DEF Step, Jobs
  <2> QED
    BY <1>1, <1>3, <2>2
<1>4. ASSUME NEW v \in Workers, FindPending(v) PROVE Same
  <2>1. ASSUME NEW id \in Codes, job' = [job EXCEPT ![v].row = id] PROVE Same
    <3>1. job \in [Workers -> Jobs]
      BY DEF TypeInv, TypeOK
    <3>2. job'[v].op = job[v].op /\ (v # w => job'[w] = job[w])
      BY <2>1, <3>1 DEF Jobs
    <3> QED
      BY <1>1, <1>4, <3>2 DEF FindPending, At, Accepted
  <2> QED
    BY <1>2, <1>4, <2>1 DEF FindPending
<1>5. ASSUME NEW v \in Workers, Continue(v) PROVE Same
  BY <1>2, <1>3, <1>4, <1>5 DEF Continue, AskCredential, ClearPending, InsertCode, RenewCode,
     MailCode, DropRow, CountAttempt, LookUp, CreateUser, ReplacePassword, PurgeRows, Stages,
     Accepted, At
<1>6. ASSUME NEW v \in Workers, Call(v) PROVE Same \/ Read
  <2>1. CASE v # w
    BY <1>1, <1>6, <2>1, CallMoves
  <2>2. CASE v = w
    <3>1. UNCHANGED otp
      BY <1>6, CallMoves DEF rowVars
    <3>2. PICK e \in Emails :
            \/ StartSignup(v, e) \/ ResendSignupOtp(v, e) \/ StartPasswordReset(v, e)
            \/ \E right \in BOOLEAN : VerifySignupOtp(v, e, right) \/ ResetPassword(v, e, right)
      BY <1>6 DEF Call
    <3>3. ASSUME NEW why \in Purposes, NEW op \in Holding, Ask(v, e, why, op) PROVE FALSE
      <4>1. job'[v].op = op
        BY <3>3 DEF Ask, Idle, TypeInv, TypeOK
      <4> QED
        BY <2>2, <4>1 DEF Holding, Accepted
    <3>4. PICK right \in BOOLEAN, why \in Purposes : Answer(v, e, why, right)
      BY <3>2, <3>3 DEF StartSignup, ResendSignupOtp, StartPasswordReset, VerifySignupOtp,
         ResetPassword, Purposes, Holding
    <3>5. PICK id \in Pending(e, why) :
            LET next == Verdict(otp[id], right) IN
            /\ next \in {"drop", "count", "look"}
            /\ job'[v] = [op |-> next, email |-> e, purpose |-> why, row |-> id,
                          code |-> IF next = "look" THEN otp[id].code ELSE NoCode,
                          attempts |-> IF next = "count" THEN otp[id].attempts ELSE 0]
      BY <3>4, AnswerMoves
    <3>6. job'[v].op = "look"
      BY <2>2, <3>5 DEF Accepted
    <3>7. job'[v].code = otp[id].code /\ job'[v].email = e /\ job'[v].purpose = why
      BY <3>5, <3>6
    <3> QED
      BY <2>2, <3>1, <3>7 DEF Pending
  <2> QED
    BY <2>1, <2>2
<1> QED
  BY <1>1, <1>2, <1>5, <1>6 DEF Next, Crash, Expire, vars

LEMMA NextSpent == TypeInv /\ UsedInv /\ SpentInv /\ [Next]_vars => SpentInv'
<1> SUFFICES ASSUME TypeInv, UsedInv, SpentInv, [Next]_vars PROVE SpentInv'
  OBVIOUS
<1>1. ASSUME NEW id \in DOMAIN otp', NEW s \in spent' PROVE otp'[id].code # s.code
  <2>1. CASE s \in spent
    BY <1>1, <2>1, RowsMove
       DEF RowKept, RowGiven, SpentInv, SpentCodesAreGone, UsedInv, Used, UsedIn, Holds
  <2>2. CASE s \notin spent
    <3>1. PICK w \in Workers :
            /\ job[w].op \in {"refuse", "purge"} /\ s = Spending(w)
            /\ DeleteMany(job[w].email, job[w].purpose)
      BY <2>2, SpentMoves
    <3>2. /\ id \in DOMAIN otp /\ id \notin Pending(job[w].email, job[w].purpose)
          /\ otp'[id] = otp[id]
      BY <1>1, <3>1 DEF DeleteMany, KeepRows
    <3> QED
      BY <3>1, <3>2 DEF Spending, SpentInv, Known, Pending, Accepted
  <2> QED
    BY <2>1, <2>2
<1>2. ASSUME NEW s \in spent'
      PROVE  IF s.purpose = "signup" THEN s.email \in known' ELSE s.code \in resets'
  <2>1. CASE s \in spent
    BY <2>1, EffectsStay DEF SpentInv, SpentCodesTookEffect
  <2>2. CASE s \notin spent
    <3>1. PICK w \in Workers : job[w].op \in {"refuse", "purge"} /\ s = Spending(w)
      BY <2>2, SpentMoves
    <3>2. IF job[w].purpose = "signup" THEN job[w].email \in known ELSE job[w].code \in resets
      BY <3>1 DEF TypeInv, JobsInv, JobOK
    <3> QED
      BY <3>1, <3>2, EffectsStay DEF Spending
  <2> QED
    BY <2>1, <2>2
<1>3. ASSUME NEW w \in Workers, NEW id \in DOMAIN otp', job'[w].op \in Accepted,
             otp'[id].code = job'[w].code
      PROVE  otp'[id].email = job'[w].email /\ otp'[id].purpose = job'[w].purpose
  <2>1. CASE /\ job[w].op \in Accepted /\ job'[w].code = job[w].code
             /\ job'[w].email = job[w].email /\ job'[w].purpose = job[w].purpose
    <3>1. Used(job[w].code)
      BY <2>1 DEF UsedInv, Holds, Holding, Accepted
    <3>2. RowKept(id)
      BY <1>3, <2>1, <3>1, RowsMove DEF RowGiven, Used, UsedIn, Holds
    <3> QED
      BY <1>3, <2>1, <3>2 DEF RowKept, SpentInv, Known
  <2>2. CASE /\ UNCHANGED otp
             /\ \E x \in DOMAIN otp :
                  /\ job'[w].code = otp[x].code
                  /\ job'[w].email = otp[x].email /\ job'[w].purpose = otp[x].purpose
    BY <1>3, <2>2 DEF UsedInv
  <2> QED
    BY <1>3, <2>1, <2>2, AcceptedMoves
<1> QED
  BY <1>1, <1>2, <1>3 DEF SpentInv, SpentCodesAreGone, SpentCodesTookEffect, Known

LEMMA SpentAlways == Spec => []SpentInv
<1>1. Init => TypeInv /\ UsedInv /\ SpentInv
  BY InitType, InitUsed, InitSpent
<1>2. TypeInv /\ UsedInv /\ SpentInv /\ [Next]_vars => (TypeInv /\ UsedInv /\ SpentInv)'
  BY NextType, NextUsed, NextSpent
<1> QED
  BY <1>1, <1>2, PTL DEF Spec

(* Once its handler is through, no row has a code any more, whatever       *)
(* sign-ups, renewals and answers ran beside it (Otp.SpentCodesAreGone).   *)
THEOREM UsedCodesAreGone == Spec => []SpentCodesAreGone
<1>1. SpentInv => SpentCodesAreGone
  BY DEF SpentInv
<1> QED
  BY SpentAlways, <1>1, PTL

(* When the rows of a code are deleted its account exists, or its password *)
(* was replaced (Otp.SpentCodesTookEffect).                                *)
THEOREM UsedCodesTookEffect == Spec => []SpentCodesTookEffect
<1>1. SpentInv => SpentCodesTookEffect
  BY DEF SpentInv
<1> QED
  BY SpentAlways, <1>1, PTL


=============================================================================

--------------------------- MODULE SessionsProofs ---------------------------
(***************************************************************************)
(* Proofs about Sessions, for any numbers of accounts, tokens and workers. *)
(* TypeInv adds to TypeOK what a handler carries at each stage.  HonestInv *)
(* says of every session, issued or about to be, that it is outdated or    *)
(* was opened with a password that still counts.                           *)
(***************************************************************************)
EXTENDS Sessions, FiniteSetTheorems, TLAPS

\* Handlers that have not seen a credential yet.
Unseen == {"idle", "login", "wrong", "expire"}
\* Handlers that carry a session from one row to the next.
Bearing == {"clear", "issue", "rotate", "recheck"}

JobOK(j) ==
  /\ j.op # "idle"      => j.acc \in Accounts
  /\ j.op \notin Unseen => j.acc \in known
  /\ j.op \in {"rotate", "recheck"} => j.tok \in Tokens
  /\ j.op \in {"setup", "setupRead"} => j.acc \in Ops

TypeInv ==
  /\ TypeOK
  /\ \A t \in Tokens : token[t].acc = None => token[t] = NoSession
  /\ \A w \in Workers : JobOK(job[w])

LEMMA InitType == Init => TypeInv
BY SessionsAssumption DEF Init, TypeInv, TypeOK, JobOK, Unseen, Stages, SessionRows, NoSession,
   Jobs, Idle, Counters, NoCounter

(* What a handler becomes when it begins, goes on or ends.                 *)
LEMMA BeginRecord ==
  ASSUME job \in [Workers -> Jobs], NEW w \in Workers, NEW op \in Stages, NEW a \in Accounts,
         NEW tv \in Nat, NEW pw \in Nat, NEW tok \in Tokens \cup {None},
         Begin(w, op, a, tv, pw, tok)
  PROVE  /\ job' \in [Workers -> Jobs]
         /\ job'[w].op = op /\ job'[w].acc = a /\ job'[w].tv = tv
         /\ job'[w].pw = pw /\ job'[w].tok = tok
BY DEF Begin, Jobs

LEMMA StepRecord ==
  ASSUME job \in [Workers -> Jobs], NEW w \in Workers, NEW op \in Stages, Step(w, op)
  PROVE  /\ job' \in [Workers -> Jobs]
         /\ job'[w].op = op /\ job'[w].acc = job[w].acc /\ job'[w].tv = job[w].tv
         /\ job'[w].pw = job[w].pw /\ job'[w].tok = job[w].tok
BY DEF Step, Jobs

LEMMA FinishRecord ==
  ASSUME job \in [Workers -> Jobs], NEW w \in Workers, Finish(w)
  PROVE  job' \in [Workers -> Jobs] /\ job'[w] = Idle
BY DEF Finish, Jobs, Idle, Stages

LEMMA OthersKeepTheirJobs ==
  ASSUME TypeInv, NEW w \in Workers, Call(w) \/ Continue(w) \/ Crash(w)
  PROVE  \A v \in Workers \ {w} : job'[v] = job[v]
<1> USE DEF Begin, Step, Finish, TypeInv, TypeOK
<1>1. CASE Call(w)
  BY <1>1 DEF Call, SignUp, Login, ResetPassword, RefreshSession, Logout, CompleteOpsSetup
<1>2. CASE Continue(w)
  BY <1>2 DEF Continue, LoginCompare, RecordFailure, Incr, SetExpiry, ClearFailures,
     IssueSessionTokens, RefreshDel, RefreshRecheck, RevokeSession, SetupCommit, SetupRead,
     ResetCommit
<1>3. CASE Crash(w)
  BY <1>3 DEF Crash
<1> QED BY <1>1, <1>2, <1>3

(* A call keeps the tables, or creates the account, and its handler begins *)
(* with an account its stage may work on.                                  *)
LEMMA CallBegins ==
  ASSUME TypeInv, NEW w \in Workers, Call(w)
  PROVE  /\ UNCHANGED <<version, disabled, password, token, keys, fails>>
         /\ known \subseteq known' /\ known' \subseteq Accounts
         /\ job' \in [Workers -> Jobs]
         /\ JobOK(job[w])'
<1> USE SessionsAssumption DEF TypeInv, TypeOK
<1> DEFINE Begun == /\ known \subseteq known' /\ known' \subseteq Accounts
                    /\ job' \in [Workers -> Jobs]
                    /\ JobOK(job[w])'
<1>1. ASSUME NEW op \in Stages, NEW a \in Accounts, NEW tv \in Nat, NEW pw \in Nat,
             NEW tok \in Tokens \cup {None}, Begin(w, op, a, tv, pw, tok),
             known \subseteq known', known' \subseteq Accounts,
             op \notin Unseen => a \in known',
             op \in {"rotate", "recheck"} => tok \in Tokens, op \in {"setup", "setupRead"} => a \in Ops
      PROVE  Begun
  BY <1>1, BeginRecord DEF JobOK
<1>2. ASSUME NEW a \in Accounts, SignUp(w, a) PROVE Begun
  BY <1>1, <1>2 DEF SignUp, Stages
<1>3. ASSUME NEW a \in Accounts, Login(w, a) PROVE Begun
  BY <1>1, <1>3 DEF Login, Stages, Unseen, accountVars
<1>4. ASSUME NEW a \in Accounts, ResetPassword(w, a) PROVE Begun
  BY <1>1, <1>4 DEF ResetPassword, Stages, accountVars
<1>5. ASSUME NEW t \in Tokens, RefreshSession(w, t) PROVE Begun
  <2>1. token[t].acc \in known /\ token[t].tv \in Nat /\ token[t].pw \in Nat
    BY <1>5 DEF RefreshSession, SessionRows
  <2>2. UNCHANGED known
    BY <1>5 DEF RefreshSession, accountVars
  <2> QED BY <1>1, <1>5, <2>1, <2>2 DEF RefreshSession, Stages
<1>6. ASSUME NEW t \in Tokens, Logout(w, t) PROVE Begun
  BY <1>1, <1>6 DEF Logout, Valid, Stages, accountVars
<1>7. ASSUME NEW t \in Tokens, CompleteOpsSetup(w, t) PROVE Begun
  BY <1>1, <1>7 DEF CompleteOpsSetup, Valid, Stages, accountVars
<1>8. UNCHANGED <<version, disabled, password, token, keys, fails>>
  BY DEF Call, SignUp, Login, ResetPassword, RefreshSession, Logout, CompleteOpsSetup, accountVars
<1> QED BY <1>2, <1>3, <1>4, <1>5, <1>6, <1>7, <1>8 DEF Call

LEMMA CallType ==
  ASSUME TypeInv, NEW w \in Workers, Call(w)
  PROVE  TypeInv'
<1>1. \A v \in Workers : JobOK(job[v])'
  BY CallBegins, OthersKeepTheirJobs DEF JobOK, TypeInv
<1> QED BY <1>1, CallBegins DEF TypeInv, TypeOK

LEMMA ContinueType ==
  ASSUME TypeInv, NEW w \in Workers, Continue(w)
  PROVE  TypeInv'
<1> USE SessionsAssumption DEF TypeInv, TypeOK
<1>a. job[w] \in Jobs /\ JobOK(job[w])
  OBVIOUS
<1>i. Idle.op = "idle" /\ Idle.acc = None
  BY DEF Idle
<1>1. job' \in [Workers -> Jobs] /\ JobOK(job[w])'
  <2>1. ASSUME NEW correct \in BOOLEAN, LoginCompare(w, correct)
        PROVE  job' \in [Workers -> Jobs] /\ JobOK(job[w])'
    <3>1. CASE Step(w, "wrong") \/ Finish(w)
      BY <1>a, <1>i, <2>1, <3>1, StepRecord, FinishRecord DEF LoginCompare, At, accountVars, Stages, JobOK, Unseen
    <3>2. CASE /\ PasswordOk(job[w].acc, correct)
               /\ Begin(w, "clear", job[w].acc, version[job[w].acc], password[job[w].acc], None)
      <4>1. job[w].acc \in known
        BY <3>2 DEF PasswordOk
      <4>2. "clear" \in Stages
        BY DEF Stages
      <4>3. UNCHANGED known
        BY <2>1 DEF LoginCompare, accountVars
      <4> QED BY <3>2, <4>1, <4>2, <4>3, BeginRecord DEF JobOK
    <3> QED BY <2>1, <3>1, <3>2 DEF LoginCompare
  <2>2. CASE RecordFailure(w) \/ SetExpiry(w) \/ ClearFailures(w)
    BY <1>a, <1>i, <2>2, StepRecord, FinishRecord DEF RecordFailure, Incr, SetExpiry, ClearFailures, At,
       accountVars, Stages, JobOK, Unseen
  <2>3. CASE IssueSessionTokens(w) \/ RevokeSession(w)
    BY <1>i, <2>3, StepRecord, FinishRecord DEF IssueSessionTokens, RevokeSession, JobOK, Unseen
  <2>4. CASE RefreshDel(w) \/ RefreshRecheck(w) \/ ResetCommit(w)
    BY <1>a, <1>i, <2>4, StepRecord, FinishRecord DEF RefreshDel, RefreshRecheck, ResetCommit, At,
       accountVars, Stages, JobOK, Unseen
  <2>5. CASE SetupCommit(w) \/ SetupRead(w)
    <3>1. /\ job[w].acc \in known \cap Ops /\ job[w].pw \in Nat
          /\ password[job[w].acc] + 1 \in Nat /\ version[job[w].acc] \in Nat
      BY <1>a, <2>5 DEF SetupCommit, SetupRead, At, JobOK, Unseen, Jobs
    <3>2. UNCHANGED known
      BY <2>5 DEF SetupCommit, SetupRead, accountVars
    <3>3. {"setupRead", "issue"} \subseteq Stages
      BY DEF Stages
    <3> QED BY <2>5, <3>1, <3>2, <3>3, BeginRecord DEF SetupCommit, SetupRead, JobOK
  <2> QED BY <2>1, <2>2, <2>3, <2>4, <2>5 DEF Continue
<1>2. UNCHANGED <<known, disabled>>
  BY DEF Continue, LoginCompare, RecordFailure, SetExpiry, ClearFailures, IssueSessionTokens,
     RefreshDel, RefreshRecheck, RevokeSession, SetupCommit, SetupRead, ResetCommit, accountVars
<1>3. version' \in [Accounts -> Nat] /\ password' \in [Accounts -> Nat]
  <2>1. CASE SetupCommit(w) \/ ResetCommit(w) \/ RevokeSession(w)
    BY <1>a, <2>1 DEF RevokeSession, SetupCommit, ResetCommit, NewPassword
  <2>2. CASE ~(SetupCommit(w) \/ ResetCommit(w) \/ RevokeSession(w))
    BY <2>2 DEF Continue, LoginCompare, RecordFailure, SetExpiry, ClearFailures,
       IssueSessionTokens, RefreshDel, RefreshRecheck, SetupRead, accountVars
  <2> QED BY <2>1, <2>2
<1>4. fails' \in [Accounts -> Counters]
  <2>1. CASE RecordFailure(w) \/ SetExpiry(w) \/ ClearFailures(w)
    <3>1. \A c \in Counters : /\ c.n \in Nat
                              /\ [c EXCEPT !.n = c.n + 1] \in Counters
                              /\ [n |-> c.n + 1, ttl |-> TRUE] \in Counters
                              /\ \A b \in BOOLEAN : [c EXCEPT !.ttl = b] \in Counters
      BY DEF Counters
    <3>2. NoCounter \in Counters
      BY DEF NoCounter, Counters
    <3>3. CASE RecordFailure(w)
      BY <3>1, <3>3 DEF RecordFailure, Incr
    <3>4. CASE SetExpiry(w)
      <4>1. (fails[job[w].acc].n > 0) \in BOOLEAN
        OBVIOUS
      <4> QED BY <3>1, <3>4, <4>1 DEF SetExpiry
    <3>5. CASE ClearFailures(w)
      BY <3>2, <3>5 DEF ClearFailures, DropCounter
    <3> QED BY <2>1, <3>3, <3>4, <3>5
  <2>2. CASE ~(RecordFailure(w) \/ SetExpiry(w) \/ ClearFailures(w))
    BY <2>2 DEF Continue, LoginCompare, IssueSessionTokens, RefreshDel, RefreshRecheck,
       RevokeSession, SetupCommit, SetupRead, ResetCommit
  <2> QED BY <2>1, <2>2
<1>5. /\ token' \in [Tokens -> SessionRows] /\ keys' \subseteq Tokens
      /\ \A t \in Tokens : /\ token'[t].acc \in known \cup {None}
                           /\ token'[t].acc = None => token'[t] = NoSession
  <2>1. CASE IssueSessionTokens(w)
    BY <1>a, <2>1 DEF IssueSessionTokens, At, SessionRows, Jobs, JobOK, Unseen
  <2>2. CASE ~IssueSessionTokens(w)
    BY <2>2 DEF Continue, LoginCompare, RecordFailure, SetExpiry, ClearFailures, RefreshDel,
       RefreshRecheck, RevokeSession, SetupCommit, SetupRead, ResetCommit
  <2> QED BY <2>1, <2>2
<1>6. \A v \in Workers : JobOK(job[v])'
  BY <1>1, <1>2, OthersKeepTheirJobs DEF JobOK
<1> QED BY <1>1, <1>2, <1>3, <1>4, <1>5, <1>6

LEMMA TypeStep == TypeInv /\ [Next]_vars => TypeInv'
<1> SUFFICES ASSUME TypeInv, [Next]_vars PROVE TypeInv'
  OBVIOUS
<1>1. CASE Environment
  BY <1>1 DEF Environment, CreateAgent, SetAgentDisabled, TypeInv, TypeOK, JobOK
<1>2. ASSUME NEW w \in Workers, Crash(w) PROVE TypeInv'
  <2>1. job' \in [Workers -> Jobs] /\ job'[w] = Idle
    BY <1>2, StepRecord, FinishRecord DEF Crash, TypeInv, TypeOK
  <2>2. \A v \in Workers : JobOK(job[v])'
    BY <1>2, <2>1, OthersKeepTheirJobs DEF TypeInv, JobOK, Idle, Unseen, Crash, accountVars
  <2> QED BY <1>2, <2>1, <2>2 DEF Crash, accountVars, TypeInv, TypeOK
<1>3. CASE Restart
  BY <1>3 DEF Restart, accountVars, TypeInv, TypeOK, JobOK, Idle, Jobs, Stages, Unseen, Counters,
     NoCounter
<1>4. CASE \E a \in Accounts : CounterExpires(a)
  BY <1>4 DEF CounterExpires, DropCounter, accountVars, TypeInv, TypeOK, JobOK, Counters, NoCounter
<1>5. CASE UNCHANGED vars
  BY <1>5 DEF vars, accountVars, TypeInv, TypeOK, JobOK
<1> QED BY <1>1, <1>2, <1>3, <1>4, <1>5, CallType, ContinueType DEF Next

(* Sessions belong to accounts that exist and handlers carry what their    *)
(* stage needs: no sign-in proceeds without a credential.                  *)
THEOREM SessionsTyped == Spec => []TypeOK
<1>1. Spec => []TypeInv
  BY InitType, TypeStep, PTL DEF Spec
<1>2. TypeInv => TypeOK
  BY DEF TypeInv
<1> QED BY <1>1, <1>2, PTL

-----------------------------------------------------------------------------
(* Passwords.                                                              *)

\* Whether a session opened with password p may still be used.
Counts(a, p) == IF a \in Ops THEN password[a] > 0 => p > 0 ELSE p = password[a]

\* s is a session or a handler that bears one.
Honest(s) ==
  /\ s.tv <= version[s.acc]
  /\ s.tv = version[s.acc] => Counts(s.acc, s.pw)

HonestJob(j) ==
  /\ j.op \in Bearing => Honest(j)
  /\ j.op = "setupRead" => j.pw > 0

HonestInv ==
  /\ \A a \in Accounts \ known : version[a] = 0 /\ password[a] = 0
  /\ \A t \in Tokens : token[t] # NoSession => Honest(token[t])
  /\ \A w \in Workers : HonestJob(job[w])

LEMMA HonestInit == Init => HonestInv
BY DEF Init, HonestInv, HonestJob, Bearing, Idle

\* Versions only rise, and always with the password.
Revoked(a) == version'[a] = version[a] + 1
Kept(a)    == version'[a] = version[a] /\ password'[a] = password[a]

LEMMA VersionsRise ==
  ASSUME TypeInv, [Next]_vars, NEW a \in Accounts
  PROVE  Revoked(a) \/ Kept(a)
<1> USE DEF TypeInv, TypeOK, Revoked, Kept
<1>1. CASE Environment
  BY <1>1 DEF Environment, CreateAgent, SetAgentDisabled
<1>2. ASSUME NEW w \in Workers, Call(w) PROVE Kept(a)
  BY <1>2, CallBegins
<1>3. ASSUME NEW w \in Workers, Continue(w) PROVE Revoked(a) \/ Kept(a)
  BY <1>3 DEF Continue, LoginCompare, RecordFailure, SetExpiry, ClearFailures, IssueSessionTokens,
     RefreshDel, RefreshRecheck, RevokeSession, SetupCommit, SetupRead, ResetCommit, accountVars,
     NewPassword
<1>4. CASE (\E w \in Workers : Crash(w)) \/ Restart \/ (\E b \in Accounts : CounterExpires(b))
  BY <1>4 DEF Crash, Restart, CounterExpires, accountVars
<1>5. CASE UNCHANGED vars
  BY <1>5 DEF vars, accountVars
<1> QED BY <1>1, <1>2, <1>3, <1>4, <1>5 DEF Next

\* What was honest stays so.
LEMMA HonestStays ==
  ASSUME TypeInv, [Next]_vars, NEW s, s.acc \in Accounts, s.tv \in Nat, Honest(s)
  PROVE  /\ s.tv <= version'[s.acc]
         /\ s.tv = version'[s.acc] =>
              IF s.acc \in Ops THEN password'[s.acc] > 0 => s.pw > 0
                               ELSE s.pw = password'[s.acc]
BY VersionsRise DEF Honest, Counts, Revoked, Kept, TypeInv, TypeOK

LEMMA CallHonest ==
  ASSUME TypeInv, HonestInv, NEW w \in Workers, Call(w)
  PROVE  HonestJob(job[w])'
<1> USE SessionsAssumption DEF TypeInv, TypeOK
<1>k. UNCHANGED <<version, password>>
  BY CallBegins
<1>1. ASSUME NEW a \in Accounts, SignUp(w, a) PROVE HonestJob(job[w])'
  <2>1. version[a] = 0 /\ password[a] = 0 /\ a \notin Ops
    BY <1>1 DEF SignUp, HonestInv
  <2>2. /\ job'[w].op = "issue" /\ job'[w].acc = a /\ job'[w].tv = 0 /\ job'[w].pw = 0
    BY <1>1, BeginRecord DEF SignUp, Stages
  <2> QED BY <1>k, <2>1, <2>2 DEF HonestJob, Honest, Counts
<1>2. ASSUME NEW a \in Accounts, Login(w, a) \/ ResetPassword(w, a) PROVE HonestJob(job[w])'
  <2>1. job'[w].op \in {"login", "reset"}
    BY <1>2, BeginRecord DEF Login, ResetPassword, Stages
  <2> QED BY <2>1 DEF HonestJob, Bearing
<1>3. ASSUME NEW t \in Tokens, RefreshSession(w, t) PROVE HonestJob(job[w])'
  <2>1. /\ token[t].acc \in Accounts /\ token[t].tv \in Nat /\ token[t].pw \in Nat
        /\ Honest(token[t])
    BY <1>3 DEF RefreshSession, SessionRows, HonestInv
  <2>2. \/ job'[w].op = "revoke"
        \/ /\ job'[w].op = "rotate" /\ job'[w].acc = token[t].acc
           /\ job'[w].tv = token[t].tv /\ job'[w].pw = token[t].pw
    <3>1. {"rotate", "revoke"} \subseteq Stages /\ 0 \in Nat
      BY DEF Stages
    <3>2. CASE Begin(w, "revoke", token[t].acc, 0, 0, None)
      BY <2>1, <3>1, <3>2, BeginRecord
    <3>3. CASE Begin(w, "rotate", token[t].acc, token[t].tv, token[t].pw, t)
      BY <2>1, <3>1, <3>3, BeginRecord
    <3> QED BY <1>3, <3>2, <3>3 DEF RefreshSession
  <2> QED BY <1>k, <2>1, <2>2 DEF HonestJob, Honest, Counts, Bearing
<1>4. ASSUME NEW t \in Tokens, Logout(w, t) \/ CompleteOpsSetup(w, t) PROVE HonestJob(job[w])'
  <2>1. job'[w].op \in {"revoke", "setup"}
    BY <1>4, BeginRecord DEF Logout, CompleteOpsSetup, Valid, Stages
  <2> QED BY <2>1 DEF HonestJob, Bearing
<1> QED BY <1>1, <1>2, <1>3, <1>4 DEF Call

LEMMA ContinueHonest ==
  ASSUME TypeInv, HonestInv, [Next]_vars, NEW w \in Workers, Continue(w)
  PROVE  HonestJob(job[w])'
<1> USE DEF TypeInv, TypeOK
<1>a. job[w] \in Jobs /\ JobOK(job[w]) /\ HonestJob(job[w])
  BY DEF HonestInv
<1>f. Finish(w) => HonestJob(job[w])'
  BY FinishRecord DEF HonestJob, Bearing, Idle
<1>s. ASSUME NEW op \in Stages \ (Bearing \cup {"setupRead"}), Step(w, op)
      PROVE  HonestJob(job[w])'
  BY <1>s, StepRecord DEF HonestJob
<1>b. ASSUME NEW op \in Bearing, Step(w, op), job[w].op \in Bearing PROVE HonestJob(job[w])'
  <2>1. job[w].acc \in Accounts /\ job[w].tv \in Nat /\ Honest(job[w])
    BY <1>a, <1>b DEF Jobs, JobOK, HonestJob, Bearing
  <2>2. op \in Stages /\ op # "setupRead"
    BY DEF Bearing, Stages
  <2>3. /\ job'[w].op = op /\ job'[w].acc = job[w].acc /\ job'[w].tv = job[w].tv
        /\ job'[w].pw = job[w].pw
    BY <1>b, <2>2, StepRecord
  <2> QED BY <2>1, <2>2, <2>3, HonestStays DEF HonestJob, Honest, Counts
<1>1. ASSUME NEW correct \in BOOLEAN, LoginCompare(w, correct) PROVE HonestJob(job[w])'
  <2>1. CASE Begin(w, "clear", job[w].acc, version[job[w].acc], password[job[w].acc], None)
    <3>1. job[w].acc \in Accounts /\ "clear" \in Stages
      BY <1>a, <1>1 DEF LoginCompare, At, JobOK, Stages
    <3>2. /\ job'[w].op = "clear" /\ job'[w].acc = job[w].acc
          /\ job'[w].tv = version[job[w].acc] /\ job'[w].pw = password[job[w].acc]
      BY <2>1, <3>1, BeginRecord
    <3>3. UNCHANGED <<version, password>>
      BY <1>1 DEF LoginCompare, accountVars
    <3> QED BY <3>1, <3>2, <3>3 DEF HonestJob, Honest, Counts
  <2>2. CASE Step(w, "wrong") \/ Finish(w)
    BY <1>f, <1>s, <2>2 DEF Bearing, Stages
  <2> QED BY <1>1, <2>1, <2>2 DEF LoginCompare
<1>2. CASE RecordFailure(w) \/ SetExpiry(w)
  BY <1>f, <1>s, <1>2 DEF RecordFailure, Incr, SetExpiry, Bearing, Stages
<1>3. CASE ClearFailures(w)
  BY <1>f, <1>b, <1>3 DEF ClearFailures, At, Bearing
<1>4. CASE IssueSessionTokens(w) \/ RevokeSession(w)
  BY <1>f, <1>4 DEF IssueSessionTokens, RevokeSession
<1>5. CASE RefreshDel(w) \/ RefreshRecheck(w)
  BY <1>f, <1>b, <1>5 DEF RefreshDel, RefreshRecheck, At, Bearing
<1>6. CASE SetupCommit(w)
  <2>1. job[w].acc \in Accounts /\ password[job[w].acc] + 1 \in Nat /\ "setupRead" \in Stages
    BY <1>a, <1>6 DEF SetupCommit, At, JobOK, Stages
  <2>2. Begin(w, "setupRead", job[w].acc, 0, password[job[w].acc] + 1, None) /\ 0 \in Nat
    BY <1>6 DEF SetupCommit
  <2>3. job'[w].op = "setupRead" /\ job'[w].pw = password[job[w].acc] + 1
    BY <2>1, <2>2, BeginRecord
  <2>4. password[job[w].acc] \in Nat
    BY <2>1
  <2> QED BY <2>3, <2>4 DEF HonestJob, Bearing
<1>7. CASE SetupRead(w)
  <2>1. /\ job[w].acc \in Accounts \cap Ops /\ job[w].pw \in Nat /\ job[w].pw > 0
        /\ version[job[w].acc] \in Nat /\ "issue" \in Stages
    BY <1>a, <1>7 DEF SetupRead, At, JobOK, Stages, HonestJob, Jobs
  <2>2. /\ job'[w].op = "issue" /\ job'[w].acc = job[w].acc /\ job'[w].pw = job[w].pw
        /\ job'[w].tv = version[job[w].acc]
    BY <1>7, <2>1, BeginRecord DEF SetupRead
  <2>3. UNCHANGED <<version, password>>
    BY <1>7 DEF SetupRead, accountVars
  <2> QED BY <2>1, <2>2, <2>3 DEF HonestJob, Honest, Counts
<1>8. CASE ResetCommit(w)
  BY <1>s, <1>8 DEF ResetCommit, Bearing, Stages
<1> QED BY <1>1, <1>2, <1>3, <1>4, <1>5, <1>6, <1>7, <1>8 DEF Continue

\* A session comes from a handler that bears it.
LEMMA SessionsComeFromHandlers ==
  ASSUME TypeInv, [Next]_vars, NEW t \in Tokens, token'[t] # token[t]
  PROVE  \E w \in Workers : /\ IssueSessionTokens(w)
                            /\ token'[t] = [acc |-> job[w].acc, tv |-> job[w].tv,
                                            pw |-> job[w].pw]
<1> USE DEF TypeInv, TypeOK
<1>1. PICK w \in Workers : IssueSessionTokens(w)
  BY DEF Next, Environment, CreateAgent, SetAgentDisabled, Call, SignUp, Login, ResetPassword,
     RefreshSession, Logout, CompleteOpsSetup, Continue, LoginCompare, RecordFailure, SetExpiry,
     ClearFailures, RefreshDel, RefreshRecheck, RevokeSession, SetupCommit, SetupRead,
     ResetCommit, Crash, Restart, CounterExpires, vars
<1> QED BY <1>1 DEF IssueSessionTokens

LEMMA HonestStep == TypeInv /\ HonestInv /\ [Next]_vars => HonestInv'
<1> SUFFICES ASSUME TypeInv, HonestInv, [Next]_vars PROVE HonestInv'
  OBVIOUS
<1> USE DEF TypeInv, TypeOK
<1>1. ASSUME NEW a \in Accounts \ known' PROVE version'[a] = 0 /\ password'[a] = 0
  <2>1. a \notin known /\ version[a] = 0 /\ password[a] = 0
    BY <1>1, CallBegins DEF HonestInv, Next, Environment, CreateAgent, SetAgentDisabled, Continue,
       LoginCompare, RecordFailure, SetExpiry, ClearFailures, IssueSessionTokens, RefreshDel,
       RefreshRecheck, RevokeSession, SetupCommit, SetupRead, ResetCommit, Crash, Restart,
       CounterExpires, vars, accountVars
  <2>2. ASSUME NEW w \in Workers, RevokeSession(w) \/ SetupCommit(w) \/ ResetCommit(w)
        PROVE  job[w].acc # a
    BY <2>1, <2>2 DEF RevokeSession, SetupCommit, ResetCommit, At, JobOK, Unseen
  <2> QED BY <2>1, <2>2, CallBegins DEF Next, Environment, CreateAgent, SetAgentDisabled, Continue,
       LoginCompare, RecordFailure, SetExpiry, ClearFailures, IssueSessionTokens, RefreshDel,
       RefreshRecheck, RevokeSession, SetupCommit, SetupRead, ResetCommit, NewPassword, Crash,
       Restart, CounterExpires, vars, accountVars
<1>2. ASSUME NEW t \in Tokens, token'[t] # NoSession PROVE Honest(token[t])'
  <2>1. CASE token'[t] = token[t]
    <3>1. token[t].acc \in Accounts /\ token[t].tv \in Nat /\ Honest(token[t])
      BY <1>2, <2>1 DEF SessionRows, HonestInv
    <3> QED BY <2>1, <3>1, HonestStays DEF Honest, Counts
  <2>2. CASE token'[t] # token[t]
    <3>1. PICK w \in Workers : /\ IssueSessionTokens(w)
                               /\ token'[t] = [acc |-> job[w].acc, tv |-> job[w].tv,
                                               pw |-> job[w].pw]
      BY <2>2, SessionsComeFromHandlers
    <3>2. job[w].acc \in Accounts /\ job[w].tv \in Nat /\ Honest(job[w])
      BY <3>1 DEF IssueSessionTokens, At, HonestInv, HonestJob, Bearing, JobOK, Jobs
    <3> QED BY <3>1, <3>2, HonestStays DEF Honest, Counts
  <2> QED BY <2>1, <2>2
<1>3. ASSUME NEW v \in Workers, job'[v] = job[v] PROVE HonestJob(job[v])'
  <2>1. job[v] \in Jobs /\ JobOK(job[v]) /\ HonestJob(job[v])
    BY DEF HonestInv
  <2>2. CASE job[v].op \in Bearing
    <3>1. job[v].acc \in Accounts /\ job[v].tv \in Nat /\ Honest(job[v])
      BY <2>1, <2>2 DEF Jobs, JobOK, HonestJob, Bearing
    <3> QED BY <1>3, <2>1, <3>1, HonestStays DEF HonestJob, Honest, Counts
  <2>3. CASE job[v].op \notin Bearing
    BY <1>3, <2>1, <2>3 DEF HonestJob
  <2> QED BY <2>2, <2>3
<1>4. ASSUME NEW v \in Workers PROVE HonestJob(job[v])'
  <2>1. ASSUME NEW w \in Workers, Call(w) \/ Continue(w) \/ Crash(w) PROVE HonestJob(job[v])'
    <3>1. CASE v # w
      BY <1>3, <2>1, <3>1, OthersKeepTheirJobs
    <3>2. CASE v = w /\ (Call(w) \/ Continue(w))
      BY <2>1, <3>2, CallHonest, ContinueHonest
    <3>3. CASE v = w /\ Crash(w)
      BY <3>3, FinishRecord DEF Crash, HonestJob, Bearing, Idle
    <3> QED BY <2>1, <3>1, <3>2, <3>3
  <2>2. CASE Restart
    BY <2>2 DEF Restart, HonestJob, Bearing, Idle
  <2>3. CASE Environment \/ (\E a \in Accounts : CounterExpires(a)) \/ UNCHANGED vars
    <3>1. job'[v] = job[v]
      BY <2>3 DEF Environment, CreateAgent, SetAgentDisabled, CounterExpires, vars
    <3> QED BY <1>3, <3>1
  <2> QED BY <2>1, <2>2, <2>3 DEF Next
<1> QED BY <1>1, <1>2, <1>4 DEF HonestInv

(* A new password ends the sessions of the old one, even those that were   *)
(* being opened or rotated when it was replaced.                           *)
THEOREM OldPasswordsEnd == Spec => []PasswordChangeEndsSessions
<1>1. Spec => [](TypeInv /\ HonestInv)
  BY InitType, TypeStep, HonestInit, HonestStep, PTL DEF Spec
<1>2. TypeInv /\ HonestInv => PasswordChangeEndsSessions
  BY DEF HonestInv, Honest, Counts, PasswordChangeEndsSessions
<1> QED BY <1>1, <1>2, PTL

-----------------------------------------------------------------------------
(* Rotations.                                                              *)

\* A rotation in flight started from a session of the same version.
RotatedFrom(j) ==
  j.tok # None => /\ j.op \in Bearing
                  /\ j.tok \in Tokens
                  /\ token[j.tok] # NoSession
                  /\ token[j.tok].acc = j.acc /\ token[j.tok].tv = j.tv

RotationInv == \A w \in Workers : RotatedFrom(job[w])

LEMMA RotationInit == Init => RotationInv
BY DEF Init, RotationInv, RotatedFrom, Idle

LEMMA SessionsStay ==
  ASSUME TypeInv, [Next]_vars, NEW t \in Tokens, token[t] # NoSession
  PROVE  token'[t] = token[t]
<1>1. SUFFICES ASSUME token'[t] # token[t] PROVE FALSE
  OBVIOUS
<1>2. PICK w \in Workers : IssueSessionTokens(w)
  BY <1>1, SessionsComeFromHandlers
<1>3. ASSUME NEW u \in Tokens, token[u] = NoSession,
             token' = [token EXCEPT ![u] = [acc |-> job[w].acc, tv |-> job[w].tv,
                                           pw |-> job[w].pw]]
      PROVE  FALSE
  BY <1>1, <1>3 DEF TypeInv, TypeOK
<1> QED BY <1>1, <1>2, <1>3 DEF IssueSessionTokens

LEMMA CallRotation ==
  ASSUME TypeInv, NEW w \in Workers, Call(w)
  PROVE  RotatedFrom(job[w])'
<1> USE SessionsAssumption DEF TypeInv, TypeOK
<1>k. UNCHANGED token
  BY CallBegins
<1>n. ASSUME NEW op \in Stages, NEW a \in Accounts, Begin(w, op, a, 0, 0, None)
      PROVE  RotatedFrom(job[w])'
  BY <1>n, BeginRecord DEF RotatedFrom
<1>1. ASSUME NEW a \in Accounts, SignUp(w, a) \/ Login(w, a) \/ ResetPassword(w, a)
      PROVE  RotatedFrom(job[w])'
  BY <1>1, <1>n DEF SignUp, Login, ResetPassword, Stages
<1>2. ASSUME NEW t \in Tokens, Logout(w, t) \/ CompleteOpsSetup(w, t)
      PROVE  RotatedFrom(job[w])'
  BY <1>2, <1>n DEF Logout, CompleteOpsSetup, Valid, Stages
<1>3. ASSUME NEW t \in Tokens, RefreshSession(w, t) PROVE RotatedFrom(job[w])'
  <2>1. token[t].acc \in Accounts /\ token[t].tv \in Nat /\ token[t].pw \in Nat
    BY <1>3 DEF RefreshSession, SessionRows
  <2>2. {"rotate", "revoke"} \subseteq Stages
    BY DEF Stages
  <2>3. CASE Begin(w, "revoke", token[t].acc, 0, 0, None)
    BY <1>n, <2>1, <2>2, <2>3
  <2>4. CASE Begin(w, "rotate", token[t].acc, token[t].tv, token[t].pw, t)
    <3>1. /\ job'[w].op = "rotate" /\ job'[w].tok = t
          /\ job'[w].acc = token[t].acc /\ job'[w].tv = token[t].tv
      BY <2>1, <2>2, <2>4, BeginRecord
    <3> QED BY <1>k, <1>3, <3>1 DEF RefreshSession, RotatedFrom, Bearing
  <2> QED BY <1>3, <2>3, <2>4 DEF RefreshSession
<1> QED BY <1>1, <1>2, <1>3 DEF Call

LEMMA ContinueRotation ==
  ASSUME TypeInv, RotationInv, [Next]_vars, NEW w \in Workers, Continue(w)
  PROVE  RotatedFrom(job[w])'
<1> USE SessionsAssumption DEF TypeInv, TypeOK
<1>a. job[w] \in Jobs /\ JobOK(job[w]) /\ RotatedFrom(job[w])
  BY DEF RotationInv
<1>f. Finish(w) => RotatedFrom(job[w])'
  BY FinishRecord DEF RotatedFrom, Idle
<1>n. ASSUME NEW op \in Stages, NEW tv \in Nat, NEW pw \in Nat, job[w].acc \in Accounts,
             Begin(w, op, job[w].acc, tv, pw, None)
      PROVE  RotatedFrom(job[w])'
  BY <1>n, BeginRecord DEF RotatedFrom
<1>s. ASSUME NEW op \in Stages, Step(w, op), job[w].op \in Bearing => op \in Bearing
      PROVE  RotatedFrom(job[w])'
  BY <1>a, <1>s, StepRecord, SessionsStay DEF RotatedFrom
<1>1. ASSUME NEW correct \in BOOLEAN, LoginCompare(w, correct) PROVE RotatedFrom(job[w])'
  <2>1. /\ job[w].acc \in Accounts /\ {"wrong", "clear"} \subseteq Stages
        /\ job[w].op \notin Bearing
    BY <1>a, <1>1 DEF LoginCompare, At, JobOK, Stages, Bearing
  <2> QED BY <1>f, <1>n, <1>s, <1>1, <2>1 DEF LoginCompare
<1>2. CASE RecordFailure(w) \/ SetExpiry(w) \/ ResetCommit(w)
  BY <1>f, <1>s, <1>2 DEF RecordFailure, Incr, SetExpiry, ResetCommit, At, Stages, Bearing
<1>3. CASE IssueSessionTokens(w) \/ RevokeSession(w)
  BY <1>f, <1>3 DEF IssueSessionTokens, RevokeSession
<1>4. CASE ClearFailures(w) \/ RefreshDel(w) \/ RefreshRecheck(w)
  BY <1>f, <1>s, <1>4 DEF ClearFailures, RefreshDel, RefreshRecheck, Stages, Bearing
<1>5. CASE SetupCommit(w) \/ SetupRead(w)
  <2>1. /\ job[w].acc \in Accounts /\ {"setupRead", "issue"} \subseteq Stages
        /\ job[w].pw \in Nat /\ password[job[w].acc] + 1 \in Nat /\ 0 \in Nat
        /\ version[job[w].acc] \in Nat
    BY <1>a, <1>5 DEF SetupCommit, SetupRead, At, JobOK, Stages, Jobs
  <2> QED BY <1>n, <1>5, <2>1 DEF SetupCommit, SetupRead
<1> QED BY <1>1, <1>2, <1>3, <1>4, <1>5 DEF Continue

LEMMA RotationStep == TypeInv /\ RotationInv /\ [Next]_vars => RotationInv'
<1> SUFFICES ASSUME TypeInv, RotationInv, [Next]_vars, NEW v \in Workers
             PROVE  RotatedFrom(job[v])'
  BY DEF RotationInv
<1>1. job'[v] = job[v] => RotatedFrom(job[v])'
  BY SessionsStay DEF RotationInv, RotatedFrom
<1>2. ASSUME NEW w \in Workers, Call(w) \/ Continue(w) \/ Crash(w) PROVE RotatedFrom(job[v])'
  <2>1. CASE v # w
    BY <1>1, <1>2, <2>1, OthersKeepTheirJobs
  <2>2. CASE v = w /\ (Call(w) \/ Continue(w))
    BY <1>2, <2>2, CallRotation, ContinueRotation
  <2>3. CASE v = w /\ Crash(w)
    BY <2>3, FinishRecord DEF Crash, RotatedFrom, Idle, TypeInv, TypeOK
  <2> QED BY <1>2, <2>1, <2>2, <2>3
<1>3. CASE Restart
  BY <1>3 DEF Restart, RotatedFrom, Idle
<1>4. CASE Environment \/ (\E a \in Accounts : CounterExpires(a)) \/ UNCHANGED vars
  <2>1. job'[v] = job[v]
    BY <1>4 DEF Environment, CreateAgent, SetAgentDisabled, CounterExpires, vars
  <2> QED BY <1>1, <2>1
<1> QED BY <1>2, <1>3, <1>4 DEF Next

LEMMA OnlySignInStep ==
  ASSUME TypeInv, HonestInv, RotationInv, [Next]_vars,
         NEW a \in Accounts, SignedIn(a)', ~SignedIn(a)
  PROVE  \E w \in Workers : At(w, "issue") /\ job[w].acc = a /\ job[w].tok = None
<1> USE SessionsAssumption DEF TypeInv, TypeOK
<1>1. PICK t \in Tokens : token'[t].acc = a /\ token'[t].tv = version'[a]
  BY DEF SignedIn
<1>2. CASE token'[t] = token[t]
  <2>1. token[t] # NoSession /\ Honest(token[t]) /\ token[t].tv \in Nat /\ version[a] \in Nat
    BY <1>1, <1>2 DEF NoSession, HonestInv, SessionRows
  <2>2. version'[a] > version[a]
    BY <1>1, <1>2, VersionsRise DEF SignedIn, Revoked, Kept
  <2> QED BY <1>1, <1>2, <2>1, <2>2 DEF Honest
<1>3. CASE token'[t] # token[t]
  <2>1. PICK w \in Workers : /\ IssueSessionTokens(w)
                             /\ token'[t] = [acc |-> job[w].acc, tv |-> job[w].tv,
                                             pw |-> job[w].pw]
    BY <1>3, SessionsComeFromHandlers
  <2>2. At(w, "issue") /\ job[w].acc = a /\ job[w].tv = version[a]
    BY <1>1, <2>1 DEF IssueSessionTokens, accountVars
  <2>3. job[w].tok = None
    BY <2>2 DEF RotationInv, RotatedFrom, SignedIn
  <2> QED BY <2>2, <2>3
<1> QED BY <1>2, <1>3

(* Once the sessions of an account are revoked, no rotation brings one     *)
(* back: only a sign-in or a new password does.                            *)
THEOREM RevokedAccountsStaySignedOut == Spec => OnlySignInOpensSessions
<1>1. TypeInv /\ HonestInv /\ RotationInv /\ [Next]_vars =>
        [\A a \in Accounts :
            SignedIn(a)' /\ ~SignedIn(a) =>
              \E w \in Workers : At(w, "issue") /\ job[w].acc = a /\ job[w].tok = None]_vars
  BY OnlySignInStep
<1>2. Spec => [](TypeInv /\ HonestInv /\ RotationInv)
  BY InitType, TypeStep, HonestInit, HonestStep, RotationInit, RotationStep, PTL DEF Spec
<1> QED BY <1>1, <1>2, PTL DEF Spec, OnlySignInOpensSessions

-----------------------------------------------------------------------------
(* SessionContract.  What a handler bears counts for the contract while    *)
(* its version is the account's, so that a revocation takes with it        *)
(* whatever was read before.                                               *)

Bears(j, a, v) == j.op \in {"clear", "issue"} /\ j.acc = a /\ j.tok = None /\ j.tv = v

OpenNow == {a \in Accounts : SignedIn(a)}

LEMMA ProvedIs ==
  /\ Proved  = {a \in Accounts : \E w \in Workers : Bears(job[w], a, version[a])}
  /\ Proved' = {a \in Accounts : \E w \in Workers : Bears(job'[w], a, version'[a])}
BY DEF Proved, Bears, At

LEMMA SettingIs ==
  /\ Setting  = {a \in Accounts : \E w \in Workers : job[w].op = "setupRead" /\ job[w].acc = a}
  /\ Setting' = {a \in Accounts : \E w \in Workers : job'[w].op = "setupRead" /\ job'[w].acc = a}
BY DEF Setting, At

LEMMA OpenStays == UNCHANGED <<version, token>> => OpenNow' = OpenNow
BY DEF OpenNow, SignedIn

\* Only the job of w changes, and no version.
LEMMA OneBearer ==
  ASSUME NEW w \in Workers, \A v \in Workers \ {w} : job'[v] = job[v], UNCHANGED version
  PROVE  /\ \A a \in Accounts :
              /\ a \in Proved' => a \in Proved \/ Bears(job'[w], a, version[a])
              /\ a \in Proved => a \in Proved' \/ Bears(job[w], a, version[a])
              /\ Bears(job'[w], a, version[a]) => a \in Proved'
              /\ Bears(job[w], a, version[a]) => a \in Proved
<1>1. ASSUME NEW a \in Accounts, NEW v \in Workers, v # w
      PROVE  Bears(job'[v], a, version'[a]) <=> Bears(job[v], a, version[a])
  BY <1>1
<1> QED BY <1>1, ProvedIs

LEMMA OneSetter ==
  ASSUME NEW w \in Workers, \A v \in Workers \ {w} : job'[v] = job[v]
  PROVE  \A a \in Accounts :
           /\ a \in Setting' =>
                a \in Setting \/ (job'[w].op = "setupRead" /\ job'[w].acc = a)
           /\ a \in Setting =>
                a \in Setting' \/ (job[w].op = "setupRead" /\ job[w].acc = a)
           /\ job'[w].op = "setupRead" /\ job'[w].acc = a => a \in Setting'
           /\ job[w].op = "setupRead" /\ job[w].acc = a => a \in Setting
<1>1. ASSUME NEW v \in Workers, v # w PROVE job'[v] = job[v]
  BY <1>1
<1> QED BY <1>1, SettingIs

\* A handler that bears nothing new leaves, or goes on unseen.
LEMMA NothingNew ==
  ASSUME NEW w \in Workers, \A v \in Workers \ {w} : job'[v] = job[v],
         UNCHANGED <<version, token, password>>, job'[w].op # "setupRead",
         \A a \in Accounts : Bears(job'[w], a, version[a]) => Bears(job[w], a, version[a])
  PROVE  Contract!Leave
<1>1. Proved' \subseteq Proved
  BY OneBearer DEF Proved
<1>2. Setting' \subseteq Setting
  BY OneSetter DEF Setting
<1> QED BY <1>1, <1>2, OpenStays DEF Contract!Leave, OpenNow

\* A handler that bears something new signs in.
LEMMA NewBearer ==
  ASSUME NEW w \in Workers, \A v \in Workers \ {w} : job'[v] = job[v],
         UNCHANGED <<version, token, password>>, NEW a \in Accounts,
         Bears(job'[w], a, version[a]),
         job[w].op \notin {"clear", "issue", "setupRead"}
  PROVE  Contract!SignIn(a)
<1>1. Proved' = Proved \cup {a}
  BY OneBearer DEF Proved, Bears
<1>2. Setting' = Setting
  BY OneSetter DEF Setting, Bears
<1> QED BY <1>1, <1>2, OpenStays DEF Contract!SignIn, OpenNow

\* Revocation: all that was read or issued before is outdated.
LEMMA RevocationTakes ==
  ASSUME TypeInv, HonestInv, NEW a \in Accounts, UNCHANGED token,
         version' = [version EXCEPT ![a] = @ + 1],
         \A w \in Workers : \/ job'[w] = job[w]
                            \/ /\ job[w].op \notin {"clear", "issue"}
                               /\ job'[w].op \notin {"clear", "issue"}
  PROVE  OpenNow' = OpenNow \ {a} /\ Proved' = Proved \ {a}
<1> USE DEF TypeInv, TypeOK
<1>1. version[a] \in Nat /\ version'[a] = version[a] + 1
      /\ \A b \in Accounts \ {a} : version'[b] = version[b]
  OBVIOUS
<1>2. OpenNow' = OpenNow \ {a}
  <2>1. ASSUME NEW t \in Tokens, token[t].acc = a PROVE token[t].tv # version'[a]
    <3>1. token[t].tv <= version[a] /\ token[t].tv \in Nat
      BY <2>1, SessionsAssumption DEF HonestInv, Honest, NoSession, SessionRows
    <3> QED BY <1>1, <3>1
  <2> QED BY <1>1, <2>1 DEF OpenNow, SignedIn
<1>3. Proved' = Proved \ {a}
  <2>1. ASSUME NEW w \in Workers PROVE ~Bears(job'[w], a, version'[a])
    <3>1. CASE job'[w] = job[w] /\ job[w].op \in {"clear", "issue"} /\ job[w].acc = a
      <4>1. job[w].tv <= version[a] /\ job[w].tv \in Nat
        BY <3>1 DEF HonestInv, HonestJob, Honest, Bearing, Jobs
      <4> QED BY <1>1, <3>1, <4>1 DEF Bears
    <3> QED BY <3>1 DEF Bears
  <2>2. ASSUME NEW w \in Workers, NEW b \in Accounts \ {a}
        PROVE  Bears(job'[w], b, version'[b]) <=> Bears(job[w], b, version[b])
    BY <1>1 DEF Bears
  <2> QED BY <2>1, <2>2, ProvedIs
<1> QED BY <1>2, <1>3

LEMMA CallKeepsContract ==
  ASSUME TypeInv, HonestInv, NEW w \in Workers, Call(w)
  PROVE  Contract!Next
<1> USE SessionsAssumption DEF TypeInv, TypeOK
<1>1. /\ UNCHANGED <<version, token, password>> /\ job[w] = Idle
      /\ \A v \in Workers \ {w} : job'[v] = job[v]
  BY CallBegins, OthersKeepTheirJobs DEF Call, SignUp, Login, ResetPassword, RefreshSession,
     Logout, CompleteOpsSetup, Free
<1>n. ASSUME job'[w].op \notin {"clear", "issue", "setupRead"} PROVE Contract!Next
  <2>1. \A a \in Accounts : ~Bears(job'[w], a, version[a])
    BY <1>n DEF Bears
  <2>2. Contract!Leave
    BY <1>1, <1>n, <2>1, NothingNew
  <2> QED BY <2>2 DEF Contract!Next
<1>b. ASSUME NEW op \in Stages \ {"clear", "issue", "setupRead"}, NEW a \in Accounts,
             NEW tv \in Nat, NEW pw \in Nat, NEW tok \in Tokens \cup {None},
             Begin(w, op, a, tv, pw, tok)
      PROVE  Contract!Next
  BY <1>b, <1>n, BeginRecord
<1>2. ASSUME NEW a \in Accounts, SignUp(w, a) PROVE Contract!Next
  <2>1. "issue" \in Stages /\ 0 \in Nat /\ Begin(w, "issue", a, 0, 0, None)
    BY <1>2 DEF SignUp, Stages
  <2>2. /\ job'[w].op = "issue" /\ job'[w].acc = a /\ job'[w].tv = 0 /\ job'[w].tok = None
    BY <2>1, BeginRecord
  <2>3. version[a] = 0
    BY <1>2 DEF SignUp, HonestInv
  <2>4. Bears(job'[w], a, version[a]) /\ job[w].op = "idle"
    BY <1>1, <2>2, <2>3 DEF Bears, Idle
  <2>5. Contract!SignIn(a)
    BY <1>1, <2>4, NewBearer
  <2> QED BY <2>5 DEF Contract!Next
<1>3. ASSUME NEW a \in Accounts, Login(w, a) \/ ResetPassword(w, a) PROVE Contract!Next
  BY <1>3, <1>b DEF Login, ResetPassword, Stages
<1>4. ASSUME NEW t \in Tokens, Logout(w, t) \/ CompleteOpsSetup(w, t) PROVE Contract!Next
  <2>1. token[t].acc \in Accounts /\ {"revoke", "setup"} \subseteq Stages /\ 0 \in Nat
    BY <1>4 DEF Logout, CompleteOpsSetup, Valid, Stages
  <2> QED BY <1>4, <1>b, <2>1 DEF Logout, CompleteOpsSetup
<1>5. ASSUME NEW t \in Tokens, RefreshSession(w, t) PROVE Contract!Next
  <2>1. /\ token[t].acc \in Accounts /\ token[t].tv \in Nat /\ token[t].pw \in Nat
        /\ {"rotate", "revoke"} \subseteq Stages /\ 0 \in Nat
    BY <1>5 DEF RefreshSession, SessionRows, Stages
  <2>2. CASE Begin(w, "revoke", token[t].acc, 0, 0, None)
    BY <1>b, <2>1, <2>2
  <2>3. CASE Begin(w, "rotate", token[t].acc, token[t].tv, token[t].pw, t)
    BY <1>b, <2>1, <2>3
  <2> QED BY <1>5, <2>2, <2>3 DEF RefreshSession
<1> QED BY <1>2, <1>3, <1>4, <1>5 DEF Call

\* A rotation opens a session only beside the one it started from.
LEMMA IssueKeepsContract ==
  ASSUME TypeInv, HonestInv, RotationInv, NEW w \in Workers, IssueSessionTokens(w)
  PROVE  Contract!Next
<1> USE SessionsAssumption DEF TypeInv, TypeOK
<1>1. /\ UNCHANGED <<version, password>> /\ job[w].op = "issue" /\ job[w].acc \in Accounts
      /\ Finish(w)
  BY DEF IssueSessionTokens, accountVars, At, JobOK
<1>2. job'[w].op = "idle" /\ \A v \in Workers \ {w} : job'[v] = job[v]
  BY <1>1, FinishRecord, OthersKeepTheirJobs DEF Continue, Idle
<1>3. CASE UNCHANGED token
  <2>1. \A a \in Accounts : ~Bears(job'[w], a, version[a])
    BY <1>2 DEF Bears
  <2>2. Contract!Leave
    BY <1>1, <1>2, <1>3, <2>1, NothingNew
  <2> QED BY <2>2 DEF Contract!Next
<1>4. ASSUME NEW t \in Tokens, token[t] = NoSession,
             token' = [token EXCEPT ![t] = [acc |-> job[w].acc, tv |-> job[w].tv,
                                           pw |-> job[w].pw]]
      PROVE  Contract!Next
  <2> DEFINE a == job[w].acc
  <2>1. /\ token'[t].acc = a /\ token'[t].tv = job[w].tv
        /\ \A u \in Tokens \ {t} : token'[u] = token[u]
        /\ token[t].acc = None
    BY <1>4 DEF NoSession
  <2>2. ASSUME NEW b \in Accounts
        PROVE  SignedIn(b)' <=> SignedIn(b) \/ (b = a /\ job[w].tv = version[a])
    <3>1. \A u \in Tokens \ {t} :
            (token'[u].acc = b /\ token'[u].tv = version'[b])
              <=> (token[u].acc = b /\ token[u].tv = version[b])
      BY <1>1, <2>1
    <3>2. ~(token[t].acc = b /\ token[t].tv = version[b])
      BY <2>1
    <3>3. (token'[t].acc = b /\ token'[t].tv = version'[b]) <=> (b = a /\ job[w].tv = version[a])
      BY <1>1, <2>1
    <3> QED BY <3>1, <3>2, <3>3 DEF SignedIn
  <2>3. Setting' = Setting
    BY <1>1, <1>2, OneSetter DEF Setting
  <2>4. /\ Proved' \subseteq Proved /\ Proved \ {a} \subseteq Proved'
        /\ Bears(job[w], a, version[a]) => a \in Proved
    BY <1>1, <1>2, OneBearer DEF Proved, Bears
  <2>5. CASE job[w].tv = version[a] /\ job[w].tok = None
    <3>1. a \in Proved
      BY <1>1, <2>4, <2>5 DEF Bears
    <3>2. Proved' = Proved \/ Proved' = Proved \ {a}
      <4>1. CASE a \in Proved'
        <5>1. \A x : x \in Proved' <=> x \in Proved
          BY <2>4, <3>1, <4>1
        <5> QED BY <5>1
      <4>2. CASE a \notin Proved'
        <5>1. \A x : x \in Proved' <=> x \in Proved \ {a}
          BY <2>4, <4>2
        <5> QED BY <5>1
      <4> QED BY <4>1, <4>2
    <3>3. OpenNow' = OpenNow \cup {a}
      <4> HIDE DEF a
      <4> QED BY <1>1, <2>2, <2>5 DEF OpenNow, a
    <3>4. Contract!Open(a)
      BY <1>1, <2>3, <3>1, <3>2, <3>3 DEF Contract!Open, OpenNow
    <3> QED BY <1>1, <3>4 DEF Contract!Next
  <2>6. CASE ~(job[w].tv = version[a] /\ job[w].tok = None)
    <3>1. job[w].tv = version[a] => SignedIn(a)
      BY <2>6 DEF RotationInv, RotatedFrom, SignedIn
    <3>2. OpenNow' = OpenNow
      BY <1>1, <2>2, <3>1 DEF OpenNow
    <3>3. Contract!Leave
      BY <1>1, <2>3, <2>4, <3>2 DEF Contract!Leave, OpenNow
    <3> QED BY <3>3 DEF Contract!Next
  <2> QED BY <2>5, <2>6
<1> QED BY <1>3, <1>4 DEF IssueSessionTokens

LEMMA ContinueKeepsContract ==
  ASSUME TypeInv, HonestInv, RotationInv, NEW w \in Workers, Continue(w)
  PROVE  Contract!Next
<1> USE SessionsAssumption DEF TypeInv, TypeOK
<1>a. job[w] \in Jobs /\ JobOK(job[w]) /\ \A v \in Workers \ {w} : job'[v] = job[v]
  BY OthersKeepTheirJobs
<1>l. ASSUME UNCHANGED <<version, token, password>>, job'[w].op # "setupRead",
             \A a \in Accounts : Bears(job'[w], a, version[a]) => Bears(job[w], a, version[a])
      PROVE  Contract!Next
  <2>1. Contract!Leave
    BY <1>a, <1>l, NothingNew
  <2> QED BY <2>1 DEF Contract!Next
<1>f. ASSUME Finish(w), UNCHANGED <<version, token, password>> PROVE Contract!Next
  BY <1>f, <1>l, FinishRecord DEF Bears, Idle
<1>s. ASSUME NEW op \in Stages \ {"setupRead"}, Step(w, op),
             UNCHANGED <<version, token, password>>,
             op \in {"clear", "issue"} => job[w].op \in {"clear", "issue"} \/ job[w].tok # None
      PROVE  Contract!Next
  BY <1>s, <1>l, StepRecord DEF Bears
<1>1. ASSUME NEW correct \in BOOLEAN, LoginCompare(w, correct) PROVE Contract!Next
  <2>1. UNCHANGED <<version, token, password>> /\ job[w].op = "login"
    BY <1>1 DEF LoginCompare, accountVars, At
  <2>2. CASE Step(w, "wrong") \/ Finish(w)
    BY <1>f, <1>s, <2>1, <2>2 DEF Stages
  <2>3. CASE Begin(w, "clear", job[w].acc, version[job[w].acc], password[job[w].acc], None)
    <3>1. job[w].acc \in Accounts /\ "clear" \in Stages
      BY <1>a, <2>1 DEF JobOK, Stages
    <3>2. Bears(job'[w], job[w].acc, version[job[w].acc])
      BY <2>3, <3>1, BeginRecord DEF Bears
    <3>3. Contract!SignIn(job[w].acc)
      BY <1>a, <2>1, <3>1, <3>2, NewBearer
    <3> QED BY <3>1, <3>3 DEF Contract!Next
  <2> QED BY <1>1, <2>2, <2>3 DEF LoginCompare
<1>2. CASE RecordFailure(w) \/ SetExpiry(w)
  BY <1>f, <1>s, <1>2 DEF RecordFailure, Incr, SetExpiry, accountVars, Stages
<1>3. CASE ClearFailures(w)
  BY <1>f, <1>s, <1>3 DEF ClearFailures, accountVars, At, Stages
<1>4. CASE RefreshDel(w) \/ RefreshRecheck(w)
  BY <1>a, <1>f, <1>s, <1>4 DEF RefreshDel, RefreshRecheck, accountVars, At, JobOK, Stages
<1>5. CASE IssueSessionTokens(w)
  BY <1>5, IssueKeepsContract
<1>6. CASE RevokeSession(w)
  <2>1. /\ job[w].op = "revoke" /\ job[w].acc \in Accounts /\ job'[w].op = "idle"
        /\ UNCHANGED <<token, password>>
        /\ version' = [version EXCEPT ![job[w].acc] = @ + 1]
    BY <1>a, <1>6, FinishRecord DEF RevokeSession, At, JobOK, Idle
  <2>2. OpenNow' = OpenNow \ {job[w].acc} /\ Proved' = Proved \ {job[w].acc}
    BY <1>a, <2>1, RevocationTakes
  <2>3. Setting' = Setting
    BY <1>a, <2>1, OneSetter DEF Setting
  <2>4. Contract!Revoke(job[w].acc)
    BY <2>1, <2>2, <2>3 DEF Contract!Revoke, OpenNow
  <2> QED BY <2>1, <2>4 DEF Contract!Next
<1>7. ASSUME NEW a \in Accounts, a = job[w].acc, job[w].op \in {"setup", "reset"},
             NewPassword(a), UNCHANGED token, job'[w].op \in {"setupRead", "forget"},
             job'[w].acc = a
      PROVE  Contract!Next
  <2>1. version' = [version EXCEPT ![a] = @ + 1] /\ password' = [password EXCEPT ![a] = @ + 1]
    BY <1>7 DEF NewPassword
  <2>2. OpenNow' = OpenNow \ {a} /\ Proved' = Proved \ {a}
    BY <1>a, <1>7, <2>1, RevocationTakes
  <2>3. Setting' \in {Setting, Setting \cup {a}}
    BY <1>a, <1>7, OneSetter DEF Setting
  <2>4. Contract!ChangePassword(a)
    BY <2>1, <2>2, <2>3 DEF Contract!ChangePassword, OpenNow
  <2> QED BY <2>4 DEF Contract!Next
<1>8. CASE SetupCommit(w)
  <2>1. /\ job[w].acc \in Accounts /\ password[job[w].acc] \in Nat
        /\ "setupRead" \in Stages /\ 0 \in Nat
    BY <1>a, <1>8 DEF SetupCommit, At, JobOK, Stages
  <2>2. Begin(w, "setupRead", job[w].acc, 0, password[job[w].acc] + 1, None)
    BY <1>8 DEF SetupCommit
  <2>3. password[job[w].acc] + 1 \in Nat
    BY <2>1
  <2>4. job'[w].op = "setupRead" /\ job'[w].acc = job[w].acc
    BY <2>1, <2>2, <2>3, BeginRecord
  <2> QED BY <1>7, <1>8, <2>1, <2>4 DEF SetupCommit, At
<1>9. CASE ResetCommit(w)
  <2>1. job[w].acc \in Accounts /\ "forget" \in Stages
    BY <1>a, <1>9 DEF ResetCommit, At, JobOK, Stages
  <2>2. job'[w].op = "forget" /\ job'[w].acc = job[w].acc
    BY <1>9, <2>1, StepRecord DEF ResetCommit
  <2> QED BY <1>7, <1>9, <2>1, <2>2 DEF ResetCommit, At
<1>10. CASE SetupRead(w)
  <2>1. /\ job[w].op = "setupRead" /\ job[w].acc \in Accounts /\ job[w].pw \in Nat
        /\ version[job[w].acc] \in Nat /\ "issue" \in Stages
        /\ UNCHANGED <<version, token, password>>
        /\ Begin(w, "issue", job[w].acc, version[job[w].acc], job[w].pw, None)
    BY <1>a, <1>10 DEF SetupRead, At, JobOK, Stages, Jobs, accountVars
  <2>2. job'[w].op = "issue" /\ Bears(job'[w], job[w].acc, version[job[w].acc])
    BY <2>1, BeginRecord DEF Bears
  <2>3. Proved' = Proved \cup {job[w].acc}
    BY <1>a, <2>1, <2>2, OneBearer DEF Proved, Bears
  <2>4. job[w].acc \in Setting /\ Setting' \in {Setting, Setting \ {job[w].acc}}
    BY <1>a, <2>1, <2>2, OneSetter DEF Setting
  <2>5. Contract!ProceedFromSetting(job[w].acc)
    BY <2>1, <2>3, <2>4, OpenStays DEF Contract!ProceedFromSetting, OpenNow
  <2> QED BY <2>1, <2>5 DEF Contract!Next
<1> QED BY <1>1, <1>2, <1>3, <1>4, <1>5, <1>6, <1>8, <1>9, <1>10 DEF Continue

LEMMA EnvironmentKeepsContract ==
  ASSUME TypeInv, HonestInv, Environment
  PROVE  Contract!Next \/ UNCHANGED Contract!sessionVars
<1> USE DEF TypeInv, TypeOK
<1>1. PICK a \in Accounts : CreateAgent(a) \/ \E off \in BOOLEAN : SetAgentDisabled(a, off)
  BY DEF Environment
<1>2. UNCHANGED <<token, password, job>>
  BY <1>1 DEF CreateAgent, SetAgentDisabled
<1>3. CASE UNCHANGED version
  <2>1. OpenNow' = OpenNow /\ Proved' = Proved /\ Setting' = Setting
    BY <1>2, <1>3, OpenStays DEF Proved, Setting, At
  <2> QED BY <1>2, <2>1 DEF Contract!sessionVars, OpenNow
<1>4. CASE version' = [version EXCEPT ![a] = @ + 1]
  <2>1. OpenNow' = OpenNow \ {a} /\ Proved' = Proved \ {a}
    BY <1>2, <1>4, RevocationTakes
  <2>2. Setting' = Setting
    BY <1>2 DEF Setting, At
  <2>3. Contract!Revoke(a)
    BY <1>2, <2>1, <2>2 DEF Contract!Revoke, OpenNow
  <2> QED BY <2>3 DEF Contract!Next
<1> QED BY <1>1, <1>3, <1>4 DEF CreateAgent, SetAgentDisabled

(* Sessions implements SessionContract: nobody is signed in to an account  *)
(* unless somebody gave its password, or set it, since its sessions were   *)
(* revoked, and a new password revokes them (Sessions.KeepsContract).      *)
THEOREM SessionsKeepTheContract == Spec => KeepsContract
<1> DEFINE Inv == TypeInv /\ HonestInv /\ RotationInv
<1>1. Init => Contract!Init
  BY SessionsAssumption DEF Init, Contract!Init, SignedIn, NoSession, Proved, Setting, At, Idle
<1>2. Inv /\ [Next]_vars => [Contract!Next]_(Contract!sessionVars)
  <2> SUFFICES ASSUME TypeInv, HonestInv, RotationInv, [Next]_vars
               PROVE  Contract!Next \/ UNCHANGED Contract!sessionVars
    OBVIOUS
  <2>1. ASSUME NEW w \in Workers, Crash(w) PROVE Contract!Next
    <3>1. job'[w].op = "idle" /\ \A v \in Workers \ {w} : job'[v] = job[v]
      BY <2>1, FinishRecord, OthersKeepTheirJobs DEF Crash, TypeInv, TypeOK, Idle
    <3>2. UNCHANGED <<version, token, password>>
      BY <2>1 DEF Crash, accountVars
    <3>3. Contract!Leave
      BY <3>1, <3>2, NothingNew DEF Bears
    <3> QED BY <3>3 DEF Contract!Next
  <2>2. CASE Restart
    <3>1. UNCHANGED <<version, token, password>> /\ \A w \in Workers : job'[w].op = "idle"
      BY <2>2 DEF Restart, accountVars, Idle
    <3>2. Proved' = {} /\ Setting' = {}
      BY <3>1 DEF Proved, Setting, At
    <3>3. Contract!Leave
      BY <3>1, <3>2, OpenStays DEF Contract!Leave, OpenNow
    <3> QED BY <3>3 DEF Contract!Next
  <2>3. CASE (\E a \in Accounts : CounterExpires(a)) \/ UNCHANGED vars
    <3>1. UNCHANGED <<version, token, password, job>>
      BY <2>3 DEF CounterExpires, vars, accountVars
    <3>2. OpenNow' = OpenNow /\ Proved' = Proved /\ Setting' = Setting
      BY <3>1, OpenStays DEF Proved, Setting, At
    <3> QED BY <3>1, <3>2 DEF Contract!sessionVars, OpenNow
  <2> QED BY <2>1, <2>2, <2>3, EnvironmentKeepsContract, CallKeepsContract, ContinueKeepsContract
          DEF Next
<1>3. Spec => []Inv
  BY InitType, TypeStep, HonestInit, HonestStep, RotationInit, RotationStep, PTL DEF Spec
<1> HIDE DEF Inv
<1> QED BY <1>1, <1>2, <1>3, PTL DEF Spec, KeepsContract, Contract!Spec

-----------------------------------------------------------------------------
(* Failed sign-ins.                                                        *)

\* Handlers that passed the check of the counter and may still raise it.
Pending(a) == {w \in Workers : job[w].acc = a /\ job[w].op \in {"login", "wrong"}}

FailInv ==
  \A a \in Accounts :
    fails[a].n + Cardinality(Pending(a)) <= FailMax + Cardinality(Workers) - 1

LEMMA PendingFinite ==
  ASSUME NEW S, S \subseteq Workers
  PROVE  IsFiniteSet(S) /\ Cardinality(S) \in Nat /\ Cardinality(S) <= Cardinality(Workers)
         /\ Cardinality(Workers) \in Nat
BY SessionsAssumption, FS_Subset, FS_CardinalityType

LEMMA FailInit == Init => FailInv
<1> SUFFICES ASSUME Init, NEW a \in Accounts
             PROVE  fails[a].n + Cardinality(Pending(a)) <= FailMax + Cardinality(Workers) - 1
  BY DEF FailInv
<1>1. fails[a].n = 0 /\ Pending(a) \subseteq Workers
  BY DEF Init, NoCounter, Pending
<1> QED BY <1>1, PendingFinite, SessionsAssumption

(* A handler joins the pending ones only by passing the check.             *)
LEMMA PendingGrows ==
  ASSUME TypeInv, [Next]_vars, NEW a \in Accounts, NEW w \in Workers,
         w \in Pending(a)', w \notin Pending(a)
  PROVE  NotLocked(a) /\ UNCHANGED fails
<1> USE DEF TypeInv, TypeOK
<1>1. job'[w] # job[w] /\ job'[w].acc = a /\ job'[w].op \in {"login", "wrong"}
  BY DEF Pending
<1>f. ~Finish(w)
  BY <1>1, FinishRecord DEF Idle
<1>s. ASSUME NEW op \in Stages \ {"login", "wrong"}, Step(w, op) PROVE FALSE
  BY <1>1, <1>s, StepRecord
<1>b. ASSUME NEW op \in Stages \ {"login"}, NEW b \in Accounts, NEW tv \in Nat, NEW pw \in Nat,
             NEW tok \in Tokens \cup {None}, Begin(w, op, b, tv, pw, tok)
      PROVE  op = "wrong"
  BY <1>1, <1>b, BeginRecord
<1>2. Call(w) \/ Continue(w)
  BY <1>1, <1>f, OthersKeepTheirJobs DEF Next, Environment, CreateAgent, SetAgentDisabled, Crash,
     Restart, Idle, CounterExpires, vars
<1>3. CASE Call(w)
  <2>1. ASSUME NEW b \in Accounts, Login(w, b) PROVE NotLocked(a)
    <3>1. "login" \in Stages /\ 0 \in Nat /\ NotLocked(b) /\ Begin(w, "login", b, 0, 0, None)
      BY <2>1 DEF Login, Stages
    <3>2. job'[w].acc = b
      BY <3>1, BeginRecord
    <3> QED BY <1>1, <3>1, <3>2
  <2>2. ASSUME NEW b \in Accounts, SignUp(w, b) \/ ResetPassword(w, b) PROVE FALSE
    BY <1>b, <2>2 DEF SignUp, ResetPassword, Stages
  <2>3. ASSUME NEW t \in Tokens, Logout(w, t) \/ CompleteOpsSetup(w, t) PROVE FALSE
    BY <1>b, <2>3 DEF Logout, CompleteOpsSetup, Valid, Stages
  <2>4. ASSUME NEW t \in Tokens, RefreshSession(w, t) PROVE FALSE
    <3>1. /\ token[t].acc \in Accounts /\ token[t].tv \in Nat /\ token[t].pw \in Nat
          /\ {"rotate", "revoke"} \subseteq Stages \ {"login"} /\ 0 \in Nat
      BY <2>4 DEF RefreshSession, SessionRows, Stages
    <3>2. ~Begin(w, "revoke", token[t].acc, 0, 0, None)
      BY <1>b, <3>1
    <3>3. ~Begin(w, "rotate", token[t].acc, token[t].tv, token[t].pw, t)
      BY <1>b, <3>1
    <3> QED BY <2>4, <3>2, <3>3 DEF RefreshSession
  <2> QED BY <1>3, <2>1, <2>2, <2>3, <2>4, CallBegins DEF Call
<1>4. CASE Continue(w)
  <2>a. job[w] \in Jobs /\ JobOK(job[w])
    OBVIOUS
  <2>1. ASSUME NEW correct \in BOOLEAN, LoginCompare(w, correct) PROVE FALSE
    <3>1. /\ job[w].acc \in Accounts /\ job[w].op = "login"
          /\ version[job[w].acc] \in Nat /\ password[job[w].acc] \in Nat
          /\ "clear" \in Stages \ {"login"} /\ "wrong" \in Stages
      BY <2>a, <2>1 DEF LoginCompare, At, JobOK, Stages
    <3>2. ~Step(w, "wrong")
      BY <1>1, <3>1, StepRecord DEF Pending
    <3>3. ~Begin(w, "clear", job[w].acc, version[job[w].acc], password[job[w].acc], None)
      BY <1>b, <3>1
    <3> QED BY <1>f, <2>1, <3>2, <3>3 DEF LoginCompare
  <2>2. CASE SetupCommit(w) \/ SetupRead(w)
    <3>1. /\ job[w].acc \in Accounts /\ {"setupRead", "issue"} \subseteq Stages \ {"login"}
          /\ job[w].pw \in Nat /\ password[job[w].acc] + 1 \in Nat /\ 0 \in Nat
          /\ version[job[w].acc] \in Nat
      BY <2>a, <2>2 DEF SetupCommit, SetupRead, At, JobOK, Stages, Jobs
    <3> QED BY <1>b, <2>2, <3>1 DEF SetupCommit, SetupRead
  <2>3. CASE ~(SetupCommit(w) \/ SetupRead(w) \/ \E correct \in BOOLEAN : LoginCompare(w, correct))
    BY <1>f, <1>s, <1>4, <2>3 DEF Continue, RecordFailure, Incr, SetExpiry, ClearFailures,
       IssueSessionTokens, RefreshDel, RefreshRecheck, RevokeSession, ResetCommit, Stages
  <2> QED BY <2>1, <2>2, <2>3
<1> QED BY <1>2, <1>3, <1>4

(* A counter is raised by a pending handler, which stops being one.        *)
LEMMA CounterRises ==
  ASSUME TypeInv, [Next]_vars, NEW a \in Accounts, fails'[a].n # fails[a].n, fails'[a].n # 0
  PROVE  /\ fails'[a].n = fails[a].n + 1
         /\ \E w \in Workers : Pending(a)' \subseteq Pending(a) \ {w} /\ w \in Pending(a)
<1> USE DEF TypeInv, TypeOK
<1>1. PICK w \in Workers : RecordFailure(w)
  <2>1. ASSUME NEW w \in Workers, SetExpiry(w) PROVE fails'[a].n = fails[a].n
    BY <2>1 DEF SetExpiry, Counters
  <2>2. ASSUME DropCounter(a) PROVE FALSE
    BY <2>2 DEF DropCounter, NoCounter
  <2>3. ASSUME NEW b \in Accounts, b # a, DropCounter(b) PROVE FALSE
    BY <2>3 DEF DropCounter
  <2>4. ASSUME NEW w \in Workers, ClearFailures(w) PROVE FALSE
    BY <2>2, <2>3, <2>4 DEF ClearFailures, DropCounter
  <2>5. ASSUME NEW b \in Accounts, CounterExpires(b) PROVE FALSE
    BY <2>2, <2>3, <2>5 DEF CounterExpires
  <2>6. ~Restart
    BY DEF Restart, NoCounter
  <2> QED BY <2>1, <2>4, <2>5, <2>6, CallBegins DEF Next, Environment, CreateAgent,
          SetAgentDisabled, Continue, LoginCompare, IssueSessionTokens, RefreshDel,
          RefreshRecheck, RevokeSession, SetupCommit, SetupRead, ResetCommit, Crash, vars
<1>2. /\ job[w].acc = a /\ fails'[a].n = fails[a].n + 1
      /\ job'[w].op \in {"expire", "idle"}
  <2>1. "expire" \in Stages
    BY DEF Stages
  <2> QED BY <1>1, <2>1, StepRecord, FinishRecord DEF RecordFailure, Incr, Counters, Idle
<1>3. w \in Pending(a)
  BY <1>1, <1>2 DEF RecordFailure, At, Pending
<1>4. \A v \in Workers \ {w} : job'[v] = job[v]
  BY <1>1, OthersKeepTheirJobs DEF Continue
<1>5. Pending(a)' \subseteq Pending(a) \ {w}
  BY <1>2, <1>4 DEF Pending
<1> QED BY <1>2, <1>3, <1>5

LEMMA FailStep == TypeInv /\ FailInv /\ [Next]_vars => FailInv'
<1> SUFFICES ASSUME TypeInv, FailInv, [Next]_vars, NEW a \in Accounts
             PROVE  fails'[a].n + Cardinality(Pending(a)')
                      <= FailMax + Cardinality(Workers) - 1
  BY DEF FailInv
<1> DEFINE P == Pending(a)  Q == Pending(a)'  W == Cardinality(Workers)
<1>1. P \subseteq Workers /\ Q \subseteq Workers
  BY DEF Pending
<1>2. /\ IsFiniteSet(P) /\ Cardinality(P) \in Nat /\ Cardinality(Q) \in Nat
      /\ Cardinality(Q) <= W /\ W \in Nat
  BY <1>1, PendingFinite
<1>3. /\ fails[a].n \in Nat /\ fails'[a].n \in Nat /\ FailMax \in Nat \ {0}
      /\ fails[a].n + Cardinality(P) <= FailMax + W - 1
  BY TypeStep, SessionsAssumption DEF FailInv, TypeInv, TypeOK, Counters
<1>4. CASE fails'[a].n = 0
  BY <1>2, <1>3, <1>4
<1>5. CASE fails'[a].n # 0 /\ fails'[a].n # fails[a].n
  <2>1. PICK w \in Workers : Q \subseteq P \ {w} /\ w \in P
    BY <1>5, CounterRises
  <2>2. fails'[a].n = fails[a].n + 1
    BY <1>5, CounterRises
  <2>3. IsFiniteSet(P \ {w}) /\ Cardinality(P \ {w}) = Cardinality(P) - 1
    BY <1>2, <2>1, FS_RemoveElement
  <2>4. Cardinality(Q) <= Cardinality(P \ {w})
    BY <2>1, <2>3, FS_Subset
  <2> QED BY <1>2, <1>3, <2>2, <2>3, <2>4
<1>6. CASE fails'[a].n = fails[a].n
  <2>1. CASE Q \subseteq P
    <3>1. Cardinality(Q) <= Cardinality(P)
      BY <1>2, <2>1, FS_Subset
    <3> QED BY <1>2, <1>3, <1>6, <3>1
  <2>2. CASE ~(Q \subseteq P)
    <3>1. PICK w \in Workers : w \in Q /\ w \notin P
      BY <1>1, <2>2
    <3>2. fails[a].n < FailMax
      BY <3>1, PendingGrows DEF NotLocked
    <3> QED BY <1>2, <1>3, <1>6, <3>2
  <2> QED BY <2>1, <2>2
<1> QED BY <1>4, <1>5, <1>6

(* However sign-ins overlap, an address gets at most FailMax wrong answers *)
(* in a window, and one more for each further handler.                     *)
THEOREM FailuresAreBounded == Spec => []FailuresBounded
<1>1. TypeInv /\ FailInv => FailuresBounded
  <2> SUFFICES ASSUME TypeInv, FailInv, NEW a \in Accounts
               PROVE  fails[a].n <= FailMax + Cardinality(Workers) - 1
    BY DEF FailuresBounded
  <2>1. Pending(a) \subseteq Workers
    BY DEF Pending
  <2>2. Cardinality(Pending(a)) \in Nat /\ Cardinality(Workers) \in Nat
    BY <2>1, PendingFinite
  <2> QED BY <2>2, SessionsAssumption DEF FailInv, TypeInv, TypeOK, Counters
<1>2. Spec => [](TypeInv /\ FailInv)
  BY InitType, TypeStep, FailInit, FailStep, PTL DEF Spec
<1> QED BY <1>1, <1>2, PTL

-----------------------------------------------------------------------------
(* The counters' times to live.                                            *)

Expiring(a) == \E w \in Workers : At(w, "expire") /\ job[w].acc = a

\* Only a step of one handler, or a crash, ends a handler's "expire".
LEMMA ExpiringStays ==
  ASSUME TypeInv, [Next]_vars, "expire" \notin MayDie, NEW a \in Accounts, Expiring(a),
         ~Expiring(a)'
  PROVE  fails'[a].n > 0 => fails'[a].ttl
<1> USE DEF TypeInv, TypeOK
<1>1. PICK w \in Workers : At(w, "expire") /\ job[w].acc = a
  BY DEF Expiring
<1>2. job'[w] # job[w]
  BY <1>1 DEF Expiring, At
<1>3. ASSUME NEW v \in Workers, Call(v) \/ Continue(v) \/ Crash(v)
      PROVE  v = w
  BY <1>2, <1>3, OthersKeepTheirJobs
<1>4. ~Call(w) /\ ~Crash(w)
  BY <1>1 DEF Call, SignUp, Login, ResetPassword, RefreshSession, Logout, CompleteOpsSetup, Free,
     Idle, At, Crash
<1>5. CASE Continue(w)
  <2>1. SetExpiry(w)
    BY <1>1, <1>5 DEF Continue, LoginCompare, RecordFailure, SetExpiry, ClearFailures,
       IssueSessionTokens, RefreshDel, RefreshRecheck, RevokeSession, SetupCommit, SetupRead,
       ResetCommit, At
  <2> QED BY <1>1, <2>1 DEF SetExpiry, Counters
<1>6. CASE Restart
  BY <1>6 DEF Restart, NoCounter
<1>7. CASE Environment \/ (\E b \in Accounts : CounterExpires(b)) \/ UNCHANGED vars
  BY <1>2, <1>7 DEF Environment, CreateAgent, SetAgentDisabled, CounterExpires, vars
<1> QED BY <1>3, <1>4, <1>5, <1>6, <1>7 DEF Next

\* A counter that has no time to live and had one, or was not there, was
\* begun by a handler that goes on to give it one.
LEMMA CounterBegins ==
  ASSUME TypeInv, [Next]_vars, NEW a \in Accounts, fails'[a].n > 0, ~fails'[a].ttl,
         fails[a].n > 0 => fails[a].ttl
  PROVE  Expiring(a)'
<1> USE DEF TypeInv, TypeOK
<1>1. PICK w \in Workers : RecordFailure(w)
  <2>1. ASSUME NEW b \in Accounts, DropCounter(b) PROVE FALSE
    BY <2>1 DEF DropCounter, NoCounter
  <2>2. ASSUME NEW w \in Workers, SetExpiry(w) PROVE FALSE
    BY <2>2 DEF SetExpiry, Counters
  <2>3. ASSUME NEW w \in Workers, ClearFailures(w) PROVE FALSE
    <3>1. job[w].acc \in Accounts
      BY <2>3 DEF ClearFailures, At, JobOK
    <3> QED BY <2>1, <2>3, <3>1 DEF ClearFailures
  <2>4. ~Restart
    BY DEF Restart, NoCounter
  <2>5. ASSUME UNCHANGED fails PROVE FALSE
    BY <2>5
  <2> QED BY <2>1, <2>2, <2>3, <2>4, <2>5, CallBegins DEF Next, Environment, CreateAgent,
          SetAgentDisabled, Continue, LoginCompare, IssueSessionTokens, RefreshDel,
          RefreshRecheck, RevokeSession, SetupCommit, SetupRead, ResetCommit, Crash,
          CounterExpires, vars
<1>2. HasRedis /\ job[w].acc = a /\ fails[a].n = 0
  <2>1. /\ job[w].acc \in Accounts /\ fails[a].n \in Nat /\ fails[job[w].acc].n \in Nat
        /\ fails[a] \in Counters
    BY <1>1 DEF RecordFailure, At, JobOK, Counters
  <2>2. job[w].acc = a
    BY <1>1, <2>1 DEF RecordFailure, Incr, Counters
  <2>3. HasRedis
    BY <1>1, <2>2 DEF RecordFailure, Incr
  <2>4. fails'[a].ttl = fails[a].ttl
    BY <1>1, <2>1, <2>2, <2>3 DEF RecordFailure, Incr, Counters
  <2> QED BY <2>1, <2>2, <2>3, <2>4
<1>3. Step(w, "expire") /\ "expire" \in Stages
  BY <1>1, <1>2 DEF RecordFailure, Incr, Stages
<1>4. job'[w].op = "expire" /\ job'[w].acc = a
  BY <1>2, <1>3, StepRecord
<1> QED BY <1>4 DEF Expiring, At

(* Unless a process dies between INCR and EXPIRE no counter of failed      *)
(* sign-ins is left without a time to live, however the two commands mix   *)
(* with those of other handlers (Sessions.CountersEnd).                    *)
THEOREM LocksAreTimed == Spec => []CountersEnd
<1>1. Init => CountersEnd
  BY DEF Init, CountersEnd, NoCounter
<1>2. TypeInv /\ CountersEnd /\ [Next]_vars => CountersEnd'
  <2> SUFFICES ASSUME TypeInv, CountersEnd, [Next]_vars, "expire" \notin MayDie,
                      NEW a \in Accounts, fails'[a].n > 0, ~fails'[a].ttl
               PROVE  Expiring(a)'
    BY DEF CountersEnd, Expiring
  <2>1. CASE Expiring(a)
    BY <2>1, ExpiringStays
  <2>2. CASE ~Expiring(a)
    BY <2>2, CounterBegins DEF CountersEnd, Expiring
  <2> QED BY <2>1, <2>2
<1> QED BY <1>1, <1>2, InitType, TypeStep, PTL DEF Spec
=============================================================================

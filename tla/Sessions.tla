------------------------------ MODULE Sessions ------------------------------
(***************************************************************************)
(* Sign-in, sessions and their revocation (src/auth/auth.service.ts,       *)
(* src/auth/jwt.strategy.ts), on the counters and keys of                  *)
(* src/redis/redis.module.ts.                                              *)
(*                                                                         *)
(* A session is a pair of JWTs that carry the tokenVersion of the          *)
(* credential; raising tokenVersion revokes every session of the account.  *)
(* Handlers read the credential, wait (for bcrypt, for Redis) and issue    *)
(* tokens with what they read.  The one-time code behind a sign-up or a    *)
(* reset has been checked when the handler arrives here.                   *)
(***************************************************************************)
EXTENDS Naturals, FiniteSets

CONSTANTS Accounts,    \* e-mail addresses
          Ops,         \* those that belong to staff
          Tokens,      \* refresh ids (jti)
          Workers,     \* handlers that may be in flight at once
          None,
          FailMax,     \* LOGIN_FAIL_MAX
          HasRedis,    \* REDIS_URL is set; else an in-memory map
          MayDie,      \* stages of a handler at which its process may die
          MaxVersion   \* bound: no revocation starts beyond this tokenVersion

\* What a handler is about to do.
Stages == {"idle", "login", "wrong", "expire", "clear", "forget", "issue",
           "rotate", "recheck", "revoke", "setup", "setupRead", "reset"}

ASSUME SessionsAssumption ==
  /\ Ops \subseteq Accounts
  /\ FailMax \in Nat \ {0} /\ MaxVersion \in Nat
  /\ HasRedis \in BOOLEAN /\ MayDie \subseteq Stages \ {"idle"}
  /\ IsFiniteSet(Workers)
  /\ None \notin Accounts \cup Tokens

VARIABLES known,     \* accounts that have a credential
          version,   \* version[a]: Credential.tokenVersion
          disabled,  \* accounts with Credential.disabled
          password,  \* password[a]: how often the password was replaced
          token,     \* token[t]: the session issued under refresh id t
          keys,      \* refresh ids with a key cp:refresh:<jti>
          fails,     \* fails[a]: the counter cp:login:fail:<email>
          job        \* job[w]: the handler worker w is running

accountVars == <<known, version, disabled, password>>
vars == <<accountVars, token, keys, fails, job>>

-----------------------------------------------------------------------------
SessionRows == [acc : Accounts \cup {None}, tv : Nat, pw : Nat]
NoSession == [acc |-> None, tv |-> 0, pw |-> 0]

\* pw is the password that was given (or set) to open the session; tok is
\* the refresh id a rotation started from.
Jobs == [op : Stages, acc : Accounts \cup {None}, tv : Nat, pw : Nat,
         tok : Tokens \cup {None}]
Idle == [op |-> "idle", acc |-> None, tv |-> 0, pw |-> 0, tok |-> None]

Counters == [n : Nat, ttl : BOOLEAN]
NoCounter == [n |-> 0, ttl |-> FALSE]

\* Staff and sessions belong to accounts that exist.
TypeOK ==
  /\ known \subseteq Accounts /\ disabled \subseteq known \cap Ops
  /\ version \in [Accounts -> Nat] /\ password \in [Accounts -> Nat]
  /\ token \in [Tokens -> SessionRows] /\ keys \subseteq Tokens
  /\ \A t \in Tokens : token[t].acc \in known \cup {None}
  /\ fails \in [Accounts -> Counters]
  /\ job \in [Workers -> Jobs]

Init ==
  /\ known = {} /\ disabled = {} /\ keys = {}
  /\ version = [a \in Accounts |-> 0]
  /\ password = [a \in Accounts |-> 0]
  /\ token = [t \in Tokens |-> NoSession]
  /\ fails = [a \in Accounts |-> NoCounter]
  /\ job = [w \in Workers |-> Idle]

-----------------------------------------------------------------------------
(* Handlers in flight.                                                     *)

Begin(w, op, a, tv, pw, tok) ==
  job' = [job EXCEPT ![w] = [op |-> op, acc |-> a, tv |-> tv, pw |-> pw, tok |-> tok]]
Step(w, op) == job' = [job EXCEPT ![w].op = op]
Finish(w)   == job' = [job EXCEPT ![w] = Idle]

Free(w)   == job[w] = Idle
At(w, op) == job[w].op = op

\* Bound on what may still be revoked.
MayRevoke(a) == version[a] < MaxVersion

-----------------------------------------------------------------------------
(* The failed sign-ins of an address.                                      *)

\* Slip: one attempt too many.
NotLockedYet(a) == fails[a].n <= FailMax

NotLocked(a) == fails[a].n < FailMax

\* Slip: INCR alone.
IncrOnly(w) ==
  LET a == job[w].acc IN
  /\ fails' = [fails EXCEPT ![a].n = @ + 1]
  /\ Finish(w)

\* incr(key, ttl): INCR, and EXPIRE as a second command for the first of a
\* window.  The in-memory map sets value and window at once; its get, await
\* and set, with nothing to wait for in between, count as one step.
Incr(w) ==
  LET a == job[w].acc IN
  IF HasRedis
  THEN /\ fails' = [fails EXCEPT ![a].n = @ + 1]
       /\ IF fails[a].n = 0 THEN Step(w, "expire") ELSE Finish(w)
  ELSE /\ fails' = [fails EXCEPT ![a] = [n |-> @.n + 1, ttl |-> TRUE]]
       /\ Finish(w)

\* EXPIRE does nothing to a key that is gone.
SetExpiry(w) ==
  /\ At(w, "expire")
  /\ fails' = [fails EXCEPT ![job[w].acc].ttl = (fails[job[w].acc].n > 0)]
  /\ Finish(w)
  /\ UNCHANGED <<accountVars, token, keys>>

RecordFailure(w) ==
  /\ At(w, "wrong")
  /\ Incr(w)
  /\ UNCHANGED <<accountVars, token, keys>>

DropCounter(a) == fails' = [fails EXCEPT ![a] = NoCounter]

\* del after a sign-in ("clear") or after a reset ("forget").
ClearFailures(w) ==
  /\ \/ At(w, "clear")  /\ Step(w, "issue")
     \/ At(w, "forget") /\ Finish(w)
  /\ DropCounter(job[w].acc)
  /\ UNCHANGED <<accountVars, token, keys>>

\* Redis drops a key whose time is over.
CounterExpires(a) ==
  /\ fails[a].ttl
  /\ DropCounter(a)
  /\ UNCHANGED <<accountVars, token, keys, job>>

-----------------------------------------------------------------------------
(* Sign-up and sign-in.                                                    *)

\* verifySignupOtp creates user and credential, and signs with version 0.
SignUp(w, a) ==
  /\ Free(w)
  /\ a \notin known \cup Ops
  /\ known' = known \cup {a}
  /\ Begin(w, "issue", a, 0, 0, None)
  /\ UNCHANGED <<version, disabled, password, token, keys, fails>>

\* An administrator invites staff with a temporary password.
CreateAgent(a) ==
  /\ a \in Ops \ known
  /\ known' = known \cup {a}
  /\ UNCHANGED <<version, disabled, password, token, keys, fails, job>>

\* loginUnified asks for the counter first, then reads the credential.
Login(w, a) ==
  /\ Free(w)
  /\ NotLocked(a)
  /\ Begin(w, "login", a, 0, 0, None)
  /\ UNCHANGED <<accountVars, token, keys, fails>>

\* Slip: no test for a missing credential.
PasswordFits(a, correct) == correct

\* A dummy hash, that nothing fits, stands in for a missing credential.
PasswordOk(a, correct) == correct /\ a \in known

\* The password is compared with the hash that was read, and the session
\* will carry the version read with it.
LoginCompare(w, correct) ==
  LET a == job[w].acc IN
  /\ At(w, "login")
  /\ \/ ~PasswordOk(a, correct) /\ Step(w, "wrong")
     \/ PasswordOk(a, correct) /\ a \in disabled /\ Finish(w)
     \/ /\ PasswordOk(a, correct) /\ a \notin disabled
        /\ Begin(w, "clear", a, version[a], password[a], None)
  /\ UNCHANGED <<accountVars, token, keys, fails>>

\* Slip: the version is read when the tokens are signed.
IssueLate(w) ==
  /\ At(w, "issue")
  /\ \E t \in Tokens :
        /\ token[t] = NoSession
        /\ token' = [token EXCEPT ![t] = [acc |-> job[w].acc, tv |-> version[job[w].acc],
                                          pw |-> job[w].pw]]
        /\ keys' = keys \cup {t}
  /\ Finish(w)
  /\ UNCHANGED <<accountVars, fails>>

\* issueSessionTokens: both JWTs are signed, then the refresh id is stored.
\* Bound: the client throws a session away for which no member of Tokens is
\* left.
IssueSessionTokens(w) ==
  /\ At(w, "issue")
  /\ \/ \E t \in Tokens :
           /\ token[t] = NoSession
           /\ token' = [token EXCEPT ![t] = [acc |-> job[w].acc, tv |-> job[w].tv,
                                             pw |-> job[w].pw]]
           /\ keys' = keys \cup {t}
     \/ NoSession \notin {token[t] : t \in Tokens} /\ UNCHANGED <<token, keys>>
  /\ Finish(w)
  /\ UNCHANGED <<accountVars, fails>>

-----------------------------------------------------------------------------
(* Rotation and revocation.                                                *)

\* refreshSession: a refresh id without a key was used before, or the
\* in-memory map was lost.
RefreshSession(w, t) ==
  LET a == token[t].acc IN
  /\ Free(w)
  /\ token[t] # NoSession
  /\ \/ t \in keys    /\ Begin(w, "rotate", a, token[t].tv, token[t].pw, t)
     \/ t \notin keys /\ MayRevoke(a) /\ Begin(w, "revoke", a, 0, 0, None)
  /\ UNCHANGED <<accountVars, token, keys, fails>>

RefreshDel(w) ==
  /\ At(w, "rotate")
  /\ keys' = keys \ {job[w].tok}
  /\ Step(w, "recheck")
  /\ UNCHANGED <<accountVars, token, fails>>

\* Slip: the new session takes the version of the credential, whatever the
\* version of the old one.
RecheckNothing(w) ==
  /\ At(w, "recheck")
  /\ Begin(w, "issue", job[w].acc, version[job[w].acc], job[w].pw, job[w].tok)
  /\ UNCHANGED <<accountVars, token, keys, fails>>

RefreshRecheck(w) ==
  LET a == job[w].acc IN
  /\ At(w, "recheck")
  /\ \/ job[w].tv = version[a] /\ Step(w, "issue")
     \/ job[w].tv # version[a] /\ Finish(w)
  /\ UNCHANGED <<accountVars, token, keys, fails>>

\* JwtStrategy.validate of an access token.
Valid(t) ==
  /\ token[t].acc \in known \ disabled
  /\ token[t].tv = version[token[t].acc]

Logout(w, t) ==
  /\ Free(w)
  /\ Valid(t) /\ MayRevoke(token[t].acc)
  /\ Begin(w, "revoke", token[t].acc, 0, 0, None)
  /\ UNCHANGED <<accountVars, token, keys, fails>>

RevokeSession(w) ==
  /\ At(w, "revoke")
  /\ version' = [version EXCEPT ![job[w].acc] = @ + 1]
  /\ Finish(w)
  /\ UNCHANGED <<known, disabled, password, token, keys, fails>>

\* By another administrator.
SetAgentDisabled(a, off) ==
  /\ a \in Ops \cap known
  /\ IF off
     THEN /\ MayRevoke(a)
          /\ disabled' = disabled \cup {a}
          /\ version' = [version EXCEPT ![a] = @ + 1]
     ELSE disabled' = disabled \ {a} /\ UNCHANGED version
  /\ UNCHANGED <<known, password, token, keys, fails, job>>

-----------------------------------------------------------------------------
(* New passwords.                                                          *)

\* Slip: the password alone is replaced.
OnlyPassword(a) ==
  /\ password' = [password EXCEPT ![a] = @ + 1]
  /\ UNCHANGED version

NewPassword(a) ==
  /\ password' = [password EXCEPT ![a] = @ + 1]
  /\ version'  = [version EXCEPT ![a] = @ + 1]

\* completeOpsSetup, called with a valid access token.
CompleteOpsSetup(w, t) ==
  /\ Free(w)
  /\ Valid(t) /\ token[t].acc \in Ops /\ MayRevoke(token[t].acc)
  /\ Begin(w, "setup", token[t].acc, 0, 0, None)
  /\ UNCHANGED <<accountVars, token, keys, fails>>

SetupCommit(w) ==
  LET a == job[w].acc IN
  /\ At(w, "setup")
  /\ NewPassword(a)
  /\ Begin(w, "setupRead", a, 0, password[a] + 1, None)
  /\ UNCHANGED <<known, disabled, token, keys, fails>>

\* The version is read again, after the commit.
SetupRead(w) ==
  LET a == job[w].acc IN
  /\ At(w, "setupRead")
  /\ Begin(w, "issue", a, version[a], job[w].pw, None)
  /\ UNCHANGED <<accountVars, token, keys, fails>>

\* resetPassword, past its code check: the credential is read, then written.
ResetPassword(w, a) ==
  /\ Free(w)
  /\ a \in known \ disabled /\ MayRevoke(a)
  /\ Begin(w, "reset", a, 0, 0, None)
  /\ UNCHANGED <<accountVars, token, keys, fails>>

ResetCommit(w) ==
  /\ At(w, "reset")
  /\ NewPassword(job[w].acc)
  /\ Step(w, "forget")
  /\ UNCHANGED <<known, disabled, token, keys, fails>>

-----------------------------------------------------------------------------
(* A process of several that dies takes its handlers with it; the single   *)
(* process of the in-memory map also takes the map.                        *)
Crash(w) ==
  /\ HasRedis /\ job[w].op \in MayDie
  /\ Finish(w)
  /\ UNCHANGED <<accountVars, token, keys, fails>>

Restart ==
  /\ ~HasRedis /\ MayDie # {}
  /\ job' = [w \in Workers |-> Idle]
  /\ keys' = {}
  /\ fails' = [a \in Accounts |-> NoCounter]
  /\ UNCHANGED <<accountVars, token>>

-----------------------------------------------------------------------------
Environment ==
  \E a \in Accounts : \/ CreateAgent(a)
                      \/ \E off \in BOOLEAN : SetAgentDisabled(a, off)

Call(w) ==
  \/ \E a \in Accounts : SignUp(w, a) \/ Login(w, a) \/ ResetPassword(w, a)
  \/ \E t \in Tokens : RefreshSession(w, t) \/ Logout(w, t) \/ CompleteOpsSetup(w, t)

Continue(w) ==
  \/ \E correct \in BOOLEAN : LoginCompare(w, correct)
  \/ RecordFailure(w) \/ SetExpiry(w) \/ ClearFailures(w)
  \/ IssueSessionTokens(w) \/ RefreshDel(w) \/ RefreshRecheck(w) \/ RevokeSession(w)
  \/ SetupCommit(w) \/ SetupRead(w) \/ ResetCommit(w)

Next ==
  \/ Environment
  \/ \E w \in Workers : Call(w) \/ Continue(w) \/ Crash(w)
  \/ Restart
  \/ \E a \in Accounts : CounterExpires(a)

\* Handlers that were called run on, and Redis expires what has a time to
\* live; nobody has to call, and nothing has to crash.
Fairness ==
  /\ \A w \in Workers : WF_vars(Continue(w))
  /\ \A a \in Accounts : WF_vars(CounterExpires(a))

Spec == Init /\ [][Next]_vars /\ Fairness

-----------------------------------------------------------------------------
(* An address gets at most FailMax wrong answers before its counter starts *)
(* again, and one more for each other handler that had passed the check    *)
(* when the limit was reached: the counter is read before the password is  *)
(* compared and incremented after it (assertLoginNotLocked,                *)
(* recordLoginFailure).                                                    *)
FailuresBounded ==
  \A a \in Accounts : fails[a].n <= FailMax + Cardinality(Workers) - 1

(* Once a requester's password is replaced, no session opened with the old *)
(* one is usable, and once staff replaced the temporary password, none     *)
(* opened with it is: "This password only works until you finish setup."   *)
(* (createAgent).  Handlers that compared the old password, or rotate a    *)
(* session of it, are still in flight.                                     *)
PasswordChangeEndsSessions ==
  \A t \in Tokens :
    LET s == token[t]  a == s.acc IN
    s # NoSession /\ s.tv = version[a] =>
      IF a \in Ops THEN password[a] > 0 => s.pw > 0 ELSE s.pw = password[a]

\* Some session of the account has its current version.
SignedIn(a) == \E t \in Tokens : token[t].acc = a /\ token[t].tv = version[a]

(* After every session of an account was revoked (logout, reuse of a       *)
(* refresh id, disabling, a new password), only somebody who signs in, or  *)
(* set the password, has a session again: never a rotation that was under  *)
(* way (refreshSession).                                                   *)
OnlySignInOpensSessions ==
  [][\A a \in Accounts :
        SignedIn(a)' /\ ~SignedIn(a) =>
          \E w \in Workers : At(w, "issue") /\ job[w].acc = a /\ job[w].tok = None]_vars

\* Accounts for which a handler is about to open a session as good as the
\* password it was given; those for which it is still to read the version.
Proved ==
  {a \in Accounts : \E w \in Workers : /\ At(w, "clear") \/ At(w, "issue")
                                       /\ job[w].acc = a /\ job[w].tok = None
                                       /\ job[w].tv = version[a]}
Setting == {a \in Accounts : \E w \in Workers : At(w, "setupRead") /\ job[w].acc = a}

(* Sessions are opened and revoked as SessionContract allows: whatever was *)
(* read before a revocation opens no session after it, but for the session *)
(* of the staff member who set the password (completeOpsSetup).            *)
Contract == INSTANCE SessionContract WITH
  open <- {a \in Accounts : SignedIn(a)}, proved <- Proved, setting <- Setting

KeepsContract == Contract!Spec

(* A counter of failed sign-ins has a time to live, or a handler is about  *)
(* to give it one, as long as no process dies there: however its commands  *)
(* mix with those of other sign-ins, with the deletions after a sign-in or *)
(* a reset, and with its own end, no address stays locked (incr in         *)
(* redis.module.ts).                                                       *)
CountersEnd ==
  "expire" \notin MayDie =>
    \A a \in Accounts :
      fails[a].n > 0 =>
        fails[a].ttl \/ \E w \in Workers : At(w, "expire") /\ job[w].acc = a

Locked(a) == fails[a].n >= FailMax

(* An address that is locked can try again: "Too many failed sign-in       *)
(* attempts. Try again in a few minutes." (assertLoginNotLocked).          *)
LockEnds == \A a \in Accounts : Locked(a) ~> ~Locked(a)
=============================================================================

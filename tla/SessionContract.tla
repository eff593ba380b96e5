--------------------------- MODULE SessionContract ---------------------------
(***************************************************************************)
(* What the rest of the system may expect of the sessions of an account    *)
(* (src/auth/auth.service.ts): nobody is signed in to an account unless    *)
(* somebody gave its password, or set it, since all its sessions were      *)
(* revoked; and a new password revokes them all.                           *)
(***************************************************************************)
EXTENDS Naturals

CONSTANT Accounts

VARIABLES open,     \* accounts that somebody is signed in to
          proved,   \* accounts whose owner is about to be signed in
          setting,  \* accounts whose owner has set the password just now
          password  \* password[a]: how often the password was replaced

sessionVars == <<open, proved, setting, password>>

Init == /\ open = {} /\ proved = {} /\ setting = {}
        /\ password = [a \in Accounts |-> 0]

SignIn(a) == /\ proved' = proved \cup {a}
             /\ UNCHANGED <<open, setting, password>>

\* Whoever set the password is signed in next, whatever is revoked meanwhile.
ProceedFromSetting(a) == /\ a \in setting
                         /\ proved' = proved \cup {a}
                         /\ setting' \in {setting, setting \ {a}}
                         /\ UNCHANGED <<open, password>>

Open(a) == /\ a \in proved
           /\ open' = open \cup {a}
           /\ proved' \in {proved, proved \ {a}}
           /\ UNCHANGED <<setting, password>>

Revoke(a) == /\ open' = open \ {a}
             /\ proved' = proved \ {a}
             /\ UNCHANGED <<setting, password>>

ChangePassword(a) == /\ password' = [password EXCEPT ![a] = @ + 1]
                     /\ open' = open \ {a}
                     /\ proved' = proved \ {a}
                     /\ setting' \in {setting, setting \cup {a}}

\* Handlers end without a session, or die.
Leave == /\ proved' \subseteq proved /\ setting' \subseteq setting
         /\ UNCHANGED <<open, password>>

Next ==
  \/ Leave
  \/ \E a \in Accounts : \/ SignIn(a) \/ ProceedFromSetting(a) \/ Open(a)
                         \/ Revoke(a) \/ ChangePassword(a)

Spec == Init /\ [][Next]_sessionVars
=============================================================================

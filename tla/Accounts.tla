------------------------------ MODULE Accounts ------------------------------
(***************************************************************************)
(* The user rows (infrastructure/persistence/repositories/                 *)
(* user_repositories.py).  A use case reads a whole row, changes a field   *)
(* of its copy, and UserRepositoryImpl.update writes every field of the    *)
(* copy back, with no lock and, most of the time, no transaction.  The     *)
(* modules that change user rows extend this one.                          *)
(***************************************************************************)
CONSTANTS Users,   \* the e-mail addresses or phone numbers that users have
          NoUser   \* "no user"

VARIABLES account,   \* account[u]: the row of the user
          intended,  \* history: the row if each operation wrote only the fields it is about
          clobbered  \* history: the fields of u that a stale copy may have undone

accountVars == <<account, intended, clobbered>>

Roles == {"customer", "staff", "owner"}
Account == [state : {"none", "live"}, role : Roles, active : BOOLEAN,
            verified : BOOLEAN,  \* email_verified
            google : BOOLEAN]    \* created by Google, with a google_id
NoAccount == [state |-> "none", role |-> "customer", active |-> FALSE,
              verified |-> FALSE, google |-> FALSE]

Fields == {"state", "role", "active", "verified", "google"}

Exists(u) == u \in Users /\ account[u].state = "live"

AccountsInit == /\ account = [u \in Users |-> NoAccount]
                /\ intended = account
                /\ clobbered = [u \in Users |-> {}]

\* UserRepositoryImpl.create: the e-mail and the phone number are unique, a
\* second INSERT raises.
CreateAccount(u, x) == /\ ~Exists(u)
                       /\ account' = [account EXCEPT ![u] = x]
                       /\ intended' = [intended EXCEPT ![u] = x]
                       /\ UNCHANGED clobbered

\* What the operations on an existing row are about, whatever they write.
Confirmed(x) == [x EXCEPT !.verified = TRUE]
Granted(x) == [x EXCEPT !.active = TRUE, !.verified = TRUE]
MadeOwner(x) == [x EXCEPT !.role = "owner"]
Disabled(x) == [x EXCEPT !.active = FALSE]

\* UserRepositoryImpl.update: every field of the row becomes that of f.  The
\* operation was to make `aim` of the row, and would have made `since` of the row
\* it read: where the two differ, another operation was in between, and what
\* it did to the field may be undone.
WriteBack(u, f, aim, since) ==
    /\ account' = [account EXCEPT ![u] = f]
    /\ intended' = [intended EXCEPT ![u] = aim]
    /\ clobbered' = [clobbered EXCEPT ![u] = @ \cup {k \in Fields : aim[k] # since[k]}]

AccountsType == /\ account \in [Users -> Account]
                /\ intended \in [Users -> Account]
                /\ clobbered \in [Users -> SUBSET Fields]

\* Each field of a user row is what the operations that are about it have made
\* of it: no operation brings back a value it read, or changes a field it is not
\* about.  Only a field that another operation set between the reading and the
\* writing of a row is left open (user_repositories.py:104).
RowAsIntended == \A u \in Users : \A k \in Fields \ clobbered[u] : account[u][k] = intended[u][k]
=============================================================================

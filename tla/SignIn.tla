------------------------------- MODULE SignIn -------------------------------
(***************************************************************************)
(* One-time codes and the operations that use them: requesting a code,     *)
(* signing in with it, asking for a password reset and resetting, signing  *)
(* up, and signing in with Google (application/use_cases/                  *)
(* otp_use_cases.py, password_reset_use_cases.py, user_use_cases.py,       *)
(* google_oauth_use_case.py, shared/services/otp_service.py).              *)
(*                                                                         *)
(* Except for signing up nothing here runs in a transaction: every query   *)
(* is a step, and a request may die between two of them.  One row stands   *)
(* for one value of the code: two rows with the same digits are left out.  *)
(* Sessions, devices and tokens are the business of module Tokens.         *)
(***************************************************************************)
EXTENDS Integers, FiniteSets, Accounts

CONSTANTS Codes,     \* rows of otps and password_reset_tokens; each is used once
          NoCode,    \* "no code"
          Requests,  \* requests being served at the same time
          MaxTries,  \* max_attempts of a code
          MaxRequests  \* bound: requests in a behaviour

ASSUME SignInConstants == /\ MaxTries \in Nat \ {0} /\ MaxRequests \in Nat /\ NoCode \notin Codes /\ NoUser \notin Users
                          /\ IsFiniteSet(Codes) /\ IsFiniteSet(Requests)

VARIABLES code,     \* code[c]: the row
          request,  \* request[q]: where request q is, and what it has read
          uses,     \* history: sign-ins, or new passwords, that c has brought
          spare,    \* history: readings of c as usable before an earlier reader closed it
          crossed,  \* history: codes created after another request had created one in between
          left      \* requests that may still come

signInVars == <<code, request, uses, spare, crossed, left, account, intended, clobbered>>

Kinds == {"otp", "reset"}
Code == [state : {"none", "open", "closed"},  \* verified, or used
         kind : Kinds, user : Users \cup {NoUser}, old : BOOLEAN, tries : 0..MaxTries]
NoCodeRow == [state |-> "none", kind |-> "otp", user |-> NoUser, old |-> FALSE, tries |-> 0]
Idle == [pc |-> "idle", code |-> NoCode, user |-> NoUser, kind |-> "otp", tries |-> 0,
         copy |-> NoAccount, base |-> NoAccount, overtaken |-> FALSE]
Request == [pc : {"idle", "insert", "close", "load", "confirm", "session", "login",
                  "fail", "password", "mark", "sweep", "profile", "google", "owner", "admin"},
            code : Codes \cup {NoCode}, user : Users \cup {NoUser}, kind : Kinds,
            tries : 0..MaxTries, copy : Account,
            base : Account,       \* history: what the copy was meant to be when it was read
            overtaken : BOOLEAN]  \* another request has created a code since this one closed the others

SignInInit == /\ AccountsInit
              /\ code = [c \in Codes |-> NoCodeRow]
              /\ request = [q \in Requests |-> Idle]
              /\ uses = [c \in Codes |-> 0]
              /\ spare = [c \in Codes |-> 0]
              /\ crossed = [u \in Users |-> [k \in Kinds |-> 0]]
              /\ left = MaxRequests

At(q, pc) == request[q].pc = pc
Goto(q, pc) == request' = [request EXCEPT ![q].pc = pc]
Coming == left > 0 /\ left' = left - 1
Done(q) == request' = [request EXCEPT ![q] = Idle]
\* Request q goes on with x for its copy of the row, which was meant to be `base`.
GoWith(q, pc, x, base) == request' = [request EXCEPT ![q].pc = pc, ![q].copy = x, ![q].base = base]

\* OTP.is_valid and PasswordResetToken.is_valid on an unused row.
Usable(c) == code[c].state = "open" /\ ~code[c].old /\ code[c].tries < MaxTries
Pending(u, k) == {c \in Codes : Usable(c) /\ code[c].user = u /\ code[c].kind = k}
\* Requests that have found c usable and not closed it yet.
Readers(c) == {q \in Requests : request[q].code = c /\ request[q].pc \in {"close", "password", "mark"}}
Closed(u, k) == [c \in Codes |-> IF code[c].state = "open" /\ code[c].user = u /\ code[c].kind \in k
                                 THEN [code[c] EXCEPT !.state = "closed"] ELSE code[c]]
-----------------------------------------------------------------------------
(* A new code, for signing in or for a reset. *)

(* Variant: a new code leaves the older ones open. *)
CloseOthersNot(q, u, k) ==
    /\ Coming
    /\ At(q, "idle")
    /\ request' = [request EXCEPT ![q] = [Idle EXCEPT !.pc = "insert", !.user = u, !.kind = k]]
    /\ UNCHANGED <<code, uses, spare, crossed, account, intended, clobbered>>

\* invalidate_all_pending, invalidate_user_tokens
CloseOthers(q, u, k) ==
    /\ Coming
    /\ At(q, "idle")
    /\ code' = Closed(u, {k})
    /\ crossed' = [crossed EXCEPT ![u][k] = 0]
    /\ request' = [request EXCEPT ![q] = [Idle EXCEPT !.pc = "insert", !.user = u, !.kind = k]]
    /\ UNCHANGED <<uses, spare, account, intended, clobbered>>

Overtaken(u, k) ==
    [q \in Requests |-> IF At(q, "insert") /\ request[q].user = u /\ request[q].kind = k
                        THEN [request[q] EXCEPT !.overtaken = TRUE] ELSE request[q]]
Fresh(u, k) == [NoCodeRow EXCEPT !.state = "open", !.kind = k, !.user = u]

\* RequestOTPUseCase makes a code for an unknown user too.
RequestCode(q, u) == CloseOthers(q, u, "otp")

\* login_view, once the password has been found right
Login(q, u) == Exists(u) /\ account[u].active /\ RequestCode(q, u)

\* ForgotPasswordUseCase answers the same to an unknown user and makes nothing.
ForgotPassword(q, u) == Exists(u) /\ CloseOthers(q, u, "reset")

\* The INSERT; the code goes to the user by e-mail or SMS.
InsertCode(q, c) ==
    /\ At(q, "insert") /\ code[c].state = "none"
    /\ LET u == request[q].user  k == request[q].kind IN
         /\ code' = [code EXCEPT ![c] = Fresh(u, k)]
         /\ crossed' = [crossed EXCEPT ![u][k] = @ + (IF request[q].overtaken THEN 1 ELSE 0)]
         /\ request' = [Overtaken(u, k) EXCEPT ![q] = Idle]
    /\ UNCHANGED <<uses, spare, account, intended, clobbered, left>>

\* SignupUseCase: the user, a customer or of the staff, and, unless that fails,
\* a code, in one transaction.
SignUp(u, role) ==
    /\ Coming
    /\ CreateAccount(u, [NoAccount EXCEPT !.state = "live", !.active = TRUE, !.role = role])
    /\ \/ UNCHANGED <<code, crossed, request>>
       \/ \E c \in Codes : /\ code[c].state = "none"
                           /\ code' = [Closed(u, {"otp"}) EXCEPT ![c] = Fresh(u, "otp")]
                           /\ crossed' = [crossed EXCEPT ![u]["otp"] = 0]
                           /\ request' = Overtaken(u, "otp")
    /\ UNCHANGED <<uses, spare>>

\* Ten minutes later; delete_expired is never called.
Expire(c) == /\ code[c].state # "none" /\ ~code[c].old
             /\ code' = [code EXCEPT ![c].old = TRUE]
             /\ UNCHANGED <<request, uses, spare, crossed, account, intended, clobbered, left>>
-----------------------------------------------------------------------------
(* Signing in with a code: VerifyOTPUseCase.  It looks the code up by its   *)
(* digits, so a wrong guess finds no row, and the attempts of a sign-in code *)
(* stay 0.                                                                   *)

Took(c) == spare' = [spare EXCEPT ![c] = @ + (IF Readers(c) = {} THEN 0 ELSE 1)]

\* get_by_code and is_valid
VerifyRead(q, c) ==
    /\ Coming
    /\ At(q, "idle") /\ code[c].kind = "otp" /\ Usable(c)
    /\ request' = [request EXCEPT ![q] = [Idle EXCEPT !.pc = "close", !.code = c, !.user = code[c].user]]
    /\ Took(c)
    /\ UNCHANGED <<code, uses, crossed, account, intended, clobbered>>

(* Variant: the verified code is not saved. *)
VerifyCloseLost(q) == /\ At(q, "close") /\ Goto(q, "load")
                      /\ UNCHANGED <<code, uses, spare, crossed, account, intended, clobbered, left>>

\* The row is saved as verified, whatever has become of it.
VerifyClose(q) ==
    /\ At(q, "close")
    /\ code' = [code EXCEPT ![request[q].code].state = "closed"]
    /\ Goto(q, "load")
    /\ UNCHANGED <<uses, spare, crossed, account, intended, clobbered, left>>

\* The user of the code; an unknown or inactive one ends the request.
LoadUser(q) ==
    /\ At(q, "load")
    /\ LET u == request[q].user  x == account[u] IN
         IF x.state = "live" /\ x.active
         THEN GoWith(q, IF x.verified THEN "session" ELSE "confirm", x, intended[u]) ELSE Done(q)
    /\ UNCHANGED <<code, uses, spare, crossed, account, intended, clobbered, left>>

(* Variant: the use case goes on with the copy it read, and saves it again for
   the last login. *)
ConfirmUserForgets(q) ==
    /\ At(q, "confirm")
    /\ LET r == request[q]  new == [r.copy EXCEPT !.verified = TRUE] IN
         /\ WriteBack(r.user, new, Confirmed(intended[r.user]), Confirmed(r.base))
         /\ GoWith(q, "session", r.copy, Confirmed(r.base))
    /\ UNCHANGED <<code, uses, spare, crossed, left>>

\* The address is confirmed: the whole row is written.
ConfirmUser(q) ==
    /\ At(q, "confirm")
    /\ LET r == request[q]  new == [r.copy EXCEPT !.verified = TRUE] IN
         /\ WriteBack(r.user, new, Confirmed(intended[r.user]), Confirmed(r.base))
         /\ GoWith(q, "session", new, Confirmed(r.base))
    /\ UNCHANGED <<code, uses, spare, crossed, left>>

\* Session, device, tokens and the refresh row: see module Tokens.
StartSession(q) ==
    /\ At(q, "session")
    /\ uses' = IF request[q].code = NoCode THEN uses ELSE [uses EXCEPT ![request[q].code] = @ + 1]
    /\ Goto(q, "login")
    /\ UNCHANGED <<code, spare, crossed, account, intended, clobbered, left>>

\* last_login: the whole row is written once more.
LastLogin(q) ==
    /\ At(q, "login")
    /\ LET r == request[q] IN WriteBack(r.user, r.copy, intended[r.user], r.base)
    /\ Done(q)
    /\ UNCHANGED <<code, uses, spare, crossed, left>>

\* GoogleAuthUseCase once Google has answered: an unknown user is created, one
\* with a password is refused, any other is made active and verified.
GoogleRead(q, u) ==
    /\ Coming
    /\ At(q, "idle")
    /\ LET new == [account[u] EXCEPT !.active = TRUE, !.verified = TRUE]
           mine == [NoAccount EXCEPT !.state = "live", !.active = TRUE, !.verified = TRUE, !.google = TRUE]
           at(pc, x, base) == request' = [request EXCEPT ![q] =
               [Idle EXCEPT !.pc = pc, !.user = u, !.copy = x, !.base = base]]
       IN \/ CreateAccount(u, mine) /\ at("session", mine, mine)
          \/ /\ Exists(u) /\ account[u].google
             /\ at(IF new = account[u] THEN "session" ELSE "google", account[u], intended[u])
             /\ UNCHANGED accountVars
    /\ UNCHANGED <<code, uses, spare, crossed>>

GoogleWrite(q) ==
    /\ At(q, "google")
    /\ LET r == request[q]  new == [r.copy EXCEPT !.active = TRUE, !.verified = TRUE] IN
         /\ WriteBack(r.user, new, Granted(intended[r.user]), Granted(r.base))
         /\ GoWith(q, "session", new, Granted(r.base))
    /\ UNCHANGED <<code, uses, spare, crossed, left>>
-----------------------------------------------------------------------------
(* A new password: ResetPasswordUseCase. *)

(* Variant: max_attempts is not checked. *)
ResetReadUnlimited(q, c) ==
    /\ Coming
    /\ At(q, "idle") /\ code[c].kind = "reset" /\ code[c].state = "open"
    /\ request' = [request EXCEPT ![q] = [Idle EXCEPT !.pc = IF code[c].old THEN "fail" ELSE "password",
                                          !.code = c, !.user = code[c].user, !.tries = code[c].tries]]
    /\ IF code[c].old THEN UNCHANGED spare ELSE Took(c)
    /\ UNCHANGED <<code, uses, crossed, account, intended, clobbered>>

\* An expired row counts the attempt; one with too many is refused at once.  A
\* password that is too short counts one too, but the serializer has refused it.
ResetRead(q, c) ==
    /\ Coming
    /\ At(q, "idle") /\ code[c].kind = "reset" /\ code[c].state = "open" /\ code[c].tries < MaxTries
    /\ request' = [request EXCEPT ![q] = [Idle EXCEPT !.pc = IF code[c].old THEN "fail" ELSE "password",
                                          !.code = c, !.user = code[c].user, !.tries = code[c].tries]]
    /\ IF code[c].old THEN UNCHANGED spare ELSE Took(c)
    /\ UNCHANGED <<code, uses, crossed, account, intended, clobbered>>

(* Variant: a password found weak after the row was read counts as an attempt. *)
ResetFailAnyTime(q) ==
    /\ request[q].pc \in {"fail", "password"}
    /\ code' = [code EXCEPT ![request[q].code].tries = request[q].tries + 1,
                            ![request[q].code].state = "open"]
    /\ Done(q)
    /\ UNCHANGED <<uses, spare, crossed, account, intended, clobbered, left>>

\* The copy is saved with one more attempt, and with used as it was read.
ResetFail(q) ==
    /\ At(q, "fail")
    /\ code' = [code EXCEPT ![request[q].code].tries = request[q].tries + 1,
                            ![request[q].code].state = "open"]
    /\ Done(q)
    /\ UNCHANGED <<uses, spare, crossed, account, intended, clobbered, left>>

\* update_password; it reads and writes the row within one call, a step here.
ResetPassword(q) ==
    /\ At(q, "password")
    /\ uses' = [uses EXCEPT ![request[q].code] = @ + 1]
    /\ Goto(q, "mark")
    /\ UNCHANGED <<code, spare, crossed, account, intended, clobbered, left>>

ResetMark(q) ==
    /\ At(q, "mark")
    /\ code' = [code EXCEPT ![request[q].code].state = "closed",
                            ![request[q].code].tries = request[q].tries]
    /\ Goto(q, "sweep")
    /\ UNCHANGED <<uses, spare, crossed, account, intended, clobbered, left>>

\* invalidate_user_tokens, of both types
ResetSweep(q) ==
    /\ At(q, "sweep")
    /\ code' = Closed(request[q].user, {"reset"})
    /\ Done(q)
    /\ UNCHANGED <<uses, spare, crossed, account, intended, clobbered, left>>
-----------------------------------------------------------------------------
(* Other writers of user rows. *)

\* One of them reads the row of u, to write it back changed.
CopyUser(q, u, pc) ==
    /\ Coming
    /\ At(q, "idle") /\ Exists(u)
    /\ request' = [request EXCEPT ![q] = [Idle EXCEPT !.pc = pc, !.user = u, !.copy = account[u],
                                                      !.base = intended[u]]]
    /\ UNCHANGED <<code, uses, spare, crossed, account, intended, clobbered>>

\* UpdateProfileUseCase: name, phone number, address, avatar.
ProfileRead(q, u) == CopyUser(q, u, "profile")
ProfileWrite(q) ==
    /\ At(q, "profile")
    /\ LET r == request[q] IN WriteBack(r.user, r.copy, intended[r.user], r.base)
    /\ Done(q)
    /\ UNCHANGED <<code, uses, spare, crossed, left>>

\* CreateBusinessUseCase makes its user an owner, in a transaction that module
\* Members describes.
OwnerRead(q, u) == /\ account[u].active /\ account[u].verified /\ account[u].role # "owner"
                   /\ CopyUser(q, u, "owner")
OwnerWrite(q) ==
    /\ At(q, "owner")
    /\ LET r == request[q] IN
         WriteBack(r.user, [r.copy EXCEPT !.role = "owner"], MadeOwner(intended[r.user]), MadeOwner(r.base))
    /\ Done(q)
    /\ UNCHANGED <<code, uses, spare, crossed, left>>

\* The admin site: the form shows the row, and writes every field of it as it
\* was shown but for what the administrator has changed.
AdminRead(q, u) == account[u].active /\ CopyUser(q, u, "admin")
AdminWrite(q) ==
    /\ At(q, "admin")
    /\ LET r == request[q] IN
         WriteBack(r.user, [r.copy EXCEPT !.active = FALSE], Disabled(intended[r.user]), Disabled(r.base))
    /\ Done(q)
    /\ UNCHANGED <<code, uses, spare, crossed, left>>

\* The worker dies, or a query fails.  A password may be set and its code still
\* open: the code is good for one more.
Abandon(q) == /\ ~At(q, "idle")
              /\ Done(q)
              /\ spare' = IF At(q, "mark") THEN [spare EXCEPT ![request[q].code] = @ + 1] ELSE spare
              /\ UNCHANGED <<code, uses, crossed, account, intended, clobbered, left>>
-----------------------------------------------------------------------------
(* The endpoints: each view validates its input, runs the steps of its use   *)
(* case, and answers.                                                        *)
signup_view == \E u \in Users, role \in Roles \ {"owner"} : SignUp(u, role)
login_view(q) == \E u \in Users : Login(q, u)
request_otp_view(q) == \E u \in Users : RequestCode(q, u)
forgot_password_view(q) == \E u \in Users : ForgotPassword(q, u)
verify_otp_view(q) ==
    \/ \E c \in Codes : VerifyRead(q, c)
    \/ VerifyClose(q) \/ LoadUser(q) \/ ConfirmUser(q) \/ StartSession(q) \/ LastLogin(q)
google_callback_view(q) == (\E u \in Users : GoogleRead(q, u)) \/ GoogleWrite(q)
reset_password_view(q) == \/ \E c \in Codes : ResetRead(q, c)
                          \/ ResetFail(q) \/ ResetPassword(q) \/ ResetMark(q) \/ ResetSweep(q)
update_profile_view(q) == (\E u \in Users : ProfileRead(q, u)) \/ ProfileWrite(q)
create_business(q) == (\E u \in Users : OwnerRead(q, u)) \/ OwnerWrite(q)
admin_form(q) == (\E u \in Users : AdminRead(q, u)) \/ AdminWrite(q)

SignInNext == \/ \E q \in Requests :
                   \/ login_view(q) \/ request_otp_view(q) \/ forgot_password_view(q)
                   \/ verify_otp_view(q) \/ google_callback_view(q) \/ reset_password_view(q)
                   \/ update_profile_view(q) \/ create_business(q) \/ admin_form(q)
                   \/ (\E c \in Codes : InsertCode(q, c)) \/ Abandon(q)
              \/ signup_view
              \/ \E c \in Codes : Expire(c)
SignInSpec == SignInInit /\ [][SignInNext]_signInVars
-----------------------------------------------------------------------------
SignInType == /\ AccountsType
              /\ code \in [Codes -> Code]
              /\ request \in [Requests -> Request]
              /\ uses \in [Codes -> Nat] /\ spare \in [Codes -> Nat]
              /\ crossed \in [Users -> [Kinds -> Nat]]

\* A code signs its user in, or sets a password, once; more often only when a
\* request had read it before an earlier one closed it, or one died between
\* the new password and the mark on the code (otp_service.py:112,
\* password_reset_use_cases.py:199).
OneUse == \A c \in Codes : uses[c] <= 1 + spare[c]

\* A user has one usable code of a kind, or one more for each request that
\* closed the others before another request had created its own
\* (otp_service.py:61, password_reset_use_cases.py:64).
OneCodePending == \A u \in Users, k \in Kinds : Cardinality(Pending(u, k)) <= 1 + crossed[u][k]

\* A code that has been used, replaced or left to expire never works again,
\* although failed attempts write a stale copy of its row
\* (password_reset_use_cases.py:178).
ClosedForGood == [][\A c \in Codes : (code[c].state # "none" /\ ~Usable(c)) => ~Usable(c)']_signInVars
=============================================================================

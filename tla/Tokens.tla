------------------------------- MODULE Tokens -------------------------------
(***************************************************************************)
(* The JWTs of a user, the registry of tokens that simplejwt's blacklist   *)
(* keeps, the refresh rows of the application, and sessions                *)
(* (application/use_cases/user_use_cases.py, shared/authentication/,       *)
(* domain/users/services.py, presentation/views/auth_views.py,             *)
(* tasks/auth_tasks.py).                                                   *)
(*                                                                         *)
(* A token is never deleted from the hands of its owner: it is refused     *)
(* because it has expired, because the registry lists it as blacklisted,   *)
(* or because its refresh row is revoked.  A look-up in the registry that  *)
(* raises is logged, and the token accepted.  These are three stores,      *)
(* written by separate statements without a transaction.  Access tokens    *)
(* are recorded in the registry when they are first used, refresh tokens   *)
(* when they are made.                                                     *)
(***************************************************************************)
EXTENDS Integers, FiniteSets

CONSTANTS Pairs,       \* an access token and the refresh token made with it; each is made once
          NoPair,      \* "no pair"
          Devices,
          Handlers,    \* requests being served at the same time
          AccessLife, RefreshLife,  \* lifetimes of the JWTs
          RowLife,     \* lifetime of a refresh row
          Keep,        \* the cleanup deletes what expired that long ago
          MaxNow, MaxSessions, MaxCalls  \* bounds: the clock, open sessions, requests

ASSUME TokensConstants ==
    /\ NoPair \notin Pairs /\ IsFiniteSet(Pairs) /\ IsFiniteSet(Handlers)
    /\ AccessLife \in Nat \ {0} /\ RefreshLife \in Nat /\ AccessLife < RefreshLife
    /\ RowLife \in Nat /\ RefreshLife <= RowLife
    /\ Keep \in Nat /\ MaxNow \in Nat /\ MaxSessions \in Nat /\ MaxCalls \in Nat

VARIABLES now,
          made,         \* made[p]: the pair exists, and when it was made
          recorded,     \* OutstandingToken
          blacklisted,  \* BlacklistedToken
          row,          \* row[p]: the refresh row of the application
          sessions,     \* sessions[d]: sessions without an end
          handler,      \* handler[h]: where a request is, and what it has read
          barred,       \* history: tokens that have ever been blacklisted
          raced,        \* history: readings of the row while another rotation of it was under way
          dropped,      \* history: pairs whose rotation or logout died half-way
          calls         \* requests that may still come

tokenVars == <<now, made, recorded, blacklisted, row, sessions, handler, barred, raced, dropped, calls>>

Tokens == Pairs \X {"access", "refresh"}
Access(p) == <<p, "access">>
Refresh(p) == <<p, "refresh">>
Expiry(t) == made[t[1]].at + (IF t[2] = "access" THEN AccessLife ELSE RefreshLife)
Minted(t) == made[t[1]].done
Expired(t) == Expiry(t) <= now

Row == [state : {"none", "valid", "revoked"}, exp : Nat, device : Devices \cup {"none"},
        parent : Pairs \cup {NoPair}]
NoRow == [state |-> "none", exp |-> 0, device |-> "none", parent |-> NoPair]
RowValid(p) == row[p].state = "valid" /\ row[p].exp > now
Unrevoked(d) == {p \in Pairs : row[p].state = "valid" /\ d \in {"all", row[p].device}}

Resting == [pc |-> "idle", pair |-> NoPair, device |-> "none", parent |-> NoPair, rows |-> {}]
Handler == [pc : {"idle", "issue", "store", "bar", "revoke", "rows", "end", "out"},
            pair : Pairs \cup {NoPair}, device : Devices \cup {"none", "all"},
            parent : Pairs \cup {NoPair}, rows : SUBSET Pairs]

TokensInit == /\ now = 0
              /\ made = [p \in Pairs |-> [done |-> FALSE, at |-> 0]]
              /\ recorded = {} /\ blacklisted = {} /\ barred = {}
              /\ row = [p \in Pairs |-> NoRow]
              /\ sessions = [d \in Devices |-> 0]
              /\ handler = [h \in Handlers |-> Resting]
              /\ raced = [p \in Pairs |-> 0]
              /\ dropped = {}
              /\ calls = MaxCalls

Call == calls > 0 /\ calls' = calls - 1
In(h, pc) == handler[h].pc = pc
Move(h, pc) == handler' = [handler EXCEPT ![h].pc = pc]
Rest(h) == handler' = [handler EXCEPT ![h] = Resting]
\* Requests that have found the row of p valid and not revoked it yet.
Rotating(p) == {h \in Handlers : handler[h].parent = p /\ handler[h].pc \in {"bar", "revoke"}}

\* BlacklistedToken.get_or_create, recording the token first if it is not.
Blacklist(T) == /\ recorded' = recorded \cup T
                /\ blacklisted' = blacklisted \cup T
                /\ barred' = barred \cup T
\* blacklist_all_user_access_tokens: those that the registry knows.
KnownAccess == {t \in recorded : t[2] = "access" /\ ~Expired(t)}
\* A refresh token that simplejwt still accepts; for another one it raises, and
\* blacklist_refresh_token swallows the exception.
Sound(t) == Minted(t) /\ ~Expired(t) /\ t \notin blacklisted
-----------------------------------------------------------------------------
(* Signing in, and the second half of a rotation. *)

\* start_session, at the end of VerifyOTPUseCase or of the Google sign-in
SessionStart(h, d) ==
    /\ Call
    /\ In(h, "idle") /\ sessions[d] < MaxSessions
    /\ sessions' = [sessions EXCEPT ![d] = @ + 1]
    /\ handler' = [handler EXCEPT ![h] = [Resting EXCEPT !.pc = "issue", !.device = d]]
    /\ UNCHANGED <<now, made, recorded, blacklisted, row, barred, raced, dropped>>

\* generate_tokens: RefreshToken.for_user records the refresh token only.
Issue(h, p) ==
    /\ In(h, "issue") /\ ~made[p].done
    /\ made' = [made EXCEPT ![p] = [done |-> TRUE, at |-> now]]
    /\ recorded' = recorded \cup {Refresh(p)}
    /\ handler' = [handler EXCEPT ![h].pc = "store", ![h].pair = p]
    /\ UNCHANGED <<now, blacklisted, row, sessions, barred, raced, dropped, calls>>

\* create_refresh_token
Store(h) ==
    /\ In(h, "store")
    /\ row' = [row EXCEPT ![handler[h].pair] =
                  [state |-> "valid", exp |-> now + RowLife, device |-> handler[h].device,
                   parent |-> handler[h].parent]]
    /\ Rest(h)
    /\ UNCHANGED <<now, made, recorded, blacklisted, sessions, barred, raced, dropped, calls>>
-----------------------------------------------------------------------------
(* RefreshTokenUseCase.  What it finds in the blacklist is swallowed with    *)
(* every other exception: the row decides.                                   *)

RotateRead(h, p, d) ==
    /\ Call
    /\ In(h, "idle") /\ RowValid(p)
    /\ handler' = [handler EXCEPT ![h] =
                      [Resting EXCEPT !.pc = "bar", !.parent = p,
                                      !.device = IF d = "none" THEN row[p].device ELSE d]]
    /\ raced' = [raced EXCEPT ![p] = @ + (IF Rotating(p) = {} THEN 0 ELSE 1)]
    /\ UNCHANGED <<now, made, recorded, blacklisted, row, sessions, barred, dropped>>

\* The old tokens are blacklisted as far as that works.
RotateBar(h) ==
    /\ In(h, "bar")
    /\ \E T \in {{}, KnownAccess,
                 KnownAccess \cup {t \in {Refresh(handler[h].parent)} : Sound(t)}} : Blacklist(T)
    /\ Move(h, "revoke")
    /\ UNCHANGED <<now, made, row, sessions, raced, dropped, calls>>

(* Variant: the old row is left to expire. *)
RotateRevokeNot(h) == /\ In(h, "revoke")
                      /\ Move(h, "issue")
                      /\ UNCHANGED <<now, made, recorded, blacklisted, row, sessions, barred, raced, dropped, calls>>

RotateRevoke(h) ==
    /\ In(h, "revoke")
    /\ row' = [row EXCEPT ![handler[h].parent].state = "revoked"]
    /\ Move(h, "issue")
    /\ UNCHANGED <<now, made, recorded, blacklisted, sessions, barred, raced, dropped, calls>>
-----------------------------------------------------------------------------
(* Authentication and logout. *)

\* JWTAuthenticationWithBlacklist accepts t.  The registry and the blacklist
\* may not answer: whatever their look-up raises is logged, and t accepted.
Accepts(t, answered) == /\ t[2] = "access" /\ Minted(t) /\ ~Expired(t)
                        /\ answered => t \notin blacklisted

\* An authenticated request: an unknown token is recorded, if the registry can
\* be read and the INSERT succeeds.
Authenticate(t) ==
    /\ Accepts(t, TRUE)
    /\ recorded' = recorded \cup {t}
    /\ UNCHANGED <<now, made, blacklisted, row, sessions, handler, barred, raced, dropped, calls>>

\* logout_view, with its own token, from one device ("all": from every one;
\* "none": the current session).  The logout goes on without the token on the
\* blacklist when that fails.
LogoutStart(h, t, d) ==
    /\ Call
    /\ In(h, "idle") /\ \E answered \in BOOLEAN : Accepts(t, answered)
    /\ \E T \in {{}, {t}} : Blacklist(T)
    /\ handler' = [handler EXCEPT ![h] = [Resting EXCEPT !.pc = IF d = "none" THEN "end" ELSE "rows",
                                                         !.device = d]]
    /\ UNCHANGED <<now, made, row, sessions, raced, dropped>>

\* The unrevoked rows in reach are read; the refresh token of each, if it can
\* still be parsed, is blacklisted, and before it the access tokens that the
\* registry knows.  Any of this may fail, and the logout goes on.
LogoutRows(h) ==
    /\ In(h, "rows")
    /\ LET S == Unrevoked(handler[h].device)
           parsed == {t \in {Refresh(p) : p \in S} : Sound(t)}
       IN /\ \E T \in {{}} \cup {KnownAccess \cup R : R \in SUBSET parsed} :
                /\ parsed = {} => T = {}
                /\ Blacklist(T)
          /\ handler' = [handler EXCEPT ![h].pc = "end", ![h].rows = S]
    /\ UNCHANGED <<now, made, row, sessions, raced, dropped, calls>>

\* LogoutUseCase ends the sessions; without a device, every one of the user's.
LogoutEnd(h) ==
    /\ In(h, "end")
    /\ LET d == handler[h].device IN
         /\ sessions' = [e \in Devices |-> IF d \in {"all", "none", e} THEN 0 ELSE sessions[e]]
         /\ IF d = "none" THEN Rest(h) ELSE Move(h, "out")
    /\ UNCHANGED <<now, made, recorded, blacklisted, row, barred, raced, dropped, calls>>

(* Variant: the rows are revoked only when every device is logged out. *)
LogoutRevokeAllOnly(h) ==
    /\ In(h, "out")
    /\ row' = [p \in Pairs |-> IF handler[h].device = "all" /\ p \in Unrevoked("all")
                               THEN [row[p] EXCEPT !.state = "revoked"] ELSE row[p]]
    /\ Rest(h)
    /\ UNCHANGED <<now, made, recorded, blacklisted, sessions, barred, raced, dropped, calls>>

LogoutRevoke(h) ==
    /\ In(h, "out")
    /\ row' = [p \in Pairs |-> IF p \in Unrevoked(handler[h].device)
                               THEN [row[p] EXCEPT !.state = "revoked"] ELSE row[p]]
    /\ Rest(h)
    /\ UNCHANGED <<now, made, recorded, blacklisted, sessions, barred, raced, dropped, calls>>
-----------------------------------------------------------------------------
(* Variant: what expires within the period is deleted, not what expired before it. *)
CleanupEarly ==
    /\ LET Gone == {t \in recorded : Expiry(t) <= now + Keep} IN
         /\ Gone # {}
         /\ recorded' = recorded \ Gone
         /\ blacklisted' = blacklisted \ Gone
    /\ UNCHANGED <<now, made, row, sessions, handler, barred, raced, dropped, calls>>

\* cleanup_expired_tokens; the blacklist goes with the registry.
Cleanup ==
    /\ LET Gone == {t \in recorded : Expiry(t) < now - Keep} IN
         /\ Gone # {}
         /\ recorded' = recorded \ Gone
         /\ blacklisted' = blacklisted \ Gone
    /\ UNCHANGED <<now, made, row, sessions, handler, barred, raced, dropped, calls>>

Tick == /\ now < MaxNow
        /\ now' = now + 1
        /\ UNCHANGED <<made, recorded, blacklisted, row, sessions, handler, barred, raced, dropped, calls>>

\* The worker dies, or a query fails that nobody catches.
Drop(h) == /\ ~In(h, "idle")
           /\ Rest(h)
           /\ dropped' = dropped \cup handler[h].rows \cup ({handler[h].parent} \cap Pairs)
           /\ UNCHANGED <<now, made, recorded, blacklisted, row, sessions, barred, raced, calls>>

(* The endpoints, and the authentication that every other one begins with. *)
SignInEnds(h) == (\E d \in Devices : SessionStart(h, d)) \/ (\E p \in Pairs : Issue(h, p)) \/ Store(h)
refresh_token_view(h) == \/ \E p \in Pairs, d \in Devices \cup {"none"} : RotateRead(h, p, d)
                         \/ RotateBar(h) \/ RotateRevoke(h)
logout_view(h) == \/ \E t \in Tokens, d \in Devices \cup {"none", "all"} : LogoutStart(h, t, d)
                  \/ LogoutRows(h) \/ LogoutEnd(h) \/ LogoutRevoke(h)

TokensNext == \/ \E h \in Handlers : SignInEnds(h) \/ refresh_token_view(h) \/ logout_view(h) \/ Drop(h)
              \/ \E t \in Tokens : Authenticate(t)
              \/ Cleanup \/ Tick
TokensSpec == TokensInit /\ [][TokensNext]_tokenVars
-----------------------------------------------------------------------------
TokensType == /\ now \in 0..MaxNow
              /\ made \in [Pairs -> [done : BOOLEAN, at : 0..MaxNow]]
              /\ recorded \subseteq Tokens /\ blacklisted \subseteq Tokens /\ barred \subseteq Tokens
              /\ row \in [Pairs -> Row]
              /\ sessions \in [Devices -> 0..MaxSessions]
              /\ handler \in [Handlers -> Handler]
              /\ raced \in [Pairs -> Nat]
              /\ dropped \subseteq Pairs

\* A token that has been blacklisted passes no authentication whose look-up is
\* answered: neither when the cleanup has deleted what the registry knew of it
\* nor when authentication records a token that the registry does not know
\* (auth_tasks.py:29, jwt_blacklist_authentication.py:46).
BarredStaysOut == \A t \in barred : ~Accepts(t, TRUE)

\* A refresh row is followed only once it is revoked, and by one row, or one
\* more for each request that read it before another had revoked it
\* (user_use_cases.py:433).
RotationLinear == \A p \in Pairs :
    LET Next1 == {q \in Pairs : row[q].parent = p} IN
    /\ Next1 # {} => row[p].state = "revoked"
    /\ Cardinality(Next1) <= 1 + raced[p]

\* The two stores agree: a refresh token that is blacklisted has a revoked row,
\* unless the request that blacklisted it is still at work or has died
\* (auth_views.py:689, user_use_cases.py:425).
StoresAgree == \A p \in Pairs :
    Refresh(p) \in blacklisted /\ row[p].state = "valid" =>
        p \in dropped \/ \E h \in Handlers : p \in handler[h].rows \/ p = handler[h].parent
=============================================================================

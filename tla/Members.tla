------------------------------ MODULE Members -------------------------------
(***************************************************************************)
(* Businesses and their members (application/use_cases/                    *)
(* business_use_cases.py, domain/business/services.py,                     *)
(* infrastructure/persistence/repositories/business_repositories.py).      *)
(*                                                                         *)
(* A use case looks at the rows, decides, and writes.  Adding a member and *)
(* creating a business run in a transaction, but without locks: what they  *)
(* looked at may have changed when they commit.  The only constraint is    *)
(* that a business has one row for a user.                                 *)
(***************************************************************************)
EXTENDS Integers, FiniteSets, Accounts

CONSTANTS Businesses, NoBusiness,
          Clerks,         \* requests being served at the same time
          MaxMemberCalls  \* bound: requests in a behaviour

ASSUME MembersConstants == MaxMemberCalls \in Nat /\ NoUser \notin Users /\ NoBusiness \notin Businesses

VARIABLES business,   \* business[b]: the row
          member,     \* member[b][u]: the row of u in business b
          clerk,      \* clerk[k]: where a request is, and what it has read
          memberCalls \* requests that may still come

memberVars == <<business, member, clerk, memberCalls, account, intended, clobbered>>

Business == [state : {"none", "live"}, owner : Users \cup {NoUser}, active : BOOLEAN,
             late : BOOLEAN]   \* history: created after the creator's ties had changed
NoBusinessRow == [state |-> "none", owner |-> NoUser, active |-> FALSE, late |-> FALSE]
Member == [state : {"none", "active", "left"}, role : {"manager", "cashier"},
           removed : BOOLEAN,  \* history: the member has been removed at some time
           late : BOOLEAN]     \* history: written after what its writer read had changed
NoMember == [state |-> "none", role |-> "cashier", removed |-> FALSE, late |-> FALSE]

Free == [op |-> "none", business |-> NoBusiness, by |-> NoUser, target |-> NoUser, role |-> "cashier",
         copy |-> NoAccount, base |-> NoAccount, row |-> NoMember, shop |-> NoBusinessRow,
         overtaken |-> FALSE]
Clerk == [op : {"none", "create", "edit", "add", "insert", "remove", "update", "profile"},
          business : Businesses \cup {NoBusiness}, by : Users \cup {NoUser}, target : Users \cup {NoUser},
          role : {"manager", "cashier"}, copy : Account, row : Member, shop : Business,
          base : Account,       \* history: what the row read into the copy was intended to be
          overtaken : BOOLEAN]  \* the ties of the target have changed since the request began

MembersInit == /\ AccountsInit
               /\ business = [b \in Businesses |-> NoBusinessRow]
               /\ member = [b \in Businesses |-> [u \in Users |-> NoMember]]
               /\ clerk = [k \in Clerks |-> Free]
               /\ memberCalls = MaxMemberCalls

Begin(k) == clerk[k].op = "none" /\ memberCalls > 0 /\ memberCalls' = memberCalls - 1
Take(k, r) == clerk' = [clerk EXCEPT ![k] = [r EXCEPT !.overtaken = FALSE]]
\* Request k ends, having changed the ties of u: the others have read the old ones.
EndChanging(k, u) == clerk' = [j \in Clerks |-> IF j = k THEN Free
                                                ELSE IF clerk[j].target = u
                                                THEN [clerk[j] EXCEPT !.overtaken = TRUE] ELSE clerk[j]]
EndOf(k) == clerk' = [clerk EXCEPT ![k] = Free]
-----------------------------------------------------------------------------
(* Who may do what: BusinessDomainService. *)

Open(b) == business[b].state = "live"
Owns(u, b) == Open(b) /\ business[b].owner = u
\* is_manager
Manages(u, b) == member[b][u].state = "active" /\ member[b][u].role = "manager"
CanManageMembers(u, b) == Owns(u, b) \/ (Open(b) /\ Manages(u, b))
CanManageManagers(u, b) == Owns(u, b)
\* get_user_businesses
Memberships(u) == {b \in Businesses : member[b][u].state = "active"}
-----------------------------------------------------------------------------
(* Businesses. *)

\* The user is verified and has no membership.
CreateRead(k, u, b) ==
    /\ Begin(k)
    /\ business[b].state = "none"
    /\ Exists(u) /\ account[u].active /\ account[u].verified /\ Memberships(u) = {}
    /\ Take(k, [Free EXCEPT !.op = "create", !.business = b, !.target = u,
                            !.copy = account[u], !.base = intended[u]])
    /\ UNCHANGED <<business, member, account, intended, clobbered>>

\* The business, and its creator as an owner; a logo or a QR code that fails is
\* left out.
CreateWrite(k) ==
    LET r == clerk[k]  u == r.target IN
    /\ r.op = "create" /\ business[r.business].state = "none"
    /\ business' = [business EXCEPT ![r.business] =
                       [state |-> "live", owner |-> u, active |-> TRUE, late |-> r.overtaken]]
    /\ IF r.copy.role = "owner" THEN UNCHANGED accountVars
       ELSE WriteBack(u, MadeOwner(r.copy), MadeOwner(intended[u]), MadeOwner(r.base))
    /\ EndChanging(k, u)
    /\ UNCHANGED <<member, memberCalls>>

\* Name, address, logo, settings
EditRead(k, u, b) ==
    /\ Begin(k)
    /\ CanManageMembers(u, b)
    /\ Take(k, [Free EXCEPT !.op = "edit", !.business = b, !.by = u, !.shop = business[b]])
    /\ UNCHANGED <<business, member, account, intended, clobbered>>

\* The row is written whole, is_active included; the owner is not.  A business
\* deleted before the row is fetched again is not found; one deleted after that
\* is inserted again, without its members (business_repositories.py:66).
EditWrite(k) ==
    LET r == clerk[k] IN
    /\ r.op = "edit"
    /\ IF Open(r.business) THEN business' = [business EXCEPT ![r.business].active = r.shop.active]
       ELSE \E row \in {business[r.business], r.shop} : business' = [business EXCEPT ![r.business] = row]
    /\ EndOf(k)
    /\ UNCHANGED <<member, memberCalls, account, intended, clobbered>>

\* Members go with the business.
DeleteBusiness(u, b) ==
    /\ memberCalls > 0 /\ memberCalls' = memberCalls - 1
    /\ Owns(u, b)
    /\ business' = [business EXCEPT ![b] = NoBusinessRow]
    /\ member' = [member EXCEPT ![b] = [v \in Users |-> NoMember]]
    /\ UNCHANGED <<clerk, account, intended, clobbered>>

\* The admin site
Suspend(b) == /\ Open(b) /\ business[b].active
              /\ business' = [business EXCEPT ![b].active = FALSE]
              /\ UNCHANGED <<member, clerk, memberCalls, account, intended, clobbered>>
-----------------------------------------------------------------------------
(* Members. *)

MayAppoint(u, b, role) == /\ Open(b) /\ business[b].active /\ CanManageMembers(u, b)
                          /\ role = "manager" => CanManageManagers(u, b)

\* The target is somebody new, or a verified and active user who owns nothing.
Appointable(v) == ~Exists(v) \/ (account[v].verified /\ account[v].active /\ account[v].role # "owner")

AddRead(k, u, b, v, role) ==
    /\ Begin(k)
    /\ MayAppoint(u, b, role) /\ Appointable(v)
    /\ Take(k, [Free EXCEPT !.op = "add", !.business = b, !.by = u, !.target = v, !.role = role,
                            !.copy = account[v]])
    /\ UNCHANGED <<business, member, account, intended, clobbered>>

\* No row in this business, not even an old one, and no membership elsewhere.
AddLook(k) ==
    LET r == clerk[k] IN
    /\ r.op = "add"
    /\ IF Open(r.business) /\ member[r.business][r.target].state = "none" /\ Memberships(r.target) = {}
       THEN clerk' = [clerk EXCEPT ![k].op = "insert"] ELSE EndOf(k)
    /\ UNCHANGED <<business, member, memberCalls, account, intended, clobbered>>

\* A new target is made as a verified customer.  A second row for the user in
\* the business, or a user made by somebody else meanwhile, ends in a refusal.
AddWrite(k) ==
    LET r == clerk[k]  v == r.target  new == r.copy.state = "none" IN
    /\ r.op = "insert"
    /\ IF Open(r.business) /\ member[r.business][v].state = "none" /\ (new => ~Exists(v))
       THEN /\ member' = [member EXCEPT ![r.business][v] =
                             [NoMember EXCEPT !.state = "active", !.role = r.role, !.late = r.overtaken]]
            /\ IF new THEN CreateAccount(v, [NoAccount EXCEPT !.state = "live", !.active = TRUE, !.verified = TRUE])
               ELSE UNCHANGED accountVars
            /\ EndChanging(k, v)
       ELSE /\ EndOf(k)
            /\ UNCHANGED <<member, account, intended, clobbered>>
    /\ UNCHANGED <<business, memberCalls>>

MayRemove(u, b, v) == /\ CanManageMembers(u, b) /\ business[b].active /\ member[b][v].state = "active"
                      /\ Manages(v, b) => CanManageManagers(u, b)

RemoveRead(k, u, b, v) ==
    /\ Begin(k)
    /\ MayRemove(u, b, v)
    /\ Take(k, [Free EXCEPT !.op = "remove", !.business = b, !.by = u, !.target = v])
    /\ UNCHANGED <<business, member, account, intended, clobbered>>

RemoveWrite(k) ==
    LET r == clerk[k] IN
    /\ r.op = "remove"
    /\ member' = IF member[r.business][r.target].state = "none" THEN member
                 ELSE [member EXCEPT ![r.business][r.target].state = "left",
                                     ![r.business][r.target].removed = TRUE]
    /\ EndChanging(k, r.target)
    /\ UNCHANGED <<business, memberCalls, account, intended, clobbered>>

(* Variant: an inactive member may be updated too. *)
MayUpdateAny(u, b, v, role) == /\ Open(b) /\ business[b].active /\ CanManageMembers(u, b)
                               /\ member[b][v].state # "none"
                               /\ (role = "manager" \/ Manages(v, b)) => CanManageManagers(u, b)

\* The owner alone makes and unmakes managers, when the update names a role.
MayUpdate(u, b, v, role) == /\ Open(b) /\ business[b].active /\ CanManageMembers(u, b)
                            /\ member[b][v].state = "active"
                            /\ (role = "manager" \/ Manages(v, b)) => CanManageManagers(u, b)

\* A role, with or without is_active; or is_active = FALSE without naming a role.
UpdateRead(k, u, b, v) ==
    /\ Begin(k)
    /\ \/ \E role \in {"manager", "cashier"}, state \in {"active", "left"} :
             /\ MayUpdate(u, b, v, role)
             /\ Take(k, [Free EXCEPT !.op = "update", !.business = b, !.by = u, !.target = v,
                                     !.row = [member[b][v] EXCEPT !.role = role, !.state = state]])
       \/ /\ Open(b) /\ business[b].active /\ CanManageMembers(u, b) /\ member[b][v].state = "active"
          /\ Take(k, [Free EXCEPT !.op = "update", !.business = b, !.by = u, !.target = v,
                                  !.row = [member[b][v] EXCEPT !.state = "left"]])
    /\ UNCHANGED <<business, member, account, intended, clobbered>>

\* Role, is_active and left_at are written, whatever they have become.
UpdateWrite(k) ==
    LET r == clerk[k]  m == member[r.business][r.target] IN
    /\ r.op = "update"
    /\ member' = IF m.state = "none" THEN member
                 ELSE [member EXCEPT ![r.business][r.target] =
                          [r.row EXCEPT !.removed = m.removed \/ r.row.state = "left",
                                        !.late = m.late \/ r.overtaken]]
    /\ EndChanging(k, r.target)
    /\ UNCHANGED <<business, memberCalls, account, intended, clobbered>>
-----------------------------------------------------------------------------
(* What else happens to users. *)

\* A user has signed up and confirmed the address.
Join(u) == /\ memberCalls > 0 /\ memberCalls' = memberCalls - 1
           /\ CreateAccount(u, [NoAccount EXCEPT !.state = "live", !.active = TRUE, !.verified = TRUE])
           /\ UNCHANGED <<business, member, clerk>>

\* Every operation of module SignIn on a user row: a copy, written back later.
UserRead(k, u) == /\ Begin(k)
                  /\ Exists(u)
                  /\ clerk' = [clerk EXCEPT ![k] = [Free EXCEPT !.op = "profile", !.by = u,
                                                         !.copy = account[u], !.base = intended[u]]]
                  /\ UNCHANGED <<business, member, account, intended, clobbered>>
UserWrite(k) == /\ clerk[k].op = "profile"
                /\ WriteBack(clerk[k].by, clerk[k].copy, intended[clerk[k].by], clerk[k].base)
                /\ EndOf(k)
                /\ UNCHANGED <<business, member, memberCalls>>

\* The worker dies before its write; a transaction is rolled back.
Quit(k) == /\ clerk[k].op # "none"
           /\ EndOf(k)
           /\ UNCHANGED <<business, member, memberCalls, account, intended, clobbered>>
-----------------------------------------------------------------------------
(* The endpoints of BusinessViewSet. *)
create_business(k) == (\E u \in Users, b \in Businesses : CreateRead(k, u, b)) \/ CreateWrite(k)
update_business(k) == (\E u \in Users, b \in Businesses : EditRead(k, u, b)) \/ EditWrite(k)
destroy_business == \E u \in Users, b \in Businesses : DeleteBusiness(u, b)
add_member(k) == \/ \E u, v \in Users, b \in Businesses, role \in {"manager", "cashier"} : AddRead(k, u, b, v, role)
                 \/ AddLook(k) \/ AddWrite(k)
remove_member(k) == (\E u, v \in Users, b \in Businesses : RemoveRead(k, u, b, v)) \/ RemoveWrite(k)
update_member(k) == (\E u, v \in Users, b \in Businesses : UpdateRead(k, u, b, v)) \/ UpdateWrite(k)

MembersNext == \/ \E k \in Clerks : \/ create_business(k) \/ update_business(k) \/ add_member(k)
                                    \/ remove_member(k) \/ update_member(k)
                                    \/ (\E u \in Users : UserRead(k, u)) \/ UserWrite(k) \/ Quit(k)
               \/ destroy_business
               \/ \E b \in Businesses : Suspend(b)
               \/ \E u \in Users : Join(u)
MembersSpec == MembersInit /\ [][MembersNext]_memberVars
-----------------------------------------------------------------------------
MembersType == /\ AccountsType
               /\ business \in [Businesses -> Business]
               /\ member \in [Businesses -> [Users -> Member]]
               /\ clerk \in [Clerks -> Clerk]
               /\ memberCalls \in 0..MaxMemberCalls

\* The ties that were made by a request nothing had overtaken.
Timely(u) == {b \in Memberships(u) : ~member[b][u].late}
Founded(u) == {b \in Businesses : Owns(u, b) /\ ~business[b].late}

\* A user belongs to one business: to one that employs him, or to those he
\* owns.  He has more only when a request decided on ties that another one
\* changed before it wrote, or when a stale copy of his row took the role of an
\* owner from him; and a member who was removed is not a member again unless
\* such a request writes the old row back (business_use_cases.py:542,
\* business_use_cases.py:838).
OneBusinessEach == \A u \in Users :
    /\ Cardinality(Timely(u)) <= 1
    /\ (Timely(u) # {} /\ Founded(u) # {}) => "role" \in clobbered[u]
    /\ \A b \in Timely(u) : ~member[b][u].removed
=============================================================================

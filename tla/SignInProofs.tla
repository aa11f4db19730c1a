---------------------------- MODULE SignInProofs ----------------------------
(***************************************************************************)
(* Proofs about SignIn and the user rows of Accounts.  A row that has been *)
(* used, replaced or left to expire never becomes usable again, so that a  *)
(* step either makes one new code or makes codes unusable; on that rest    *)
(* the counts of the requests that hold a code and of the codes that are   *)
(* usable at a time.                                                       *)
(***************************************************************************)
EXTENDS SignIn, FiniteSetTheorems, TLAPS

\* Requests that have found c usable and may still sign in, or set a password, with it.
Carries(q, c) == request[q].code = c /\ request[q].pc \in {"close", "load", "confirm", "session", "password"}
Carriers(c) == {q \in Requests : Carries(q, c)}
Fits(c) == Usable(c) \/ code[c].state = "none"

RowsInv == \A c \in Codes : IF code[c].state = "none" THEN ~code[c].old ELSE code[c].user \in Users
RequestFits(q) ==
    LET r == request[q] IN
    /\ r.pc \in {"insert", "close", "load"} => r.user \in Users
    /\ r.pc \in {"close", "fail", "password", "mark"} => r.code \in Codes /\ code[r.code].state # "none"
    /\ r.pc = "fail" => code[r.code].old /\ r.tries < MaxTries
    /\ r.pc = "google" => r.code = NoCode
RequestsInv == \A q \in Requests : RequestFits(q)

\* A use, and a request that may come to one, is the first or a spare one; while
\* the code fits and nobody reads it, there is room for one more.
UseInv == \A c \in Codes :
    /\ uses[c] + Cardinality(Carriers(c)) <= 1 + spare[c]
    /\ (Fits(c) /\ Readers(c) = {}) => uses[c] + Cardinality(Carriers(c)) <= spare[c]

\* A request about to insert a code, which no other has overtaken.
Clear(q, u, k) == At(q, "insert") /\ request[q].user = u /\ request[q].kind = k /\ ~request[q].overtaken
PendingInv == \A u \in Users, k \in Kinds :
    /\ Cardinality(Pending(u, k)) <= 1 + crossed[u][k]
    /\ (\E q \in Requests : Clear(q, u, k)) => Cardinality(Pending(u, k)) <= crossed[u][k]

SignInv == SignInType /\ RowsInv /\ RequestsInv /\ UseInv /\ PendingInv
-----------------------------------------------------------------------------
(* What a step does to the codes. *)

Drops(c) == /\ code[c].state # "none" /\ code'[c].state # "none" /\ ~Usable(c)'
            /\ code'[c].user = code[c].user /\ (code[c].old => code'[c].old)
Stays(c) == code'[c] = code[c] \/ Drops(c)
Steady == \A c \in Codes : Stays(c)
Enters(c, u, k) == /\ code[c].state = "none" /\ code'[c] = Fresh(u, k)
                   /\ \A d \in Codes \ {c} : Stays(d)

\* What it does to the requests other than q.
Same(p) == /\ request'[p].pc = request[p].pc /\ request'[p].code = request[p].code
           /\ request'[p].user = request[p].user /\ request'[p].kind = request[p].kind
           /\ request'[p].tries = request[p].tries
           /\ ~request'[p].overtaken => ~request[p].overtaken
Unmoved(q) == \A p \in Requests \ {q} : Same(p)

LEMMA FitsKept ==
  ASSUME NEW c \in Codes, Stays(c)
  PROVE  Fits(c)' => Fits(c)
  BY DEF Stays, Drops, Fits, Usable

LEMMA RowsKept ==
  ASSUME RowsInv, Steady \/ \E c \in Codes, u \in Users, k \in Kinds : Enters(c, u, k)
  PROVE  RowsInv'
  <1>1. ASSUME NEW c \in Codes, Stays(c)
        PROVE  IF code'[c].state = "none" THEN ~code'[c].old ELSE code'[c].user \in Users
    BY <1>1 DEF RowsInv, Stays, Drops
  <1>2. CASE Steady
    BY <1>1, <1>2 DEF Steady, RowsInv
  <1>3. ASSUME NEW c \in Codes, NEW u \in Users, NEW k \in Kinds, Enters(c, u, k)
        PROVE  RowsInv'
    <2>1. code'[c].state = "open" /\ code'[c].user = u
      BY <1>3 DEF Enters, Fresh, NoCodeRow
    <2> QED
      BY <1>1, <1>3, <2>1 DEF Enters, RowsInv
  <1> QED
    BY <1>2, <1>3

\* A request that a step leaves alone still fits: its code is no new one.
LEMMA RequestKept ==
  ASSUME NEW p \in Requests, RequestFits(p), Same(p),
         Steady \/ \E c \in Codes, u \in Users, k \in Kinds : Enters(c, u, k)
  PROVE  RequestFits(p)'
  <1> DEFINE x == request[p].code
  <1>1. ASSUME x \in Codes, code[x].state # "none"
        PROVE  code'[x].state # "none" /\ (code[x].old => code'[x].old)
    <2>1. CASE Steady
      BY <1>1, <2>1 DEF Steady, Stays, Drops
    <2>2. ASSUME NEW c \in Codes, NEW u \in Users, NEW k \in Kinds, Enters(c, u, k)
          PROVE  code'[x].state # "none" /\ (code[x].old => code'[x].old)
      BY <1>1, <2>2 DEF Enters, Stays, Drops
    <2> QED
      BY <2>1, <2>2
  <1> QED
    BY <1>1 DEF RequestFits, Same
-----------------------------------------------------------------------------
(* Counting. *)

LEMMA CarriersFinite ==
  ASSUME NEW c \in Codes
  PROVE  /\ IsFiniteSet(Carriers(c)) /\ Cardinality(Carriers(c)) \in Nat
         /\ IsFiniteSet(Carriers(c)') /\ Cardinality(Carriers(c)') \in Nat
  <1>1. Carriers(c) \in SUBSET Requests /\ Carriers(c)' \in SUBSET Requests
    BY DEF Carriers
  <1> QED
    BY <1>1, FS_Subset, FS_CardinalityType, SignInConstants

LEMMA PendingFinite ==
  ASSUME NEW u, NEW k
  PROVE  /\ IsFiniteSet(Pending(u, k)) /\ Cardinality(Pending(u, k)) \in Nat
         /\ IsFiniteSet(Pending(u, k)') /\ Cardinality(Pending(u, k)') \in Nat
  <1>1. Pending(u, k) \in SUBSET Codes /\ Pending(u, k)' \in SUBSET Codes
    BY DEF Pending
  <1> QED
    BY <1>1, FS_Subset, FS_CardinalityType, SignInConstants

One(b) == IF b THEN 1 ELSE 0

\* A set that differs from another in at most q.
LEMMA CountOne ==
  ASSUME NEW S, NEW T, NEW q, IsFiniteSet(S), IsFiniteSet(T), S \ {q} = T \ {q}
  PROVE  Cardinality(T) + One(q \in S) = Cardinality(S) + One(q \in T)
  <1>1. /\ Cardinality(S) \in Nat /\ Cardinality(T) \in Nat
        /\ Cardinality(S \ {q}) = IF q \in S THEN Cardinality(S) - 1 ELSE Cardinality(S)
        /\ Cardinality(T \ {q}) = IF q \in T THEN Cardinality(T) - 1 ELSE Cardinality(T)
    BY FS_CardinalityType, FS_RemoveElement
  <1>2. Cardinality(S \ {q}) = Cardinality(T \ {q})
    OBVIOUS
  <1> QED
    BY <1>1, <1>2 DEF One

LEMMA OneMore ==
  ASSUME NEW S, IsFiniteSet(S), NEW x
  PROVE  IsFiniteSet(S \cup {x}) /\ Cardinality(S \cup {x}) <= Cardinality(S) + 1
  <1>1. Cardinality(S) \in Nat
    BY FS_CardinalityType
  <1>2. CASE x \in S
    BY <1>1, <1>2, FS_AddElement
  <1>3. CASE x \notin S
    BY <1>1, <1>3, FS_AddElement
  <1> QED
    BY <1>2, <1>3

LEMMA CarriersMove ==
  ASSUME NEW q \in Requests, Unmoved(q), NEW c \in Codes
  PROVE  /\ Cardinality(Carriers(c)') + One(Carries(q, c)) = Cardinality(Carriers(c)) + One(Carries(q, c)')
         /\ Readers(c) \ {q} = Readers(c)' \ {q}
  <1>1. Carriers(c) \ {q} = Carriers(c)' \ {q}
    BY DEF Carriers, Carries, Unmoved, Same
  <1>2. (q \in Carriers(c) <=> Carries(q, c)) /\ (q \in Carriers(c)' <=> Carries(q, c)')
    BY DEF Carriers
  <1>3. Readers(c) \ {q} = Readers(c)' \ {q}
    BY DEF Readers, Unmoved, Same
  <1>4. Cardinality(Carriers(c)') + One(q \in Carriers(c)) = Cardinality(Carriers(c)) + One(q \in Carriers(c)')
    BY <1>1, CarriersFinite, CountOne
  <1> QED
    BY <1>2, <1>3, <1>4 DEF One
-----------------------------------------------------------------------------
(* What a step of request q does to the uses of c: nothing, or one reader    *)
(* less that leaves room, or one reader more.                                *)
Balance(q, c) == uses[c] + One(Carries(q, c)) - spare[c]
ReadsIt(q, c) == q \in Readers(c)
Covered(q, c) == /\ uses'[c] + One(Carries(q, c)') - spare'[c] <= Balance(q, c)
                 /\ ReadsIt(q, c) => (ReadsIt(q, c)' \/ ~Fits(c)')
Frees(q, c) == uses'[c] + One(Carries(q, c)') - spare'[c] <= Balance(q, c) - 1
Takes(q, c) == /\ ReadsIt(q, c)' /\ Fits(c) /\ uses'[c] = uses[c]
               /\ spare'[c] = spare[c] + (IF Readers(c) = {} THEN 0 ELSE 1)

LEMMA UseKept ==
  ASSUME SignInType, UseInv, uses' \in [Codes -> Nat], spare' \in [Codes -> Nat],
         NEW q \in Requests, Unmoved(q),
         \A c \in Codes : Fits(c)' => Fits(c),
         \A c \in Codes : Covered(q, c) \/ Frees(q, c) \/ Takes(q, c)
  PROVE  UseInv'
  <1> SUFFICES ASSUME NEW c \in Codes
               PROVE  /\ uses'[c] + Cardinality(Carriers(c)') <= 1 + spare'[c]
                      /\ (Fits(c)' /\ Readers(c)' = {}) => uses'[c] + Cardinality(Carriers(c)') <= spare'[c]
    BY DEF UseInv
  <1> PICK n : n = Cardinality(Carriers(c))
    OBVIOUS
  <1> PICK m : m = Cardinality(Carriers(c)')
    OBVIOUS
  <1>1. n \in Nat /\ m \in Nat
    BY CarriersFinite
  <1>2. uses[c] \in Nat /\ spare[c] \in Nat /\ uses'[c] \in Nat /\ spare'[c] \in Nat
    BY DEF SignInType
  <1>3. /\ uses[c] + n <= 1 + spare[c]
        /\ (Fits(c) /\ Readers(c) = {}) => uses[c] + n <= spare[c]
    BY DEF UseInv
  <1>4. m + One(Carries(q, c)) = n + One(Carries(q, c)') /\ Readers(c) \ {q} = Readers(c)' \ {q}
    BY CarriersMove
  <1>5. One(Carries(q, c)) \in {0, 1} /\ One(Carries(q, c)') \in {0, 1}
    BY DEF One
  <1>6. CASE Covered(q, c)
    <2>1. uses'[c] + m - spare'[c] <= uses[c] + n - spare[c]
      BY <1>1, <1>2, <1>4, <1>5, <1>6 DEF Covered, Balance
    <2>2. (Fits(c)' /\ Readers(c)' = {}) => (Fits(c) /\ Readers(c) = {})
      BY <1>4, <1>6 DEF Covered, ReadsIt
    <2> QED
      BY <1>1, <1>2, <1>3, <2>1, <2>2
  <1>7. CASE Frees(q, c)
    <2>1. uses'[c] + m - spare'[c] <= uses[c] + n - spare[c] - 1
      BY <1>1, <1>2, <1>4, <1>5, <1>7 DEF Frees, Balance
    <2> QED
      BY <1>1, <1>2, <1>3, <2>1
  <1>8. CASE Takes(q, c)
    <2>1. Readers(c)' # {} /\ Fits(c) /\ uses'[c] = uses[c]
      BY <1>8 DEF Takes, ReadsIt
    <2>2. m <= n + 1
      BY <1>1, <1>4, <1>5
    <2>3. CASE Readers(c) = {}
      BY <1>1, <1>2, <1>3, <1>8, <2>1, <2>2, <2>3 DEF Takes
    <2>4. CASE Readers(c) # {}
      BY <1>1, <1>2, <1>3, <1>8, <2>1, <2>2, <2>4 DEF Takes
    <2> QED
      BY <2>3, <2>4
  <1> QED
    BY <1>6, <1>7, <1>8

\* No request moves.
LEMMA UseStays ==
  ASSUME UseInv, UNCHANGED <<uses, spare>>, \A p \in Requests : Same(p),
         \A c \in Codes : Fits(c)' => Fits(c)
  PROVE  UseInv'
  <1> SUFFICES ASSUME NEW c \in Codes
               PROVE  /\ uses'[c] + Cardinality(Carriers(c)') <= 1 + spare'[c]
                      /\ (Fits(c)' /\ Readers(c)' = {}) => uses'[c] + Cardinality(Carriers(c)') <= spare'[c]
    BY DEF UseInv
  <1>1. Carriers(c)' = Carriers(c) /\ Readers(c)' = Readers(c)
    BY DEF Carriers, Carries, Readers, Same
  <1> QED
    BY <1>1 DEF UseInv
-----------------------------------------------------------------------------
(* The codes that are usable at a time. *)

LEMMA PendingShrinks ==
  ASSUME Steady, NEW u, NEW k
  PROVE  Cardinality(Pending(u, k)') <= Cardinality(Pending(u, k))
  <1>1. Pending(u, k)' \in SUBSET Pending(u, k)
    BY DEF Steady, Stays, Drops, Pending, Usable
  <1> QED
    BY <1>1, PendingFinite, FS_Subset

LEMMA PendingStays ==
  ASSUME SignInType, PendingInv, Steady, UNCHANGED crossed,
         \A p \in Requests : At(p, "insert")' => (At(p, "insert") /\ Same(p))
  PROVE  PendingInv'
  <1> SUFFICES ASSUME NEW u \in Users, NEW k \in Kinds
               PROVE  /\ Cardinality(Pending(u, k)') <= 1 + crossed'[u][k]
                      /\ (\E q \in Requests : Clear(q, u, k)') => Cardinality(Pending(u, k)') <= crossed'[u][k]
    BY DEF PendingInv
  <1>1. Cardinality(Pending(u, k)') <= Cardinality(Pending(u, k))
    BY PendingShrinks
  <1>2. (\E q \in Requests : Clear(q, u, k)') => (\E q \in Requests : Clear(q, u, k))
    BY DEF Clear, Same, At
  <1>3. crossed[u][k] \in Nat /\ Cardinality(Pending(u, k)) \in Nat /\ Cardinality(Pending(u, k)') \in Nat
    BY PendingFinite DEF SignInType
  <1>4. /\ Cardinality(Pending(u, k)) <= 1 + crossed[u][k]
        /\ (\E q \in Requests : Clear(q, u, k)) => Cardinality(Pending(u, k)) <= crossed[u][k]
    BY DEF PendingInv
  <1> QED
    BY <1>1, <1>2, <1>3, <1>4

\* The codes of u that are of kind k are closed, and nothing has crossed yet.
LEMMA PendingCloses ==
  ASSUME SignInType, PendingInv, NEW v \in Users, NEW l \in Kinds, code' = Closed(v, {l}),
         crossed' = [crossed EXCEPT ![v][l] = 0], NEW q \in Requests, Unmoved(q),
         request'[q].user = v, request'[q].kind = l
  PROVE  PendingInv'
  <1> SUFFICES ASSUME NEW u \in Users, NEW k \in Kinds
               PROVE  /\ Cardinality(Pending(u, k)') <= 1 + crossed'[u][k]
                      /\ (\E p \in Requests : Clear(p, u, k)') => Cardinality(Pending(u, k)') <= crossed'[u][k]
    BY DEF PendingInv
  <1>1. crossed[u][k] \in Nat /\ Cardinality(Pending(u, k)) \in Nat /\ Cardinality(Pending(u, k)') \in Nat
    BY PendingFinite DEF SignInType
  <1>2. CASE u = v /\ k = l
    <2>1. Pending(u, k)' = {}
      BY <1>2 DEF Pending, Usable, Closed, SignInType, Code
    <2>2. Cardinality(Pending(u, k)') = 0
      BY <2>1, FS_EmptySet
    <2>3. crossed'[u][k] = 0
      BY <1>2 DEF SignInType
    <2> QED
      BY <2>2, <2>3
  <1>3. CASE ~(u = v /\ k = l)
    <2>1. crossed'[u][k] = crossed[u][k]
      BY <1>3 DEF SignInType
    <2>2. Pending(u, k)' = Pending(u, k)
      BY <1>3 DEF Pending, Usable, Closed, SignInType, Code
    <2>3. (\E p \in Requests : Clear(p, u, k)') => (\E p \in Requests : Clear(p, u, k))
      BY <1>3 DEF Clear, Unmoved, Same, At
    <2> QED
      BY <2>1, <2>2, <2>3 DEF PendingInv
  <1> QED
    BY <1>2, <1>3

\* A code of v is inserted: one more, and room for one more if q was overtaken.
LEMMA PendingInserts ==
  ASSUME SignInType, PendingInv, NEW c \in Codes, NEW q \in Requests, InsertCode(q, c),
         request[q].user \in Users
  PROVE  PendingInv'
  <1> PICK v : v = request[q].user
    OBVIOUS
  <1> PICK l : l = request[q].kind
    OBVIOUS
  <1>0. v \in Users /\ l \in Kinds
    BY DEF SignInType, Request
  <1> SUFFICES ASSUME NEW u \in Users, NEW k \in Kinds
               PROVE  /\ Cardinality(Pending(u, k)') <= 1 + crossed'[u][k]
                      /\ (\E p \in Requests : Clear(p, u, k)') => Cardinality(Pending(u, k)') <= crossed'[u][k]
    BY DEF PendingInv
  <1>1. crossed[u][k] \in Nat /\ Cardinality(Pending(u, k)) \in Nat /\ Cardinality(Pending(u, k)') \in Nat
    BY PendingFinite DEF SignInType
  <1>2. /\ code' = [code EXCEPT ![c] = Fresh(v, l)]
        /\ crossed' = [crossed EXCEPT ![v][l] = @ + (IF request[q].overtaken THEN 1 ELSE 0)]
        /\ request' = [Overtaken(v, l) EXCEPT ![q] = Idle]
        /\ At(q, "insert") /\ code[c].state = "none"
    BY DEF InsertCode
  <1>3. CASE u = v /\ k = l
    <2>1. Cardinality(Pending(u, k)') <= Cardinality(Pending(u, k)) + 1
      <3>1. Pending(u, k)' \in SUBSET (Pending(u, k) \cup {c})
        BY <1>2 DEF Pending, Usable, SignInType
      <3>2. IsFiniteSet(Pending(u, k) \cup {c}) /\ Cardinality(Pending(u, k) \cup {c}) <= Cardinality(Pending(u, k)) + 1
        BY <1>1, PendingFinite, OneMore
      <3>3. /\ Cardinality(Pending(u, k)') <= Cardinality(Pending(u, k) \cup {c})
            /\ Cardinality(Pending(u, k) \cup {c}) \in Nat
        BY <3>1, <3>2, FS_Subset, FS_CardinalityType
      <3> QED
        BY <1>1, <3>2, <3>3
    <2>2. ~\E p \in Requests : Clear(p, u, k)'
      BY <1>2, <1>3 DEF Clear, At, Overtaken, Idle, SignInType, Request
    <2>3. crossed'[u][k] = crossed[u][k] + (IF request[q].overtaken THEN 1 ELSE 0)
      BY <1>2, <1>3 DEF SignInType
    <2>4. CASE request[q].overtaken
      BY <1>1, <2>1, <2>2, <2>3, <2>4 DEF PendingInv
    <2>5. CASE ~request[q].overtaken
      <3>1. Clear(q, u, k)
        BY <1>2, <1>3, <2>5 DEF Clear
      <3>2. Cardinality(Pending(u, k)) <= crossed[u][k]
        BY <3>1 DEF PendingInv
      <3> QED
        BY <1>1, <2>1, <2>2, <2>3, <2>5, <3>2
    <2> QED
      BY <2>4, <2>5
  <1>4. CASE ~(u = v /\ k = l)
    <2>1. crossed'[u][k] = crossed[u][k]
      BY <1>2, <1>4 DEF SignInType
    <2>2. Pending(u, k)' = Pending(u, k)
      BY <1>2, <1>4 DEF Pending, Usable, SignInType, Fresh, NoCodeRow
    <2>3. (\E p \in Requests : Clear(p, u, k)') => (\E p \in Requests : Clear(p, u, k))
      BY <1>2, <1>4 DEF Clear, At, Overtaken, Idle, SignInType, Request
    <2> QED
      BY <2>1, <2>2, <2>3 DEF PendingInv
  <1> QED
    BY <1>3, <1>4

\* Signing up closes the sign-in codes of v and inserts one.
LEMMA PendingSignsUp ==
  ASSUME SignInType, PendingInv, NEW v \in Users, NEW c \in Codes,
         code' = [Closed(v, {"otp"}) EXCEPT ![c] = Fresh(v, "otp")],
         crossed' = [crossed EXCEPT ![v]["otp"] = 0], request' = Overtaken(v, "otp")
  PROVE  PendingInv'
  <1> SUFFICES ASSUME NEW u \in Users, NEW k \in Kinds
               PROVE  /\ Cardinality(Pending(u, k)') <= 1 + crossed'[u][k]
                      /\ (\E p \in Requests : Clear(p, u, k)') => Cardinality(Pending(u, k)') <= crossed'[u][k]
    BY DEF PendingInv
  <1>1. crossed[u][k] \in Nat /\ Cardinality(Pending(u, k)) \in Nat /\ Cardinality(Pending(u, k)') \in Nat
    BY PendingFinite DEF SignInType
  <1>2. CASE u = v /\ k = "otp"
    <2>1. Pending(u, k)' \in SUBSET {c}
      BY <1>2 DEF Pending, Usable, Closed, SignInType, Code
    <2>2. Cardinality(Pending(u, k)') <= 1
      <3>1. IsFiniteSet({c}) /\ Cardinality({c}) = 1
        BY FS_Singleton, Zenon
      <3> QED
        BY <2>1, <3>1, FS_Subset
    <2>3. crossed'[u][k] = 0
      BY <1>2 DEF SignInType, Kinds
    <2>4. ~\E p \in Requests : Clear(p, u, k)'
      BY <1>2 DEF Clear, At, Overtaken, SignInType, Request
    <2> QED
      BY <1>1, <2>2, <2>3, <2>4
  <1>3. CASE ~(u = v /\ k = "otp")
    <2>1. crossed'[u][k] = crossed[u][k]
      BY <1>3 DEF SignInType
    <2>2. Pending(u, k)' \in SUBSET Pending(u, k)
      BY <1>3 DEF Pending, Usable, Closed, SignInType, Code, Fresh, NoCodeRow
    <2>3. (\E p \in Requests : Clear(p, u, k)') => (\E p \in Requests : Clear(p, u, k))
      BY <1>3 DEF Clear, At, Overtaken, SignInType, Request
    <2>4. Cardinality(Pending(u, k)') <= Cardinality(Pending(u, k))
      BY <2>2, PendingFinite, FS_Subset
    <2>5. /\ Cardinality(Pending(u, k)) <= 1 + crossed[u][k]
          /\ (\E p \in Requests : Clear(p, u, k)) => Cardinality(Pending(u, k)) <= crossed[u][k]
      BY DEF PendingInv
    <2> QED
      BY <1>1, <2>1, <2>3, <2>4, <2>5
  <1> QED
    BY <1>2, <1>3
-----------------------------------------------------------------------------
(* The user rows. *)

LEMMA NoAccountTyped == NoAccount \in Account
  BY DEF NoAccount, Account, Roles

LEMMA MadeTyped ==
  ASSUME NEW x \in Account
  PROVE  Confirmed(x) \in Account /\ Granted(x) \in Account /\ MadeOwner(x) \in Account /\ Disabled(x) \in Account
  BY DEF Account, Roles, Confirmed, Granted, MadeOwner, Disabled

LEMMA CreateTyped ==
  ASSUME AccountsType, NEW u, NEW x \in Account, CreateAccount(u, x)
  PROVE  AccountsType'
  BY DEF AccountsType, CreateAccount

LEMMA WriteBackTyped ==
  ASSUME AccountsType, NEW u, NEW f \in Account, NEW aim, u \in Users => aim \in Account, NEW since,
         WriteBack(u, f, aim, since)
  PROVE  AccountsType'
  <1> DEFINE lost == {k \in Fields : aim[k] # since[k]}
  <1>1. /\ account' = [account EXCEPT ![u] = f] /\ intended' = [intended EXCEPT ![u] = aim]
        /\ clobbered' = [clobbered EXCEPT ![u] = clobbered[u] \cup lost]
    BY DEF WriteBack
  <1>2. lost \in SUBSET Fields
    OBVIOUS
  <1> HIDE DEF lost
  <1>3. CASE u \in Users
    BY <1>1, <1>2, <1>3 DEF AccountsType
  <1>4. CASE u \notin Users
    BY <1>1, <1>4 DEF AccountsType
  <1> QED
    BY <1>3, <1>4
-----------------------------------------------------------------------------
(* Steps that keep the invariant. *)

\* Request q goes on as x, and no code is made.
LEMMA OnwardKeeps ==
  ASSUME SignInv, NEW q \in Requests, NEW x \in Request, request' = [request EXCEPT ![q] = x],
         Steady, code' \in [Codes -> Code], AccountsType',
         uses' \in [Codes -> Nat], spare' \in [Codes -> Nat],
         \A c \in Codes : Covered(q, c) \/ Frees(q, c) \/ Takes(q, c),
         RequestFits(q)', x.pc # "insert", UNCHANGED crossed
  PROVE  SignInv'
  <1>1. Unmoved(q)
    BY DEF Unmoved, Same
  <1>2. request' \in [Requests -> Request] /\ request'[q] = x
    BY DEF SignInv, SignInType
  <1>3. SignInType'
    BY <1>2 DEF SignInv, SignInType
  <1>4. RowsInv'
    BY RowsKept DEF SignInv
  <1>5. RequestsInv'
    <2>1. ASSUME NEW p \in Requests \ {q} PROVE RequestFits(p)'
      BY <1>1, <2>1, RequestKept DEF SignInv, RequestsInv, Unmoved
    <2> QED
      BY <2>1 DEF RequestsInv
  <1>6. UseInv'
    <2>1. \A c \in Codes : Fits(c)' => Fits(c)
      BY FitsKept DEF Steady
    <2> QED
      BY <1>1, <2>1, UseKept DEF SignInv
  <1>7. PendingInv'
    <2>1. \A p \in Requests : At(p, "insert")' => (At(p, "insert") /\ Same(p))
      BY <1>1, <1>2 DEF At, Unmoved, Same
    <2> QED
      BY <2>1, PendingStays DEF SignInv
  <1> QED
    BY <1>3, <1>4, <1>5, <1>6, <1>7 DEF SignInv

\* The codes that are closed for a user.
LEMMA ClosedSteady ==
  ASSUME SignInv, NEW u, NEW K, code' = Closed(u, K)
  PROVE  Steady /\ code' \in [Codes -> Code]
  <1>1. code' \in [Codes -> Code]
    BY DEF SignInv, SignInType, Closed, Code
  <1>2. ASSUME NEW c \in Codes PROVE Stays(c)
    <2>1. CASE code[c].state = "open" /\ code[c].user = u /\ code[c].kind \in K
      <3>1. code'[c] = [code[c] EXCEPT !.state = "closed"] /\ code[c] \in Code
        BY <2>1 DEF Closed, SignInv, SignInType
      <3>2. code'[c].state = "closed" /\ code'[c].user = code[c].user /\ code'[c].old = code[c].old
        BY <3>1 DEF Code
      <3> QED
        BY <2>1, <3>2 DEF Stays, Drops, Usable
    <2>2. CASE ~(code[c].state = "open" /\ code[c].user = u /\ code[c].kind \in K)
      BY <2>2 DEF Closed, Stays
    <2> QED
      BY <2>1, <2>2
  <1> QED
    BY <1>1, <1>2 DEF Steady

\* One row is written and is not usable then.
LEMMA WriteSteady ==
  ASSUME SignInv, NEW c \in Codes, NEW x \in Code, code' = [code EXCEPT ![c] = x],
         code[c].state # "none", x.user = code[c].user, code[c].old => x.old,
         x.state = "closed" \/ (x.state # "none" /\ x.old)
  PROVE  Steady /\ code' \in [Codes -> Code]
  <1>1. code' \in [Codes -> Code] /\ code'[c] = x
    BY DEF SignInv, SignInType
  <1>2. Stays(c)
    BY <1>1 DEF Stays, Drops, Usable
  <1>3. \A d \in Codes \ {c} : Stays(d)
    BY DEF Stays
  <1> QED
    BY <1>1, <1>2, <1>3 DEF Steady

LEMMA SameSteady ==
  ASSUME SignInv, UNCHANGED code
  PROVE  Steady /\ code' \in [Codes -> Code]
  BY DEF SignInv, SignInType, Steady, Stays

LEMMA SameAccounts ==
  ASSUME SignInv, UNCHANGED <<account, intended, clobbered>>
  PROVE  AccountsType'
  BY DEF SignInv, SignInType, AccountsType

\* No request moves, and no code is made.
LEMMA AsideKeeps ==
  ASSUME SignInv, UNCHANGED <<request, uses, spare, crossed>>, Steady, code' \in [Codes -> Code],
         AccountsType'
  PROVE  SignInv'
  <1>1. \A p \in Requests : Same(p)
    BY DEF Same
  <1>2. RequestsInv'
    BY <1>1, RequestKept DEF SignInv, RequestsInv
  <1>3. UseInv'
    BY <1>1, UseStays, FitsKept DEF SignInv, Steady
  <1>4. PendingInv'
    BY <1>1, PendingStays DEF SignInv, At
  <1> QED
    BY <1>2, <1>3, <1>4, RowsKept DEF SignInv, SignInType
-----------------------------------------------------------------------------
(* The actions: a new code. *)

LEMMA IdleTyped == Idle \in Request /\ NoCodeRow \in Code
  <1>1. 0 \in 0..MaxTries
    BY SignInConstants
  <1> QED
    BY <1>1, NoAccountTyped DEF Idle, Request, NoCodeRow, Code, Kinds

LEMMA CloseOthersKeeps ==
  ASSUME SignInv, NEW q \in Requests, NEW u \in Users, NEW k \in Kinds, CloseOthers(q, u, k)
  PROVE  SignInv' /\ Steady
  <1> DEFINE x == [Idle EXCEPT !.pc = "insert", !.user = u, !.kind = k]
  <1>1. x \in Request /\ x.pc = "insert" /\ x.user = u /\ x.kind = k
    BY IdleTyped DEF Request
  <1>2. /\ request' = [request EXCEPT ![q] = x] /\ code' = Closed(u, {k}) /\ request[q].pc = "idle"
        /\ crossed' = [crossed EXCEPT ![u][k] = 0] /\ UNCHANGED <<uses, spare, account, intended, clobbered>>
    BY DEF CloseOthers, At
  <1>3. Steady /\ code' \in [Codes -> Code]
    BY <1>2, ClosedSteady
  <1>4. request' \in [Requests -> Request] /\ request'[q] = x /\ Unmoved(q)
    <2> HIDE DEF x
    <2> QED
      BY <1>1, <1>2 DEF SignInv, SignInType, Unmoved, Same
  <1>5. SignInType'
    BY <1>2, <1>3, <1>4, SameAccounts DEF SignInv, SignInType
  <1>6. RequestsInv'
    <2>1. RequestFits(q)'
      BY <1>1, <1>4 DEF RequestFits
    <2>2. ASSUME NEW p \in Requests \ {q} PROVE RequestFits(p)'
      BY <1>3, <1>4, <2>2, RequestKept DEF SignInv, RequestsInv, Unmoved
    <2> QED
      BY <2>1, <2>2 DEF RequestsInv
  <1>7. UseInv'
    <2>1. \A c \in Codes : Fits(c)' => Fits(c)
      BY <1>3, FitsKept DEF Steady
    <2>2. ASSUME NEW c \in Codes PROVE Covered(q, c)
      <3>1. ~Carries(q, c) /\ ~Carries(q, c)' /\ ~ReadsIt(q, c)
        BY <1>1, <1>2, <1>4 DEF Carries, ReadsIt, Readers
      <3> QED
        BY <1>2, <3>1 DEF Covered, Balance, One, SignInv, SignInType
    <2> QED
      BY <1>2, <1>4, <1>5, <2>1, <2>2, UseKept DEF SignInv, SignInType
  <1>8. PendingInv'
    <2>1. request'[q].user = u /\ request'[q].kind = k
      BY <1>1, <1>4
    <2> HIDE DEF x
    <2> QED
      BY <1>2, <1>4, <2>1, PendingCloses DEF SignInv
  <1> QED
    BY <1>3, <1>5, <1>6, <1>7, <1>8, RowsKept DEF SignInv

LEMMA FreshTyped ==
  ASSUME NEW u \in Users, NEW k \in Kinds
  PROVE  Fresh(u, k) \in Code
  BY IdleTyped DEF Fresh, Code

LEMMA OvertakenTyped ==
  ASSUME SignInv, NEW u, NEW k
  PROVE  /\ Overtaken(u, k) \in [Requests -> Request]
         /\ \A p \in Requests : LET r == Overtaken(u, k)[p] IN
               /\ r.pc = request[p].pc /\ r.code = request[p].code /\ r.user = request[p].user
               /\ r.kind = request[p].kind /\ r.tries = request[p].tries
               /\ ~r.overtaken => ~request[p].overtaken
  BY ZenonT(40) DEF Overtaken, SignInv, SignInType, Request

LEMMA InsertCodeKeeps ==
  ASSUME SignInv, NEW q \in Requests, NEW c \in Codes, InsertCode(q, c)
  PROVE  SignInv' /\ Enters(c, request[q].user, request[q].kind)
  <1> PICK u : u = request[q].user
    OBVIOUS
  <1> PICK k : k = request[q].kind
    OBVIOUS
  <1> PICK b : b = IF request[q].overtaken THEN 1 ELSE 0
    OBVIOUS
  <1>0. /\ request[q].pc = "insert" /\ code[c].state = "none" /\ code' = [code EXCEPT ![c] = Fresh(u, k)]
        /\ crossed' = [crossed EXCEPT ![u][k] = @ + b] /\ request' = [Overtaken(u, k) EXCEPT ![q] = Idle]
        /\ UNCHANGED <<uses, spare, account, intended, clobbered>>
    BY DEF InsertCode, At
  <1>1. u \in Users /\ k \in Kinds /\ b \in Nat
    BY <1>0 DEF SignInv, SignInType, Request, RequestsInv, RequestFits
  <1>2. /\ request' \in [Requests -> Request] /\ request'[q] = Idle /\ Unmoved(q)
    <2>1. request' \in [Requests -> Request] /\ request'[q] = Idle
      BY <1>0, OvertakenTyped, IdleTyped
    <2>2. \A p \in Requests \ {q} : request'[p] = Overtaken(u, k)[p]
      BY <1>0, OvertakenTyped
    <2> QED
      BY <2>1, <2>2, OvertakenTyped DEF Unmoved, Same
  <1>3. code' \in [Codes -> Code] /\ Enters(c, u, k)
    <2>1. Fresh(u, k) \in Code
      BY <1>1, FreshTyped
    <2> QED
      BY <1>0, <2>1 DEF SignInv, SignInType, Enters, Stays
  <1>4. SignInType'
    <2>1. crossed' \in [Users -> [Kinds -> Nat]]
      BY <1>0, <1>1 DEF SignInv, SignInType
    <2> QED
      BY <1>0, <1>2, <1>3, <2>1, SameAccounts DEF SignInv, SignInType
  <1>5. RequestsInv'
    <2>1. RequestFits(q)'
      BY <1>2 DEF RequestFits, Idle
    <2>2. ASSUME NEW p \in Requests \ {q} PROVE RequestFits(p)'
      BY <1>1, <1>2, <1>3, <2>2, RequestKept DEF SignInv, RequestsInv, Unmoved
    <2> QED
      BY <2>1, <2>2 DEF RequestsInv
  <1>6. UseInv'
    <2>1. \A d \in Codes : Fits(d)' => Fits(d)
      BY <1>3, FitsKept DEF Enters, Fits
    <2>2. ASSUME NEW d \in Codes PROVE Covered(q, d)
      <3>1. ~Carries(q, d) /\ ~Carries(q, d)' /\ ~ReadsIt(q, d)
        BY <1>0, <1>2 DEF Carries, ReadsIt, Readers, Idle
      <3> QED
        BY <1>0, <3>1 DEF Covered, Balance, One, SignInv, SignInType
    <2> QED
      BY <1>0, <1>2, <1>4, <2>1, <2>2, UseKept DEF SignInv, SignInType
  <1>7. PendingInv'
    BY <1>1, PendingInserts DEF SignInv
  <1>8. RowsInv'
    BY <1>1, <1>3, RowsKept DEF SignInv
  <1> QED
    BY <1>3, <1>4, <1>5, <1>6, <1>7, <1>8 DEF SignInv

\* The new user of a role, and his code.
LEMMA SignUpKeeps ==
  ASSUME SignInv, NEW u \in Users, NEW role \in Roles, SignUp(u, role)
  PROVE  SignInv' /\ (Steady \/ \E c \in Codes : Enters(c, u, "otp"))
  <1> DEFINE x == [NoAccount EXCEPT !.state = "live", !.active = TRUE, !.role = role]
  <1>1. AccountsType'
    <2>1. x \in Account
      BY DEF NoAccount, Account
    <2>2. CreateAccount(u, x)
      BY DEF SignUp
    <2> HIDE DEF x
    <2> QED
      BY <2>1, <2>2, CreateTyped DEF SignInv, SignInType
  <1>2. CASE UNCHANGED <<code, crossed, request>>
    BY <1>1, <1>2, SameSteady, AsideKeeps DEF SignUp
  <1>3. ASSUME NEW c \in Codes, code[c].state = "none",
               code' = [Closed(u, {"otp"}) EXCEPT ![c] = Fresh(u, "otp")],
               crossed' = [crossed EXCEPT ![u]["otp"] = 0], request' = Overtaken(u, "otp")
        PROVE  SignInv' /\ Enters(c, u, "otp")
    <2>1. \A p \in Requests : Same(p)
      BY <1>3, OvertakenTyped DEF Same
    <2>2. code' \in [Codes -> Code] /\ Enters(c, u, "otp")
      <3>1. Fresh(u, "otp") \in Code
        BY FreshTyped DEF Kinds
      <3>2. code'[c] = Fresh(u, "otp") /\ code' \in [Codes -> Code]
        BY <1>3, <3>1 DEF Closed, SignInv, SignInType, Code
      <3>3. ASSUME NEW d \in Codes \ {c} PROVE Stays(d)
        <4>1. CASE code[d].state = "open" /\ code[d].user = u /\ code[d].kind = "otp"
          <5>1. code'[d] = [code[d] EXCEPT !.state = "closed"] /\ code[d] \in Code
            BY <1>3, <4>1 DEF Closed, SignInv, SignInType
          <5>2. code'[d].state = "closed" /\ code'[d].user = code[d].user /\ code'[d].old = code[d].old
            BY <5>1 DEF Code
          <5> QED
            BY <4>1, <5>2 DEF Stays, Drops, Usable
        <4>2. CASE ~(code[d].state = "open" /\ code[d].user = u /\ code[d].kind = "otp")
          BY <1>3, <4>2 DEF Closed, Stays
        <4> QED
          BY <4>1, <4>2
      <3> QED
        BY <1>3, <3>2, <3>3 DEF Enters
    <2>3. SignInType'
      <3>1. crossed' \in [Users -> [Kinds -> Nat]]
        BY <1>3 DEF SignInv, SignInType
      <3> QED
        BY <1>1, <1>3, <2>2, <3>1, OvertakenTyped DEF SignInv, SignInType, SignUp
    <2>4. RequestsInv'
      BY <2>1, <2>2, RequestKept DEF SignInv, RequestsInv, Kinds
    <2>5. UseInv'
      <3>1. \A d \in Codes : Fits(d)' => Fits(d)
        BY <2>2, FitsKept DEF Enters, Fits
      <3>2. UNCHANGED <<uses, spare>>
        BY DEF SignUp
      <3> QED
        BY <2>1, <3>1, <3>2, UseStays DEF SignInv
    <2>6. PendingInv'
      BY <1>3, PendingSignsUp DEF SignInv
    <2>7. RowsInv'
      BY <2>2, RowsKept DEF SignInv, Kinds
    <2> QED
      BY <1>1, <2>2, <2>3, <2>4, <2>5, <2>6, <2>7 DEF SignInv
  <1> QED
    BY <1>1, <1>2, <1>3, SameSteady DEF SignUp

LEMMA ExpireKeeps ==
  ASSUME SignInv, NEW c \in Codes, Expire(c)
  PROVE  SignInv' /\ Steady
  <1> PICK x : x = [code[c] EXCEPT !.old = TRUE]
    OBVIOUS
  <1>1. x \in Code /\ x.user = code[c].user /\ x.old /\ x.state # "none"
    BY DEF SignInv, SignInType, Code, Expire
  <1>2. code' = [code EXCEPT ![c] = x]
    BY DEF Expire
  <1>3. Steady /\ code' \in [Codes -> Code]
    BY <1>1, <1>2, WriteSteady DEF Expire
  <1> QED
    BY <1>3, AsideKeeps, SameAccounts DEF Expire
-----------------------------------------------------------------------------
(* The actions: signing in. *)

\* Request q begins with a code it has found usable.
LEMMA TakeKeeps ==
  ASSUME SignInv, NEW q \in Requests, NEW c \in Codes, At(q, "idle"), Usable(c), Took(c),
         NEW x \in Request, request' = [request EXCEPT ![q] = x],
         x.pc \in {"close", "password"}, x.code = c, x.user = code[c].user,
         UNCHANGED <<code, uses, crossed, account, intended, clobbered>>
  PROVE  SignInv' /\ Steady
  <1>1. request'[q] = x
    BY DEF SignInv, SignInType
  <1>2. spare' \in [Codes -> Nat] /\ spare'[c] = spare[c] + (IF Readers(c) = {} THEN 0 ELSE 1)
        /\ \A d \in Codes \ {c} : spare'[d] = spare[d]
    BY DEF Took, SignInv, SignInType
  <1>3. ASSUME NEW d \in Codes PROVE Covered(q, d) \/ Takes(q, d)
    <2>1. CASE d = c
      <3>1. ReadsIt(q, d)'
        BY <1>1, <2>1 DEF ReadsIt, Readers
      <3> QED
        BY <1>2, <2>1, <3>1 DEF Takes, Fits
    <2>2. CASE d # c
      <3>1. ~Carries(q, d) /\ ~Carries(q, d)' /\ ~ReadsIt(q, d)
        BY <1>1, <2>2 DEF Carries, ReadsIt, Readers, At
      <3> QED
        BY <1>2, <2>2, <3>1 DEF Covered, Balance, One, SignInv, SignInType
    <2> QED
      BY <2>1, <2>2
  <1>4. RequestFits(q)'
    BY <1>1 DEF RequestFits, SignInv, RowsInv, Usable
  <1>5. Steady /\ code' \in [Codes -> Code]
    BY SameSteady
  <1>6. uses' \in [Codes -> Nat]
    BY DEF SignInv, SignInType
  <1> QED
    BY <1>2, <1>3, <1>4, <1>5, <1>6, SameAccounts, OnwardKeeps

LEMMA VerifyReadKeeps ==
  ASSUME SignInv, NEW q \in Requests, NEW c \in Codes, VerifyRead(q, c)
  PROVE  SignInv' /\ Steady
  <1> PICK x : x = [Idle EXCEPT !.pc = "close", !.code = c, !.user = code[c].user]
    OBVIOUS
  <1>1. x \in Request /\ x.pc = "close" /\ x.code = c /\ x.user = code[c].user
    <2>1. code[c].user \in Users \cup {NoUser}
      BY DEF SignInv, SignInType, Code
    <2> QED
      BY <2>1, IdleTyped DEF Request
  <1>2. request' = [request EXCEPT ![q] = x]
    BY DEF VerifyRead
  <1> QED
    BY <1>1, <1>2, TakeKeeps DEF VerifyRead

\* Request q goes on without the codes, and has read none that it could leave.
LEMMA PassKeeps ==
  ASSUME SignInv, NEW q \in Requests, NEW x \in Request, request' = [request EXCEPT ![q] = x],
         request[q].pc \notin {"close", "password", "mark"},
         x.pc \notin {"insert", "close", "load", "fail", "password", "mark"},
         x.code \in Codes => (x.code = request[q].code /\
            (x.pc \in {"confirm", "session"} => request[q].pc \in {"load", "confirm", "session"})),
         x.pc = "google" => x.code = NoCode,
         AccountsType', Steady, code' \in [Codes -> Code],
         UNCHANGED <<uses, spare, crossed>>
  PROVE  SignInv'
  <1>1. request'[q] = x
    BY DEF SignInv, SignInType
  <1>2. ASSUME NEW d \in Codes PROVE Covered(q, d)
    <2>1. Carries(q, d)' => Carries(q, d)
      BY <1>1 DEF Carries
    <2>2. ~ReadsIt(q, d)
      BY DEF ReadsIt, Readers
    <2>3. uses'[d] = uses[d] /\ spare'[d] = spare[d] /\ uses[d] \in Nat /\ spare[d] \in Nat
      BY DEF SignInv, SignInType
    <2>4. One(Carries(q, d)') <= One(Carries(q, d)) /\ One(Carries(q, d)') \in Nat /\ One(Carries(q, d)) \in Nat
      BY <2>1 DEF One
    <2> QED
      BY <2>2, <2>3, <2>4 DEF Covered, Balance
  <1>3. RequestFits(q)'
    BY <1>1 DEF RequestFits
  <1>4. uses' \in [Codes -> Nat] /\ spare' \in [Codes -> Nat]
    BY DEF SignInv, SignInType
  <1> QED
    BY <1>2, <1>3, <1>4, OnwardKeeps

LEMMA PcTyped ==
  ASSUME NEW x \in Request, NEW pc \in {"idle", "insert", "close", "load", "confirm", "session", "login",
                  "fail", "password", "mark", "sweep", "profile", "google", "owner", "admin"}
  PROVE  /\ [x EXCEPT !.pc = pc] \in Request /\ [x EXCEPT !.pc = pc].pc = pc
         /\ [x EXCEPT !.pc = pc].code = x.code /\ [x EXCEPT !.pc = pc].user = x.user
         /\ [x EXCEPT !.pc = pc].tries = x.tries
  BY DEF Request

\* Request r goes on with another copy of its user.
WithCopy(r, pc, a, b) == [r EXCEPT !.pc = pc, !.copy = a, !.base = b]

\* Request q goes on with a copy of its user and is in no hurry with its code.
LEMMA GoWithKeeps ==
  ASSUME SignInv, NEW q \in Requests, NEW a \in Account, NEW b \in Account, NEW pc \in {"session", "confirm"},
         GoWith(q, pc, a, b), request[q].pc \in {"load", "confirm", "google"},
         request[q].pc = "google" => request[q].code = NoCode,
         AccountsType', UNCHANGED <<code, uses, spare, crossed>>
  PROVE  SignInv'
  <1> PICK r \in Request : r = request[q]
    BY DEF SignInv, SignInType
  <1> PICK x : x = WithCopy(r, pc, a, b)
    OBVIOUS
  <1>1. x \in Request /\ x.pc = pc /\ x.code = r.code
    <2>1. /\ WithCopy(r, pc, a, b) \in Request /\ WithCopy(r, pc, a, b).pc = pc
          /\ WithCopy(r, pc, a, b).code = r.code
      BY DEF Request, WithCopy
    <2> QED
      BY <2>1, Zenon
  <1>2. request' = [request EXCEPT ![q] = x]
    BY DEF GoWith, WithCopy, SignInv, SignInType
  <1>3. Steady /\ code' \in [Codes -> Code]
    BY SameSteady
  <1>4. x.code \in Codes => (x.code = request[q].code /\ request[q].pc \in {"load", "confirm", "session"})
    BY <1>1, SignInConstants
  <1>5. /\ request[q].pc \notin {"close", "password", "mark"} /\ x.pc # "google"
        /\ x.pc \notin {"insert", "close", "load", "fail", "password", "mark"}
    BY <1>1
  <1> QED
    BY <1>1, <1>2, <1>3, <1>4, <1>5, PassKeeps

\* A row marked as verified, or used.
LEMMA MarkTyped ==
  ASSUME NEW x \in Code
  PROVE  /\ [x EXCEPT !.state = "closed"] \in Code /\ [x EXCEPT !.state = "closed"].state = "closed"
         /\ [x EXCEPT !.state = "closed"].user = x.user /\ [x EXCEPT !.state = "closed"].old = x.old
  <1>1. [x EXCEPT !.state = "closed"] \in Code
    BY DEF Code
  <1> QED
    BY <1>1 DEF Code

\* The code is closed: the request reads it no more, and carries it on.
LEMMA VerifyCloseKeeps ==
  ASSUME SignInv, NEW q \in Requests, VerifyClose(q)
  PROVE  SignInv' /\ Steady
  <1> PICK c : c = request[q].code
    OBVIOUS
  <1> PICK y : y = [code[c] EXCEPT !.state = "closed"]
    OBVIOUS
  <1> PICK x : x = [request[q] EXCEPT !.pc = "load"]
    OBVIOUS
  <1>1. /\ request[q] \in Request /\ request[q].pc = "close" /\ c \in Codes /\ code[c].state # "none"
        /\ request[q].user \in Users
    BY DEF SignInv, SignInType, RequestsInv, RequestFits, VerifyClose, At
  <1>2. y \in Code /\ y.state = "closed" /\ y.user = code[c].user /\ y.old = code[c].old
    <2>1. code[c] \in Code
      BY <1>1 DEF SignInv, SignInType
    <2> QED
      BY <2>1, MarkTyped
  <1>3. x \in Request /\ x.pc = "load" /\ x.code = c /\ x.user = request[q].user
    BY <1>1, PcTyped, Zenon
  <1>4. request' = [request EXCEPT ![q] = x] /\ code' = [code EXCEPT ![c] = y]
        /\ UNCHANGED <<uses, spare, crossed, account, intended, clobbered>>
    BY DEF VerifyClose, Goto
  <1>5. Steady /\ code' \in [Codes -> Code]
    BY <1>1, <1>2, <1>4, WriteSteady
  <1>6. request'[q] = x /\ code'[c] = y
    BY <1>1, <1>4 DEF SignInv, SignInType
  <1>7. ASSUME NEW d \in Codes PROVE Covered(q, d)
    <2>1. Carries(q, d)' = Carries(q, d)
      BY <1>1, <1>3, <1>6 DEF Carries
    <2>2. ReadsIt(q, d) => ~Fits(d)'
      BY <1>1, <1>2, <1>6 DEF ReadsIt, Readers, Fits, Usable
    <2>3. uses'[d] = uses[d] /\ spare'[d] = spare[d] /\ uses[d] \in Nat /\ spare[d] \in Nat
      BY <1>4 DEF SignInv, SignInType
    <2>4. One(Carries(q, d)') = One(Carries(q, d)) /\ One(Carries(q, d)) \in Nat
      BY <2>1 DEF One
    <2> QED
      BY <2>2, <2>3, <2>4 DEF Covered, Balance
  <1>8. RequestFits(q)'
    BY <1>1, <1>3, <1>6 DEF RequestFits
  <1>9. uses' \in [Codes -> Nat] /\ spare' \in [Codes -> Nat]
    BY <1>4 DEF SignInv, SignInType
  <1> QED
    BY <1>3, <1>4, <1>5, <1>7, <1>8, <1>9, SameAccounts, OnwardKeeps

LEMMA IdleKeeps ==
  ASSUME SignInv, NEW q \in Requests, request[q].pc \notin {"close", "password", "mark"},
         Done(q), AccountsType', Steady, code' \in [Codes -> Code],
         UNCHANGED <<uses, spare, crossed>>
  PROVE  SignInv'
  <1>1. Idle \in Request /\ Idle.pc = "idle" /\ Idle.code \notin Codes
    BY IdleTyped, SignInConstants DEF Idle
  <1>2. request' = [request EXCEPT ![q] = Idle]
    BY DEF Done
  <1> QED
    BY <1>1, <1>2, PassKeeps

LEMMA LoadUserKeeps ==
  ASSUME SignInv, NEW q \in Requests, LoadUser(q)
  PROVE  SignInv' /\ Steady
  <1> PICK u : u = request[q].user
    OBVIOUS
  <1>1. /\ request[q] \in Request /\ request[q].pc = "load" /\ u \in Users
    BY DEF SignInv, SignInType, RequestsInv, RequestFits, LoadUser, At
  <1>2. account[u] \in Account /\ intended[u] \in Account
    BY <1>1 DEF SignInv, SignInType, AccountsType
  <1>3. /\ Steady /\ code' \in [Codes -> Code] /\ AccountsType'
        /\ UNCHANGED <<code, uses, spare, crossed>>
    BY SameSteady, SameAccounts DEF LoadUser
  <1>4. CASE Done(q)
    BY <1>1, <1>3, <1>4, IdleKeeps
  <1>5. ASSUME NEW pc \in {"session", "confirm"}, GoWith(q, pc, account[u], intended[u])
        PROVE  SignInv'
    <2> PICK a \in Account : a = account[u]
      BY <1>2
    <2> PICK b \in Account : b = intended[u]
      BY <1>2
    <2>1. GoWith(q, pc, a, b)
      BY <1>5
    <2> QED
      BY <1>1, <1>3, <2>1, GoWithKeeps
  <1>6. Done(q) \/ \E pc \in {"session", "confirm"} : GoWith(q, pc, account[u], intended[u])
    BY DEF LoadUser
  <1> QED
    BY <1>3, <1>4, <1>5, <1>6

\* A request that writes the row of its user writes and means rows.
LEMMA RequestWrites ==
  ASSUME SignInv, NEW q \in Requests
  PROVE  /\ request[q].copy \in Account /\ request[q].base \in Account
         /\ request[q].user \in Users => intended[request[q].user] \in Account
  BY DEF SignInv, SignInType, Request, AccountsType

LEMMA ConfirmUserKeeps ==
  ASSUME SignInv, NEW q \in Requests, ConfirmUser(q)
  PROVE  SignInv' /\ Steady
  <1> PICK u : u = request[q].user
    OBVIOUS
  <1> PICK new : new = [request[q].copy EXCEPT !.verified = TRUE]
    OBVIOUS
  <1> PICK b : b = Confirmed(request[q].base)
    OBVIOUS
  <1> PICK aim : aim = Confirmed(intended[u])
    OBVIOUS
  <1>1. new \in Account /\ b \in Account /\ (u \in Users => aim \in Account)
    BY RequestWrites, MadeTyped DEF Confirmed
  <1>2. /\ request[q].pc = "confirm" /\ WriteBack(u, new, aim, b) /\ GoWith(q, "session", new, b)
        /\ UNCHANGED <<code, uses, spare, crossed>>
    BY DEF ConfirmUser, At
  <1>3. AccountsType'
    BY <1>1, <1>2, WriteBackTyped DEF SignInv, SignInType
  <1> QED
    BY <1>1, <1>2, <1>3, GoWithKeeps, SameSteady

\* What was a request that might use the code is a use.
LEMMA StartSessionKeeps ==
  ASSUME SignInv, NEW q \in Requests, StartSession(q)
  PROVE  SignInv' /\ Steady
  <1> PICK x : x = [request[q] EXCEPT !.pc = "login"]
    OBVIOUS
  <1>1. request[q] \in Request /\ request[q].pc = "session"
    BY DEF SignInv, SignInType, StartSession, At
  <1>2. x \in Request /\ x.pc = "login" /\ x.code = request[q].code
    BY <1>1, PcTyped, Zenon
  <1>3. request' = [request EXCEPT ![q] = x] /\ request'[q] = x
    BY DEF StartSession, Goto, SignInv, SignInType
  <1>4. /\ \A d \in Codes : uses'[d] = uses[d] + One(d = request[q].code)
        /\ uses' \in [Codes -> Nat]
    <2>1. CASE request[q].code = NoCode
      BY <2>1, SignInConstants DEF StartSession, SignInv, SignInType, One
    <2>2. CASE request[q].code # NoCode
      <3>1. uses' = [uses EXCEPT ![request[q].code] = @ + 1]
        BY <2>2 DEF StartSession
      <3>2. uses' \in [Codes -> Nat]
        <4>1. request[q].code \in Codes
          BY <1>1, <2>2 DEF Request
        <4> QED
          BY <3>1, <4>1 DEF SignInv, SignInType
      <3>3. ASSUME NEW d \in Codes PROVE uses'[d] = uses[d] + One(d = request[q].code)
        <4>1. uses[d] \in Nat
          BY DEF SignInv, SignInType
        <4>2. CASE d = request[q].code
          BY <3>1, <4>1, <4>2 DEF SignInv, SignInType, One
        <4>3. CASE d # request[q].code
          BY <3>1, <4>1, <4>3 DEF SignInv, SignInType, One
        <4> QED
          BY <4>2, <4>3
      <3> QED
        BY <3>2, <3>3
    <2> QED
      BY <2>1, <2>2
  <1>5. ASSUME NEW d \in Codes PROVE Covered(q, d)
    <2>1. ~Carries(q, d)' /\ (Carries(q, d) <=> d = request[q].code)
      BY <1>1, <1>2, <1>3 DEF Carries
    <2>2. ~ReadsIt(q, d)
      BY <1>1 DEF ReadsIt, Readers
    <2>3. spare'[d] = spare[d] /\ uses[d] \in Nat /\ spare[d] \in Nat
      BY DEF SignInv, SignInType, StartSession
    <2>4. uses'[d] = uses[d] + One(d = request[q].code)
      BY <1>4
    <2> QED
      BY <2>1, <2>2, <2>3, <2>4 DEF Covered, Balance, One
  <1>6. RequestFits(q)'
    BY <1>2, <1>3 DEF RequestFits
  <1>7. /\ Steady /\ code' \in [Codes -> Code] /\ AccountsType'
        /\ UNCHANGED crossed /\ spare' \in [Codes -> Nat]
    BY SameSteady, SameAccounts DEF StartSession, SignInv, SignInType
  <1> QED
    BY <1>2, <1>3, <1>4, <1>5, <1>6, <1>7, OnwardKeeps

LEMMA LastWriteKeeps ==
  ASSUME SignInv, NEW q \in Requests, LastLogin(q) \/ ProfileWrite(q) \/ OwnerWrite(q) \/ AdminWrite(q)
  PROVE  SignInv' /\ Steady
  <1> PICK u : u = request[q].user
    OBVIOUS
  <1>1. /\ request[q].pc \in {"login", "profile", "owner", "admin"}
        /\ Done(q) /\ UNCHANGED <<code, uses, spare, crossed>>
    BY DEF LastLogin, ProfileWrite, OwnerWrite, AdminWrite, At
  <1>2. /\ request[q].copy \in Account
        /\ [request[q].copy EXCEPT !.role = "owner"] \in Account
        /\ [request[q].copy EXCEPT !.active = FALSE] \in Account
        /\ u \in Users => (intended[u] \in Account /\ MadeOwner(intended[u]) \in Account
                            /\ Disabled(intended[u]) \in Account)
    <2>1. \A x \in Account : [x EXCEPT !.role = "owner"] \in Account /\ [x EXCEPT !.active = FALSE] \in Account
      BY DEF Account, Roles
    <2> QED
      BY <2>1, RequestWrites, MadeTyped
  <1>3. \E f \in Account : \E aim, since : (u \in Users => aim \in Account) /\ WriteBack(u, f, aim, since)
    BY <1>2 DEF LastLogin, ProfileWrite, OwnerWrite, AdminWrite
  <1>4. AccountsType'
    BY <1>3, WriteBackTyped DEF SignInv, SignInType
  <1>5. Steady /\ code' \in [Codes -> Code]
    BY <1>1, SameSteady
  <1> QED
    BY <1>1, <1>4, <1>5, IdleKeeps

\* A request begins with a copy of a user row and without a code.
LEMMA CopyKeeps ==
  ASSUME SignInv, NEW q \in Requests, At(q, "idle"), NEW u \in Users, NEW a \in Account, NEW b \in Account,
         NEW pc \in {"session", "google", "profile", "owner", "admin"},
         request' = [request EXCEPT ![q] = [Idle EXCEPT !.pc = pc, !.user = u, !.copy = a, !.base = b]],
         AccountsType', UNCHANGED <<code, uses, spare, crossed>>
  PROVE  SignInv' /\ Steady
  <1> PICK x : x = [Idle EXCEPT !.pc = pc, !.user = u, !.copy = a, !.base = b]
    OBVIOUS
  <1>1. x \in Request
    BY IdleTyped DEF Request
  <1>2. x.pc = pc /\ x.code = NoCode
    BY IdleTyped DEF Request, Idle
  <1>3. Steady /\ code' \in [Codes -> Code]
    BY SameSteady
  <1>4. request' = [request EXCEPT ![q] = x]
    OBVIOUS
  <1> QED
    BY <1>1, <1>2, <1>3, <1>4, PassKeeps, SignInConstants DEF At

LEMMA ReadingKeeps ==
  ASSUME SignInv, NEW q \in Requests, At(q, "idle"), NEW u \in Users,
         NEW pc \in {"session", "google", "profile", "owner", "admin"},
         request' = [request EXCEPT ![q] = [Idle EXCEPT !.pc = pc, !.user = u, !.copy = account[u],
                                                       !.base = intended[u]]],
         UNCHANGED <<code, uses, spare, crossed, account, intended, clobbered>>
  PROVE  SignInv' /\ Steady
  <1> PICK a : a = account[u]
    OBVIOUS
  <1> PICK b : b = intended[u]
    OBVIOUS
  <1>1. a \in Account /\ b \in Account /\ AccountsType'
    BY SameAccounts DEF SignInv, SignInType, AccountsType
  <1> QED
    BY <1>1, CopyKeeps

LEMMA GoogleReadKeeps ==
  ASSUME SignInv, NEW q \in Requests, NEW u \in Users, GoogleRead(q, u)
  PROVE  SignInv' /\ Steady
  <1> PICK mine : mine = [NoAccount EXCEPT !.state = "live", !.active = TRUE, !.verified = TRUE, !.google = TRUE]
    OBVIOUS
  <1>1. mine \in Account
    BY NoAccountTyped DEF Account
  <1>2. At(q, "idle") /\ UNCHANGED <<code, uses, spare, crossed>>
    BY DEF GoogleRead
  <1>3. CASE /\ CreateAccount(u, mine)
             /\ request' = [request EXCEPT ![q] = [Idle EXCEPT !.pc = "session", !.user = u, !.copy = mine,
                                                               !.base = mine]]
    <2>1. AccountsType'
      BY <1>1, <1>3, CreateTyped DEF SignInv, SignInType
    <2> QED
      BY <1>1, <1>2, <1>3, <2>1, CopyKeeps
  <1>4. ASSUME NEW pc \in {"session", "google"}, UNCHANGED accountVars,
               request' = [request EXCEPT ![q] = [Idle EXCEPT !.pc = pc, !.user = u, !.copy = account[u],
                                                             !.base = intended[u]]]
        PROVE  SignInv' /\ Steady
    BY <1>2, <1>4, ReadingKeeps DEF accountVars
  <1> QED
    BY <1>3, <1>4 DEF GoogleRead

LEMMA CopyUserKeeps ==
  ASSUME SignInv, NEW q \in Requests, NEW u \in Users, ProfileRead(q, u) \/ OwnerRead(q, u) \/ AdminRead(q, u)
  PROVE  SignInv' /\ Steady
  BY ReadingKeeps DEF ProfileRead, OwnerRead, AdminRead, CopyUser

LEMMA GoogleWriteKeeps ==
  ASSUME SignInv, NEW q \in Requests, GoogleWrite(q)
  PROVE  SignInv' /\ Steady
  <1> PICK u : u = request[q].user
    OBVIOUS
  <1> PICK new : new = [request[q].copy EXCEPT !.active = TRUE, !.verified = TRUE]
    OBVIOUS
  <1> PICK b : b = Granted(request[q].base)
    OBVIOUS
  <1> PICK aim : aim = Granted(intended[u])
    OBVIOUS
  <1>1. new \in Account /\ b \in Account /\ (u \in Users => aim \in Account)
    BY RequestWrites, MadeTyped DEF Granted
  <1>2. /\ request[q].pc = "google" /\ WriteBack(u, new, aim, b) /\ GoWith(q, "session", new, b)
        /\ UNCHANGED <<code, uses, spare, crossed>> /\ request[q].code = NoCode
    BY DEF GoogleWrite, At, SignInv, RequestsInv, RequestFits
  <1>3. AccountsType'
    BY <1>1, <1>2, WriteBackTyped DEF SignInv, SignInType
  <1> QED
    BY <1>1, <1>2, <1>3, GoWithKeeps, SameSteady

LEMMA ResetReadKeeps ==
  ASSUME SignInv, NEW q \in Requests, NEW c \in Codes, ResetRead(q, c)
  PROVE  SignInv' /\ Steady
  <1> PICK pc : pc = IF code[c].old THEN "fail" ELSE "password"
    OBVIOUS
  <1> PICK x : x = [Idle EXCEPT !.pc = pc, !.code = c, !.user = code[c].user, !.tries = code[c].tries]
    OBVIOUS
  <1>1. /\ At(q, "idle") /\ code[c].state = "open" /\ code[c].tries < MaxTries
        /\ request' = [request EXCEPT ![q] = x]
        /\ UNCHANGED <<code, uses, crossed, account, intended, clobbered>>
    BY DEF ResetRead
  <1>2. x \in Request /\ x.pc = pc /\ x.code = c /\ x.user = code[c].user /\ x.tries = code[c].tries
    <2>1. PICK u : u = code[c].user
      OBVIOUS
    <2>2. PICK t : t = code[c].tries
      OBVIOUS
    <2>3. u \in Users \cup {NoUser} /\ t \in 0..MaxTries
      BY <2>1, <2>2 DEF SignInv, SignInType, Code
    <2>4. x \in Request
      BY <2>1, <2>2, <2>3, IdleTyped DEF Request
    <2> QED
      BY <2>4, IdleTyped DEF Request
  <1>3. CASE ~code[c].old
    <2>1. Took(c) /\ Usable(c)
      BY <1>1, <1>3 DEF ResetRead, Usable
    <2>2. x.pc \in {"close", "password"}
      BY <1>2, <1>3
    <2> QED
      BY <1>1, <1>2, <2>1, <2>2, TakeKeeps
  <1>4. CASE code[c].old
    <2>1. request'[q] = x /\ x.pc = "fail" /\ UNCHANGED spare
      BY <1>1, <1>2, <1>4 DEF SignInv, SignInType, ResetRead
    <2>2. RequestFits(q)'
      BY <1>1, <1>2, <1>4, <2>1 DEF RequestFits
    <2>3. ASSUME NEW d \in Codes PROVE Covered(q, d)
      <3>1. ~Carries(q, d) /\ ~Carries(q, d)' /\ ~ReadsIt(q, d)
        BY <1>1, <2>1 DEF Carries, ReadsIt, Readers, At
      <3> QED
        BY <1>1, <2>1, <3>1 DEF Covered, Balance, One, SignInv, SignInType
    <2>4. /\ Steady /\ code' \in [Codes -> Code] /\ AccountsType'
          /\ uses' \in [Codes -> Nat] /\ spare' \in [Codes -> Nat]
      BY <1>1, <2>1, SameSteady, SameAccounts DEF SignInv, SignInType
    <2> QED
      BY <1>1, <1>2, <2>1, <2>2, <2>3, <2>4, OnwardKeeps
  <1> QED
    BY <1>3, <1>4

\* The copy is written back as an open row, but an expired one.
LEMMA ResetFailKeeps ==
  ASSUME SignInv, NEW q \in Requests, ResetFail(q)
  PROVE  SignInv' /\ Steady
  <1> PICK c : c = request[q].code
    OBVIOUS
  <1> PICK t : t = request[q].tries + 1
    OBVIOUS
  <1> PICK r : r = code[c]
    OBVIOUS
  <1> PICK y : y = [r EXCEPT !.tries = t, !.state = "open"]
    OBVIOUS
  <1>1. /\ request[q].pc = "fail" /\ c \in Codes /\ r.state # "none" /\ r.old
        /\ r \in Code /\ request[q].tries \in 0..MaxTries /\ request[q].tries < MaxTries
    BY DEF SignInv, SignInType, RequestsInv, RequestFits, ResetFail, At, Request
  <1>2. t \in 0..MaxTries
    BY <1>1, SignInConstants
  <1>3. y \in Code
    BY <1>1, <1>2 DEF Code
  <1>4. y.state = "open" /\ y.old /\ y.user = r.user
    BY <1>1 DEF Code
  <1>5. code' = [code EXCEPT ![c] = y]
    BY <1>1 DEF ResetFail, SignInv, SignInType
  <1>6. Steady /\ code' \in [Codes -> Code]
    BY <1>1, <1>3, <1>4, <1>5, WriteSteady
  <1> QED
    BY <1>1, <1>6, SameAccounts, IdleKeeps DEF ResetFail

LEMMA ResetPasswordKeeps ==
  ASSUME SignInv, NEW q \in Requests, ResetPassword(q)
  PROVE  SignInv' /\ Steady
  <1> PICK x : x = [request[q] EXCEPT !.pc = "mark"]
    OBVIOUS
  <1> PICK c : c = request[q].code
    OBVIOUS
  <1>1. request[q] \in Request /\ request[q].pc = "password" /\ c \in Codes /\ code[c].state # "none"
    BY DEF SignInv, SignInType, ResetPassword, At, RequestsInv, RequestFits
  <1>2. x \in Request /\ x.pc = "mark" /\ x.code = c
    BY <1>1, PcTyped, Zenon
  <1>3. /\ request' = [request EXCEPT ![q] = x] /\ request'[q] = x
        /\ UNCHANGED <<code, spare, crossed, account, intended, clobbered>>
    BY DEF ResetPassword, Goto, SignInv, SignInType
  <1>4. uses' \in [Codes -> Nat] /\ uses'[c] = uses[c] + 1 /\ \A d \in Codes \ {c} : uses'[d] = uses[d]
    BY <1>1 DEF ResetPassword, SignInv, SignInType
  <1>5. ASSUME NEW d \in Codes PROVE Covered(q, d)
    <2>1. ~Carries(q, d)' /\ (Carries(q, d) <=> d = c)
      BY <1>1, <1>2, <1>3 DEF Carries
    <2>2. ReadsIt(q, d) => ReadsIt(q, d)'
      BY <1>2, <1>3 DEF ReadsIt, Readers
    <2>3. spare'[d] = spare[d] /\ uses[d] \in Nat /\ spare[d] \in Nat
      BY <1>3 DEF SignInv, SignInType
    <2> QED
      BY <1>4, <2>1, <2>2, <2>3 DEF Covered, Balance, One
  <1>6. RequestFits(q)'
    BY <1>1, <1>2, <1>3 DEF RequestFits
  <1>7. /\ Steady /\ code' \in [Codes -> Code] /\ AccountsType'
        /\ UNCHANGED crossed /\ spare' \in [Codes -> Nat]
    BY <1>3, SameSteady, SameAccounts DEF SignInv, SignInType
  <1> QED
    BY <1>2, <1>3, <1>4, <1>5, <1>6, <1>7, OnwardKeeps

LEMMA ResetMarkKeeps ==
  ASSUME SignInv, NEW q \in Requests, ResetMark(q)
  PROVE  SignInv' /\ Steady
  <1> PICK c : c = request[q].code
    OBVIOUS
  <1> PICK t : t = request[q].tries
    OBVIOUS
  <1> PICK r : r = code[c]
    OBVIOUS
  <1> PICK y : y = [r EXCEPT !.state = "closed", !.tries = t]
    OBVIOUS
  <1> PICK x : x = [request[q] EXCEPT !.pc = "sweep"]
    OBVIOUS
  <1>1. /\ request[q] \in Request /\ request[q].pc = "mark" /\ c \in Codes /\ r.state # "none"
        /\ r \in Code /\ t \in 0..MaxTries
    BY DEF SignInv, SignInType, RequestsInv, RequestFits, ResetMark, At, Request
  <1>2. y \in Code
    BY <1>1 DEF Code
  <1>3. y.state = "closed" /\ y.old = r.old /\ y.user = r.user
    BY <1>1 DEF Code
  <1>4. x \in Request /\ x.pc = "sweep" /\ x.code = c
    BY <1>1, PcTyped, Zenon
  <1>5. /\ request' = [request EXCEPT ![q] = x] /\ request'[q] = x
        /\ UNCHANGED <<uses, spare, crossed, account, intended, clobbered>>
    BY DEF ResetMark, Goto, SignInv, SignInType
  <1>6. code' = [code EXCEPT ![c] = y] /\ code'[c] = y
    BY <1>1 DEF ResetMark, SignInv, SignInType
  <1>7. Steady /\ code' \in [Codes -> Code]
    BY <1>1, <1>2, <1>3, <1>6, WriteSteady
  <1>8. ASSUME NEW d \in Codes PROVE Covered(q, d)
    <2>1. ~Carries(q, d)' /\ ~Carries(q, d)
      BY <1>1, <1>4, <1>5 DEF Carries
    <2>2. ReadsIt(q, d) => ~Fits(d)'
      BY <1>3, <1>6 DEF ReadsIt, Readers, Fits, Usable
    <2>3. uses'[d] = uses[d] /\ spare'[d] = spare[d] /\ uses[d] \in Nat /\ spare[d] \in Nat
      BY <1>5 DEF SignInv, SignInType
    <2> QED
      BY <2>1, <2>2, <2>3 DEF Covered, Balance, One
  <1>9. RequestFits(q)'
    BY <1>4, <1>5 DEF RequestFits
  <1>10. uses' \in [Codes -> Nat] /\ spare' \in [Codes -> Nat]
    BY <1>5 DEF SignInv, SignInType
  <1> QED
    BY <1>4, <1>5, <1>7, <1>8, <1>9, <1>10, SameAccounts, OnwardKeeps

LEMMA ResetSweepKeeps ==
  ASSUME SignInv, NEW q \in Requests, ResetSweep(q)
  PROVE  SignInv' /\ Steady
  <1>1. code' = Closed(request[q].user, {"reset"}) /\ request[q].pc = "sweep" /\ Done(q)
    BY DEF ResetSweep, At
  <1>2. Steady /\ code' \in [Codes -> Code]
    BY <1>1, ClosedSteady
  <1> QED
    BY <1>1, <1>2, SameAccounts, IdleKeeps DEF ResetSweep

\* A reader of a code that dies leaves room for another: it takes its own use
\* with it, or is made up for.
LEMMA AbandonKeeps ==
  ASSUME SignInv, NEW q \in Requests, Abandon(q)
  PROVE  SignInv' /\ Steady
  <1> PICK c : c = request[q].code
    OBVIOUS
  <1>1. /\ request' = [request EXCEPT ![q] = Idle] /\ request'[q] = Idle
        /\ UNCHANGED <<code, uses, crossed, account, intended, clobbered>>
    BY DEF Abandon, Done, SignInv, SignInType
  <1>2. /\ spare' \in [Codes -> Nat]
        /\ \A d \in Codes : spare'[d] = spare[d] + One(request[q].pc = "mark" /\ d = c)
    <2>1. CASE request[q].pc = "mark"
      <3>1. spare' = [spare EXCEPT ![c] = @ + 1]
        BY <2>1 DEF Abandon, At
      <3>2. spare' \in [Codes -> Nat]
        <4>1. c \in Codes
          BY <2>1 DEF SignInv, RequestsInv, RequestFits
        <4> QED
          BY <3>1, <4>1 DEF SignInv, SignInType
      <3>3. ASSUME NEW d \in Codes PROVE spare'[d] = spare[d] + One(request[q].pc = "mark" /\ d = c)
        <4>1. CASE d = c
          BY <2>1, <3>1, <4>1 DEF SignInv, SignInType, One
        <4>2. CASE d # c
          BY <3>1, <4>2 DEF SignInv, SignInType, One
        <4> QED
          BY <4>1, <4>2
      <3> QED
        BY <3>2, <3>3
    <2>2. CASE request[q].pc # "mark"
      BY <2>2 DEF Abandon, At, SignInv, SignInType, One
    <2> QED
      BY <2>1, <2>2
  <1>3. ASSUME NEW d \in Codes PROVE Covered(q, d) \/ Frees(q, d)
    <2>1. ~Carries(q, d)'
      BY <1>1 DEF Carries, Idle
    <2>2. uses'[d] = uses[d] /\ uses[d] \in Nat /\ spare[d] \in Nat
      BY <1>1 DEF SignInv, SignInType
    <2>3. CASE request[q].pc = "mark" /\ d = c
      <3>1. ~Carries(q, d) /\ spare'[d] = spare[d] + 1
        BY <1>2, <2>3 DEF Carries, One
      <3> QED
        BY <2>1, <2>2, <3>1 DEF Frees, Balance, One
    <2>4. CASE ~(request[q].pc = "mark" /\ d = c)
      <3>1. spare'[d] = spare[d]
        BY <1>2, <2>2, <2>4 DEF One
      <3>2. ReadsIt(q, d) => Carries(q, d)
        BY <2>4 DEF ReadsIt, Readers, Carries
      <3>3. CASE Carries(q, d)
        BY <2>1, <2>2, <3>1, <3>3 DEF Frees, Balance, One
      <3>4. CASE ~Carries(q, d)
        BY <2>1, <2>2, <3>1, <3>2, <3>4 DEF Covered, Balance, One
      <3> QED
        BY <3>3, <3>4
    <2> QED
      BY <2>3, <2>4
  <1>4. RequestFits(q)' /\ Idle.pc # "insert" /\ Idle \in Request
    BY <1>1, IdleTyped DEF RequestFits, Idle
  <1>5. /\ Steady /\ code' \in [Codes -> Code] /\ AccountsType'
        /\ uses' \in [Codes -> Nat]
    BY <1>1, SameSteady, SameAccounts DEF SignInv, SignInType
  <1> QED
    BY <1>1, <1>2, <1>3, <1>4, <1>5, OnwardKeeps
-----------------------------------------------------------------------------
LEMMA SignInvInit ==
  ASSUME SignInInit
  PROVE  SignInv
  <1>1. SignInType
    <2>1. AccountsType
      BY NoAccountTyped DEF SignInInit, AccountsInit, AccountsType
    <2>2. code \in [Codes -> Code] /\ request \in [Requests -> Request]
      BY IdleTyped DEF SignInInit
    <2>3. /\ uses \in [Codes -> Nat] /\ spare \in [Codes -> Nat]
          /\ crossed \in [Users -> [Kinds -> Nat]]
      BY DEF SignInInit
    <2> QED
      BY <2>1, <2>2, <2>3 DEF SignInType
  <1>2. RowsInv /\ RequestsInv
    BY DEF SignInInit, RowsInv, RequestsInv, RequestFits, NoCodeRow, Idle
  <1>3. UseInv
    <2>1. ASSUME NEW c \in Codes PROVE Carriers(c) = {}
      BY DEF SignInInit, Carriers, Carries, Idle
    <2>2. \A c \in Codes : Cardinality(Carriers(c)) = 0 /\ uses[c] = 0 /\ spare[c] = 0
      BY <2>1, FS_EmptySet DEF SignInInit
    <2> QED
      BY <2>2 DEF UseInv
  <1>4. PendingInv
    <2>1. ASSUME NEW u \in Users, NEW k \in Kinds PROVE Pending(u, k) = {} /\ crossed[u][k] = 0
      BY DEF SignInInit, Pending, Usable, NoCodeRow
    <2>2. \A u \in Users, k \in Kinds : Cardinality(Pending(u, k)) = 0 /\ crossed[u][k] = 0
      BY <2>1, FS_EmptySet
    <2> QED
      BY <2>2 DEF PendingInv
  <1> QED
    BY <1>1, <1>2, <1>3, <1>4 DEF SignInv

\* A step keeps the invariant, and makes one code or none.
CodeStep == Steady \/ \E c \in Codes, u \in Users, k \in Kinds : Enters(c, u, k)

LEMMA SignInvStep ==
  ASSUME SignInv, [SignInNext]_signInVars
  PROVE  SignInv' /\ CodeStep
  <1>1. ASSUME NEW q \in Requests, NEW u \in Users, NEW k \in Kinds, CloseOthers(q, u, k)
        PROVE  SignInv' /\ CodeStep
    BY <1>1, CloseOthersKeeps DEF CodeStep
  <1>2. ASSUME NEW q \in Requests, login_view(q) \/ request_otp_view(q) \/ forgot_password_view(q)
        PROVE  SignInv' /\ CodeStep
    BY <1>1, <1>2 DEF login_view, request_otp_view, forgot_password_view, Login, RequestCode,
                      ForgotPassword, Kinds
  <1>3. ASSUME NEW q \in Requests, verify_otp_view(q)
        PROVE  SignInv' /\ CodeStep
    BY <1>3, VerifyReadKeeps, VerifyCloseKeeps, LoadUserKeeps, ConfirmUserKeeps, StartSessionKeeps,
       LastWriteKeeps DEF verify_otp_view, CodeStep
  <1>4. ASSUME NEW q \in Requests, google_callback_view(q) \/ update_profile_view(q)
                                         \/ create_business(q) \/ admin_form(q)
        PROVE  SignInv' /\ CodeStep
    BY <1>4, GoogleReadKeeps, GoogleWriteKeeps, CopyUserKeeps, LastWriteKeeps
       DEF google_callback_view, update_profile_view, create_business, admin_form, CodeStep
  <1>5. ASSUME NEW q \in Requests, reset_password_view(q)
        PROVE  SignInv' /\ CodeStep
    BY <1>5, ResetReadKeeps, ResetFailKeeps, ResetPasswordKeeps, ResetMarkKeeps, ResetSweepKeeps
       DEF reset_password_view, CodeStep
  <1>6. ASSUME NEW q \in Requests, NEW c \in Codes, InsertCode(q, c)
        PROVE  SignInv' /\ CodeStep
    <2>1. request[q].user \in Users /\ request[q].kind \in Kinds
      BY <1>6 DEF SignInv, SignInType, Request, RequestsInv, RequestFits, InsertCode, At
    <2> QED
      BY <1>6, <2>1, InsertCodeKeeps DEF CodeStep
  <1>7. ASSUME NEW q \in Requests, Abandon(q)
        PROVE  SignInv' /\ CodeStep
    BY <1>7, AbandonKeeps DEF CodeStep
  <1>8. CASE signup_view
    BY <1>8, SignUpKeeps DEF signup_view, CodeStep, Kinds
  <1>10. ASSUME NEW c \in Codes, Expire(c)
         PROVE  SignInv' /\ CodeStep
    BY <1>10, ExpireKeeps DEF CodeStep
  <1>11. CASE UNCHANGED signInVars
    <2>1. UNCHANGED <<code, request, uses, spare, crossed, account, intended, clobbered>>
      BY <1>11 DEF signInVars
    <2> QED
      BY <2>1, SameSteady, SameAccounts, AsideKeeps DEF CodeStep
  <1> QED
    BY <1>2, <1>3, <1>4, <1>5, <1>6, <1>7, <1>8, <1>10, <1>11 DEF SignInNext

LEMMA SignInInvariant == SignInSpec => []SignInv
  <1>1. SignInInit => SignInv
    BY SignInvInit
  <1>2. SignInv /\ [SignInNext]_signInVars => SignInv'
    BY SignInvStep
  <1> QED
    BY <1>1, <1>2, PTL DEF SignInSpec

-----------------------------------------------------------------------------
(* The user rows.  A copy that a request holds is what it was meant to be      *)
(* when it was read, but for fields that are open by now.                      *)

Agree(a, b, S) == \A k \in Fields \ S : a[k] = b[k]
CopyFits(q) == request[q].user \in Users =>
                   Agree(request[q].copy, request[q].base, clobbered[request[q].user])
AccountsFit == RowAsIntended /\ \A q \in Requests : CopyFits(q)

\* What a step does to the copy of a request: nothing, or it drops it, or it
\* reads a row.
Holds(p) == /\ request'[p].user = request[p].user
            /\ request'[p].copy = request[p].copy /\ request'[p].base = request[p].base
Blank(p) == request'[p].copy = request'[p].base
Reads(p) == LET u == request'[p].user IN
            u \in Users /\ request'[p].copy = account[u] /\ request'[p].base = intended[u]

LEMMA ReadsFit ==
  ASSUME SignInv, AccountsFit, UNCHANGED <<account, intended, clobbered>>,
         \A p \in Requests : Holds(p) \/ Blank(p) \/ Reads(p)
  PROVE  AccountsFit'
  <1>1. RowAsIntended'
    BY DEF AccountsFit, RowAsIntended
  <1>2. ASSUME NEW p \in Requests PROVE CopyFits(p)'
    <2>1. CASE Holds(p)
      BY <2>1 DEF AccountsFit, CopyFits, Agree, Holds
    <2>2. CASE Blank(p)
      BY <2>2 DEF CopyFits, Agree, Blank
    <2>3. CASE Reads(p)
      BY <2>3 DEF AccountsFit, RowAsIntended, CopyFits, Agree, Reads
    <2> QED
      BY <2>1, <2>2, <2>3
  <1> QED
    BY <1>1, <1>2 DEF AccountsFit

LEMMA CreatesFit ==
  ASSUME SignInv, AccountsFit, NEW u \in Users, NEW x, CreateAccount(u, x),
         \A p \in Requests : Holds(p) \/ Blank(p)
  PROVE  AccountsFit'
  <1>1. /\ clobbered' = clobbered
        /\ \A v \in Users : (account'[v] = account[v] /\ intended'[v] = intended[v]) \/ account'[v] = intended'[v]
    BY DEF CreateAccount, SignInv, SignInType, AccountsType
  <1>2. RowAsIntended'
    BY <1>1 DEF AccountsFit, RowAsIntended
  <1>3. \A p \in Requests : CopyFits(p)'
    BY <1>1 DEF AccountsFit, CopyFits, Agree, Holds, Blank
  <1> QED
    BY <1>2, <1>3 DEF AccountsFit

\* A row is written from the copy of request q, which keeps what it wrote or ends.
LEMMA WritesFit ==
  ASSUME SignInv, AccountsFit, NEW q \in Requests, NEW f, NEW aim, NEW since,
         WriteBack(request[q].user, f, aim, since),
         \A k \in Fields : request[q].copy[k] = request[q].base[k] => f[k] = since[k],
         \/ request'[q].copy = f /\ request'[q].base = since /\ request'[q].user = request[q].user
         \/ Blank(q),
         \A p \in Requests \ {q} : Holds(p)
  PROVE  AccountsFit'
  <1> PICK u : u = request[q].user
    OBVIOUS
  <1> DEFINE lost == {k \in Fields : aim[k] # since[k]}
  <1>1. /\ account' = [account EXCEPT ![u] = f] /\ intended' = [intended EXCEPT ![u] = aim]
        /\ clobbered' = [clobbered EXCEPT ![u] = clobbered[u] \cup lost]
    BY DEF WriteBack
  <1>2. ASSUME u \in Users
        PROVE  /\ account'[u] = f /\ intended'[u] = aim
               /\ \A k \in Fields \ clobbered'[u] : f[k] = since[k] /\ aim[k] = since[k]
    <2>1. account'[u] = f /\ intended'[u] = aim /\ clobbered'[u] = clobbered[u] \cup lost
      <3> HIDE DEF lost
      <3> QED
        BY <1>1, <1>2 DEF SignInv, SignInType, AccountsType
    <2>2. \A k \in Fields \ clobbered[u] : request[q].copy[k] = request[q].base[k]
      BY <1>2 DEF AccountsFit, CopyFits, Agree
    <2> QED
      BY <2>1, <2>2
  <1>3. \A v \in Users \ {u} : account'[v] = account[v] /\ intended'[v] = intended[v] /\ clobbered'[v] = clobbered[v]
    <2> HIDE DEF lost
    <2> QED
      BY <1>1 DEF SignInv, SignInType, AccountsType
  <1>4. \A v \in Users : clobbered[v] \subseteq clobbered'[v]
    <2> HIDE DEF lost
    <2> QED
      BY <1>1 DEF SignInv, SignInType, AccountsType
  <1>5. RowAsIntended'
    <2> SUFFICES ASSUME NEW v \in Users, NEW k \in Fields \ clobbered'[v]
                 PROVE  account'[v][k] = intended'[v][k]
      BY DEF RowAsIntended
    <2> QED
      BY <1>2, <1>3 DEF AccountsFit, RowAsIntended
  <1>6. ASSUME NEW p \in Requests PROVE CopyFits(p)'
    <2>1. CASE Holds(p)
      BY <1>4, <2>1 DEF AccountsFit, CopyFits, Agree, Holds
    <2>2. CASE Blank(p)
      BY <2>2 DEF CopyFits, Agree, Blank
    <2>3. CASE p = q /\ request'[q].copy = f /\ request'[q].base = since /\ request'[q].user = request[q].user
      BY <1>2, <2>3 DEF CopyFits, Agree
    <2> QED
      BY <2>1, <2>2, <2>3
  <1> QED
    BY <1>5, <1>6 DEF AccountsFit

\* Where two rows agree, what an operation makes of them agrees.
LEMMA MadeAlike ==
  ASSUME NEW x \in Account, NEW y \in Account, NEW k \in Fields, x[k] = y[k]
  PROVE  /\ Confirmed(x)[k] = Confirmed(y)[k] /\ Granted(x)[k] = Granted(y)[k]
         /\ MadeOwner(x)[k] = MadeOwner(y)[k] /\ Disabled(x)[k] = Disabled(y)[k]
  BY DEF Account, Fields, Confirmed, Granted, MadeOwner, Disabled

\* The other requests when q goes on, ends, or begins.
LEMMA OthersHold ==
  ASSUME SignInv, NEW q \in Requests, NEW x, request' = [request EXCEPT ![q] = x]
  PROVE  request'[q] = x /\ \A p \in Requests \ {q} : Holds(p)
  BY DEF SignInv, SignInType, Holds

LEMMA IdleBlank == Idle.copy = Idle.base
  BY DEF Idle

LEMMA GoWithHolds ==
  ASSUME SignInv, NEW q \in Requests, NEW pc, NEW x, NEW b, GoWith(q, pc, x, b)
  PROVE  /\ request'[q].copy = x /\ request'[q].base = b /\ request'[q].user = request[q].user
         /\ \A p \in Requests \ {q} : Holds(p)
  <1> PICK r \in Request : r = request[q]
    BY DEF SignInv, SignInType
  <1> PICK y : y = [r EXCEPT !.pc = pc, !.copy = x, !.base = b]
    OBVIOUS
  <1>1. request' = [request EXCEPT ![q] = y]
    BY DEF GoWith, SignInv, SignInType
  <1>2. y.copy = x /\ y.base = b /\ y.user = r.user
    BY DEF Request
  <1> QED
    BY <1>1, <1>2, OthersHold

LEMMA SignUpHolds ==
  ASSUME SignInv, NEW u, NEW k, request' = Overtaken(u, k)
  PROVE  \A p \in Requests : Holds(p)
  BY DEF SignInv, SignInType, Request, Overtaken, Holds, At
-----------------------------------------------------------------------------
(* The steps that write no user row. *)

Onward(q) == \/ \E u \in Users, k \in Kinds : CloseOthers(q, u, k)
             \/ \E c \in Codes : InsertCode(q, c) \/ VerifyRead(q, c) \/ ResetRead(q, c)
             \/ VerifyClose(q) \/ StartSession(q) \/ LoadUser(q)
             \/ ResetFail(q) \/ ResetPassword(q) \/ ResetMark(q) \/ ResetSweep(q) \/ Abandon(q)
             \/ \E u \in Users : ProfileRead(q, u) \/ OwnerRead(q, u) \/ AdminRead(q, u)

LEMMA OnwardFits ==
  ASSUME SignInv, AccountsFit, NEW q \in Requests, Onward(q)
  PROVE  AccountsFit'
  <1>0. UNCHANGED <<account, intended, clobbered>>
    BY DEF Onward, CloseOthers, InsertCode, VerifyRead, ResetRead, VerifyClose, StartSession, LoadUser,
           ResetFail, ResetPassword, ResetMark, ResetSweep, Abandon, ProfileRead, OwnerRead, AdminRead, CopyUser
  <1>1. ASSUME NEW x, x.copy = x.base, request' = [request EXCEPT ![q] = x]
        PROVE  AccountsFit'
    BY <1>0, <1>1, OthersHold, ReadsFit DEF Blank
  <1>2. CASE Done(q)
    BY <1>1, <1>2, IdleBlank DEF Done
  <1>3. ASSUME NEW pc, Goto(q, pc) PROVE AccountsFit'
    <2> PICK r \in Request : r = request[q]
      BY DEF SignInv, SignInType
    <2> PICK x : x = [r EXCEPT !.pc = pc]
      OBVIOUS
    <2>1. request' = [request EXCEPT ![q] = x]
      BY <1>3 DEF Goto
    <2>2. x.user = r.user /\ x.copy = r.copy /\ x.base = r.base
      BY DEF Request
    <2> QED
      BY <1>0, <2>1, <2>2, OthersHold, ReadsFit DEF Holds
  <1>4. ASSUME NEW u \in Users, NEW k \in Kinds, CloseOthers(q, u, k) PROVE AccountsFit'
    <2> PICK x : x = [Idle EXCEPT !.pc = "insert", !.user = u, !.kind = k]
      OBVIOUS
    <2>1. x.copy = x.base
      BY DEF Idle
    <2> QED
      BY <1>1, <1>4, <2>1 DEF CloseOthers
  <1>5. ASSUME NEW c \in Codes, InsertCode(q, c) PROVE AccountsFit'
    <2> PICK u, k : u = request[q].user /\ k = request[q].kind
      OBVIOUS
    <2>1. request' = [Overtaken(u, k) EXCEPT ![q] = Idle]
      BY <1>5 DEF InsertCode
    <2>2. request'[q] = Idle /\ \A p \in Requests \ {q} : Holds(p)
      BY <2>1 DEF SignInv, SignInType, Request, Overtaken, Holds, At
    <2> QED
      BY <1>0, <2>2, IdleBlank, ReadsFit DEF Blank
  <1>6. ASSUME NEW c \in Codes, VerifyRead(q, c) PROVE AccountsFit'
    <2> PICK x : x = [Idle EXCEPT !.pc = "close", !.code = c, !.user = code[c].user]
      OBVIOUS
    <2>1. x.copy = x.base
      BY DEF Idle
    <2> QED
      BY <1>1, <1>6, <2>1 DEF VerifyRead
  <1>7. ASSUME NEW c \in Codes, ResetRead(q, c) PROVE AccountsFit'
    <2> PICK x : x = [Idle EXCEPT !.pc = IF code[c].old THEN "fail" ELSE "password",
                                  !.code = c, !.user = code[c].user, !.tries = code[c].tries]
      OBVIOUS
    <2>1. x.copy = x.base
      BY DEF Idle
    <2> QED
      BY <1>1, <1>7, <2>1 DEF ResetRead
  <1>8. ASSUME NEW u \in Users, NEW pc, CopyUser(q, u, pc) PROVE AccountsFit'
    <2> PICK x : x = [Idle EXCEPT !.pc = pc, !.user = u, !.copy = account[u], !.base = intended[u]]
      OBVIOUS
    <2>1. x.user = u /\ x.copy = account[u] /\ x.base = intended[u]
      BY DEF Idle
    <2>2. request' = [request EXCEPT ![q] = x]
      BY <1>8 DEF CopyUser
    <2> QED
      BY <1>0, <2>1, <2>2, OthersHold, ReadsFit DEF Reads
  <1>9. CASE LoadUser(q)
    <2> PICK u : u = request[q].user
      OBVIOUS
    <2>1. u \in Users
      BY <1>9 DEF LoadUser, At, SignInv, RequestsInv, RequestFits
    <2>2. Done(q) \/ \E pc : GoWith(q, pc, account[u], intended[u])
      BY <1>9 DEF LoadUser
    <2>3. ASSUME NEW pc, GoWith(q, pc, account[u], intended[u]) PROVE AccountsFit'
      BY <1>0, <2>1, <2>3, GoWithHolds, ReadsFit DEF Reads
    <2> QED
      BY <1>2, <2>2, <2>3
  <1> QED
    BY <1>2, <1>3, <1>4, <1>5, <1>6, <1>7, <1>8, <1>9
       DEF Onward, VerifyClose, StartSession, ResetFail, ResetPassword, ResetMark, ResetSweep, Abandon,
           ProfileRead, OwnerRead, AdminRead

\* The steps that write one.
Writing(q) == \/ ConfirmUser(q) \/ GoogleWrite(q) \/ LastLogin(q)
              \/ ProfileWrite(q) \/ OwnerWrite(q) \/ AdminWrite(q)

LEMMA WritingFits ==
  ASSUME SignInv, AccountsFit, NEW q \in Requests, Writing(q)
  PROVE  AccountsFit'
  <1> PICK u, a, b : u = request[q].user /\ a = request[q].copy /\ b = request[q].base
    OBVIOUS
  <1>1. a \in Account /\ b \in Account
    BY RequestWrites
  <1>2. \A k \in Fields : a[k] = b[k] =>
          /\ Confirmed(a)[k] = Confirmed(b)[k] /\ Granted(a)[k] = Granted(b)[k]
          /\ MadeOwner(a)[k] = MadeOwner(b)[k] /\ Disabled(a)[k] = Disabled(b)[k]
    BY <1>1, MadeAlike
  <1>3. ASSUME NEW f, NEW aim, NEW since, WriteBack(u, f, aim, since), Done(q),
               \A k \in Fields : a[k] = b[k] => f[k] = since[k]
        PROVE  AccountsFit'
    <2>1. Blank(q) /\ \A p \in Requests \ {q} : Holds(p)
      BY <1>3, OthersHold, IdleBlank DEF Done, Blank
    <2> QED
      BY <1>3, <2>1, WritesFit
  <1>4. ASSUME NEW f, NEW aim, NEW since, WriteBack(u, f, aim, since), GoWith(q, "session", f, since),
               \A k \in Fields : a[k] = b[k] => f[k] = since[k]
        PROVE  AccountsFit'
    <2>1. /\ request'[q].copy = f /\ request'[q].base = since /\ request'[q].user = request[q].user
          /\ \A p \in Requests \ {q} : Holds(p)
      BY <1>4, GoWithHolds
    <2> QED
      BY <1>4, <2>1, WritesFit
  <1>5. CASE ConfirmUser(q)
    <2>1. /\ WriteBack(u, Confirmed(a), Confirmed(intended[u]), Confirmed(b))
          /\ GoWith(q, "session", Confirmed(a), Confirmed(b))
      BY <1>5 DEF ConfirmUser, Confirmed
    <2> QED
      BY <1>2, <1>4, <2>1
  <1>6. CASE GoogleWrite(q)
    <2>1. /\ WriteBack(u, Granted(a), Granted(intended[u]), Granted(b))
          /\ GoWith(q, "session", Granted(a), Granted(b))
      BY <1>6 DEF GoogleWrite, Granted
    <2> QED
      BY <1>2, <1>4, <2>1
  <1>7. CASE LastLogin(q) \/ ProfileWrite(q)
    <2>1. WriteBack(u, a, intended[u], b) /\ Done(q)
      BY <1>7 DEF LastLogin, ProfileWrite
    <2> QED
      BY <1>3, <2>1
  <1>8. CASE OwnerWrite(q)
    <2>1. WriteBack(u, MadeOwner(a), MadeOwner(intended[u]), MadeOwner(b)) /\ Done(q)
      BY <1>8 DEF OwnerWrite, MadeOwner
    <2> QED
      BY <1>2, <1>3, <2>1
  <1>9. CASE AdminWrite(q)
    <2>1. WriteBack(u, Disabled(a), Disabled(intended[u]), Disabled(b)) /\ Done(q)
      BY <1>9 DEF AdminWrite, Disabled
    <2> QED
      BY <1>2, <1>3, <2>1
  <1> QED
    BY <1>5, <1>6, <1>7, <1>8, <1>9 DEF Writing

LEMMA GoogleReadFits ==
  ASSUME SignInv, AccountsFit, NEW q \in Requests, NEW u \in Users, GoogleRead(q, u)
  PROVE  AccountsFit'
  <1> PICK mine : mine = [NoAccount EXCEPT !.state = "live", !.active = TRUE, !.verified = TRUE, !.google = TRUE]
    OBVIOUS
  <1>1. CASE /\ CreateAccount(u, mine)
             /\ request' = [request EXCEPT ![q] = [Idle EXCEPT !.pc = "session", !.user = u, !.copy = mine,
                                                               !.base = mine]]
    <2> PICK x : x = [Idle EXCEPT !.pc = "session", !.user = u, !.copy = mine, !.base = mine]
      OBVIOUS
    <2>1. x.copy = x.base
      BY DEF Idle
    <2>2. request' = [request EXCEPT ![q] = x]
      BY <1>1
    <2>3. \A p \in Requests : Holds(p) \/ Blank(p)
      BY <2>1, <2>2, OthersHold DEF Blank
    <2> QED
      BY <1>1, <2>3, CreatesFit
  <1>2. ASSUME NEW pc, UNCHANGED accountVars,
               request' = [request EXCEPT ![q] = [Idle EXCEPT !.pc = pc, !.user = u, !.copy = account[u],
                                                             !.base = intended[u]]]
        PROVE  AccountsFit'
    <2> PICK x : x = [Idle EXCEPT !.pc = pc, !.user = u, !.copy = account[u], !.base = intended[u]]
      OBVIOUS
    <2>1. x.user = u /\ x.copy = account[u] /\ x.base = intended[u]
      BY DEF Idle
    <2>2. request' = [request EXCEPT ![q] = x] /\ UNCHANGED <<account, intended, clobbered>>
      BY <1>2 DEF accountVars
    <2> QED
      BY <2>1, <2>2, OthersHold, ReadsFit DEF Reads
  <1> QED
    BY <1>1, <1>2 DEF GoogleRead

LEMMA SignUpFits ==
  ASSUME SignInv, AccountsFit, NEW u \in Users, NEW role \in Roles, SignUp(u, role)
  PROVE  AccountsFit'
  <1>1. (UNCHANGED request) => \A p \in Requests : Holds(p)
    BY DEF Holds
  <1>2. \A p \in Requests : Holds(p)
    BY <1>1, SignUpHolds DEF SignUp
  <1> QED
    BY <1>2, CreatesFit DEF SignUp

LEMMA AccountsFitStep ==
  ASSUME SignInv, AccountsFit, [SignInNext]_signInVars
  PROVE  AccountsFit'
  <1>1. ASSUME NEW q \in Requests, Onward(q) \/ Writing(q) PROVE AccountsFit'
    BY <1>1, OnwardFits, WritingFits
  <1>2. ASSUME NEW q \in Requests, login_view(q) \/ request_otp_view(q) \/ forgot_password_view(q)
        PROVE  Onward(q)
    BY <1>2 DEF login_view, request_otp_view, forgot_password_view, Login, RequestCode, ForgotPassword, Kinds, Onward
  <1>3. ASSUME NEW q \in Requests, verify_otp_view(q) \/ reset_password_view(q) \/ update_profile_view(q)
                                     \/ create_business(q) \/ admin_form(q)
        PROVE  Onward(q) \/ Writing(q)
    BY <1>3 DEF verify_otp_view, reset_password_view, update_profile_view, create_business, admin_form, Onward, Writing
  <1>4. ASSUME NEW q \in Requests, google_callback_view(q) PROVE AccountsFit'
    BY <1>1, <1>4, GoogleReadFits DEF google_callback_view, Writing
  <1>5. ASSUME NEW q \in Requests, (\E c \in Codes : InsertCode(q, c)) \/ Abandon(q)
        PROVE  Onward(q)
    BY <1>5 DEF Onward
  <1>6. CASE signup_view
    BY <1>6, SignUpFits DEF signup_view
  <1>7. CASE (\E c \in Codes : Expire(c)) \/ UNCHANGED signInVars
    <2>1. UNCHANGED <<account, intended, clobbered, request>>
      BY <1>7 DEF Expire, signInVars
    <2> QED
      BY <2>1, ReadsFit DEF Holds
  <1> QED
    BY <1>1, <1>2, <1>3, <1>4, <1>5, <1>6, <1>7 DEF SignInNext

LEMMA AccountsInvariant == SignInSpec => []AccountsFit
  <1>1. SignInInit => AccountsFit
    BY DEF SignInInit, AccountsInit, AccountsFit, RowAsIntended, CopyFits, Agree, Idle
  <1>2. SignInv /\ AccountsFit /\ [SignInNext]_signInVars => AccountsFit'
    BY AccountsFitStep
  <1> QED
    BY <1>1, <1>2, SignInInvariant, PTL DEF SignInSpec
-----------------------------------------------------------------------------
\* A code signs its user in, or sets a password, once, and once more only for a
\* request that had read it before an earlier one closed it or for one that died
\* between the password and the mark, with any number of requests and codes
\* (otp_service.py:112, password_reset_use_cases.py:199).
THEOREM CodesAreUsedOnce == SignInSpec => []OneUse
  <1>1. SignInv => OneUse
    <2> SUFFICES ASSUME SignInv, NEW c \in Codes PROVE uses[c] <= 1 + spare[c]
      BY DEF OneUse
    <2>1. uses[c] + Cardinality(Carriers(c)) <= 1 + spare[c]
      BY DEF SignInv, UseInv
    <2>2. uses[c] \in Nat /\ spare[c] \in Nat /\ Cardinality(Carriers(c)) \in Nat
      BY CarriersFinite DEF SignInv, SignInType
    <2> QED
      BY <2>1, <2>2
  <1> QED
    BY <1>1, SignInInvariant, PTL

\* A user has one usable code of a kind, and one more for each request that was
\* overtaken between closing the others and creating its own
\* (otp_service.py:61, password_reset_use_cases.py:64).
THEOREM CodesReplaceEachOther == SignInSpec => []OneCodePending
  <1>1. SignInv => OneCodePending
    BY DEF SignInv, PendingInv, OneCodePending
  <1> QED
    BY <1>1, SignInInvariant, PTL

\* Each field of a user row is what the operations about it have made of it,
\* unless another operation set it between the reading and the writing of a
\* row, with any number of requests: a request that writes the row more than
\* once goes on with the copy it has written (user_repositories.py:104).
THEOREM RowsAreAsIntended == SignInSpec => []RowAsIntended
  <1>1. AccountsFit => RowAsIntended
    BY DEF AccountsFit
  <1> QED
    BY <1>1, AccountsInvariant, PTL

\* A code that was used, replaced or left to expire never works again, although
\* a failed attempt writes a stale copy of its row
\* (password_reset_use_cases.py:178).
THEOREM CodesStayClosed == SignInSpec => ClosedForGood
  <1>1. SignInv /\ [SignInNext]_signInVars =>
          [\A c \in Codes : (code[c].state # "none" /\ ~Usable(c)) => ~Usable(c)']_signInVars
    <2> SUFFICES ASSUME SignInv, [SignInNext]_signInVars, NEW c \in Codes,
                        code[c].state # "none", ~Usable(c)
                 PROVE  ~Usable(c)'
      OBVIOUS
    <2>1. CodeStep
      BY SignInvStep
    <2>2. Stays(c)
      BY <2>1 DEF CodeStep, Steady, Enters
    <2> QED
      BY <2>2 DEF Stays, Drops, Usable
  <1> QED
    BY <1>1, SignInInvariant, PTL DEF SignInSpec, ClosedForGood
=============================================================================

---------------------------- MODULE AccessProofs ----------------------------
(***************************************************************************)
(* Proofs about Tokens and RateLimit: their inductive invariants.          *)
(*                                                                         *)
(* Tokens: a request that is being served holds a pair, the row it rotates *)
(* or the rows it revokes; Fit says how what it holds agrees with the      *)
(* stores.  A step replaces what one request holds and changes the         *)
(* registry (RegistryStep) or the rows (RowStep) in ways that are harmless *)
(* for the requests it does not serve.                                     *)
(*                                                                         *)
(* RateLimit: a request that sets the counter back by writing an old copy  *)
(* is charged with the difference, so the count and what was forgotten     *)
(* always cover what was served; a request whose own count is within the   *)
(* limit then is within it too.                                            *)
(***************************************************************************)
EXTENDS MCAccess, SignInProofs

Fit(x) ==
    /\ x.parent \in Pairs => /\ x.pc \in {"bar", "revoke", "issue", "store"}
                             /\ row[x.parent].state # "none"
                             /\ x.pc \in {"issue", "store"} => row[x.parent].state = "revoked"
    /\ x.pc \in {"bar", "revoke"} => x.parent \in Pairs
    /\ x.pc \in {"bar", "revoke", "issue", "store"} => x.device \in Devices \cup {"none"}
    /\ x.pc = "store" => x.pair \in Pairs /\ made[x.pair].done /\ row[x.pair].state = "none"
    /\ x.pc = "rows" => x.device # "none"
    /\ x.rows # {} => x.pc \in {"end", "out"} /\ x.device # "none"
    /\ \A q \in x.rows : row[q].state # "none" /\ x.device \in {"all", row[q].device}

\* No two requests store the same pair.
OwnPair == \A g, h \in Handlers : (g # h /\ In(g, "store") /\ In(h, "store"))
                                     => handler[g].pair # handler[h].pair

Children(p) == {q \in Pairs : row[q].parent = p}
Bearers(p) == {h \in Handlers : handler[h].parent = p}

RecordedMinted == \A t \in recorded : Minted(t)
\* An expired token may have left the blacklist.
BarredOut == \A t \in barred : Minted(t) /\ (t \in blacklisted \/ Expired(t))
BlackHasRow == \A p \in Pairs : Refresh(p) \in blacklisted => row[p].state # "none"
RowsMade == \A p \in Pairs : row[p].state # "none" => made[p].done
RowsFollow == \A p \in Pairs : row[p].parent \in Pairs => row[row[p].parent].state = "revoked"
HandlersFit == (\A h \in Handlers : Fit(handler[h])) /\ OwnPair
\* A request that carries a row counts as a row that follows it.
RotationCount == \A p \in Pairs : Cardinality(Children(p)) + Cardinality(Bearers(p)) <= 1 + raced[p]

RegistryInv == RecordedMinted /\ BarredOut
RowInv == RowsMade /\ RowsFollow /\ HandlersFit /\ RotationCount
TokensInv == TokensType /\ RegistryInv /\ BlackHasRow /\ RowInv /\ StoresAgree
-----------------------------------------------------------------------------
(* The registry. *)

\* Time passes, and what has been made stays as it is.
MintStep == /\ now' \in Nat /\ now <= now'
            /\ \A p \in Pairs : made[p].done => made'[p] = made[p]

LEMMA MintedStays ==
  ASSUME TokensType, MintStep, NEW t \in Tokens, Minted(t)
  PROVE  Minted(t)' /\ Expiry(t)' = Expiry(t) /\ (Expired(t) => Expired(t)')
  <1>1. t[1] \in Pairs
    BY DEF Tokens
  <1>2. made'[t[1]] = made[t[1]] /\ made[t[1]].at \in Nat /\ now \in Nat
    BY <1>1, TokensConstants DEF MintStep, Minted, TokensType
  <1>3. Minted(t)' /\ Expiry(t)' = Expiry(t)
    BY <1>2 DEF Minted, Expiry
  <1>4. Expiry(t) \in Nat
    BY <1>2, TokensConstants DEF Expiry
  <1> QED
    BY <1>2, <1>3, <1>4 DEF Expired, MintStep

\* Tokens R are recorded, and B of them blacklisted.
LEMMA RegistryGrows ==
  ASSUME TokensType, RegistryInv, MintStep,
         NEW R \in SUBSET Tokens, NEW B \in SUBSET R, \A t \in R : Minted(t)',
         recorded' = recorded \cup R, blacklisted' = blacklisted \cup B, barred' = barred \cup B
  PROVE  /\ RegistryInv'
         /\ recorded' \subseteq Tokens /\ blacklisted' \subseteq Tokens /\ barred' \subseteq Tokens
  <1>1. recorded \subseteq Tokens /\ blacklisted \subseteq Tokens /\ barred \subseteq Tokens
    BY DEF TokensType
  <1>2. RecordedMinted'
    BY <1>1, MintedStays DEF RegistryInv, RecordedMinted
  <1>3. ASSUME NEW t \in barred' PROVE Minted(t)' /\ (t \in blacklisted' \/ Expired(t)')
    <2>1. CASE t \in B
      BY <2>1
    <2>2. CASE t \in barred
      BY <2>2, <1>1, MintedStays DEF RegistryInv, BarredOut
    <2> QED
      BY <2>1, <2>2
  <1> QED
    BY <1>1, <1>2, <1>3 DEF RegistryInv, BarredOut

\* What the cleanup deletes has expired.
LEMMA CleanupKeepsRegistry ==
  ASSUME TokensType, RegistryInv, Cleanup
  PROVE  RegistryInv'
  <1>1. /\ recorded \subseteq Tokens /\ barred \subseteq Tokens /\ now \in Nat
        /\ made \in [Pairs -> [done : BOOLEAN, at : 0..MaxNow]]
    BY TokensConstants DEF TokensType
  <1>2. PICK Gone : /\ Gone = {t \in recorded : Expiry(t) < now - Keep}
                    /\ recorded' = recorded \ Gone /\ blacklisted' = blacklisted \ Gone
    BY DEF Cleanup
  <1>3. UNCHANGED <<now, made, barred>>
    BY DEF Cleanup
  <1>4. ASSUME NEW t \in Gone PROVE Expired(t)
    <2>1. t[1] \in Pairs
      BY <1>1, <1>2 DEF Tokens
    <2>2. Expiry(t) \in Nat
      BY <1>1, <2>1, TokensConstants DEF Expiry
    <2> QED
      BY <1>1, <1>2, <2>2, TokensConstants DEF Expired
  <1>5. \A t : Minted(t)' = Minted(t) /\ Expired(t)' = Expired(t)
    BY <1>3 DEF Minted, Expired, Expiry
  <1>6. RecordedMinted'
    BY <1>2, <1>5 DEF RegistryInv, RecordedMinted
  <1>7. BarredOut'
    BY <1>2, <1>3, <1>4, <1>5 DEF RegistryInv, BarredOut
  <1> QED
    BY <1>6, <1>7 DEF RegistryInv
-----------------------------------------------------------------------------
(* The rows and the requests. *)

\* Rows stay, with their device and parent, and so does a revocation.
RowStep == \A p \in Pairs :
    /\ row[p].state # "none" => /\ row'[p].state # "none"
                                /\ row'[p].device = row[p].device /\ row'[p].parent = row[p].parent
    /\ row[p].state = "revoked" => row'[p].state = "revoked"
    /\ made[p].done => made'[p].done

LEMMA FitStays ==
  ASSUME RowStep, NEW x \in Handler, Fit(x), x.pc = "store" => row'[x.pair].state = "none"
  PROVE  Fit(x)'
  <1>1. x.rows \subseteq Pairs
    BY DEF Handler
  <1> QED
    BY <1>1 DEF Fit, RowStep

\* One request moves on to hold x; the others are not storing the row that is written.
LEMMA HandlersMove ==
  ASSUME TokensType, HandlersFit, RowStep, NEW h \in Handlers, NEW x \in Handler, Fit(x)',
         handler' = [handler EXCEPT ![h] = x],
         \A g \in Handlers \ {h} : In(g, "store") => row'[handler[g].pair].state = "none",
         \A g \in Handlers \ {h} : (In(g, "store") /\ x.pc = "store") => handler[g].pair # x.pair
  PROVE  HandlersFit' /\ handler' \in [Handlers -> Handler]
  <1>1. handler \in [Handlers -> Handler]
    BY DEF TokensType
  <1>2. handler'[h] = x /\ \A g \in Handlers \ {h} : handler'[g] = handler[g]
    BY <1>1
  <1>3. ASSUME NEW g \in Handlers PROVE Fit(handler[g])'
    <2>1. CASE g = h
      BY <2>1, <1>2 DEF Fit
    <2>2. CASE g # h
      <3>1. Fit(handler[g]) /\ handler[g] \in Handler /\ handler'[g] = handler[g]
        BY <1>1, <1>2, <2>2 DEF HandlersFit
      <3>2. handler[g].pc = "store" => row'[handler[g].pair].state = "none"
        BY <2>2 DEF In
      <3>3. handler[g].rows \subseteq Pairs
        BY <3>1 DEF Handler
      <3> QED
        BY <3>1, <3>2, <3>3 DEF Fit, RowStep
    <2> QED
      BY <2>1, <2>2
  <1>4. OwnPair'
    BY <1>2 DEF OwnPair, HandlersFit, In
  <1> QED
    BY <1>1, <1>3, <1>4 DEF HandlersFit

LEMMA RowsSame ==
  ASSUME UNCHANGED row, \A p \in Pairs : made[p].done => made'[p].done
  PROVE  RowStep
  BY DEF RowStep

\* Rows are revoked.
LEMMA RowsRevoked ==
  ASSUME TokensType, RowsMade, RowsFollow, UNCHANGED made, NEW S \in SUBSET Pairs,
         \A p \in S : row[p].state # "none",
         row' = [p \in Pairs |-> IF p \in S THEN [row[p] EXCEPT !.state = "revoked"] ELSE row[p]]
  PROVE  /\ RowStep /\ RowsMade' /\ RowsFollow' /\ row' \in [Pairs -> Row]
         /\ \A p \in Pairs : Children(p)' = Children(p)
         /\ \A p \in Pairs : row[p].state = "none" => row'[p].state = "none"
         /\ \A p \in Pairs : row'[p].state = "valid" => row[p].state = "valid" /\ p \notin S
  <1>1. row \in [Pairs -> Row]
    BY DEF TokensType
  <1>2. \A p \in Pairs : /\ row'[p] \in Row
                         /\ row'[p].parent = row[p].parent /\ row'[p].device = row[p].device
                         /\ row'[p].state = IF p \in S THEN "revoked" ELSE row[p].state
    BY <1>1 DEF Row
  <1>3. row' \in [Pairs -> Row]
    BY <1>2
  <1>4. RowStep
    BY <1>2 DEF RowStep
  <1>5. RowsMade'
    BY <1>2 DEF RowsMade
  <1>6. RowsFollow'
    BY <1>2 DEF RowsFollow
  <1>7. \A p \in Pairs : Children(p)' = Children(p)
    BY <1>2 DEF Children
  <1> QED
    BY <1>2, <1>3, <1>4, <1>5, <1>6, <1>7

LEMMA OneAdded ==
  ASSUME NEW S, NEW x, IsFiniteSet(S)
  PROVE  /\ IsFiniteSet(S \cup {x}) /\ Cardinality(S \cup {x}) \in Nat
         /\ Cardinality(S \cup {x}) <= Cardinality(S) + 1
  <1>1. IsFiniteSet(S \cup {x})
    BY FS_AddElement
  <1>2. Cardinality(S) \in Nat /\ Cardinality(S \cup {x}) \in Nat
    BY <1>1, FS_CardinalityType
  <1>3. CASE x \in S
    <2>1. Cardinality(S \cup {x}) = Cardinality(S)
      BY <1>3, FS_AddElement
    <2> QED
      BY <1>1, <1>2, <2>1
  <1>4. CASE x \notin S
    <2>1. Cardinality(S \cup {x}) = Cardinality(S) + 1
      BY <1>4, FS_AddElement
    <2> QED
      BY <1>1, <1>2, <2>1
  <1> QED
    BY <1>3, <1>4

LEMMA CountFinite ==
  ASSUME NEW p \in Pairs
  PROVE  /\ IsFiniteSet(Children(p)) /\ Cardinality(Children(p)) \in Nat
         /\ IsFiniteSet(Bearers(p)) /\ Cardinality(Bearers(p)) \in Nat
  <1>1. Children(p) \in SUBSET Pairs /\ Bearers(p) \in SUBSET Handlers
    BY DEF Children, Bearers
  <1>2. IsFiniteSet(Children(p)) /\ IsFiniteSet(Bearers(p))
    BY <1>1, FS_Subset, TokensConstants
  <1> QED
    BY <1>2, FS_CardinalityType

\* Neither the rows that follow p nor the requests that carry it become more.
LEMMA CountFalls ==
  ASSUME TokensType, NEW p \in Pairs, Cardinality(Children(p)) + Cardinality(Bearers(p)) <= 1 + raced[p],
         Children(p)' \subseteq Children(p), Bearers(p)' \subseteq Bearers(p), raced'[p] = raced[p]
  PROVE  (Cardinality(Children(p)) + Cardinality(Bearers(p)) <= 1 + raced[p])'
  <1>1. /\ IsFiniteSet(Children(p)) /\ Cardinality(Children(p)) \in Nat
        /\ IsFiniteSet(Bearers(p)) /\ Cardinality(Bearers(p)) \in Nat
    BY CountFinite
  <1>2. Cardinality(Children(p)') <= Cardinality(Children(p)) /\ IsFiniteSet(Children(p)')
    BY <1>1, FS_Subset
  <1>3. Cardinality(Bearers(p)') <= Cardinality(Bearers(p)) /\ IsFiniteSet(Bearers(p)')
    BY <1>1, FS_Subset
  <1>4. Cardinality(Children(p)') \in Nat /\ Cardinality(Bearers(p)') \in Nat
    BY <1>2, <1>3, FS_CardinalityType
  <1>5. raced[p] \in Nat
    BY DEF TokensType
  <1> QED
    BY <1>1, <1>2, <1>3, <1>4, <1>5

\* A request moves on; the rows, the pairs and the readings stay.
LEMMA QuietMove ==
  ASSUME TokensType, RowInv, NEW h \in Handlers, NEW x \in Handler, Fit(x), x.pc # "store",
         x.parent \in {NoPair, handler[h].parent},
         handler' = [handler EXCEPT ![h] = x], UNCHANGED <<row, made, raced>>
  PROVE  RowInv' /\ handler' \in [Handlers -> Handler]
  <1>1. RowStep
    BY RowsSame
  <1>2. Fit(x)'
    BY <1>1, FitStays
  <1>3. \A g \in Handlers : In(g, "store") => row'[handler[g].pair].state = "none"
    BY DEF RowInv, HandlersFit, Fit, In
  <1>4. HandlersFit' /\ handler' \in [Handlers -> Handler]
    BY <1>1, <1>2, <1>3, HandlersMove DEF RowInv
  <1>5. RowsMade' /\ RowsFollow'
    BY DEF RowInv, RowsMade, RowsFollow
  <1>6. ASSUME NEW p \in Pairs
        PROVE  (Cardinality(Children(p)) + Cardinality(Bearers(p)) <= 1 + raced[p])'
    <2>1. Bearers(p)' \subseteq Bearers(p)
      BY TokensConstants DEF Bearers, TokensType
    <2>2. Children(p)' \subseteq Children(p)
      BY DEF Children
    <2> QED
      BY <2>1, <2>2, CountFalls DEF RowInv, RotationCount
  <1>7. RotationCount'
    BY <1>6 DEF RotationCount
  <1> QED
    BY <1>4, <1>5, <1>7 DEF RowInv

\* What is newly blacklisted, or has been held so far, is still held or not valid.
LEMMA AgreeStays ==
  ASSUME TokensType, StoresAgree, BlackHasRow, RowStep, NEW h \in Handlers, NEW x \in Handler,
         handler' = [handler EXCEPT ![h] = x], dropped \subseteq dropped',
         \A p \in Pairs : (Refresh(p) \in blacklisted' /\ Refresh(p) \notin blacklisted)
                             => (row[p].state # "none" /\ (p \in x.rows \/ p = x.parent)),
         \A p \in Pairs : row'[p].state = "valid" => (row[p].state = "valid" \/ Refresh(p) \notin blacklisted'),
         \A p \in Pairs : ((p \in handler[h].rows \/ p = handler[h].parent) /\ row'[p].state = "valid")
                             => (p \in dropped' \/ p \in x.rows \/ p = x.parent)
  PROVE  StoresAgree' /\ BlackHasRow'
  <1>1. handler'[h] = x /\ \A g \in Handlers \ {h} : handler'[g] = handler[g]
    BY DEF TokensType
  <1>2. BlackHasRow'
    BY DEF BlackHasRow, RowStep, Refresh
  <1>3. ASSUME NEW p \in Pairs, Refresh(p) \in blacklisted', row'[p].state = "valid"
        PROVE  p \in dropped' \/ \E g \in Handlers : p \in handler'[g].rows \/ p = handler'[g].parent
    <2>1. CASE Refresh(p) \notin blacklisted
      BY <1>1, <1>3, <2>1
    <2>2. CASE Refresh(p) \in blacklisted
      <3>1. p \in dropped \/ \E g \in Handlers : p \in handler[g].rows \/ p = handler[g].parent
        BY <1>3, <2>2 DEF StoresAgree
      <3>2. CASE p \in dropped
        BY <3>2
      <3>3. CASE \E g \in Handlers : p \in handler[g].rows \/ p = handler[g].parent
        BY <1>1, <1>3, <3>3
      <3> QED
        BY <3>1, <3>2, <3>3
    <2> QED
      BY <2>1, <2>2
  <1>4. StoresAgree'
    BY <1>3 DEF StoresAgree, Refresh
  <1> QED
    BY <1>2, <1>4
-----------------------------------------------------------------------------
(* The actions. *)

LEMMA RestingFits == Resting \in Handler /\ Fit(Resting)
  BY TokensConstants DEF Resting, Handler, Fit

LEMMA MintSame ==
  ASSUME TokensType, UNCHANGED <<now, made>>
  PROVE  MintStep
  BY TokensConstants DEF MintStep, TokensType

\* A request that waits holds nothing.
LEMMA IdleHolds ==
  ASSUME TokensType, HandlersFit, NEW h \in Handlers, In(h, "idle")
  PROVE  handler[h].rows = {} /\ handler[h].parent = NoPair
  <1>1. handler[h] \in Handler /\ Fit(handler[h])
    BY DEF TokensType, HandlersFit
  <1> QED
    BY <1>1 DEF Handler, Fit, In

LEMMA SessionStartKeeps ==
  ASSUME TokensInv, NEW h \in Handlers, NEW d \in Devices, SessionStart(h, d)
  PROVE  TokensInv'
  <1> DEFINE x == [Resting EXCEPT !.pc = "issue", !.device = d]
  <1>1. x \in Handler /\ Fit(x) /\ x.parent = NoPair /\ x.pc = "issue" /\ x.rows = {}
    BY TokensConstants DEF Resting, Handler, Fit
  <1>2. /\ handler' = [handler EXCEPT ![h] = x]
        /\ UNCHANGED <<now, made, recorded, blacklisted, row, barred, raced, dropped>>
    BY DEF SessionStart
  <1> HIDE DEF x
  <1>3. RowInv' /\ handler' \in [Handlers -> Handler]
    BY <1>1, <1>2, QuietMove DEF TokensInv
  <1>4. handler[h].rows = {} /\ handler[h].parent = NoPair
    BY IdleHolds DEF SessionStart, TokensInv, RowInv
  <1>5. StoresAgree' /\ BlackHasRow'
    BY <1>1, <1>2, <1>4, RowsSame, AgreeStays, TokensConstants DEF TokensInv
  <1>6. RegistryInv'
    BY <1>2 DEF TokensInv, RegistryInv, RecordedMinted, BarredOut, Minted, Expired, Expiry
  <1>7. sessions' \in [Devices -> 0..MaxSessions]
    BY TokensConstants DEF SessionStart, TokensInv, TokensType
  <1>8. TokensType'
    BY <1>2, <1>3, <1>7 DEF TokensInv, TokensType
  <1> QED
    BY <1>3, <1>5, <1>6, <1>8 DEF TokensInv

\* The new pair has no row yet, so no other request stores it.
LEMMA IssueKeeps ==
  ASSUME TokensInv, NEW h \in Handlers, NEW p \in Pairs, Issue(h, p)
  PROVE  TokensInv'
  <1>0. PICK x : x = [handler[h] EXCEPT !.pc = "store", !.pair = p]
    OBVIOUS
  <1>1. /\ handler[h] \in Handler /\ Fit(handler[h]) /\ handler[h].pc = "issue" /\ ~made[p].done
        /\ handler \in [Handlers -> Handler] /\ made \in [Pairs -> [done : BOOLEAN, at : 0..MaxNow]]
    BY DEF TokensInv, TokensType, RowInv, HandlersFit, Issue, In
  <1>2. made' = [made EXCEPT ![p] = [done |-> TRUE, at |-> now]]
    BY DEF Issue
  <1>3. /\ recorded' = recorded \cup {Refresh(p)} /\ handler' = [handler EXCEPT ![h] = x]
        /\ UNCHANGED <<now, blacklisted, row, sessions, barred, raced, dropped, calls>>
    BY <1>0, <1>1 DEF Issue
  <1>4. /\ x \in Handler /\ x.pc = "store" /\ x.pair = p /\ x.parent = handler[h].parent
        /\ x.rows = handler[h].rows /\ x.device = handler[h].device
    BY <1>0, <1>1 DEF Handler
  <1>5. made'[p].done /\ \A q \in Pairs : made[q].done => made'[q] = made[q] /\ q # p
    BY <1>1, <1>2
  <1>6. row[p].state = "none"
    BY <1>1 DEF TokensInv, RowInv, RowsMade
  <1>7. RowStep
    BY <1>3, <1>5, RowsSame
  <1>8. Fit(x)'
    BY <1>1, <1>3, <1>4, <1>5, <1>6 DEF Fit
  <1>9. \A g \in Handlers : In(g, "store") => /\ row'[handler[g].pair].state = "none"
                                              /\ handler[g].pair # p
    BY <1>1, <1>3 DEF TokensInv, RowInv, HandlersFit, Fit, In
  <1>10. HandlersFit' /\ handler' \in [Handlers -> Handler]
    BY <1>3, <1>4, <1>7, <1>8, <1>9, HandlersMove DEF TokensInv, RowInv
  <1>11. RowsMade' /\ RowsFollow'
    BY <1>3, <1>5 DEF TokensInv, RowInv, RowsMade, RowsFollow
  <1>12. ASSUME NEW q \in Pairs
         PROVE  (Cardinality(Children(q)) + Cardinality(Bearers(q)) <= 1 + raced[q])'
    <2>1. Bearers(q)' \subseteq Bearers(q)
      BY <1>1, <1>3, <1>4 DEF Bearers
    <2>2. Children(q)' \subseteq Children(q)
      BY <1>3 DEF Children
    <2> QED
      BY <1>3, <2>1, <2>2, CountFalls DEF TokensInv, RowInv, RotationCount
  <1>13. RotationCount'
    BY <1>12 DEF RotationCount
  <1>14. RowInv'
    BY <1>10, <1>11, <1>13 DEF RowInv
  <1>15. StoresAgree' /\ BlackHasRow'
    BY <1>3, <1>4, <1>7, AgreeStays DEF TokensInv
  <1>16. MintStep
    BY <1>3, <1>5, TokensConstants DEF MintStep, TokensInv, TokensType
  <1>17. Refresh(p) \in Tokens /\ Minted(Refresh(p))'
    BY <1>5 DEF Refresh, Tokens, Minted
  <1>18. RegistryInv' /\ recorded' \subseteq Tokens
    <2>1. {Refresh(p)} \in SUBSET Tokens /\ {} \in SUBSET {Refresh(p)} /\ \A t \in {Refresh(p)} : Minted(t)'
      BY <1>17
    <2>2. blacklisted' = blacklisted \cup {} /\ barred' = barred \cup {}
      BY <1>3
    <2> QED
      BY <1>3, <1>16, <2>1, <2>2, RegistryGrows DEF TokensInv
  <1>19. made' \in [Pairs -> [done : BOOLEAN, at : 0..MaxNow]]
    BY <1>1, <1>2 DEF TokensInv, TokensType
  <1> QED
    BY <1>3, <1>10, <1>14, <1>15, <1>18, <1>19 DEF TokensInv, TokensType

\* The row of the pair appears; what it follows is revoked already, and the
\* request that carried it is done.
LEMMA StoreKeeps ==
  ASSUME TokensInv, NEW h \in Handlers, Store(h)
  PROVE  TokensInv'
  <1>0. PICK x, p, r : /\ x = handler[h] /\ p = x.pair
                       /\ r = [state |-> "valid", exp |-> now + RowLife, device |-> x.device, parent |-> x.parent]
    OBVIOUS
  <1>1. /\ x \in Handler /\ Fit(x) /\ x.pc = "store"
        /\ handler \in [Handlers -> Handler] /\ row \in [Pairs -> Row] /\ now \in Nat
    BY <1>0, TokensConstants DEF TokensInv, TokensType, RowInv, HandlersFit, Store, In
  <1>2. p \in Pairs /\ made[p].done /\ row[p].state = "none" /\ x.rows = {} /\ x.device \in Devices \cup {"none"}
    BY <1>0, <1>1 DEF Fit
  <1>3. /\ row' = [row EXCEPT ![p] = r] /\ handler' = [handler EXCEPT ![h] = Resting]
        /\ UNCHANGED <<now, made, recorded, blacklisted, sessions, barred, raced, dropped, calls>>
    BY <1>0 DEF Store, Rest
  <1>4. r \in Row /\ r.state = "valid" /\ r.parent = x.parent
    BY <1>0, <1>1, <1>2, TokensConstants DEF Row, Handler
  <1>5. row'[p] = r /\ (\A q \in Pairs \ {p} : row'[q] = row[q]) /\ row' \in [Pairs -> Row]
    BY <1>1, <1>2, <1>3, <1>4
  <1>6. RowStep
    BY <1>2, <1>3, <1>5 DEF RowStep
  <1>7. Fit(Resting)'
    BY <1>6, RestingFits, FitStays DEF Resting
  <1>8. \A g \in Handlers \ {h} : In(g, "store") => row'[handler[g].pair].state = "none"
    <2>1. ASSUME NEW g \in Handlers \ {h}, In(g, "store") PROVE row'[handler[g].pair].state = "none"
      <3>1. handler[g].pair # p
        BY <1>0, <1>1, <2>1 DEF TokensInv, RowInv, HandlersFit, OwnPair, In
      <3>2. handler[g].pair \in Pairs /\ row[handler[g].pair].state = "none"
        BY <2>1 DEF TokensInv, RowInv, HandlersFit, Fit, In
      <3> QED
        BY <1>5, <3>1, <3>2
    <2> QED
      BY <2>1
  <1>9. HandlersFit' /\ handler' \in [Handlers -> Handler]
    BY <1>3, <1>6, <1>7, <1>8, RestingFits, HandlersMove DEF TokensInv, RowInv, Resting
  <1>10. RowsMade'
    BY <1>2, <1>3, <1>5 DEF TokensInv, RowInv, RowsMade
  <1>11. RowsFollow'
    <2>1. ASSUME NEW q \in Pairs, row'[q].parent \in Pairs PROVE row'[row'[q].parent].state = "revoked"
      <3>1. CASE q = p
        BY <1>1, <1>4, <1>5, <1>6, <2>1, <3>1 DEF Fit, RowStep
      <3>2. CASE q # p
        BY <1>5, <1>6, <2>1, <3>2 DEF TokensInv, RowInv, RowsFollow, RowStep
      <3> QED
        BY <3>1, <3>2
    <2> QED
      BY <2>1 DEF RowsFollow
  <1>12. ASSUME NEW q \in Pairs
         PROVE  (Cardinality(Children(q)) + Cardinality(Bearers(q)) <= 1 + raced[q])'
    <2>1. CASE q # x.parent
      <3>1. Children(q)' \subseteq Children(q)
        BY <1>4, <1>5, <2>1 DEF Children
      <3>2. Bearers(q)' \subseteq Bearers(q)
        BY <1>1, <1>3, TokensConstants DEF Bearers, Resting
      <3>3. /\ TokensType /\ raced'[q] = raced[q]
            /\ Cardinality(Children(q)) + Cardinality(Bearers(q)) <= 1 + raced[q]
        BY <1>3 DEF TokensInv, RowInv, RotationCount
      <3> QED
        BY <3>1, <3>2, <3>3, CountFalls
    <2>2. CASE q = x.parent
      <3>1. Children(q)' \subseteq Children(q) \cup {p}
        BY <1>5 DEF Children
      <3>2. Bearers(q)' = Bearers(q) \ {h} /\ h \in Bearers(q)
        BY <1>0, <1>1, <1>3, <2>2, TokensConstants DEF Bearers, Resting
      <3>3. /\ IsFiniteSet(Children(q)) /\ Cardinality(Children(q)) \in Nat
            /\ IsFiniteSet(Bearers(q)) /\ Cardinality(Bearers(q)) \in Nat
        BY CountFinite
      <3>4. Cardinality(Bearers(q)') = Cardinality(Bearers(q)) - 1
        <4>1. Cardinality(Bearers(q) \ {h}) = Cardinality(Bearers(q)) - 1
          BY <3>2, <3>3, FS_RemoveElement
        <4> QED
          BY <3>2, <4>1
      <3>5. /\ IsFiniteSet(Children(q) \cup {p}) /\ Cardinality(Children(q) \cup {p}) \in Nat
            /\ Cardinality(Children(q) \cup {p}) <= Cardinality(Children(q)) + 1
        BY <3>3, OneAdded
      <3>6. Cardinality(Children(q)') <= Cardinality(Children(q) \cup {p}) /\ Cardinality(Children(q)') \in Nat
        BY <3>1, <3>5, FS_Subset, FS_CardinalityType
      <3>7. raced[q] \in Nat /\ raced'[q] = raced[q]
        BY <1>3 DEF TokensInv, TokensType
      <3>8. Cardinality(Children(q)) + Cardinality(Bearers(q)) <= 1 + raced[q]
        BY DEF TokensInv, RowInv, RotationCount
      <3> QED
        BY <3>3, <3>4, <3>5, <3>6, <3>7, <3>8
    <2> QED
      BY <2>1, <2>2
  <1>13. RotationCount'
    BY <1>12 DEF RotationCount
  <1>14. RowInv'
    BY <1>9, <1>10, <1>11, <1>13 DEF RowInv
  <1>15. Refresh(p) \notin blacklisted
    BY <1>2 DEF TokensInv, BlackHasRow
  <1>16. \A q \in Pairs : row'[q].state = "valid" => (row[q].state = "valid" \/ Refresh(q) \notin blacklisted')
    BY <1>3, <1>5, <1>15
  <1>17. \A q \in Pairs : ((q \in handler[h].rows \/ q = handler[h].parent) /\ row'[q].state = "valid")
                             => (q \in dropped' \/ q \in Resting.rows \/ q = Resting.parent)
    BY <1>0, <1>1, <1>2, <1>6 DEF Fit, RowStep
  <1>18. StoresAgree' /\ BlackHasRow'
    BY <1>3, <1>6, <1>16, <1>17, RestingFits, AgreeStays DEF TokensInv
  <1>19. RegistryInv'
    BY <1>3 DEF TokensInv, RegistryInv, RecordedMinted, BarredOut, Minted, Expired, Expiry
  <1> QED
    BY <1>3, <1>5, <1>9, <1>14, <1>18, <1>19 DEF TokensInv, TokensType

LEMMA RotateReadKeeps ==
  ASSUME TokensInv, NEW h \in Handlers, NEW p \in Pairs, NEW d \in Devices \cup {"none"}, RotateRead(h, p, d)
  PROVE  TokensInv'
  <1>0. PICK x : x = [Resting EXCEPT !.pc = "bar", !.parent = p, !.device = IF d = "none" THEN row[p].device ELSE d]
    OBVIOUS
  <1>1. /\ handler \in [Handlers -> Handler] /\ row[p] \in Row /\ row[p].state = "valid"
        /\ handler[h].pc = "idle" /\ raced \in [Pairs -> Nat]
    BY DEF TokensInv, TokensType, RotateRead, RowValid, In
  <1>2. handler[h].rows = {} /\ handler[h].parent = NoPair
    BY IdleHolds DEF RotateRead, TokensInv, RowInv
  <1>3. /\ handler' = [handler EXCEPT ![h] = x]
        /\ raced' = [raced EXCEPT ![p] = @ + (IF Rotating(p) = {} THEN 0 ELSE 1)]
        /\ UNCHANGED <<now, made, recorded, blacklisted, row, sessions, barred, dropped>>
        /\ calls > 0 /\ calls' = calls - 1
    BY <1>0 DEF RotateRead, Call
  <1>4. x.pc = "bar" /\ x.parent = p /\ x.rows = {} /\ x.device \in Devices \cup {"none"} /\ x \in Handler
    BY <1>0, <1>1 DEF Resting, Handler, Row
  <1>5. Fit(x)
    BY <1>1, <1>4 DEF Fit
  <1>6. RowStep
    BY <1>3, RowsSame
  <1>7. Fit(x)'
    BY <1>4, <1>5, <1>6, FitStays
  <1>8. \A g \in Handlers \ {h} : In(g, "store") => row'[handler[g].pair].state = "none"
    BY <1>3 DEF TokensInv, RowInv, HandlersFit, Fit, In
  <1>9. HandlersFit' /\ handler' \in [Handlers -> Handler]
    BY <1>3, <1>4, <1>6, <1>7, <1>8, HandlersMove DEF TokensInv, RowInv
  <1>10. RowsMade' /\ RowsFollow'
    BY <1>3 DEF TokensInv, RowInv, RowsMade, RowsFollow
  <1>11. raced' \in [Pairs -> Nat] /\ \A q \in Pairs \ {p} : raced'[q] = raced[q]
    BY <1>1, <1>3
  <1>12. ASSUME NEW q \in Pairs
         PROVE  (Cardinality(Children(q)) + Cardinality(Bearers(q)) <= 1 + raced[q])'
    <2>1. Children(q)' = Children(q)
      BY <1>3 DEF Children
    <2>2. CASE q # p
      <3>1. Bearers(q)' \subseteq Bearers(q)
        BY <1>1, <1>3, <1>4, <2>2 DEF Bearers
      <3>2. /\ TokensType /\ raced'[q] = raced[q]
            /\ Cardinality(Children(q)) + Cardinality(Bearers(q)) <= 1 + raced[q]
        BY <1>11, <2>2 DEF TokensInv, RowInv, RotationCount
      <3> QED
        BY <2>1, <3>1, <3>2, CountFalls
    <2>3. CASE q = p
      <3>1. Bearers(q)' = Bearers(q) \cup {h}
        BY <1>1, <1>3, <1>4, <2>3 DEF Bearers
      <3>2. /\ IsFiniteSet(Children(q)) /\ Cardinality(Children(q)) \in Nat
            /\ IsFiniteSet(Bearers(q)) /\ Cardinality(Bearers(q)) \in Nat
        BY CountFinite
      <3>3. Cardinality(Bearers(q)') \in Nat /\ Cardinality(Bearers(q)') <= Cardinality(Bearers(q)) + 1
        BY <3>1, <3>2, OneAdded
      <3>4. Children(q) = {}
        BY <1>1, <2>3 DEF TokensInv, RowInv, RowsFollow, Children
      <3>5. Cardinality(Children(q)') = 0
        BY <2>1, <3>4, FS_EmptySet
      <3>6. Bearers(q) = Rotating(q)
        BY <1>1, <2>3 DEF Bearers, Rotating, TokensInv, RowInv, HandlersFit, Fit
      <3>7. CASE Rotating(p) = {}
        <4>1. Cardinality(Bearers(q)) = 0
          BY <2>3, <3>6, <3>7, FS_EmptySet
        <4> QED
          BY <1>11, <3>2, <3>3, <3>5, <4>1
      <3>8. CASE Rotating(p) # {}
        <4>1. raced'[q] = raced[q] + 1 /\ raced[q] \in Nat
          BY <1>1, <1>3, <2>3, <3>8
        <4>2. Cardinality(Children(q)) + Cardinality(Bearers(q)) <= 1 + raced[q]
          BY DEF TokensInv, RowInv, RotationCount
        <4> QED
          BY <3>2, <3>3, <3>5, <4>1, <4>2
      <3> QED
        BY <3>7, <3>8
    <2> QED
      BY <2>2, <2>3
  <1>13. RowInv'
    BY <1>9, <1>10, <1>12 DEF RowInv, RotationCount
  <1>14. StoresAgree' /\ BlackHasRow'
    BY <1>2, <1>3, <1>4, <1>6, AgreeStays, TokensConstants DEF TokensInv
  <1>15. RegistryInv'
    BY <1>3 DEF TokensInv, RegistryInv, RecordedMinted, BarredOut, Minted, Expired, Expiry
  <1> QED
    BY <1>3, <1>9, <1>11, <1>13, <1>14, <1>15 DEF TokensInv, TokensType

\* Known access tokens, and refresh tokens that simplejwt accepts, have been made.
LEMMA SoundMinted ==
  ASSUME TokensType, RegistryInv, NEW S \in SUBSET Pairs
  PROVE  LET T == KnownAccess \cup {t \in {Refresh(p) : p \in S} : Sound(t)} IN
         T \subseteq Tokens /\ \A t \in T : Minted(t)
  BY DEF TokensType, RegistryInv, RecordedMinted, KnownAccess, Sound, Refresh, Tokens

\* A set of minted tokens is blacklisted.
LEMMA BlacklistKeeps ==
  ASSUME TokensType, RegistryInv, UNCHANGED <<now, made>>, NEW T \in SUBSET Tokens, \A t \in T : Minted(t),
         Blacklist(T)
  PROVE  /\ RegistryInv'
         /\ recorded' \subseteq Tokens /\ blacklisted' \subseteq Tokens /\ barred' \subseteq Tokens
         /\ \A p \in Pairs : (Refresh(p) \in blacklisted' /\ Refresh(p) \notin blacklisted) => Refresh(p) \in T
  <1>1. MintStep
    BY MintSame
  <1>2. \A t \in T : Minted(t)'
    BY DEF Minted
  <1> QED
    BY <1>1, <1>2, RegistryGrows DEF Blacklist

LEMMA RotateBarKeeps ==
  ASSUME TokensInv, NEW h \in Handlers, RotateBar(h)
  PROVE  TokensInv'
  <1>0. PICK x, y : y = handler[h] /\ x = [y EXCEPT !.pc = "revoke"]
    OBVIOUS
  <1>1. y \in Handler /\ Fit(y) /\ y.pc = "bar" /\ handler \in [Handlers -> Handler]
    BY <1>0 DEF TokensInv, TokensType, RowInv, HandlersFit, RotateBar, In
  <1>2. /\ handler' = [handler EXCEPT ![h] = x]
        /\ UNCHANGED <<now, made, row, sessions, raced, dropped, calls>>
    BY <1>0, <1>1 DEF RotateBar, Move
  <1>3. /\ x \in Handler /\ x.pc = "revoke" /\ x.parent = y.parent /\ x.rows = y.rows /\ x.device = y.device
        /\ y.parent \in Pairs
    BY <1>0, <1>1 DEF Handler, Fit
  <1>4. Fit(x)
    BY <1>1, <1>3 DEF Fit
  <1>5. RowInv' /\ handler' \in [Handlers -> Handler]
    BY <1>0, <1>2, <1>3, <1>4, QuietMove DEF TokensInv
  <1>6. TokensType /\ RegistryInv
    BY DEF TokensInv
  <1>7. PICK T : /\ T \in {{}, KnownAccess, KnownAccess \cup {t \in {Refresh(y.parent)} : Sound(t)}}
                 /\ Blacklist(T)
    BY <1>0 DEF RotateBar
  <1>8. T \subseteq Tokens /\ \A t \in T : Minted(t)
    BY <1>3, <1>6, <1>7
       DEF TokensType, RegistryInv, RecordedMinted, KnownAccess, Sound, Refresh, Tokens
  <1>9. /\ RegistryInv'
        /\ recorded' \subseteq Tokens /\ blacklisted' \subseteq Tokens /\ barred' \subseteq Tokens
        /\ \A p \in Pairs : (Refresh(p) \in blacklisted' /\ Refresh(p) \notin blacklisted) => Refresh(p) \in T
    BY <1>2, <1>6, <1>7, <1>8, BlacklistKeeps
  <1>10. \A p \in Pairs : Refresh(p) \in T => p = y.parent
    BY <1>7 DEF KnownAccess, Refresh
  <1>11. RowStep
    BY <1>2, RowsSame
  <1>12. \A p \in Pairs : (Refresh(p) \in blacklisted' /\ Refresh(p) \notin blacklisted)
                             => (row[p].state # "none" /\ (p \in x.rows \/ p = x.parent))
    BY <1>1, <1>3, <1>9, <1>10 DEF Fit
  <1>13. StoresAgree' /\ BlackHasRow'
    BY <1>0, <1>2, <1>3, <1>11, <1>12, AgreeStays, ZenonT(40) DEF TokensInv
  <1> QED
    BY <1>2, <1>5, <1>9, <1>13 DEF TokensInv, TokensType

LEMMA LogoutStartKeeps ==
  ASSUME TokensInv, NEW h \in Handlers, NEW t \in Tokens, NEW d \in Devices \cup {"none", "all"},
         LogoutStart(h, t, d)
  PROVE  TokensInv'
  <1>0. PICK x : x = [Resting EXCEPT !.pc = IF d = "none" THEN "end" ELSE "rows", !.device = d]
    OBVIOUS
  <1>1. /\ handler' = [handler EXCEPT ![h] = x] /\ Minted(t) /\ t[2] = "access" /\ In(h, "idle")
        /\ calls > 0 /\ calls' = calls - 1
        /\ UNCHANGED <<now, made, row, sessions, raced, dropped>>
    BY <1>0 DEF LogoutStart, Call, Accepts
  <1>11. PICK T : T \in {{}, {t}} /\ Blacklist(T)
    BY DEF LogoutStart
  <1>2. /\ x \in Handler /\ x.pc = (IF d = "none" THEN "end" ELSE "rows")
        /\ x.parent = NoPair /\ x.rows = {} /\ x.device = d
    BY <1>0 DEF Resting, Handler
  <1>3. Fit(x)
    BY <1>2, TokensConstants DEF Fit
  <1>4. RowInv' /\ handler' \in [Handlers -> Handler]
    BY <1>1, <1>2, <1>3, QuietMove DEF TokensInv
  <1>5. handler[h].rows = {} /\ handler[h].parent = NoPair
    BY <1>1, IdleHolds DEF TokensInv, RowInv
  <1>6. T \in SUBSET Tokens /\ \A u \in T : Minted(u)
    BY <1>1, <1>11
  <1>7. /\ RegistryInv'
        /\ recorded' \subseteq Tokens /\ blacklisted' \subseteq Tokens /\ barred' \subseteq Tokens
        /\ \A p \in Pairs : (Refresh(p) \in blacklisted' /\ Refresh(p) \notin blacklisted) => Refresh(p) \in T
    BY <1>1, <1>6, <1>11, BlacklistKeeps DEF TokensInv
  <1>8. \A p \in Pairs : Refresh(p) \notin T
    BY <1>1, <1>11 DEF Refresh
  <1>9. RowStep
    BY <1>1, RowsSame
  <1>10. StoresAgree' /\ BlackHasRow'
    <2>1. \A p \in Pairs : Refresh(p) \in blacklisted' => Refresh(p) \in blacklisted
      BY <1>7, <1>8
    <2>2. \A p \in Pairs : p \notin handler[h].rows /\ p # handler[h].parent
      BY <1>5, TokensConstants
    <2>3. UNCHANGED <<row, dropped>>
      BY <1>1
    <2>4. TokensType /\ StoresAgree /\ BlackHasRow
      BY DEF TokensInv
    <2> QED
      BY <1>1, <1>2, <1>9, <2>1, <2>2, <2>3, <2>4, AgreeStays
  <1> QED
    BY <1>1, <1>4, <1>7, <1>10, TokensConstants DEF TokensInv, TokensType

\* The rows that are read are those whose refresh tokens are blacklisted.
LEMMA LogoutRowsKeeps ==
  ASSUME TokensInv, NEW h \in Handlers, LogoutRows(h)
  PROVE  TokensInv'
  <1>0. PICK x, y, S : /\ y = handler[h] /\ S = Unrevoked(y.device)
                       /\ x = [y EXCEPT !.pc = "end", !.rows = S]
    OBVIOUS
  <1>1. y \in Handler /\ Fit(y) /\ y.pc = "rows" /\ handler \in [Handlers -> Handler]
    BY <1>0 DEF TokensInv, TokensType, RowInv, HandlersFit, LogoutRows, In
  <1>2. /\ handler' = [handler EXCEPT ![h] = x]
        /\ \E T \in {{}} \cup {KnownAccess \cup R : R \in SUBSET {t \in {Refresh(p) : p \in S} : Sound(t)}} :
              Blacklist(T)
        /\ UNCHANGED <<now, made, row, sessions, raced, dropped, calls>>
    BY <1>0, <1>1 DEF LogoutRows
  <1>3. S \in SUBSET Pairs /\ \A p \in S : row[p].state = "valid" /\ y.device \in {"all", row[p].device}
    BY <1>0 DEF Unrevoked
  <1>4. /\ x \in Handler /\ x.pc = "end" /\ x.parent = y.parent /\ x.rows = S /\ x.device = y.device
        /\ y.parent \notin Pairs /\ y.rows = {} /\ y.device # "none"
    BY <1>0, <1>1, <1>3 DEF Handler, Fit
  <1>5. Fit(x)
    BY <1>3, <1>4 DEF Fit
  <1>6. RowInv' /\ handler' \in [Handlers -> Handler]
    BY <1>0, <1>2, <1>4, <1>5, QuietMove DEF TokensInv
  <1>7. TokensType /\ RegistryInv
    BY DEF TokensInv
  <1>8. PICK T : /\ T \subseteq KnownAccess \cup {t \in {Refresh(p) : p \in S} : Sound(t)}
                 /\ Blacklist(T)
    BY <1>2
  <1>9. T \in SUBSET Tokens /\ \A t \in T : Minted(t)
    BY <1>3, <1>7, <1>8, SoundMinted
  <1>10. /\ RegistryInv'
         /\ recorded' \subseteq Tokens /\ blacklisted' \subseteq Tokens /\ barred' \subseteq Tokens
         /\ \A p \in Pairs : (Refresh(p) \in blacklisted' /\ Refresh(p) \notin blacklisted) => Refresh(p) \in T
    BY <1>2, <1>7, <1>8, <1>9, BlacklistKeeps
  <1>11. \A p \in Pairs : Refresh(p) \in T => p \in S
    BY <1>8 DEF KnownAccess, Refresh
  <1>12. RowStep
    BY <1>2, RowsSame
  <1>13. \A p \in Pairs : (Refresh(p) \in blacklisted' /\ Refresh(p) \notin blacklisted)
                             => (row[p].state # "none" /\ (p \in x.rows \/ p = x.parent))
    BY <1>3, <1>4, <1>10, <1>11
  <1>14. StoresAgree' /\ BlackHasRow'
    BY <1>0, <1>2, <1>4, <1>12, <1>13, AgreeStays, ZenonT(40) DEF TokensInv
  <1> QED
    BY <1>2, <1>6, <1>10, <1>14 DEF TokensInv, TokensType

\* Rows are revoked by a request that moves on and no longer holds them.
LEMMA RevokeKeeps ==
  ASSUME TokensInv, NEW h \in Handlers, NEW x \in Handler, Fit(x)', x.pc # "store",
         x.parent \in {NoPair, handler[h].parent}, handler' = [handler EXCEPT ![h] = x],
         NEW S \in SUBSET Pairs, \A p \in S : row[p].state # "none",
         row' = [p \in Pairs |-> IF p \in S THEN [row[p] EXCEPT !.state = "revoked"] ELSE row[p]],
         \A p \in Pairs : ((p \in handler[h].rows \/ p = handler[h].parent) /\ row[p].state = "valid")
                             => (p \in S \/ p \in x.rows \/ p = x.parent),
         UNCHANGED <<now, made, recorded, blacklisted, sessions, barred, raced, dropped>>
  PROVE  TokensInv'
  <1>1. /\ RowStep /\ RowsMade' /\ RowsFollow' /\ row' \in [Pairs -> Row]
        /\ \A p \in Pairs : Children(p)' = Children(p)
        /\ \A p \in Pairs : row[p].state = "none" => row'[p].state = "none"
        /\ \A p \in Pairs : row'[p].state = "valid" => row[p].state = "valid" /\ p \notin S
    BY RowsRevoked DEF TokensInv, RowInv
  <1>3. ASSUME NEW g \in Handlers, In(g, "store") PROVE row'[handler[g].pair].state = "none"
    <2>1. handler[g].pair \in Pairs /\ row[handler[g].pair].state = "none"
      BY <1>3 DEF TokensInv, RowInv, HandlersFit, Fit, In
    <2> QED
      BY <1>1, <2>1
  <1>4. HandlersFit' /\ handler' \in [Handlers -> Handler]
    BY <1>1, <1>3, HandlersMove DEF TokensInv, RowInv
  <1>5. ASSUME NEW p \in Pairs
        PROVE  (Cardinality(Children(p)) + Cardinality(Bearers(p)) <= 1 + raced[p])'
    <2>1. Bearers(p)' \subseteq Bearers(p)
      BY TokensConstants DEF Bearers, TokensInv, TokensType
    <2>2. /\ TokensType /\ raced'[p] = raced[p]
          /\ Cardinality(Children(p)) + Cardinality(Bearers(p)) <= 1 + raced[p]
      BY DEF TokensInv, RowInv, RotationCount
    <2> QED
      BY <1>1, <2>1, <2>2, CountFalls
  <1>6. RowInv'
    BY <1>1, <1>4, <1>5 DEF RowInv, RotationCount
  <1>7. StoresAgree' /\ BlackHasRow'
    <2>1. \A p \in Pairs : ((p \in handler[h].rows \/ p = handler[h].parent) /\ row'[p].state = "valid")
                             => (p \in dropped' \/ p \in x.rows \/ p = x.parent)
      BY <1>1
    <2>2. \A p \in Pairs : row'[p].state = "valid" => (row[p].state = "valid" \/ Refresh(p) \notin blacklisted')
      BY <1>1
    <2>3. TokensType /\ StoresAgree /\ BlackHasRow
      BY DEF TokensInv
    <2> QED
      BY <1>1, <2>1, <2>2, <2>3, AgreeStays
  <1>8. RegistryInv'
    BY DEF TokensInv, RegistryInv, RecordedMinted, BarredOut, Minted, Expired, Expiry
  <1> QED
    BY <1>1, <1>4, <1>6, <1>7, <1>8 DEF TokensInv, TokensType

LEMMA RotateRevokeKeeps ==
  ASSUME TokensInv, NEW h \in Handlers, RotateRevoke(h)
  PROVE  TokensInv'
  <1>0. PICK x, y, p : y = handler[h] /\ x = [y EXCEPT !.pc = "issue"] /\ p = y.parent
    OBVIOUS
  <1>1. y \in Handler /\ Fit(y) /\ y.pc = "revoke" /\ row \in [Pairs -> Row]
    BY <1>0 DEF TokensInv, TokensType, RowInv, HandlersFit, RotateRevoke, In
  <1>2. p \in Pairs /\ row[p].state # "none" /\ y.rows = {}
    BY <1>0, <1>1 DEF Fit
  <1>3. /\ handler' = [handler EXCEPT ![h] = x] /\ row' = [row EXCEPT ![p].state = "revoked"]
        /\ UNCHANGED <<now, made, recorded, blacklisted, sessions, barred, raced, dropped>>
    <2>1. /\ handler' = [handler EXCEPT ![h].pc = "issue"]
          /\ row' = [row EXCEPT ![handler[h].parent].state = "revoked"]
          /\ UNCHANGED <<now, made, recorded, blacklisted, sessions, barred, raced, dropped>>
      BY DEF RotateRevoke, Move
    <2>2. handler' = [handler EXCEPT ![h] = x]
      BY <1>0, <2>1
    <2> QED
      BY <1>0, <2>1, <2>2
  <1>4. /\ x \in Handler /\ x.pc = "issue" /\ x.parent = p /\ x.rows = {} /\ x.device = y.device
    BY <1>0, <1>1, <1>2 DEF Handler
  <1>5. row' = [q \in Pairs |-> IF q \in {p} THEN [row[q] EXCEPT !.state = "revoked"] ELSE row[q]]
    BY <1>1, <1>2, <1>3
  <1>6. row'[p].state = "revoked"
    BY <1>1, <1>2, <1>3
  <1>7. Fit(x)'
    BY <1>1, <1>2, <1>4, <1>6 DEF Fit
  <1>8. \A q \in Pairs : ((q \in handler[h].rows \/ q = handler[h].parent) /\ row[q].state = "valid")
                             => (q \in {p} \/ q \in x.rows \/ q = x.parent)
    BY <1>0, <1>2
  <1> QED
    <2>1. {p} \in SUBSET Pairs /\ \A q \in {p} : row[q].state # "none"
      BY <1>2
    <2>2. x.pc # "store" /\ x.parent \in {NoPair, handler[h].parent} /\ x \in Handler
      BY <1>0, <1>4
    <2> QED
      BY <1>3, <1>5, <1>7, <1>8, <2>1, <2>2, RevokeKeeps

LEMMA LogoutRevokeKeeps ==
  ASSUME TokensInv, NEW h \in Handlers, LogoutRevoke(h)
  PROVE  TokensInv'
  <1>0. PICK S, y : y = handler[h] /\ S = Unrevoked(y.device)
    OBVIOUS
  <1>1. y \in Handler /\ Fit(y) /\ y.pc = "out"
    BY <1>0 DEF TokensInv, TokensType, RowInv, HandlersFit, LogoutRevoke, In
  <1>2. S \in SUBSET Pairs /\ \A p \in S : row[p].state # "none"
    BY <1>0 DEF Unrevoked
  <1>3. /\ handler' = [handler EXCEPT ![h] = Resting]
        /\ row' = [p \in Pairs |-> IF p \in S THEN [row[p] EXCEPT !.state = "revoked"] ELSE row[p]]
        /\ UNCHANGED <<now, made, recorded, blacklisted, sessions, barred, raced, dropped>>
    BY <1>0 DEF LogoutRevoke, Rest
  <1>4. Fit(Resting)' /\ Resting.pc # "store" /\ Resting.parent = NoPair
    BY TokensConstants DEF Fit, Resting
  <1>5. \A q \in Pairs : ((q \in y.rows \/ q = y.parent) /\ row[q].state = "valid") => q \in S
    BY <1>0, <1>1 DEF Fit, Unrevoked
  <1> QED
    BY <1>0, <1>2, <1>3, <1>4, <1>5, RestingFits, RevokeKeeps, ZenonT(40)

\* The current session alone ends without any rows.
LEMMA LogoutEndKeeps ==
  ASSUME TokensInv, NEW h \in Handlers, LogoutEnd(h)
  PROVE  TokensInv'
  <1>0. PICK x, y : /\ y = handler[h]
                    /\ x = IF y.device = "none" THEN Resting ELSE [y EXCEPT !.pc = "out"]
    OBVIOUS
  <1>1. y \in Handler /\ Fit(y) /\ y.pc = "end" /\ y.parent = NoPair
    BY <1>0 DEF TokensInv, TokensType, RowInv, HandlersFit, LogoutEnd, In, Fit, Handler
  <1>2. /\ handler' = [handler EXCEPT ![h] = x]
        /\ UNCHANGED <<now, made, recorded, blacklisted, row, barred, raced, dropped>>
    <2>1. /\ IF handler[h].device = "none" THEN Rest(h) ELSE Move(h, "out")
          /\ UNCHANGED <<now, made, recorded, blacklisted, row, barred, raced, dropped>>
      BY DEF LogoutEnd
    <2>2. handler' = [handler EXCEPT ![h] = x]
      BY <1>0, <2>1 DEF Rest, Move
    <2> QED
      BY <2>1, <2>2
  <1>3. /\ x \in Handler /\ Fit(x) /\ x.pc # "store" /\ x.parent = NoPair /\ x.rows = y.rows
    <2>1. CASE y.device = "none"
      BY <1>0, <1>1, <2>1, RestingFits DEF Fit, Resting
    <2>2. CASE y.device # "none"
      <3>1. /\ x \in Handler /\ x.pc = "out" /\ x.parent = NoPair /\ x.rows = y.rows /\ x.device = y.device
        BY <1>0, <1>1, <2>2 DEF Handler
      <3> QED
        BY <1>1, <2>2, <3>1, TokensConstants DEF Fit
    <2> QED
      BY <2>1, <2>2
  <1>4. RowInv' /\ handler' \in [Handlers -> Handler]
    BY <1>2, <1>3, QuietMove DEF TokensInv
  <1>5. RowStep
    BY <1>2, RowsSame
  <1>6. StoresAgree' /\ BlackHasRow'
    <2>1. \A p \in Pairs : (p \in handler[h].rows \/ p = handler[h].parent) => (p \in x.rows \/ p = x.parent)
      BY <1>0, <1>1, <1>3
    <2>2. TokensType /\ StoresAgree /\ BlackHasRow /\ UNCHANGED <<row, blacklisted, dropped>>
      BY <1>2 DEF TokensInv
    <2> QED
      BY <1>2, <1>3, <1>5, <2>1, <2>2, AgreeStays
  <1>7. RegistryInv'
    BY <1>2 DEF TokensInv, RegistryInv, RecordedMinted, BarredOut, Minted, Expired, Expiry
  <1>8. sessions' \in [Devices -> 0..MaxSessions]
    BY TokensConstants DEF LogoutEnd, TokensInv, TokensType
  <1> QED
    BY <1>2, <1>4, <1>6, <1>7, <1>8 DEF TokensInv, TokensType

\* A request that dies drops what it held.
LEMMA DropKeeps ==
  ASSUME TokensInv, NEW h \in Handlers, Drop(h)
  PROVE  TokensInv'
  <1>0. PICK y : y = handler[h]
    OBVIOUS
  <1>1. y \in Handler
    BY <1>0 DEF TokensInv, TokensType
  <1>2. /\ handler' = [handler EXCEPT ![h] = Resting]
        /\ dropped' = dropped \cup y.rows \cup ({y.parent} \cap Pairs)
        /\ UNCHANGED <<now, made, recorded, blacklisted, row, sessions, barred, raced, calls>>
    BY <1>0 DEF Drop, Rest
  <1>3. Resting.pc # "store" /\ Resting.parent = NoPair
    BY DEF Resting
  <1>4. RowInv' /\ handler' \in [Handlers -> Handler]
    BY <1>2, <1>3, RestingFits, QuietMove DEF TokensInv
  <1>5. RowStep
    BY <1>2, RowsSame
  <1>6. \A p \in Pairs : (p \in y.rows \/ p = y.parent) => p \in dropped'
    BY <1>2
  <1>7. StoresAgree' /\ BlackHasRow'
    BY <1>0, <1>2, <1>5, <1>6, RestingFits, AgreeStays DEF TokensInv
  <1>8. RegistryInv'
    BY <1>2 DEF TokensInv, RegistryInv, RecordedMinted, BarredOut, Minted, Expired, Expiry
  <1>9. dropped' \subseteq Pairs
    BY <1>1, <1>2 DEF TokensInv, TokensType, Handler
  <1> QED
    BY <1>2, <1>4, <1>7, <1>8, <1>9 DEF TokensInv, TokensType

\* Neither rows nor requests change.
LEMMA StoresStay ==
  ASSUME TokensInv, UNCHANGED <<made, row, handler, raced, dropped, sessions>>, blacklisted' \subseteq blacklisted
  PROVE  RowInv' /\ StoresAgree' /\ BlackHasRow'
  <1>1. HandlersFit'
    BY DEF TokensInv, RowInv, HandlersFit, Fit, OwnPair, In
  <1>2. RowsMade' /\ RowsFollow'
    BY DEF TokensInv, RowInv, RowsMade, RowsFollow
  <1>3. RotationCount'
    BY DEF TokensInv, RowInv, RotationCount, Children, Bearers
  <1>4. StoresAgree' /\ BlackHasRow'
    BY DEF TokensInv, StoresAgree, BlackHasRow, Refresh
  <1> QED
    BY <1>1, <1>2, <1>3, <1>4 DEF RowInv

LEMMA AuthenticateKeeps ==
  ASSUME TokensInv, NEW t \in Tokens, Authenticate(t)
  PROVE  TokensInv'
  <1>1. /\ recorded' = recorded \cup {t} /\ Minted(t)
        /\ UNCHANGED <<now, made, blacklisted, row, sessions, handler, barred, raced, dropped, calls>>
    BY DEF Authenticate, Accepts
  <1>2. RowInv' /\ StoresAgree' /\ BlackHasRow'
    BY <1>1, StoresStay
  <1>3. RegistryInv'
    BY <1>1 DEF TokensInv, RegistryInv, RecordedMinted, BarredOut, Minted, Expired, Expiry
  <1> QED
    BY <1>1, <1>2, <1>3 DEF TokensInv, TokensType

LEMMA CleanupKeeps ==
  ASSUME TokensInv, Cleanup
  PROVE  TokensInv'
  <1>1. /\ recorded' \subseteq recorded /\ blacklisted' \subseteq blacklisted
        /\ UNCHANGED <<now, made, row, sessions, handler, barred, raced, dropped, calls>>
    BY DEF Cleanup
  <1>2. RowInv' /\ StoresAgree' /\ BlackHasRow'
    BY <1>1, StoresStay
  <1>3. RegistryInv'
    BY CleanupKeepsRegistry DEF TokensInv
  <1> QED
    BY <1>1, <1>2, <1>3 DEF TokensInv, TokensType

LEMMA TickKeeps ==
  ASSUME TokensInv, Tick
  PROVE  TokensInv'
  <1>1. /\ now \in Nat /\ now' = now + 1 /\ now' \in 0..MaxNow
        /\ UNCHANGED <<made, recorded, blacklisted, row, sessions, handler, barred, raced, dropped, calls>>
    BY TokensConstants DEF Tick, TokensInv, TokensType
  <1>2. RowInv' /\ StoresAgree' /\ BlackHasRow'
    BY <1>1, StoresStay
  <1>3. MintStep
    BY <1>1 DEF MintStep
  <1>4. {} \in SUBSET Tokens /\ {} \in SUBSET {} /\ \A t \in {} : Minted(t)'
    OBVIOUS
  <1>5. recorded' = recorded \cup {} /\ blacklisted' = blacklisted \cup {} /\ barred' = barred \cup {}
    BY <1>1
  <1>6. RegistryInv'
    BY <1>3, <1>4, <1>5, RegistryGrows DEF TokensInv
  <1> QED
    BY <1>1, <1>2, <1>6 DEF TokensInv, TokensType
-----------------------------------------------------------------------------
LEMMA TokensInvInit ==
  ASSUME TokensInit
  PROVE  TokensInv
  <1>1. TokensType
    BY RestingFits, TokensConstants DEF TokensInit, TokensType, NoRow, Row
  <1>2. RegistryInv /\ BlackHasRow /\ StoresAgree
    BY DEF TokensInit, RegistryInv, RecordedMinted, BarredOut, BlackHasRow, StoresAgree
  <1>3. RowsMade /\ RowsFollow
    BY TokensConstants DEF TokensInit, RowsMade, RowsFollow, NoRow
  <1>4. HandlersFit
    BY RestingFits DEF TokensInit, HandlersFit, OwnPair, In, Resting
  <1>5. ASSUME NEW p \in Pairs PROVE Cardinality(Children(p)) + Cardinality(Bearers(p)) <= 1 + raced[p]
    <2>1. Children(p) = {} /\ Bearers(p) = {}
      BY TokensConstants DEF TokensInit, Children, Bearers, NoRow, Resting
    <2>2. Cardinality(Children(p)) = 0 /\ Cardinality(Bearers(p)) = 0 /\ raced[p] = 0
      BY <2>1, FS_EmptySet DEF TokensInit
    <2> QED
      BY <2>2
  <1> QED
    BY <1>1, <1>2, <1>3, <1>4, <1>5 DEF TokensInv, RowInv, RotationCount

LEMMA TokensInvStep ==
  ASSUME TokensInv, [TokensNext]_tokenVars
  PROVE  TokensInv'
  <1>1. ASSUME NEW h \in Handlers, SignInEnds(h) PROVE TokensInv'
    BY <1>1, SessionStartKeeps, IssueKeeps, StoreKeeps DEF SignInEnds
  <1>2. ASSUME NEW h \in Handlers, refresh_token_view(h) PROVE TokensInv'
    BY <1>2, RotateReadKeeps, RotateBarKeeps, RotateRevokeKeeps DEF refresh_token_view
  <1>3. ASSUME NEW h \in Handlers, logout_view(h) PROVE TokensInv'
    BY <1>3, LogoutStartKeeps, LogoutRowsKeeps, LogoutEndKeeps, LogoutRevokeKeeps DEF logout_view
  <1>4. ASSUME NEW h \in Handlers, Drop(h) PROVE TokensInv'
    BY <1>4, DropKeeps
  <1>5. ASSUME NEW t \in Tokens, Authenticate(t) PROVE TokensInv'
    BY <1>5, AuthenticateKeeps
  <1>6. CASE Cleanup
    BY <1>6, CleanupKeeps
  <1>7. CASE Tick
    BY <1>7, TickKeeps
  <1>8. CASE UNCHANGED tokenVars
    <2>1. UNCHANGED <<now, made, recorded, blacklisted, row, sessions, handler, barred, raced, dropped>>
      BY <1>8 DEF tokenVars
    <2>2. RowInv' /\ StoresAgree' /\ BlackHasRow'
      BY <2>1, StoresStay
    <2>3. RegistryInv'
      BY <2>1 DEF TokensInv, RegistryInv, RecordedMinted, BarredOut, Minted, Expired, Expiry
    <2> QED
      BY <2>1, <2>2, <2>3 DEF TokensInv, TokensType
  <1> QED
    BY <1>1, <1>2, <1>3, <1>4, <1>5, <1>6, <1>7, <1>8 DEF TokensNext

LEMMA TokensInvariant == TokensSpec => []TokensInv
  <1>1. TokensInit => TokensInv
    BY TokensInvInit
  <1>2. TokensInv /\ [TokensNext]_tokenVars => TokensInv'
    BY TokensInvStep
  <1> QED
    BY <1>1, <1>2, PTL DEF TokensSpec

\* A token that has been blacklisted passes no authentication whose look-up is
\* answered, whatever the lifetimes and the period of the cleanup: what the
\* cleanup deletes has expired (auth_tasks.py:29,
\* jwt_blacklist_authentication.py:46).
THEOREM BarredTokensStayOut == TokensSpec => []BarredStaysOut
  <1>1. TokensInv => BarredStaysOut
    BY DEF TokensInv, RegistryInv, BarredOut, BarredStaysOut, Accepts
  <1> QED
    BY <1>1, TokensInvariant, PTL

\* A refresh row is followed only once it is revoked, and by one row, or one more
\* for each request that read it before another had revoked it, however many
\* requests there are (user_use_cases.py:433).
THEOREM RotationsAreLinear == TokensSpec => []RotationLinear
  <1>1. ASSUME TokensInv, NEW p \in Pairs
        PROVE  LET Next1 == {q \in Pairs : row[q].parent = p} IN
               /\ Next1 # {} => row[p].state = "revoked"
               /\ Cardinality(Next1) <= 1 + raced[p]
    <2>1. {q \in Pairs : row[q].parent = p} = Children(p)
      BY DEF Children
    <2>2. Children(p) # {} => row[p].state = "revoked"
      BY <1>1 DEF TokensInv, RowInv, RowsFollow, Children
    <2>3. Cardinality(Children(p)) \in Nat /\ Cardinality(Bearers(p)) \in Nat
      BY CountFinite
    <2>4. raced[p] \in Nat /\ Cardinality(Children(p)) + Cardinality(Bearers(p)) <= 1 + raced[p]
      BY <1>1 DEF TokensInv, TokensType, RowInv, RotationCount
    <2>5. Cardinality(Children(p)) <= 1 + raced[p]
      BY <2>3, <2>4
    <2> QED
      BY <2>1, <2>2, <2>5
  <1>2. TokensInv => RotationLinear
    BY <1>1 DEF RotationLinear
  <1> QED
    BY <1>2, TokensInvariant, PTL

\* A refresh token that is blacklisted has a revoked row, unless the request that
\* blacklisted it is still at work or has died (auth_views.py:689, user_use_cases.py:425).
THEOREM TokenStoresAgree == TokensSpec => []StoresAgree
  <1>1. TokensInv => StoresAgree
    BY DEF TokensInv
  <1> QED
    BY <1>1, TokensInvariant, PTL
-----------------------------------------------------------------------------
(* The rate limiter. *)

LimitInv == LimitType /\ CounterHonest /\ WithinLimit

LEMMA CalmTyped == Calm \in Caller
  BY RateLimitConstants DEF Calm, Caller

\* Moving a request, and nothing else, keeps the invariant.
LEMMA CallerStep ==
  ASSUME LimitInv, caller' \in [Callers -> Caller], hits' \in 0..MaxHits,
         UNCHANGED <<time, entry, served, forgotten, broken>>
  PROVE  LimitInv'
  BY DEF LimitInv, LimitType, CounterHonest, WithinLimit

\* A request takes the data of the entry with it.
LEMMA EntryCopied ==
  ASSUME LimitInv, NEW x \in Caller
  PROVE  /\ [x EXCEPT !.pc = "decide", !.count = entry.count, !.reset = entry.reset] \in Caller
         /\ [x EXCEPT !.pc = "add"] \in Caller
  BY DEF LimitInv, LimitType, Caller

LEMMA ArriveKeeps ==
  ASSUME LimitInv, NEW c \in Callers, NEW e \in Endpoints, Arrive(c, e)
  PROVE  LimitInv'
  <1> DEFINE x == [Calm EXCEPT !.now = time, !.endpoint = e]
  <1>1. x \in Caller
    BY CalmTyped DEF LimitInv, LimitType, Caller
  <1>2. /\ [x EXCEPT !.pc = "decide", !.count = entry.count, !.reset = entry.reset] \in Caller
        /\ [x EXCEPT !.pc = "add"] \in Caller
    BY <1>1, EntryCopied
  <1>3. caller' \in [Callers -> Caller]
    BY <1>2 DEF Arrive, LimitInv, LimitType
  <1>4. hits' \in 0..MaxHits
    BY RateLimitConstants DEF Arrive, LimitInv, LimitType
  <1> QED
    BY <1>3, <1>4, CallerStep DEF Arrive

LEMMA MovesKeep ==
  ASSUME LimitInv, NEW c \in Callers, AddFails(c) \/ LookAgain(c)
  PROVE  LimitInv'
  <1>1. caller \in [Callers -> Caller] /\ caller[c] \in Caller /\ hits \in 0..MaxHits
    BY DEF LimitInv, LimitType
  <1>2. \A pc \in {"look", "lookagain", "addagain", "force"} : [caller[c] EXCEPT !.pc = pc] \in Caller
    BY <1>1 DEF Caller
  <1>3. [caller[c] EXCEPT !.pc = "decide", !.count = entry.count, !.reset = entry.reset] \in Caller
    BY <1>1, EntryCopied
  <1>4. caller' \in [Callers -> Caller] /\ hits' \in 0..MaxHits
    <2>1. CASE AddFails(c)
      BY <2>1, <1>1, <1>2 DEF AddFails, Step
    <2>2. CASE LookAgain(c)
      BY <2>2, <1>1, <1>2, <1>3 DEF LookAgain, Look, Step, Copied
    <2> QED
      BY <2>1, <2>2
  <1> QED
    BY <1>4, CallerStep DEF AddFails, LookAgain

\* A counter that begins has counted the one request that began it.
LEMMA StartWindowKeeps ==
  ASSUME LimitInv, NEW c \in Callers, StartWindow(c)
  PROVE  LimitInv'
  <1>1. caller[c] \in Caller /\ time \in Nat
    BY RateLimitConstants DEF LimitInv, LimitType
  <1>2. /\ caller[c].now + caller[c].endpoint.period \in Nat
        /\ time + caller[c].endpoint.period \in Nat
    BY <1>1, RateLimitConstants DEF Caller
  <1>3. entry' \in [count : Nat, reset : Nat, until : Nat] /\ entry'.count = 1
    BY <1>2 DEF StartWindow
  <1>4. caller' \in [Callers -> Caller]
    BY CalmTyped DEF LimitInv, LimitType, StartWindow, End
  <1> QED
    BY <1>3, <1>4 DEF LimitInv, LimitType, CounterHonest, WithinLimit, StartWindow

\* What is charged for an old copy is what the counter loses by it.
LEMMA CountKeeps ==
  ASSUME LimitInv, NEW c \in Callers, Count(c)
  PROVE  LimitInv'
  <1> DEFINE x == caller[c]
             n == x.count + 1
             back == IF entry.count > x.count THEN entry.count - x.count ELSE 0
  <1>1. /\ x.now \in Nat /\ x.reset \in Nat /\ x.count \in Nat /\ x.now < x.reset
        /\ x.endpoint \in Endpoints /\ x.endpoint.limit \in Nat
    BY RateLimitConstants DEF LimitInv, LimitType, Caller, Count
  <1>2. entry.count \in Nat /\ time \in Nat /\ served \in Nat /\ forgotten \in Nat
    BY RateLimitConstants DEF LimitInv, LimitType
  <1>3. back \in Nat /\ entry.count <= x.count + back
    BY <1>1, <1>2
  <1>4. /\ entry' = [count |-> n, reset |-> x.reset, until |-> time + x.reset - x.now]
        /\ served' = served + 1 /\ forgotten' = forgotten + back
        /\ broken' = (broken \/ (n <= x.endpoint.limit /\ served' > x.endpoint.limit + forgotten'))
    BY DEF Count
  <1>5. served' <= n + forgotten'
    BY <1>1, <1>2, <1>3, <1>4 DEF LimitInv, CounterHonest
  <1>6. n \in Nat /\ time + x.reset - x.now \in Nat /\ served' \in Nat /\ forgotten' \in Nat
    BY <1>1, <1>2, <1>3, <1>4
  <1>7. ~(n <= x.endpoint.limit /\ served' > x.endpoint.limit + forgotten')
    BY <1>1, <1>5, <1>6
  <1>8. entry' \in [count : Nat, reset : Nat, until : Nat] /\ entry'.count = n
    BY <1>1, <1>4, <1>6
  <1>9. broken' = FALSE
    BY <1>4, <1>7 DEF LimitInv, WithinLimit, LimitType
  <1>10. caller' \in [Callers -> Caller]
    BY CalmTyped DEF LimitInv, LimitType, Count, End
  <1> QED
    BY <1>5, <1>6, <1>8, <1>9, <1>10 DEF LimitInv, LimitType, CounterHonest, WithinLimit, Count

LEMMA ClockKeeps ==
  ASSUME LimitInv, Advance \/ Evict
  PROVE  LimitInv'
  <1>1. CASE Advance
    BY <1>1, RateLimitConstants DEF Advance, LimitInv, LimitType, CounterHonest, WithinLimit
  <1>2. CASE Evict
    <2>1. time \in Nat
      BY RateLimitConstants DEF LimitInv, LimitType
    <2>2. entry' \in [count : Nat, reset : Nat, until : Nat] /\ entry'.count = entry.count
      BY <1>2, <2>1 DEF Evict, LimitInv, LimitType
    <2> QED
      BY <1>2, <2>2 DEF Evict, LimitInv, LimitType, CounterHonest, WithinLimit
  <1> QED
    BY <1>1, <1>2

LEMMA LimitInvInit ==
  ASSUME LimitInit
  PROVE  LimitInv
  <1>1. caller \in [Callers -> Caller]
    BY CalmTyped DEF LimitInit
  <1>2. entry \in [count : Nat, reset : Nat, until : Nat] /\ entry.count = 0
    BY DEF LimitInit, NoEntry
  <1>3. time \in 0..MaxTime /\ hits \in 0..MaxHits /\ served = 0 /\ forgotten = 0 /\ broken = FALSE
    BY RateLimitConstants DEF LimitInit
  <1>4. LimitType
    <2>1. served \in Nat /\ forgotten \in Nat
      BY <1>3
    <2>2. broken \in BOOLEAN
      BY <1>3
    <2> QED
      BY <1>1, <1>2, <1>3, <2>1, <2>2 DEF LimitType
  <1>5. CounterHonest
    BY <1>2, <1>3 DEF CounterHonest
  <1>6. WithinLimit
    BY <1>3, Zenon DEF WithinLimit
  <1> QED
    BY <1>4, <1>5, <1>6 DEF LimitInv

LEMMA LimitInvStep ==
  ASSUME LimitInv, [LimitNext]_limitVars
  PROVE  LimitInv'
  <1>1. ASSUME NEW c \in Callers, NEW e \in Endpoints, Arrive(c, e) PROVE LimitInv'
    BY <1>1, ArriveKeeps
  <1>2. ASSUME NEW c \in Callers, Add(c) \/ Restart(c) PROVE LimitInv'
    BY <1>2, StartWindowKeeps DEF Add, Restart
  <1>3. ASSUME NEW c \in Callers, AddFails(c) \/ LookAgain(c) PROVE LimitInv'
    BY <1>3, MovesKeep
  <1>4. ASSUME NEW c \in Callers, Count(c) PROVE LimitInv'
    BY <1>4, CountKeeps
  <1>5. CASE Advance \/ Evict
    BY <1>5, ClockKeeps
  <1>6. CASE UNCHANGED limitVars
    BY <1>6 DEF limitVars, LimitInv, LimitType, CounterHonest, WithinLimit
  <1> QED
    BY <1>1, <1>2, <1>3, <1>4, <1>5, <1>6 DEF LimitNext

LEMMA LimitInvariant == LimitSpec => []LimitInv
  <1>1. LimitInit => LimitInv
    BY LimitInvInit
  <1>2. LimitInv /\ [LimitNext]_limitVars => LimitInv'
    BY LimitInvStep
  <1> QED
    BY <1>1, <1>2, PTL DEF LimitSpec

\* A request is admitted only while the requests counted since the counter
\* began are within the limit of its endpoint, but for those that a stale write
\* has taken back, whatever the number of requests, the limits and the periods
\* (rate_limiting/service.py:66).
THEOREM LimitHolds == LimitSpec => []WithinLimit
  <1>1. LimitInv => WithinLimit
    BY DEF LimitInv
  <1> QED
    BY <1>1, LimitInvariant, PTL
-----------------------------------------------------------------------------
(* Codes, tokens and the limiter side by side. *)

\* What is proved of codes, of tokens and of the limiter holds of the three
\* together: no step of one touches what another keeps.
THEOREM AccessParts == Spec => SignInSpec /\ TokensSpec /\ LimitSpec
  <1>1. Init => SignInInit /\ TokensInit /\ LimitInit
    BY DEF Init
  <1>2. [Next]_<<part, signInVars, tokenVars, limitVars>> =>
          [SignInNext]_signInVars /\ [TokensNext]_tokenVars /\ [LimitNext]_limitVars
    BY DEF Next, signInVars, tokenVars, limitVars
  <1> QED
    BY <1>1, <1>2, PTL DEF Spec, SignInSpec, TokensSpec, LimitSpec

\* Codes, users, tokens, sessions, the counter and the requests at work on them
\* have the types of their tables, keys and DTOs at all times
\* (user_models.py, otp_models.py, password_reset_models.py).
THEOREM AccessTypeCorrect == Spec => []TypeOK
  <1>1. SignInv /\ TokensInv /\ LimitInv => TypeOK
    BY DEF TypeOK, SignInv, TokensInv, LimitInv
  <1> QED
    BY <1>1, AccessParts, SignInInvariant, TokensInvariant, LimitInvariant, PTL
=============================================================================

-------------------------- MODULE OAuthGrantsProofs --------------------------
(***************************************************************************)
(* Theorems about the grant store, for every set of users, credentials,    *)
(* clients and tokens, every lifetime and an unbounded clock range.        *)
(***************************************************************************)
EXTENDS OAuthGrantsRefinement, SequenceTheorems, TLAPS

-----------------------------------------------------------------------------
(* Type correctness *)

\* A renewed session is a session of the same id, user and credential, and
\* never loses time.
LEMMA RenewedType ==
    ASSUME TypeOK, NEW r \in sessions
    PROVE  /\ Renewed(r) \in SessionRow
           /\ Renewed(r).cred = r.cred /\ Renewed(r).user = r.user
<1> DEFINE e == [r EXCEPT !.expires = now + SessionTTL]
<1>1. r \in SessionRow
  BY DEF TypeOK
<1>2. e \in SessionRow /\ e.cred = r.cred /\ e.user = r.user
  <2>1. now + SessionTTL \in Nat
    BY TtlAssumption DEF TypeOK
  <2>2. QED
    BY <1>1, <2>1 DEF SessionRow
<1>3. QED
  BY <1>1, <1>2 DEF Renewed

\* The row issueRefreshToken inserts for a grant carried by row `from`.
LEMMA NewRefreshType ==
    ASSUME TypeOK, NEW from \in codes \cup refresh, NEW t \in RefreshId
    PROVE  NewRefresh(t, from) \in RefreshRow
<1>1. /\ now \in Nat /\ now + RefreshTTL \in Nat
      /\ from.user \in User /\ from.client \in Client /\ from.cred \in Credential
  BY TtlAssumption DEF TypeOK, CodeRow, RefreshRow
<1>2. QED
  BY <1>1 DEF NewRefresh, RefreshRow

\* markRefreshTokenRotated changes the successor column only.
LEMMA MarkRotatedType ==
    ASSUME TypeOK, NEW r \in refresh, NEW t \in RefreshId
    PROVE  [r EXCEPT !.rotatedTo = t] \in RefreshRow
<1>1. r \in RefreshRow
  BY DEF TypeOK
<1>2. QED
  BY <1>1 DEF RefreshRow

\* A request that awaits its signature names the row it was granted from.
LEMMA AwaitSigningType ==
    ASSUME TypeOK, NEW row \in codes \cup refresh, AwaitSigning(row)
    PROVE  pending' \in SUBSET Pending
<1>1. row.user \in User /\ row.client \in Client /\ row.cred \in Credential
  BY DEF TypeOK, CodeRow, RefreshRow
<1>2. [user |-> row.user, client |-> row.client, cred |-> row.cred] \in Pending
  BY <1>1 DEF Pending
<1>3. QED
  BY <1>2 DEF AwaitSigning, TypeOK

\* Every value the program keeps stays of its type.
THEOREM TypeCorrect == Spec => []TypeOK
<1>1. Init => TypeOK
  BY TtlAssumption DEF Init, TypeOK
<1>2. TypeOK /\ [Next]_vars => TypeOK'
  <2> SUFFICES ASSUME TypeOK, [Next]_vars
               PROVE  TypeOK'
    OBVIOUS
  <2>1. ASSUME NEW E \in SUBSET Credential, Reconcile(E)
        PROVE  TypeOK'
    BY <2>1 DEF TypeOK, Reconcile, KeptRows, history
  <2>2. CASE LoadSigningKey
    <3>1. activeKey' \in KeyId /\ keys' \in Seq(KeyId)
      <4>1. CASE keys # << >>
        BY <2>2, <4>1, HeadTailProperties DEF LoadSigningKey, BootKey, TypeOK
      <4>2. CASE keys = << >>
        <5>1. PICK kid \in KeyId : activeKey' = kid /\ keys' = <<kid>>
          BY <2>2, <4>2 DEF LoadSigningKey, BootKey
        <5>2. <<kid>> \in Seq(KeyId)
          OBVIOUS
        <5>3. QED
          BY <5>1, <5>2
      <4>3. QED
        BY <4>1, <4>2
    <3>2. QED
      BY <2>2, <3>1 DEF TypeOK, LoadSigningKey, BootKey, history
  <2>3. CASE Stop
    BY <2>3 DEF TypeOK, Stop, database, history
  <2>4. CASE LoseSnapshot
    BY <2>4 DEF TypeOK, LoseSnapshot, process, history
  <2>5. ASSUME NEW c \in Credential, NEW s \in SessionId, Login(c, s)
        PROVE  TypeOK'
    <3>1. [id |-> s, user |-> Owner[c], cred |-> c, expires |-> now + SessionTTL]
            \in SessionRow
      BY OwnerAssumption, TtlAssumption DEF TypeOK, SessionRow
    <3>2. QED
      BY <2>5, <3>1 DEF TypeOK, Login, process, history
  <2>6. ASSUME NEW r \in sessions, NEW cl \in Client, NEW b \in Binding, NEW k \in CodeId,
               Authorize(r, cl, b, k)
        PROVE  TypeOK'
    <3>1. CASE ~Live(r)
      BY <2>6, <3>1 DEF TypeOK, Authorize, process, history
    <3>2. CASE Live(r)
      <4> DEFINE row == [id |-> k, user |-> r.user, client |-> cl, binding |-> b,
                         cred |-> r.cred, expires |-> now + CodeTTL]
      <4>1. r \in SessionRow /\ now + CodeTTL \in Nat
        BY TtlAssumption DEF TypeOK
      <4>2. row \in CodeRow
        BY <4>1 DEF SessionRow, CodeRow
      <4>3. sessions' \in SUBSET SessionRow /\ codes' \in SUBSET CodeRow
        BY <2>6, <3>2, <4>2, RenewedType DEF TypeOK, Authorize
      <4>4. QED
        BY <2>6, <4>3 DEF TypeOK, Authorize, process, history
    <3>3. QED
      BY <3>1, <3>2
  <2>7. ASSUME NEW r \in codes, NEW cl \in Client, NEW b \in Binding, NEW t \in RefreshId,
               ExchangeCode(r, cl, b, t)
        PROVE  TypeOK'
    <3>1. CASE ~Live(r)
      BY <2>7, <3>1 DEF TypeOK, ExchangeCode, Consumed
    <3>2. CASE Live(r)
      <4>1. refresh' \in SUBSET RefreshRow
        BY <2>7, <3>2, NewRefreshType DEF TypeOK, ExchangeCode, Consumed
      <4>2. familyOf' \in [RefreshId -> CodeId \cup {Null}]
        <5>1. r.id \in CodeId
          BY DEF TypeOK, CodeRow
        <5>2. QED
          BY <2>7, <3>2, <5>1 DEF TypeOK, ExchangeCode, Consumed
      <4>3. pending' \in SUBSET Pending
        BY <2>7, <3>2, AwaitSigningType DEF ExchangeCode, Consumed
      <4>4. QED
        BY <2>7, <4>1, <4>2, <4>3 DEF TypeOK, ExchangeCode, Consumed
    <3>3. QED
      BY <3>1, <3>2
  <2>8. ASSUME NEW r \in refresh, NEW cl \in Client, NEW t \in RefreshId,
               RotateRefresh(r, cl, t)
        PROVE  TypeOK'
    <3>1. refresh' \in SUBSET RefreshRow
      BY <2>8, NewRefreshType, MarkRotatedType DEF TypeOK, RotateRefresh, Rotated
    <3>2. r.id \in RefreshId
      BY DEF TypeOK, RefreshRow
    <3>3. familyOf' \in [RefreshId -> CodeId \cup {Null}] /\ retired' \in SUBSET RefreshId
      BY <2>8, <3>2 DEF TypeOK, RotateRefresh, Rotated
    <3>4. pending' \in SUBSET Pending
      BY <2>8, AwaitSigningType DEF RotateRefresh, Rotated
    <3>5. QED
      BY <2>8, <3>1, <3>3, <3>4 DEF TypeOK, RotateRefresh, Rotated
  <2>9. ASSUME NEW r \in refresh, NEW cl \in Client, ReplayStored(r, cl)
        PROVE  TypeOK'
    <3>1. r.id \in RefreshId
      BY DEF TypeOK, RefreshRow
    <3>2. QED
      BY <2>9, <3>1 DEF TypeOK, ReplayStored, Chain, process
  <2>10. ASSUME NEW t \in RefreshId, ReplayForgotten(t)
         PROVE  TypeOK'
    BY <2>10 DEF TypeOK, ReplayForgotten, process, database
  <2>11. ASSUME NEW p \in pending, SignAccessToken(p)
         PROVE  TypeOK'
    <3>1. p \in Pending /\ activeKey \in KeyId /\ now + AccessTTL \in Nat
      BY <2>11, TtlAssumption DEF TypeOK, SignAccessToken, Minted
    <3>2. [user |-> p.user, client |-> p.client, cred |-> p.cred,
           kid |-> activeKey, exp |-> now + AccessTTL] \in AccessToken
      BY <3>1 DEF Pending, AccessToken
    <3>3. QED
      BY <2>11, <3>2 DEF TypeOK, SignAccessToken, Minted, database
  <2>12. CASE SweepExpired
    BY <2>12 DEF TypeOK, SweepExpired, Unswept, process, history
  <2>13. CASE Tick
    BY <2>13 DEF TypeOK, Tick, process, database
  <2>14. CASE UNCHANGED vars
    BY <2>14 DEF TypeOK, vars, process, database, history
  <2>15. QED
    BY <2>1, <2>2, <2>3, <2>4, <2>5, <2>6, <2>7, <2>8, <2>9, <2>10, <2>11, <2>12, <2>13,
       <2>14 DEF Next
<1>3. QED
  BY <1>1, <1>2, PTL DEF Spec

-----------------------------------------------------------------------------
(* No grant outlives its credential *)

Rows == sessions \cup codes \cup refresh

\* The inductive strengthening of GrantsBackedByCredential.  A row outlives the
\* process that wrote it, so what survives a crash must be said of the stored
\* snapshot: rows descend from credentials it names, of the user they belong
\* to, and a running process holds in memory exactly what it stored.
BackedInv ==
    /\ phase # "down" => snapshot = effective
    /\ phase = "down" => pending = {}
    /\ snapshot # Null => \A r \in Rows : r.cred \in snapshot
    /\ \A r \in Rows : r.user = Owner[r.cred]
    /\ \A p \in pending : p.cred \in effective

\* deleteAuthorizationRows keeps a row only if its own credential is still
\* effective, although it decides by user.
LEMMA KeptRowsBacked ==
    ASSUME BackedInv, NEW E \in SUBSET Credential, NEW table, table \subseteq Rows,
           NEW r \in KeptRows(table, E)
    PROVE  r \in table /\ r.cred \in E
<1>1. snapshot # Null /\ r \in table /\ r.user \notin UsersWithRemovedTokens(snapshot, E)
  BY DEF KeptRows
<1>2. r.cred \in snapshot /\ r.user = Owner[r.cred]
  BY <1>1 DEF BackedInv
<1>3. QED
  BY <1>1, <1>2 DEF UsersWithRemovedTokens

LEMMA BackedInit == Init => BackedInv
  BY DEF Init, BackedInv, Rows

LEMMA BackedStep == TypeOK /\ TypeOK' /\ BackedInv /\ [Next]_vars => BackedInv'
<1> SUFFICES ASSUME TypeOK, TypeOK', BackedInv, [Next]_vars
             PROVE  BackedInv'
  OBVIOUS
<1>0. phase # "down" => snapshot # Null
  BY NullAssumption DEF BackedInv, TypeOK
<1>1. ASSUME NEW E \in SUBSET Credential, Reconcile(E)
      PROVE  BackedInv'
  <2>1. ASSUME NEW r \in Rows' PROVE r \in Rows /\ r.cred \in E
    BY <1>1, <2>1, KeptRowsBacked DEF Reconcile, Rows
  <2>2. QED
    BY <1>1, <2>1 DEF Reconcile, BackedInv, history
<1>2. CASE LoadSigningKey
  BY <1>2 DEF LoadSigningKey, BootKey, BackedInv, Rows
<1>3. CASE Stop
  BY <1>3 DEF Stop, BackedInv, Rows, database
<1>4. CASE LoseSnapshot
  BY <1>4 DEF LoseSnapshot, BackedInv, Rows, process
<1>5. ASSUME NEW c \in Credential, NEW s \in SessionId, Login(c, s)
      PROVE  BackedInv'
  BY <1>5, <1>0 DEF Login, BackedInv, Rows, process
<1>6. ASSUME NEW r \in sessions, NEW cl \in Client, NEW b \in Binding, NEW k \in CodeId,
             Authorize(r, cl, b, k)
      PROVE  BackedInv'
  <2>1. ASSUME NEW q \in Rows'
        PROVE  \E o \in Rows : q.cred = o.cred /\ q.user = o.user
    BY <1>6, <2>1, RenewedType DEF Authorize, Rows
  <2>2. QED
    BY <1>6, <2>1 DEF Authorize, BackedInv, process
<1>7. ASSUME NEW r \in codes, NEW cl \in Client, NEW b \in Binding, NEW t \in RefreshId,
             ExchangeCode(r, cl, b, t)
      PROVE  BackedInv'
  <2>1. ASSUME NEW q \in Rows'
        PROVE  \E o \in Rows : q.cred = o.cred /\ q.user = o.user
    BY <1>7, <2>1 DEF ExchangeCode, Consumed, NewRefresh, Rows
  <2>2. \A p \in pending' : p \in pending \/ p.cred = r.cred
    BY <1>7 DEF ExchangeCode, Consumed, AwaitSigning
  <2>3. r.cred \in effective
    BY <1>7, <1>0 DEF ExchangeCode, Consumed, BackedInv, Rows
  <2>4. QED
    BY <1>7, <2>1, <2>2, <2>3 DEF ExchangeCode, Consumed, BackedInv
<1>8. ASSUME NEW r \in refresh, NEW cl \in Client, NEW t \in RefreshId, RotateRefresh(r, cl, t)
      PROVE  BackedInv'
  <2>1. ASSUME NEW q \in Rows'
        PROVE  \E o \in Rows : q.cred = o.cred /\ q.user = o.user
    <3>1. r \in RefreshRow
      BY DEF TypeOK
    <3>2. [r EXCEPT !.rotatedTo = t].cred = r.cred /\ [r EXCEPT !.rotatedTo = t].user = r.user
      BY <3>1 DEF RefreshRow
    <3>3. NewRefresh(t, r).cred = r.cred /\ NewRefresh(t, r).user = r.user
      BY DEF NewRefresh
    <3>4. q \in Rows \/ q = [r EXCEPT !.rotatedTo = t] \/ q = NewRefresh(t, r)
      BY <1>8, <2>1 DEF RotateRefresh, Rotated, Rows
    <3>5. r \in Rows
      BY DEF Rows
    <3>6. QED
      BY <3>2, <3>3, <3>4, <3>5
  <2>2. \A p \in pending' : p \in pending \/ p.cred = r.cred
    BY <1>8 DEF RotateRefresh, Rotated, AwaitSigning
  <2>3. r.cred \in effective
    BY <1>8, <1>0 DEF RotateRefresh, Rotated, BackedInv, Rows
  <2>4. QED
    BY <1>8, <2>1, <2>2, <2>3 DEF RotateRefresh, Rotated, BackedInv
<1>9. ASSUME NEW r \in refresh, NEW cl \in Client, ReplayStored(r, cl)
      PROVE  BackedInv'
  BY <1>9 DEF ReplayStored, Chain, BackedInv, Rows, process
<1>10. ASSUME NEW t \in RefreshId, ReplayForgotten(t)
       PROVE  BackedInv'
  BY <1>10 DEF ReplayForgotten, BackedInv, Rows, process, database
<1>11. ASSUME NEW p \in pending, SignAccessToken(p)
       PROVE  BackedInv'
  BY <1>11 DEF SignAccessToken, Minted, BackedInv, Rows, database
<1>12. CASE SweepExpired
  BY <1>12 DEF SweepExpired, Unswept, BackedInv, Rows, process
<1>13. CASE Tick
  BY <1>13 DEF Tick, BackedInv, Rows, process, database
<1>14. CASE UNCHANGED vars
  BY <1>14 DEF BackedInv, Rows, vars, process, database
<1>15. QED
  BY <1>1, <1>2, <1>3, <1>4, <1>5, <1>6, <1>7, <1>8, <1>9, <1>10, <1>11, <1>12, <1>13,
     <1>14 DEF Next

\* While the process runs, whatever it stores or is about to sign descends from
\* a credential that is configured and not revoked now.
THEOREM GrantsAreBacked == Spec => []GrantsBackedByCredential
<1>1. BackedInv /\ TypeOK => GrantsBackedByCredential
  BY NullAssumption DEF BackedInv, TypeOK, GrantsBackedByCredential, Rows
<1>2. QED
  BY <1>1, BackedInit, BackedStep, TypeCorrect, PTL DEF Spec
-----------------------------------------------------------------------------
(* Access tokens of a withdrawn credential *)

\* Every access token in circulation was signed by now, and one whose credential
\* is no longer effective was signed before the boot that withdrew it.
AccessInv ==
    /\ bootedAt <= now
    /\ \A j \in jwts : j.exp <= now + AccessTTL
    /\ AccessOutlivesCredentialByTtl

LEMMA AccessStep ==
    TypeOK /\ TypeOK' /\ BackedInv /\ AccessInv /\ [Next]_vars => AccessInv'
<1> SUFFICES ASSUME TypeOK, TypeOK', BackedInv, AccessInv, [Next]_vars
             PROVE  AccessInv'
  OBVIOUS
<1> USE TtlAssumption DEF AccessInv, AccessOutlivesCredentialByTtl
<1>0. now \in Nat /\ bootedAt \in Nat /\ \A j \in jwts : j.exp \in Nat
  BY DEF TypeOK, AccessToken
<1>1. ASSUME NEW E \in SUBSET Credential, Reconcile(E)
      PROVE  AccessInv'
  BY <1>0, <1>1 DEF Reconcile, history
<1>2. CASE LoadSigningKey
  BY <1>2 DEF LoadSigningKey, BootKey, history
<1>3. CASE Stop
  BY <1>3 DEF Stop, history
<1>4. CASE LoseSnapshot
  BY <1>4 DEF LoseSnapshot, process, history
<1>5. ASSUME NEW c \in Credential, NEW s \in SessionId, Login(c, s)
      PROVE  AccessInv'
  BY <1>5 DEF Login, process, history
<1>6. ASSUME NEW r \in sessions, NEW cl \in Client, NEW b \in Binding, NEW k \in CodeId,
             Authorize(r, cl, b, k)
      PROVE  AccessInv'
  BY <1>6 DEF Authorize, process, history
<1>7. ASSUME NEW r \in codes, NEW cl \in Client, NEW b \in Binding, NEW t \in RefreshId,
             ExchangeCode(r, cl, b, t)
      PROVE  AccessInv'
  BY <1>7 DEF ExchangeCode, Consumed
<1>8. ASSUME NEW r \in refresh, NEW cl \in Client, NEW t \in RefreshId, RotateRefresh(r, cl, t)
      PROVE  AccessInv'
  BY <1>8 DEF RotateRefresh, Rotated
<1>9. ASSUME NEW r \in refresh, NEW cl \in Client, ReplayStored(r, cl)
      PROVE  AccessInv'
  BY <1>9 DEF ReplayStored, process
<1>10. ASSUME NEW t \in RefreshId, ReplayForgotten(t)
       PROVE  AccessInv'
  BY <1>10 DEF ReplayForgotten, process
<1>11. ASSUME NEW p \in pending, SignAccessToken(p)
       PROVE  AccessInv'
  <2>1. p.cred \in effective
    BY DEF BackedInv
  <2>2. \A j \in jwts' : j \in jwts \/ (j.cred = p.cred /\ j.exp = now + AccessTTL)
    BY <1>11 DEF SignAccessToken, Minted
  <2>3. QED
    BY <1>0, <1>11, <2>1, <2>2 DEF SignAccessToken, Minted
<1>12. CASE SweepExpired
  BY <1>12 DEF SweepExpired, process, history
<1>13. CASE Tick
  BY <1>0, <1>13 DEF Tick, process
<1>14. CASE UNCHANGED vars
  BY <1>14 DEF vars, process, history
<1>15. QED
  BY <1>1, <1>2, <1>3, <1>4, <1>5, <1>6, <1>7, <1>8, <1>9, <1>10, <1>11, <1>12, <1>13,
     <1>14 DEF Next

\* A withdrawn credential's access tokens die at most AccessTTL after the boot
\* that withdrew it, whatever requests were in flight and however often the
\* process crashed.
THEOREM AccessIsBounded == Spec => []AccessOutlivesCredentialByTtl
<1>1. Init => AccessInv
  BY TtlAssumption DEF Init, AccessInv, AccessOutlivesCredentialByTtl
<1>2. AccessInv => AccessOutlivesCredentialByTtl
  BY DEF AccessInv
<1>3. QED
  BY <1>1, <1>2, AccessStep, BackedInit, BackedStep, TypeCorrect, PTL DEF Spec

-----------------------------------------------------------------------------
(* One live token per grant, and replay *)

\* The inductive strengthening of OneLiveTokenPerGrant and
\* ReplayedGrantStaysDead: ids are primary keys, a stored code has not been
\* redeemed, a grant's tokens share their user and client, and a grant whose
\* replay was recognised had been redeemed and has no token left.
FamilyInv ==
    /\ \A r, q \in codes : r.id = q.id => r = q
    /\ \A r, q \in refresh : r.id = q.id => r = q
    /\ \A r \in refresh : familyOf[r.id] # Null
    /\ \A r \in codes, t \in RefreshId : familyOf[t] # r.id
    /\ \A r, q \in refresh : familyOf[r.id] = familyOf[q.id]
                               => r.user = q.user /\ r.client = q.client
    /\ \A k \in detected : k # Null /\ \E t \in RefreshId : familyOf[t] = k
    /\ OneLiveTokenPerGrant
    /\ ReplayedGrantStaysDead

\* Deleting rows, in any table, disturbs none of it.
LEMMA FamilyShrinks ==
    ASSUME FamilyInv, codes' \subseteq codes, refresh' \subseteq refresh,
           UNCHANGED <<familyOf, detected>>
    PROVE  FamilyInv'
  BY DEF FamilyInv, OneLiveTokenPerGrant, ReplayedGrantStaysDead

LEMMA FamilyStep == TypeOK /\ TypeOK' /\ FamilyInv /\ [Next]_vars => FamilyInv'
<1> SUFFICES ASSUME TypeOK, TypeOK', FamilyInv, [Next]_vars
             PROVE  FamilyInv'
  OBVIOUS
<1>1. ASSUME NEW E \in SUBSET Credential, Reconcile(E)
      PROVE  FamilyInv'
  BY <1>1, FamilyShrinks DEF Reconcile, KeptRows, history
<1>2. CASE LoadSigningKey
  BY <1>2, FamilyShrinks DEF LoadSigningKey, BootKey, history
<1>3. CASE Stop
  BY <1>3, FamilyShrinks DEF Stop, database, history
<1>4. CASE LoseSnapshot
  BY <1>4, FamilyShrinks DEF LoseSnapshot, history
<1>5. ASSUME NEW c \in Credential, NEW s \in SessionId, Login(c, s)
      PROVE  FamilyInv'
  BY <1>5, FamilyShrinks DEF Login, history
<1>6. ASSUME NEW r \in sessions, NEW cl \in Client, NEW b \in Binding, NEW k \in CodeId,
             Authorize(r, cl, b, k)
      PROVE  FamilyInv'
  <2>1. CASE ~Live(r)
    BY <1>6, <2>1, FamilyShrinks DEF Authorize, history
  <2>2. CASE Live(r)
    <3>1. UNCHANGED <<refresh, familyOf, detected>>
      BY <1>6 DEF Authorize, history
    <3>2. \A q \in codes' : q \in codes \/ q.id = k
      BY <1>6, <2>2 DEF Authorize
    <3>3. \A q, p \in codes' : q.id = p.id => q = p
      BY <1>6, <2>2 DEF Authorize, FreshCode, FamilyInv
    <3>4. \A q \in codes', t \in RefreshId : familyOf'[t] # q.id
      BY <1>6, <2>2, <3>1, <3>2 DEF Authorize, FreshCode, FamilyInv
    <3>5. QED
      BY <3>1, <3>3, <3>4 DEF FamilyInv, OneLiveTokenPerGrant, ReplayedGrantStaysDead
  <2>3. QED
    BY <2>1, <2>2
<1>7. ASSUME NEW r \in codes, NEW cl \in Client, NEW b \in Binding, NEW t \in RefreshId,
             ExchangeCode(r, cl, b, t)
      PROVE  FamilyInv'
  <2>1. CASE ~Live(r)
    BY <1>7, <2>1, FamilyShrinks DEF ExchangeCode, Consumed
  <2>2. CASE Live(r)
    <3> DEFINE n == NewRefresh(t, r)
    <3>1. /\ n.id = t /\ n.user = r.user /\ n.client = r.client /\ n.rotatedTo = Null
      BY DEF NewRefresh
    <3>2. /\ refresh' = refresh \cup {n} /\ codes' = codes \ {r}
          /\ familyOf' = [familyOf EXCEPT ![t] = r.id]
          /\ familyOf[t] = Null /\ UNCHANGED detected
      BY <1>7, <2>2 DEF ExchangeCode, Consumed, FreshRefresh
    <3>3. r.id \in CodeId /\ r.id # Null
      BY NullAssumption DEF TypeOK, CodeRow
    <3>4. \A q \in refresh : q.id \in RefreshId /\ q.id # t /\ familyOf'[q.id] = familyOf[q.id]
                             /\ familyOf[q.id] # r.id
      BY <3>2 DEF FamilyInv, TypeOK, RefreshRow
    <3>5. familyOf'[t] = r.id
      BY <3>2 DEF TypeOK
    <3>6. \A q, p \in refresh' : q.id = p.id => q = p
      BY <3>1, <3>2, <3>4 DEF FamilyInv
    <3>7. \A q \in refresh' : familyOf'[q.id] # Null
      BY <3>1, <3>2, <3>3, <3>4, <3>5 DEF FamilyInv
    <3>8. \A q \in codes', u \in RefreshId : familyOf'[u] # q.id
      BY <3>2 DEF FamilyInv, TypeOK
    <3>9. \A q, p \in refresh' : familyOf'[q.id] = familyOf'[p.id]
                                  => q.user = p.user /\ q.client = p.client
      BY <3>1, <3>2, <3>4, <3>5 DEF FamilyInv
    <3>10. \A k \in detected' : k # Null /\ \E u \in RefreshId : familyOf'[u] = k
      <4> SUFFICES ASSUME NEW k \in detected
                   PROVE  k # Null /\ \E u \in RefreshId : familyOf'[u] = k
        BY <3>2
      <4>1. PICK u \in RefreshId : k # Null /\ familyOf[u] = k
        BY DEF FamilyInv
      <4>2. familyOf'[u] = k
        BY <3>2, <4>1 DEF TypeOK
      <4>3. QED
        BY <4>1, <4>2
    <3>11. OneLiveTokenPerGrant'
      BY <3>1, <3>2, <3>4, <3>5 DEF FamilyInv, OneLiveTokenPerGrant
    <3>12. ReplayedGrantStaysDead'
      BY <3>1, <3>2, <3>4, <3>5 DEF FamilyInv, ReplayedGrantStaysDead
    <3>13. QED
      BY <3>2, <3>6, <3>7, <3>8, <3>9, <3>10, <3>11, <3>12 DEF FamilyInv
  <2>3. QED
    BY <2>1, <2>2
<1>8. ASSUME NEW r \in refresh, NEW cl \in Client, NEW t \in RefreshId, RotateRefresh(r, cl, t)
      PROVE  FamilyInv'
  <2> DEFINE n == NewRefresh(t, r)
             o == [r EXCEPT !.rotatedTo = t]
             f == familyOf[r.id]
  <2>1. /\ n.id = t /\ n.user = r.user /\ n.client = r.client /\ n.rotatedTo = Null
    BY DEF NewRefresh
  <2>2. /\ o.id = r.id /\ o.user = r.user /\ o.client = r.client /\ o.rotatedTo # Null
        /\ r.id \in RefreshId
    BY NullAssumption DEF TypeOK, RefreshRow
  <2>3. /\ refresh' = (refresh \ {r}) \cup {o, n} /\ UNCHANGED <<codes, detected>>
        /\ familyOf' = [familyOf EXCEPT ![t] = f]
        /\ familyOf[t] = Null /\ r.rotatedTo = Null
    BY <1>8 DEF RotateRefresh, Rotated, FreshRefresh
  <2>4. \A q \in refresh : q.id \in RefreshId /\ q.id # t /\ familyOf'[q.id] = familyOf[q.id]
    BY <2>3 DEF FamilyInv, TypeOK, RefreshRow
  <2>5. familyOf'[t] = f /\ f # Null /\ familyOf'[r.id] = f
    BY <2>3, <2>4 DEF FamilyInv, TypeOK
  <2>6. \A q \in refresh \ {r} : q.id # r.id
    BY DEF FamilyInv
  <2>18. \A q \in refresh' : q \in refresh \ {r} \/ q = o \/ q = n
    BY <2>3
  <2>19. r.id # t
    BY <2>4
  <2>20. \A q \in refresh' :
            \/ q \in refresh /\ q # r /\ q.id # r.id /\ q.id # t
            \/ q = o /\ q.id = r.id
            \/ q = n /\ q.id = t
    <3>1. \A q \in refresh \ {r} : q # r /\ q.id # r.id /\ q.id # t
      BY <2>4, <2>6
    <3> HIDE DEF o, n
    <3>2. o.id = r.id /\ n.id = t
      BY <2>1, <2>2
    <3>3. QED
      BY <2>18, <3>1, <3>2
  <2>7. \A q, p \in refresh' : q.id = p.id => q = p
    <3> HIDE DEF o, n
    <3>1. QED
      BY <2>19, <2>20 DEF FamilyInv
  <2>8. \A q \in refresh' : familyOf'[q.id] # Null
    <3> HIDE DEF o, n, f
    <3>1. QED
      BY <2>4, <2>5, <2>20 DEF FamilyInv
  <2>9. \A q \in codes', u \in RefreshId : familyOf'[u] # q.id
    BY <2>2, <2>3 DEF FamilyInv, TypeOK
  <2>10. \A q \in refresh' : \E p \in refresh :
            /\ familyOf'[q.id] = familyOf[p.id] /\ q.user = p.user /\ q.client = p.client
    BY <2>1, <2>2, <2>3, <2>4, <2>5
  <2>11. \A k \in detected' : k # Null /\ \E u \in RefreshId : familyOf'[u] = k
    <3> SUFFICES ASSUME NEW k \in detected
                 PROVE  k # Null /\ \E u \in RefreshId : familyOf'[u] = k
      BY <2>3
    <3>1. PICK u \in RefreshId : k # Null /\ familyOf[u] = k
      BY DEF FamilyInv
    <3>2. familyOf'[u] = k
      BY <2>3, <3>1 DEF TypeOK
    <3>3. QED
      BY <3>1, <3>2
  <2>12. \A q \in refresh' : q.rotatedTo = Null /\ familyOf'[q.id] = f => q = n
    <3>1. \A q \in refresh : q.rotatedTo = Null /\ familyOf[q.id] = f => q = r
      BY <2>3 DEF FamilyInv, OneLiveTokenPerGrant
    <3>2. QED
      BY <2>2, <2>4, <2>20, <3>1
  <2>13. \A q \in refresh' : q.rotatedTo = Null /\ familyOf'[q.id] # f
                             => q \in refresh /\ familyOf'[q.id] = familyOf[q.id]
    BY <2>1, <2>2, <2>3, <2>4, <2>5
  <2>14. OneLiveTokenPerGrant'
    BY <2>12, <2>13 DEF FamilyInv, OneLiveTokenPerGrant
  <2>15. ReplayedGrantStaysDead'
    BY <2>3, <2>10 DEF FamilyInv, ReplayedGrantStaysDead
  <2>16. \A q, p \in refresh' : familyOf'[q.id] = familyOf'[p.id]
                                => q.user = p.user /\ q.client = p.client
    BY <2>10 DEF FamilyInv
  <2>17. QED
    BY <2>3, <2>7, <2>8, <2>9, <2>11, <2>14, <2>15, <2>16 DEF FamilyInv
<1>9. ASSUME NEW r \in refresh, NEW cl \in Client, ReplayStored(r, cl)
      PROVE  FamilyInv'
  <2>1. /\ refresh' \subseteq refresh
        /\ UNCHANGED <<codes, familyOf>>
        /\ detected' = detected \cup {familyOf[r.id]}
        /\ r.id \in RefreshId
    BY <1>9 DEF ReplayStored, TypeOK, RefreshRow
  <2>2. \A q \in refresh' : ~(q.user = r.user /\ q.client = r.client)
    BY <1>9 DEF ReplayStored, Chain
  <2>3. ReplayedGrantStaysDead'
    BY <2>1, <2>2 DEF FamilyInv, ReplayedGrantStaysDead
  <2>4. QED
    BY <2>1, <2>3 DEF FamilyInv, OneLiveTokenPerGrant
<1>10. ASSUME NEW t \in RefreshId, ReplayForgotten(t)
       PROVE  FamilyInv'
  BY <1>10, FamilyShrinks DEF ReplayForgotten, database
<1>11. ASSUME NEW p \in pending, SignAccessToken(p)
       PROVE  FamilyInv'
  BY <1>11, FamilyShrinks DEF SignAccessToken, Minted, database
<1>12. CASE SweepExpired
  BY <1>12, FamilyShrinks DEF SweepExpired, Unswept, history
<1>13. CASE Tick
  BY <1>13, FamilyShrinks DEF Tick, database
<1>14. CASE UNCHANGED vars
  BY <1>14, FamilyShrinks DEF vars, database, history
<1>15. QED
  BY <1>1, <1>2, <1>3, <1>4, <1>5, <1>6, <1>7, <1>8, <1>9, <1>10, <1>11, <1>12, <1>13,
     <1>14 DEF Next

LEMMA FamilyInvariant == Spec => []FamilyInv
<1>1. Init => FamilyInv
  BY DEF Init, FamilyInv, OneLiveTokenPerGrant, ReplayedGrantStaysDead
<1>2. QED
  BY <1>1, FamilyStep, TypeCorrect, PTL DEF Spec

\* However redemptions, rotations, replays, sweeps and crashes interleave, a
\* grant never has two refresh tokens that both still work.
THEOREM OneLiveToken == Spec => []OneLiveTokenPerGrant
<1>1. FamilyInv => OneLiveTokenPerGrant
  BY DEF FamilyInv
<1>2. QED
  BY <1>1, FamilyInvariant, PTL

\* A grant whose replay was recognised never has a refresh token again.
THEOREM ReplayIsFinal == Spec => []ReplayedGrantStaysDead
<1>1. FamilyInv => ReplayedGrantStaysDead
  BY DEF FamilyInv
<1>2. QED
  BY <1>1, FamilyInvariant, PTL

-----------------------------------------------------------------------------
(* Rotation chains *)

\* The inductive strengthening of RotationChainsSound: lifetimes are all of one
\* length and issuing times lie in the past, so a successor, issued later, cannot
\* expire sooner.
ChainInv ==
    /\ \A r \in refresh : r.issued <= now /\ r.expires = r.issued + RefreshTTL
    /\ RotationChainsSound

\* Successor(r, q): q carries on what the rotated row r carried.
Successor(r, q) ==
    /\ q.id = r.rotatedTo
    /\ q.user = r.user /\ q.client = r.client
    /\ q.issued < r.expires
    /\ q.expires >= r.expires

\* A deletion that never takes a successor and leaves its predecessor disturbs
\* no chain: the clock may advance with it.
LEMMA ChainShrinks ==
    ASSUME TypeOK, ChainInv, refresh' \subseteq refresh, now' \in Nat, now' >= now,
           \A r \in refresh', q \in refresh : Successor(r, q) => q \in refresh'
    PROVE  ChainInv'
<1>1. \A r \in refresh : r.issued \in Nat
  BY DEF TypeOK, RefreshRow
<1>2. \A r \in refresh' : r.issued <= now' /\ r.expires = r.issued + RefreshTTL
  BY <1>1 DEF ChainInv, TypeOK
<1>3. ASSUME NEW r \in refresh', r.rotatedTo # Null
      PROVE  \E q \in refresh' : Successor(r, q)
  BY <1>3 DEF ChainInv, RotationChainsSound, Successor
<1>4. QED
  BY <1>2, <1>3 DEF ChainInv, RotationChainsSound, Successor

LEMMA ChainStep == TypeOK /\ TypeOK' /\ ChainInv /\ [Next]_vars => ChainInv'
<1> SUFFICES ASSUME TypeOK, TypeOK', ChainInv, [Next]_vars
             PROVE  ChainInv'
  OBVIOUS
<1>0. /\ now \in Nat /\ now' \in Nat
      /\ \A r \in refresh : /\ r.issued \in Nat /\ r.expires \in Nat
                            /\ r.rotatedTo \in RefreshId \cup {Null} /\ r.id \in RefreshId
  BY DEF TypeOK, RefreshRow
<1>1. ASSUME NEW E \in SUBSET Credential, Reconcile(E)
      PROVE  ChainInv'
  BY <1>0, <1>1, ChainShrinks DEF Reconcile, KeptRows, Successor
<1>2. CASE LoadSigningKey
  BY <1>0, <1>2, ChainShrinks DEF LoadSigningKey, BootKey
<1>3. CASE Stop
  BY <1>0, <1>3, ChainShrinks DEF Stop, database
<1>4. CASE LoseSnapshot
  BY <1>0, <1>4, ChainShrinks DEF LoseSnapshot
<1>5. ASSUME NEW c \in Credential, NEW s \in SessionId, Login(c, s)
      PROVE  ChainInv'
  BY <1>0, <1>5, ChainShrinks DEF Login
<1>6. ASSUME NEW r \in sessions, NEW cl \in Client, NEW b \in Binding, NEW k \in CodeId,
             Authorize(r, cl, b, k)
      PROVE  ChainInv'
  BY <1>0, <1>6, ChainShrinks DEF Authorize
<1>7. ASSUME NEW r \in codes, NEW cl \in Client, NEW b \in Binding, NEW t \in RefreshId,
             ExchangeCode(r, cl, b, t)
      PROVE  ChainInv'
  <2>1. CASE UNCHANGED refresh
    BY <1>0, <1>7, <2>1, ChainShrinks DEF ExchangeCode
  <2>2. CASE refresh' = refresh \cup {NewRefresh(t, r)}
    <3> DEFINE n == NewRefresh(t, r)
    <3>1. n.issued = now /\ n.expires = now + RefreshTTL /\ n.rotatedTo = Null
      BY DEF NewRefresh
    <3> HIDE DEF n
    <3>2. now' = now /\ refresh' = refresh \cup {n}
      BY <1>7, <2>2 DEF ExchangeCode, n
    <3>3. \A p \in refresh' : p.issued <= now' /\ p.expires = p.issued + RefreshTTL
      BY <1>0, <3>1, <3>2 DEF ChainInv
    <3>4. RotationChainsSound'
      BY <3>1, <3>2 DEF ChainInv, RotationChainsSound
    <3>5. QED
      BY <3>3, <3>4 DEF ChainInv
  <2>3. QED
    BY <1>7, <2>1, <2>2 DEF ExchangeCode
<1>8. ASSUME NEW r \in refresh, NEW cl \in Client, NEW t \in RefreshId, RotateRefresh(r, cl, t)
      PROVE  ChainInv'
  <2> DEFINE n == NewRefresh(t, r)
             o == [r EXCEPT !.rotatedTo = t]
  <2>1. /\ n.id = t /\ n.user = r.user /\ n.client = r.client /\ n.rotatedTo = Null
        /\ n.issued = now /\ n.expires = now + RefreshTTL
    BY DEF NewRefresh
  <2>2. /\ o.id = r.id /\ o.user = r.user /\ o.client = r.client /\ o.rotatedTo = t
        /\ o.issued = r.issued /\ o.expires = r.expires
    BY DEF TypeOK, RefreshRow
  <2>3. /\ refresh' = (refresh \ {r}) \cup {o, n}
        /\ now' = now /\ r.expires > now
    BY <1>8 DEF RotateRefresh, Rotated, Live
  <2>4. r.issued <= now /\ r.expires = r.issued + RefreshTTL /\ now + RefreshTTL >= r.expires
    BY <1>0, TtlAssumption DEF ChainInv
  <2> HIDE DEF n, o
  <2>5. \A p \in refresh' : p.issued <= now' /\ p.expires = p.issued + RefreshTTL
    BY <1>0, <2>1, <2>2, <2>3, <2>4 DEF ChainInv
  <2>6. ASSUME NEW p \in refresh', p.rotatedTo # Null
        PROVE  \E q \in refresh' : Successor(p, q)
    <3>1. CASE p = o
      BY <2>1, <2>2, <2>3, <2>4, <3>1 DEF Successor
    <3>2. CASE p \in refresh
      <4>1. PICK q \in refresh : Successor(p, q)
        BY <2>6, <3>2 DEF ChainInv, RotationChainsSound, Successor
      <4>2. CASE q # r
        BY <2>3, <4>1, <4>2
      <4>3. CASE q = r
        BY <2>2, <2>3, <4>1, <4>3 DEF Successor
      <4>4. QED
        BY <4>2, <4>3
    <3>3. QED
      BY <2>1, <2>3, <2>6, <3>1, <3>2
  <2>7. QED
    BY <2>5, <2>6 DEF ChainInv, RotationChainsSound, Successor
<1>9. ASSUME NEW r \in refresh, NEW cl \in Client, ReplayStored(r, cl)
      PROVE  ChainInv'
  BY <1>0, <1>9, ChainShrinks DEF ReplayStored, Chain, Successor
<1>10. ASSUME NEW t \in RefreshId, ReplayForgotten(t)
       PROVE  ChainInv'
  BY <1>0, <1>10, ChainShrinks DEF ReplayForgotten, database
<1>11. ASSUME NEW p \in pending, SignAccessToken(p)
       PROVE  ChainInv'
  BY <1>0, <1>11, ChainShrinks DEF SignAccessToken, database
<1>12. CASE SweepExpired
  BY <1>0, <1>12, ChainShrinks DEF SweepExpired, Unswept, Successor
<1>13. CASE Tick
  BY <1>0, <1>13, ChainShrinks DEF Tick, database
<1>14. CASE UNCHANGED vars
  BY <1>0, <1>14, ChainShrinks DEF vars, database
<1>15. QED
  BY <1>1, <1>2, <1>3, <1>4, <1>5, <1>6, <1>7, <1>8, <1>9, <1>10, <1>11, <1>12, <1>13,
     <1>14 DEF Next

\* While a rotated token's row is stored, so is its successor's, of the same
\* user and client and living at least as long: a replay is always recognised
\* before the sweep removes what it must revoke.
THEOREM ChainsAreSound == Spec => []RotationChainsSound
<1>1. Init => ChainInv
  BY DEF Init, ChainInv, RotationChainsSound
<1>2. ChainInv => RotationChainsSound
  BY DEF ChainInv
<1>3. QED
  BY <1>1, <1>2, ChainStep, TypeCorrect, PTL DEF Spec

-----------------------------------------------------------------------------
(* Revocation is of whole chains *)

\* While the process serves, a refresh token is deleted only by expiry or with
\* every other token of its user and client.
THEOREM RevocationIsWhole == Spec => NoPartialRevocation
<1> DEFINE Whole ==
        phase = "serving" /\ phase' = "serving" =>
          \A r \in refresh :
             \/ \E q \in refresh' : q.id = r.id
             \/ r.expires < now
             \/ \A q \in refresh' : ~(q.user = r.user /\ q.client = r.client)
<1>1. TypeOK /\ [Next]_vars => [Whole]_vars
  <2> SUFFICES ASSUME TypeOK, Next, phase = "serving", phase' = "serving",
                      NEW r \in refresh
               PROVE  \/ \E q \in refresh' : q.id = r.id
                      \/ r.expires < now
                      \/ \A q \in refresh' : ~(q.user = r.user /\ q.client = r.client)
    BY DEF vars
  <2>1. ASSUME NEW E \in SUBSET Credential, Reconcile(E) PROVE FALSE
    BY <2>1 DEF Reconcile
  <2>2. CASE Stop
    BY <2>2 DEF Stop
  <2>3. CASE refresh' = refresh
    BY <2>3
  <2>4. ASSUME NEW c \in codes, NEW cl \in Client, NEW b \in Binding, NEW t \in RefreshId,
               ExchangeCode(c, cl, b, t)
        PROVE  r \in refresh'
    BY <2>4 DEF ExchangeCode
  <2>5. ASSUME NEW p \in refresh, NEW cl \in Client, NEW t \in RefreshId,
               RotateRefresh(p, cl, t)
        PROVE  \E q \in refresh' : q.id = r.id
    <3> DEFINE o == [p EXCEPT !.rotatedTo = t]
    <3>1. o.id = p.id
      BY DEF TypeOK, RefreshRow
    <3> HIDE DEF o
    <3>2. o \in refresh' /\ refresh \ {p} \subseteq refresh'
      BY <2>5 DEF RotateRefresh, Rotated, o
    <3>3. QED
      BY <3>1, <3>2
  <2>6. ASSUME NEW p \in refresh, NEW cl \in Client, ReplayStored(p, cl)
        PROVE  \/ r \in refresh'
               \/ \A q \in refresh' : ~(q.user = r.user /\ q.client = r.client)
    BY <2>6 DEF ReplayStored, Chain
  <2>7. CASE SweepExpired
    <3>1. r.expires \in Nat /\ now \in Nat
      BY DEF TypeOK, RefreshRow
    <3>2. QED
      BY <2>7, <3>1 DEF SweepExpired, Unswept
  <2>8. QED
    BY <2>1, <2>2, <2>3, <2>4, <2>5, <2>6, <2>7
       DEF Next, LoadSigningKey, LoseSnapshot, Login, Authorize, ReplayForgotten,
           SignAccessToken, Tick, database
<1>2. QED
  BY <1>1, TypeCorrect, PTL DEF Spec, NoPartialRevocation

-----------------------------------------------------------------------------
(* One signing key *)

\* Why AccessSurvivesRestart is inductive: tokens exist only once a key is
\* stored, all are signed with the newest stored one, and boot never stores
\* another.
KeyInv ==
    /\ phase = "serving" => keys # << >> /\ activeKey = Head(keys)
    /\ \A j \in jwts : keys # << >> /\ j.kid = Head(keys)

LEMMA KeyStep == TypeOK /\ KeyInv /\ [Next]_vars => KeyInv'
<1> SUFFICES ASSUME TypeOK, KeyInv, [Next]_vars
             PROVE  KeyInv'
  OBVIOUS
<1> USE DEF KeyInv
<1>1. CASE LoadSigningKey
  <2>1. PICK kid \in KeyId : /\ BootKey(kid) /\ activeKey' = kid
                             /\ keys' = IF keys = << >> THEN <<kid>> ELSE keys
    BY <1>1 DEF LoadSigningKey
  <2>2. jwts' = jwts
    BY <1>1 DEF LoadSigningKey, history
  <2>3. CASE keys = << >>
    <3>1. jwts = {} /\ keys' = <<kid>> /\ keys' # << >> /\ Head(keys') = kid
      BY <2>1, <2>3
    <3>2. QED
      BY <2>1, <2>2, <3>1
  <2>4. CASE keys # << >>
    BY <2>1, <2>2, <2>4 DEF BootKey
  <2>5. QED
    BY <2>3, <2>4
<1>2. ASSUME NEW p \in pending, SignAccessToken(p)
      PROVE  KeyInv'
  BY <1>2 DEF SignAccessToken, Minted, database
<1>3. CASE Tick
  BY <1>3 DEF Tick, process, database
<1>4. ASSUME UNCHANGED <<keys, jwts>>, phase' = "serving" => UNCHANGED <<phase, activeKey>>
      PROVE  KeyInv'
  BY <1>4
<1>5. QED
  BY <1>1, <1>2, <1>3, <1>4
     DEF Next, vars, Reconcile, Stop, LoseSnapshot, Login, Authorize, ExchangeCode,
         RotateRefresh, ReplayStored, ReplayForgotten, SweepExpired, process, database, history

\* An access token signed before a restart verifies after it.
THEOREM AccessSurvives == Spec => []AccessSurvivesRestart
<1>1. Init => KeyInv
  BY DEF Init, KeyInv
<1>2. KeyInv => AccessSurvivesRestart
  BY DEF KeyInv, AccessSurvivesRestart
<1>3. QED
  BY <1>1, <1>2, KeyStep, TypeCorrect, PTL DEF Spec

-----------------------------------------------------------------------------
(***************************************************************************)
(* The store implements GrantLifecycle: its initial state is one of the    *)
(* lifecycle's, and each of its steps is an Offer, a Redeem, a Renew, a    *)
(* Withdraw of some set of grants, or leaves every grant as it was.        *)
(*                                                                         *)
(* The steps that only delete rows (boot, sweep, replay, an expired code   *)
(* or session) are all Withdraw steps, by one lemma.  The mapping rests on *)
(* FamilyInv: a stored code has no token yet, and of a redeemed grant's    *)
(* tokens at most one works, so `bearerOf` has one value to choose.        *)
(***************************************************************************)

\* A grant's stage, by what is stored of it.
Offered(k) == \E r \in codes : r.id = k

LEMMA StageOf ==
    ASSUME NEW k \in CodeId
    PROVE  /\ Offered(k) => stageOf[k] = "offered"
           /\ ~Offered(k) /\ Bearers(k) # {} => stageOf[k] = "active"
           /\ ~Offered(k) /\ Bearers(k) = {} /\ Redeemed(k) => stageOf[k] = "ended"
           /\ ~Offered(k) /\ Bearers(k) = {} /\ ~Redeemed(k) => stageOf[k] = "free"
  BY DEF stageOf, Offered

LEMMA StageOfNext ==
    ASSUME NEW k \in CodeId
    PROVE  /\ Offered(k)' => stageOf'[k] = "offered"
           /\ ~Offered(k)' /\ Bearers(k)' # {} => stageOf'[k] = "active"
           /\ ~Offered(k)' /\ Bearers(k)' = {} /\ Redeemed(k)' => stageOf'[k] = "ended"
           /\ ~Offered(k)' /\ Bearers(k)' = {} /\ ~Redeemed(k)' => stageOf'[k] = "free"
  BY DEF stageOf, Offered

\* A grant's bearer, when there is none and when there is one.
LEMMA BearerAmongFew ==
    /\ BearerAmong({}) = Null
    /\ \A t : BearerAmong({t}) = t
  BY DEF BearerAmong

\* Both mapped variables are functions on the grants, before and after a step.
LEMMA MappingShape ==
    /\ stageOf = [k \in CodeId |-> stageOf[k]] /\ stageOf' = [k \in CodeId |-> stageOf'[k]]
    /\ bearerOf = [k \in CodeId |-> bearerOf[k]]
    /\ bearerOf' = [k \in CodeId |-> bearerOf'[k]]
  BY DEF stageOf, bearerOf

\* What FamilyInv says of the mapping.
LEMMA BearersShape ==
    ASSUME TypeOK, FamilyInv, NEW k \in CodeId
    PROVE  /\ Bearers(k) \subseteq RefreshId
           /\ \A t, u \in Bearers(k) : t = u
           /\ Bearers(k) # {} => Redeemed(k)
           /\ Offered(k) => Bearers(k) = {} /\ ~Redeemed(k)
<1>1. Bearers(k) \subseteq RefreshId
  BY DEF Bearers, TypeOK, RefreshRow
<1>2. \A t, u \in Bearers(k) : t = u
  BY DEF Bearers, FamilyInv, OneLiveTokenPerGrant
<1>3. Bearers(k) # {} => Redeemed(k)
  BY <1>1 DEF Bearers, Redeemed
<1>4. Offered(k) => ~Redeemed(k)
  BY DEF Offered, Redeemed, FamilyInv
<1>5. QED
  BY <1>1, <1>2, <1>3, <1>4

-----------------------------------------------------------------------------
(* Initial states *)

LEMMA InitRefines == Init => Lifecycle!LifecycleInit
<1> SUFFICES ASSUME Init
             PROVE  Lifecycle!LifecycleInit
  OBVIOUS
<1>1. \A k \in CodeId : ~Offered(k) /\ Bearers(k) = {} /\ ~Redeemed(k)
  BY NullAssumption DEF Init, Offered, Bearers, Redeemed
<1>2. stageOf = [k \in CodeId |-> "free"]
  BY <1>1, StageOf DEF stageOf
<1>3. bearerOf = [k \in CodeId |-> Null]
  BY <1>1, BearerAmongFew DEF bearerOf
<1>4. {t \in RefreshId : familyOf[t] # Null} = {}
  BY DEF Init
<1>5. QED
  BY <1>2, <1>3, <1>4 DEF Lifecycle!LifecycleInit

-----------------------------------------------------------------------------
(* Steps *)

\* Deleting rows withdraws the grants that lose their code or their last
\* working token.
LEMMA DeletionWithdraws ==
    ASSUME TypeOK, FamilyInv, codes' \subseteq codes, refresh' \subseteq refresh,
           UNCHANGED familyOf
    PROVE  Lifecycle!LifecycleNext
<1> DEFINE G == {k \in CodeId : stageOf'[k] # stageOf[k]}
<1>1. \A k \in CodeId : /\ Offered(k)' => Offered(k)
                        /\ Bearers(k)' \subseteq Bearers(k)
                        /\ Redeemed(k)' = Redeemed(k)
  BY DEF Offered, Bearers, Redeemed
<1>2. ASSUME NEW k \in G
      PROVE  /\ stageOf[k] \in {"offered", "active"}
             /\ stageOf'[k] = IF stageOf[k] = "offered" THEN "free" ELSE "ended"
             /\ bearerOf'[k] = Null
  <2>1. /\ stageOf[k] \in {"offered", "active"}
        /\ stageOf'[k] = IF stageOf[k] = "offered" THEN "free" ELSE "ended"
        /\ Bearers(k)' = {}
    BY <1>1, <1>2, StageOf, StageOfNext, BearersShape
  <2>2. QED
    BY <2>1, BearerAmongFew DEF bearerOf
<1>3. ASSUME NEW k \in CodeId, k \notin G
      PROVE  bearerOf'[k] = bearerOf[k]
  <2>1. Bearers(k)' = Bearers(k)
    BY <1>1, <1>3, StageOf, StageOfNext, BearersShape
  <2>2. QED
    BY <2>1 DEF bearerOf
<1>4. stageOf' = [k \in CodeId |-> IF k \notin G THEN stageOf[k]
                                   ELSE IF stageOf[k] = "offered" THEN "free" ELSE "ended"]
  BY <1>2 DEF stageOf
<1>5. bearerOf' = [k \in CodeId |-> IF k \in G THEN Null ELSE bearerOf[k]]
  BY <1>2, <1>3 DEF bearerOf
<1>6. {t \in RefreshId : familyOf[t] # Null}' = {t \in RefreshId : familyOf[t] # Null}
  OBVIOUS
<1> HIDE DEF G
<1>7. G \in SUBSET CodeId /\ \A k \in G : stageOf[k] \in {"offered", "active"}
  BY <1>2 DEF G
<1>8. Lifecycle!Withdraw(G)
  BY <1>4, <1>5, <1>6, <1>7 DEF Lifecycle!Withdraw
<1>9. QED
  BY <1>7, <1>8 DEF Lifecycle!LifecycleNext

\* A step that touches neither codes nor refresh tokens leaves every grant alone.
LEMMA OthersStutter ==
    ASSUME UNCHANGED <<codes, refresh, familyOf>>
    PROVE  UNCHANGED Lifecycle!grantVars
<1>1. UNCHANGED <<stageOf, bearerOf>>
  BY DEF stageOf, bearerOf, Bearers, Redeemed
<1>2. QED
  BY <1>1 DEF Lifecycle!grantVars

\* A code issued by the authorization endpoint offers its grant.
LEMMA IssueOffers ==
    ASSUME TypeOK, FamilyInv, NEW c, NEW k \in CodeId, c.id = k, FreshCode(k),
           codes' = codes \cup {c}, UNCHANGED <<refresh, familyOf>>
    PROVE  Lifecycle!LifecycleNext
<1>1. /\ ~Offered(k) /\ ~Redeemed(k) /\ Bearers(k) = {} /\ Offered(k)'
  <2>1. ~Offered(k) /\ ~Redeemed(k) /\ Offered(k)'
    BY DEF FreshCode, Offered, Redeemed
  <2>2. QED
    BY <2>1, BearersShape
<1>2. \A j \in CodeId \ {k} : Offered(j)' = Offered(j)
  BY DEF Offered
<1>3. \A j \in CodeId : Bearers(j)' = Bearers(j) /\ Redeemed(j)' = Redeemed(j)
  BY DEF Bearers, Redeemed
<1>4. \A j \in CodeId \ {k} : stageOf'[j] = stageOf[j]
  BY <1>2, <1>3, StageOf, StageOfNext
<1>5. stageOf[k] = "free" /\ stageOf'[k] = "offered"
  BY <1>1, StageOf, StageOfNext
<1>6. stageOf' = [stageOf EXCEPT ![k] = "offered"]
  BY <1>4, <1>5 DEF stageOf
<1>7. UNCHANGED bearerOf
  BY <1>3 DEF bearerOf
<1>8. Lifecycle!Offer(k)
  BY <1>5, <1>6, <1>7 DEF Lifecycle!Offer
<1>9. QED
  BY <1>8 DEF Lifecycle!LifecycleNext

\* A redemption consumes the offer and makes the new token the grant's bearer.
LEMMA RedemptionRedeems ==
    ASSUME TypeOK, FamilyInv, NEW c \in codes, NEW t \in RefreshId, FreshRefresh(t),
           NEW n, n.id = t, n.rotatedTo = Null,
           codes' = codes \ {c}, refresh' = refresh \cup {n},
           familyOf' = [familyOf EXCEPT ![t] = c.id]
    PROVE  Lifecycle!LifecycleNext
<1> DEFINE k == c.id
<1>1. k \in CodeId /\ k # Null /\ familyOf[t] = Null
  BY NullAssumption DEF TypeOK, CodeRow, FreshRefresh
<1> HIDE DEF k
<1>2. familyOf'[t] = k /\ \A u \in RefreshId \ {t} : familyOf'[u] = familyOf[u]
  BY DEF TypeOK, k
<1>3. \A q \in refresh : q.id \in RefreshId \ {t}
  BY <1>1 DEF TypeOK, RefreshRow, FamilyInv
<1>4. Offered(k) /\ ~Offered(k)' /\ \A j \in CodeId \ {k} : Offered(j)' = Offered(j)
  BY DEF Offered, FamilyInv, k
<1>5. Bearers(k) = {} /\ ~Redeemed(k)
  BY <1>1, <1>4, BearersShape
<1>6. \A j \in CodeId \ {k} : Bearers(j)' = Bearers(j) /\ Redeemed(j)' = Redeemed(j)
  <2> SUFFICES ASSUME NEW j \in CodeId \ {k}
               PROVE  Bearers(j)' = Bearers(j) /\ Redeemed(j)' = Redeemed(j)
    OBVIOUS
  <2>1. \A q \in refresh' : q.rotatedTo = Null /\ familyOf'[q.id] = j
                              <=> q \in refresh /\ q.rotatedTo = Null /\ familyOf[q.id] = j
    BY <1>2, <1>3
  <2>2. {q \in refresh' : q.rotatedTo = Null /\ familyOf'[q.id] = j}
          = {q \in refresh : q.rotatedTo = Null /\ familyOf[q.id] = j}
    BY <2>1
  <2>3. Redeemed(j)' = Redeemed(j)
    BY <1>1, <1>2, NullAssumption DEF Redeemed
  <2>4. QED
    BY <2>2, <2>3 DEF Bearers
<1>7. Bearers(k)' = {t}
  <2>1. \A q \in refresh' : q.rotatedTo = Null /\ familyOf'[q.id] = k <=> q = n
    <3>1. \A q \in refresh : familyOf[q.id] # k
      BY <1>3, <1>5 DEF Redeemed
    <3>2. QED
      BY <1>2, <1>3, <3>1
  <2>2. n \in refresh'
    OBVIOUS
  <2>3. QED
    BY <2>1, <2>2 DEF Bearers
<1>8. /\ stageOf[k] = "offered" /\ stageOf'[k] = "active"
      /\ \A j \in CodeId \ {k} : stageOf'[j] = stageOf[j]
  BY <1>1, <1>4, <1>6, <1>7, StageOf, StageOfNext
<1>9. bearerOf'[k] = t /\ \A j \in CodeId \ {k} : bearerOf'[j] = bearerOf[j]
  <2>1. bearerOf'[k] = t
    BY <1>1, <1>7, BearerAmongFew DEF bearerOf
  <2>2. QED
    BY <1>6, <2>1 DEF bearerOf
<1>10. /\ stageOf' = [stageOf EXCEPT ![k] = "active"]
       /\ bearerOf' = [bearerOf EXCEPT ![k] = t]
  BY <1>1, <1>8, <1>9, MappingShape
<1>11. {u \in RefreshId : familyOf'[u] # Null} = {u \in RefreshId : familyOf[u] # Null} \cup {t}
  BY <1>1, <1>2
<1>12. t \notin {u \in RefreshId : familyOf[u] # Null}
  BY <1>1
<1>13. Lifecycle!Redeem(k, t)
  BY <1>8, <1>10, <1>11, <1>12 DEF Lifecycle!Redeem
<1>14. QED
  BY <1>1, <1>13 DEF Lifecycle!LifecycleNext

\* A rotation renews its grant: the rotated token stops being the bearer in the
\* step that makes its successor the bearer.
LEMMA RotationRenews ==
    ASSUME TypeOK, FamilyInv, NEW r \in refresh, NEW t \in RefreshId, FreshRefresh(t),
           r.rotatedTo = Null,
           NEW o, o.id = r.id, o.rotatedTo # Null,
           NEW n, n.id = t, n.rotatedTo = Null,
           refresh' = (refresh \ {r}) \cup {o, n}, UNCHANGED codes,
           familyOf' = [familyOf EXCEPT ![t] = familyOf[r.id]]
    PROVE  Lifecycle!LifecycleNext
<1>0. PICK k \in CodeId : k = familyOf[r.id]
  BY DEF TypeOK, RefreshRow, FamilyInv
<1>1. k # Null /\ familyOf[t] = Null /\ r.id \in RefreshId
  BY <1>0 DEF TypeOK, RefreshRow, FamilyInv, FreshRefresh
<1>2. familyOf'[t] = k /\ \A u \in RefreshId \ {t} : familyOf'[u] = familyOf[u]
  BY <1>0 DEF TypeOK
<1>3. \A q \in refresh : q.id \in RefreshId \ {t}
  BY <1>1 DEF TypeOK, RefreshRow, FamilyInv
<1>4. Bearers(k) # {} /\ Redeemed(k) /\ ~Offered(k)
  <2>1. r.id \in Bearers(k)
    BY <1>0 DEF Bearers
  <2>2. QED
    BY <1>1, <2>1, BearersShape
<1>5. \A j \in CodeId : Offered(j)' = Offered(j)
  BY DEF Offered
<1>6. \A j \in CodeId \ {k} : Bearers(j)' = Bearers(j) /\ Redeemed(j)' = Redeemed(j)
  <2> SUFFICES ASSUME NEW j \in CodeId \ {k}
               PROVE  Bearers(j)' = Bearers(j) /\ Redeemed(j)' = Redeemed(j)
    OBVIOUS
  <2>1. familyOf[r.id] # j
    BY <1>0
  <2>2. \A q : q \in refresh' /\ q.rotatedTo = Null /\ familyOf'[q.id] = j
                 <=> q \in refresh /\ q.rotatedTo = Null /\ familyOf[q.id] = j
    BY <1>2, <1>3, <2>1
  <2>3. {q \in refresh' : q.rotatedTo = Null /\ familyOf'[q.id] = j}
          = {q \in refresh : q.rotatedTo = Null /\ familyOf[q.id] = j}
    BY <2>2
  <2>4. Redeemed(j)' = Redeemed(j)
    BY <1>1, <1>2, NullAssumption DEF Redeemed
  <2>5. QED
    BY <2>3, <2>4 DEF Bearers
<1>7. Bearers(k)' = {t}
  <2>1. \A q \in refresh : q.rotatedTo = Null /\ familyOf[q.id] = k => q = r
    BY <1>0 DEF FamilyInv, OneLiveTokenPerGrant
  <2>2. \A q \in refresh' : q.rotatedTo = Null /\ familyOf'[q.id] = k <=> q = n
    BY <1>2, <1>3, <2>1
  <2>3. n \in refresh'
    OBVIOUS
  <2>4. {q \in refresh' : q.rotatedTo = Null /\ familyOf'[q.id] = k} = {n}
    BY <2>2, <2>3
  <2>5. QED
    BY <2>4 DEF Bearers
<1>8. /\ stageOf[k] = "active" /\ stageOf'[k] = "active"
      /\ \A j \in CodeId \ {k} : stageOf'[j] = stageOf[j]
  <2>1. Bearers(k)' # {} /\ ~Offered(k)'
    BY <1>1, <1>4, <1>5, <1>7
  <2>2. stageOf[k] = "active" /\ stageOf'[k] = "active"
    BY <1>1, <1>4, <2>1, StageOf, StageOfNext
  <2>3. QED
    BY <1>5, <1>6, <2>2, StageOf, StageOfNext
<1>9. bearerOf'[k] = t /\ \A j \in CodeId \ {k} : bearerOf'[j] = bearerOf[j]
  <2>1. bearerOf'[k] = t
    BY <1>1, <1>7, BearerAmongFew DEF bearerOf
  <2>2. QED
    BY <1>6, <2>1 DEF bearerOf
<1>10. UNCHANGED stageOf /\ bearerOf' = [bearerOf EXCEPT ![k] = t]
  BY <1>1, <1>8, <1>9, MappingShape
<1>11. {u \in RefreshId : familyOf'[u] # Null} = {u \in RefreshId : familyOf[u] # Null} \cup {t}
  BY <1>1, <1>2
<1>12. t \notin {u \in RefreshId : familyOf[u] # Null}
  BY <1>1
<1>13. Lifecycle!Renew(k, t)
  BY <1>8, <1>10, <1>11, <1>12 DEF Lifecycle!Renew
<1>14. QED
  BY <1>1, <1>13 DEF Lifecycle!LifecycleNext

-----------------------------------------------------------------------------
LEMMA StepRefines ==
    TypeOK /\ FamilyInv /\ [Next]_vars
      => [Lifecycle!LifecycleNext]_(Lifecycle!grantVars)
<1> SUFFICES ASSUME TypeOK, FamilyInv, [Next]_vars
             PROVE  [Lifecycle!LifecycleNext]_(Lifecycle!grantVars)
  OBVIOUS
<1>1. ASSUME NEW E \in SUBSET Credential, Reconcile(E)
      PROVE  Lifecycle!LifecycleNext
  BY <1>1, DeletionWithdraws DEF Reconcile, KeptRows, history
<1>2. ASSUME NEW r \in sessions, NEW cl \in Client, NEW b \in Binding, NEW k \in CodeId,
             Authorize(r, cl, b, k)
      PROVE  Lifecycle!LifecycleNext
  <2>1. CASE ~Live(r)
    BY <1>2, <2>1, DeletionWithdraws DEF Authorize, history
  <2>2. CASE Live(r)
    <3> DEFINE c == [id |-> k, user |-> r.user, client |-> cl, binding |-> b,
                     cred |-> r.cred, expires |-> now + CodeTTL]
    <3>1. c.id = k /\ FreshCode(k) /\ codes' = codes \cup {c}
          /\ UNCHANGED <<refresh, familyOf>>
      BY <1>2, <2>2 DEF Authorize, history
    <3> HIDE DEF c
    <3>2. QED
      BY <3>1, IssueOffers
  <2>3. QED
    BY <2>1, <2>2
<1>3. ASSUME NEW r \in codes, NEW cl \in Client, NEW b \in Binding, NEW t \in RefreshId,
             ExchangeCode(r, cl, b, t)
      PROVE  Lifecycle!LifecycleNext
  <2>1. CASE ~Live(r)
    BY <1>3, <2>1, DeletionWithdraws DEF ExchangeCode, Consumed
  <2>2. CASE Live(r)
    <3> DEFINE n == NewRefresh(t, r)
    <3>1. n.id = t /\ n.rotatedTo = Null
      BY DEF NewRefresh
    <3>2. /\ FreshRefresh(t) /\ codes' = codes \ {r} /\ refresh' = refresh \cup {n}
          /\ familyOf' = [familyOf EXCEPT ![t] = r.id]
      BY <1>3, <2>2 DEF ExchangeCode, Consumed
    <3> HIDE DEF n
    <3>3. QED
      BY <3>1, <3>2, RedemptionRedeems
  <2>3. QED
    BY <2>1, <2>2
<1>4. ASSUME NEW r \in refresh, NEW cl \in Client, NEW t \in RefreshId, RotateRefresh(r, cl, t)
      PROVE  Lifecycle!LifecycleNext
  <2> DEFINE n == NewRefresh(t, r)
             o == [r EXCEPT !.rotatedTo = t]
  <2>1. n.id = t /\ n.rotatedTo = Null
    BY DEF NewRefresh
  <2>2. o.id = r.id /\ o.rotatedTo # Null
    BY NullAssumption DEF TypeOK, RefreshRow
  <2>3. /\ FreshRefresh(t) /\ r.rotatedTo = Null /\ UNCHANGED codes
        /\ refresh' = (refresh \ {r}) \cup {o, n}
        /\ familyOf' = [familyOf EXCEPT ![t] = familyOf[r.id]]
    BY <1>4 DEF RotateRefresh, Rotated
  <2> HIDE DEF n, o
  <2>4. QED
    BY <2>1, <2>2, <2>3, RotationRenews
<1>5. ASSUME NEW r \in refresh, NEW cl \in Client, ReplayStored(r, cl)
      PROVE  Lifecycle!LifecycleNext
  BY <1>5, DeletionWithdraws DEF ReplayStored
<1>6. CASE SweepExpired
  BY <1>6, DeletionWithdraws DEF SweepExpired, Unswept, history
<1>7. CASE UNCHANGED <<codes, refresh, familyOf>>
  BY <1>7, OthersStutter
<1>8. QED
  BY <1>1, <1>2, <1>3, <1>4, <1>5, <1>6, <1>7
     DEF Next, vars, LoadSigningKey, Stop, LoseSnapshot, Login, ReplayForgotten,
         SignAccessToken, Tick, database, history

\* Every behaviour of the handlers, of boot, of the sweep and of crashes is, seen
\* grant by grant, a behaviour of the lifecycle promised to a resource owner.
THEOREM StoreImplementsLifecycle == Spec => ImplementsLifecycle
<1>1. QED
  BY InitRefines, StepRefines, FamilyInvariant, TypeCorrect, PTL
     DEF Spec, ImplementsLifecycle, Lifecycle!LifecycleSpec

-----------------------------------------------------------------------------
(* What the store inherits from its abstract specification *)

Promise == INSTANCE GrantLifecycleProofs
    WITH Grant <- CodeId, Bearer <- RefreshId, NoBearer <- Null,
         stage <- stageOf, bearer <- bearerOf,
         spent <- {t \in RefreshId : familyOf[t] # Null}

\* In the store itself an ended grant stays ended, and a refresh token that has
\* been replaced never works again.
THEOREM StoreEndsForGood == Spec => Promise!EndedForGood
<1>1. Null \notin RefreshId
  BY NullAssumption
<1>2. Promise!LifecycleSpec => Promise!EndedForGood
  BY <1>1, Promise!EndsForGood
<1>3. ImplementsLifecycle => Promise!LifecycleSpec
  <2>1. Lifecycle!LifecycleInit => Promise!LifecycleInit
    BY DEF Lifecycle!LifecycleInit, Promise!LifecycleInit
  <2>2. [Lifecycle!LifecycleNext]_(Lifecycle!grantVars)
          => [Promise!LifecycleNext]_(Promise!grantVars)
    BY Zenon DEF Lifecycle!grantVars, Promise!grantVars,
           Lifecycle!LifecycleNext, Promise!LifecycleNext,
           Lifecycle!Offer, Promise!Offer, Lifecycle!Redeem, Promise!Redeem,
           Lifecycle!Renew, Promise!Renew, Lifecycle!Withdraw, Promise!Withdraw
  <2>3. QED
    BY <2>1, <2>2, PTL DEF ImplementsLifecycle, Lifecycle!LifecycleSpec, Promise!LifecycleSpec
<1>4. QED
  BY <1>2, <1>3, StoreImplementsLifecycle
=============================================================================

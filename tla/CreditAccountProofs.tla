------------------------ MODULE CreditAccountProofs ------------------------
(***************************************************************************)
(* For any number of users, requests and amounts: the variables of         *)
(* CreditAccount keep their types, no balance row is ever negative or      *)
(* holds more than was credited, and an undisturbed one is what the ledger *)
(* says.                                                                   *)
(***************************************************************************)
EXTENDS CreditAccount, SequenceTheorems, FiniteSetTheorems, TLAPS

(***************************************************************************)
(* NeverOverdrawn is not inductive: WriteBalance writes what FindBalance   *)
(* computed.  Computed says that this amount is not negative, and that the *)
(* row it is written to is there.                                          *)
(***************************************************************************)
Computed ==
  \A r \in Requests :
    /\ req[r].new >= 0
    /\ req[r].pc = "write" => rows[req[r].user] # << >>

Inv == TypeOK /\ NeverOverdrawn /\ Computed

LEMMA IdleType == Idle \in Request /\ Idle.new = 0 /\ Idle.pc = "idle"
  BY CreditAssumption DEF Idle, Request, Labels

\* What a step of a request changes of it keeps its type.
LEMMA Advance ==
  ASSUME NEW r \in Requests, NEW label \in Labels, NEW n \in Int, TypeOK
  PROVE  [req EXCEPT ![r] = [req[r] EXCEPT !.pc = label, !.new = n]] \in [Requests -> Request]
<1>1. req \in [Requests -> Request] /\ req[r] \in Request
  BY DEF TypeOK
<1>2. [req[r] EXCEPT !.pc = label, !.new = n] \in Request
  BY <1>1 DEF Request
<1> QED
  BY <1>1, <1>2

LEMMA InitInv == Init => Inv
<1> SUFFICES ASSUME Init PROVE Inv
  OBVIOUS
<1>1. \A u \in Users : OpeningRows(u) \in Seq(Int)
                       /\ \A i \in DOMAIN OpeningRows(u) : OpeningRows(u)[i] >= 0
  BY CreditAssumption DEF OpeningRows
<1>2. TypeOK
  BY <1>1, IdleType DEF Init, TypeOK
<1>3. NeverOverdrawn
  BY <1>1 DEF Init, NeverOverdrawn
<1>4. Computed
  BY IdleType DEF Init, Computed
<1> QED
  BY <1>2, <1>3, <1>4 DEF Inv

LEMMA NextInv == Inv /\ [Next]_vars => Inv'
<1> SUFFICES ASSUME Inv, [Next]_vars PROVE Inv'
  OBVIOUS
<1> USE DEF Inv
<1>1. ASSUME NEW r \in Requests, NEW u \in Users, NEW kind \in {"debit", "credit"},
             NEW amount \in Amounts, Begin(r, u, kind, amount)
      PROVE  Inv'
  <2>1. TypeOK'
    BY <1>1 DEF Begin, TypeOK, Request, Labels
  <2>2. NeverOverdrawn' /\ Computed'
    BY <1>1 DEF Begin, NeverOverdrawn, Computed, TypeOK
  <2> QED
    BY <2>1, <2>2
<1>2. ASSUME NEW r \in Requests, InsertLedger(r)
      PROVE  Inv'
  <2>1. req[r].amount \in Nat /\ req[r].user \in Users
    BY CreditAssumption DEF TypeOK, Request
  <2> DEFINE u == req[r].user
             a == req[r].amount
             debited == [ledger[u] EXCEPT !.debit = @ + a]
             credited == [ledger[u] EXCEPT !.credit = @ + a]
  <2>2. ledger' \in [Users -> [debit : Nat, credit : Nat]]
    <3>1. ledger' = [ledger EXCEPT ![u] = debited] \/ ledger' = [ledger EXCEPT ![u] = credited]
      BY <1>2 DEF InsertLedger
    <3>2. ledger[u] \in [debit : Nat, credit : Nat] /\ a \in Nat
      BY <2>1 DEF TypeOK
    <3>3. debited \in [debit : Nat, credit : Nat] /\ credited \in [debit : Nat, credit : Nat]
      BY <3>2
    <3> QED
      BY <3>1, <3>3, <2>1 DEF TypeOK
  <2>3. TypeOK'
    <3>1. [req[r] EXCEPT !.pc = "find"] \in Request
      BY DEF TypeOK, Request, Labels
    <3>2. req' = [req EXCEPT ![r] = [req[r] EXCEPT !.pc = "find"]]
      BY <1>2 DEF InsertLedger
    <3> QED
      BY <1>2, <2>2, <3>1, <3>2 DEF InsertLedger, TypeOK
  <2>4. NeverOverdrawn' /\ Computed'
    BY <1>2 DEF InsertLedger, NeverOverdrawn, Computed, TypeOK
  <2> QED
    BY <2>3, <2>4
<1>3. ASSUME NEW r \in Requests, FindBalance(r)
      PROVE  Inv'
  <2> DEFINE q == req[r]
  <2>1. q \in Request /\ q.user \in Users /\ q.amount \in Nat
    BY CreditAssumption DEF TypeOK, Request
  <2>2. Has(q.user) => Balance(q.user) \in Int /\ Balance(q.user) >= 0
    BY <2>1 DEF Has, Balance, TypeOK, NeverOverdrawn
  <2>3. CASE FindToDebit(r)
    <3>1. CASE Has(q.user) /\ Balance(q.user) >= q.amount
      <4> DEFINE n == Balance(q.user) - q.amount
      <4>1. req' = [req EXCEPT ![r] = [req[r] EXCEPT !.pc = "write", !.new = n]]
        BY <2>3, <3>1 DEF FindToDebit
      <4>2. req' \in [Requests -> Request]
        <5>1. n \in Int /\ "write" \in Labels
          BY <2>1, <2>2, <3>1 DEF Labels
        <5> HIDE DEF n
        <5> QED
          BY <4>1, <5>1, Advance
      <4>3. TypeOK'
        BY <4>2, <1>3, <2>3, <3>1 DEF FindBalance, FindToDebit, TypeOK, Overlaps
      <4>4. NeverOverdrawn' /\ Computed'
        BY <4>1, <1>3, <2>1, <2>2, <3>1
        DEF FindBalance, NeverOverdrawn, Computed, TypeOK, Has
      <4> QED
        BY <4>3, <4>4
    <3>2. CASE ~(Has(q.user) /\ Balance(q.user) >= q.amount)
      <4>1. req' = [req EXCEPT ![r] = Idle]
        BY <2>3, <3>2 DEF FindToDebit, End
      <4>2. refused' = [refused EXCEPT ![q.user] = @ + q.amount]
        BY <2>3, <3>2 DEF FindToDebit
      <4>3. TypeOK'
        BY <4>1, <4>2, <1>3, <2>1, IdleType DEF FindBalance, TypeOK, Overlaps
      <4>4. NeverOverdrawn' /\ Computed'
        BY <4>1, <1>3, IdleType DEF FindBalance, NeverOverdrawn, Computed, TypeOK
      <4> QED
        BY <4>3, <4>4
    <3> QED
      BY <3>1, <3>2
  <2>4. CASE FindToCredit(r)
    <3>1. CASE Has(q.user)
      <4> DEFINE n == Balance(q.user) + q.amount
      <4>1. req' = [req EXCEPT ![r] = [req[r] EXCEPT !.pc = "write", !.new = n]]
        BY <2>4, <3>1 DEF FindToCredit
      <4>2. req' \in [Requests -> Request]
        <5>1. n \in Int /\ "write" \in Labels
          BY <2>1, <2>2, <3>1 DEF Labels
        <5> HIDE DEF n
        <5> QED
          BY <4>1, <5>1, Advance
      <4>3. TypeOK'
        BY <4>2, <1>3, <2>4 DEF FindBalance, FindToCredit, TypeOK, Overlaps
      <4>4. NeverOverdrawn' /\ Computed'
        BY <4>1, <1>3, <2>1, <2>2, <3>1
        DEF FindBalance, NeverOverdrawn, Computed, TypeOK, Has
      <4> QED
        BY <4>3, <4>4
    <3>2. CASE ~Has(q.user)
      <4> DEFINE n == q.amount
      <4>1. req' = [req EXCEPT ![r] = [req[r] EXCEPT !.pc = "insert", !.new = n]]
        BY <2>4, <3>2 DEF FindToCredit
      <4>2. req' \in [Requests -> Request]
        <5>1. n \in Int /\ "insert" \in Labels
          BY <2>1 DEF Labels
        <5> HIDE DEF n
        <5> QED
          BY <4>1, <5>1, Advance
      <4>3. TypeOK'
        BY <4>2, <1>3, <2>4 DEF FindBalance, FindToCredit, TypeOK, Overlaps
      <4>4. NeverOverdrawn' /\ Computed'
        BY <4>1, <1>3, <2>1 DEF FindBalance, NeverOverdrawn, Computed, TypeOK
      <4> QED
        BY <4>3, <4>4
    <3> QED
      BY <3>1, <3>2
  <2> QED
    BY <1>3, <2>3, <2>4 DEF FindBalance
<1>4. ASSUME NEW r \in Requests, WriteBalance(r)
      PROVE  Inv'
  <2> DEFINE u == req[r].user
             n == req[r].new
  <2>1. u \in Users /\ n \in Int /\ n >= 0 /\ rows[u] \in Seq(Int) /\ rows[u] # << >>
    BY <1>4 DEF WriteBalance, At, TypeOK, Request, Computed
  <2>2. rows' = [rows EXCEPT ![u] = [rows[u] EXCEPT ![1] = n]]
    BY <1>4 DEF WriteBalance
  <2>3. /\ [rows[u] EXCEPT ![1] = n] \in Seq(Int)
        /\ DOMAIN [rows[u] EXCEPT ![1] = n] = DOMAIN rows[u]
        /\ [rows[u] EXCEPT ![1] = n] # << >>
    BY <2>1
  <2>4. TypeOK'
    BY <1>4, <2>1, <2>2, <2>3, IdleType DEF WriteBalance, End, TypeOK
  <2>5. NeverOverdrawn'
    BY <2>1, <2>2, <2>3 DEF NeverOverdrawn, TypeOK
  <2>6. Computed'
    <3>1. \A s \in Requests : req[s].user \in Users
      BY DEF TypeOK, Request
    <3>2. \A v \in Users : rows[v] # << >> => rows'[v] # << >>
      BY <2>1, <2>2, <2>3 DEF TypeOK
    <3> QED
      BY <1>4, <3>1, <3>2, IdleType DEF WriteBalance, End, TypeOK, Computed
  <2> QED
    BY <2>4, <2>5, <2>6
<1>5. ASSUME NEW r \in Requests, InsertBalance(r)
      PROVE  Inv'
  <2> DEFINE u == req[r].user
             n == req[r].new
  <2>1. u \in Users /\ n \in Int /\ n >= 0 /\ rows[u] \in Seq(Int)
    BY DEF TypeOK, Request, Computed
  <2>2. rows' = [rows EXCEPT ![u] = Append(rows[u], n)]
    BY <1>5 DEF InsertBalance
  <2>3. Append(rows[u], n) \in Seq(Int) /\ Append(rows[u], n) # << >>
    BY <2>1, AppendProperties
  <2>4. TypeOK'
    BY <1>5, <2>1, <2>2, <2>3, IdleType DEF InsertBalance, End, TypeOK
  <2>5. NeverOverdrawn'
    BY <2>1, <2>2, <2>3 DEF NeverOverdrawn, TypeOK
  <2>6. Computed'
    <3>1. \A s \in Requests : req[s].user \in Users
      BY DEF TypeOK, Request
    <3>2. \A v \in Users : rows[v] # << >> => rows'[v] # << >>
      BY <2>1, <2>2, <2>3 DEF TypeOK
    <3>3. QED
      <4>1. \A s \in Requests : req'[s] = req[s] \/ req'[s] = Idle
        BY <1>5 DEF InsertBalance, End, TypeOK
      <4> QED
        BY <3>1, <3>2, <4>1, IdleType DEF Computed
  <2> QED
    BY <2>4, <2>5, <2>6
<1>6. ASSUME NEW r \in Requests, Crash(r)
      PROVE  Inv'
  <2>1. req[r].user \in Users
    BY DEF TypeOK, Request
  <2>2. TypeOK'
    BY <1>6, <2>1, IdleType DEF Crash, End, TypeOK
  <2>3. NeverOverdrawn' /\ Computed'
    BY <1>6, IdleType DEF Crash, End, NeverOverdrawn, Computed, TypeOK
  <2> QED
    BY <2>2, <2>3
<1>7. CASE UNCHANGED vars
  BY <1>7 DEF vars, TypeOK, NeverOverdrawn, Computed
<1> QED
  BY <1>1, <1>2, <1>3, <1>4, <1>5, <1>6, <1>7 DEF Next

\* Every variable keeps its type, however many requests run at once.
THEOREM TypeCorrect == Spec => []TypeOK
<1>1. Inv => TypeOK
  BY DEF Inv
<1> QED
  BY InitInv, NextInv, <1>1, PTL DEF Spec

\* No interleaving of debits and credits, and no crash, leaves a balance row
\* with less than nothing: updateAmount writes only what debitFromBalance has
\* compared with the same row it computed the amount from.
THEOREM AccountNeverOverdrawn == Spec => []NeverOverdrawn
<1>1. Inv => NeverOverdrawn
  BY DEF Inv
<1> QED
  BY InitInv, NextInv, <1>1, PTL DEF Spec

-----------------------------------------------------------------------------
(* What the ledger has and the balance has not.  Between the row in the     *)
(* ledger and the new amount a request is on its way with its amount; the   *)
(* sum of these amounts, over any number of requests, is the size of the    *)
(* set of their units.                                                      *)

Counts(p, u, kind, at) == p.user = u /\ p.kind = kind /\ p.pc \in at

Units(q, u, kind, at) ==
  UNION { {r} \X (1..q[r].amount) : r \in {s \in Requests : Counts(q[s], u, kind, at)} }

Share(p, u, kind, at) == IF Counts(p, u, kind, at) THEN p.amount ELSE 0

\* Credits that are in the ledger, and for which the balance is still to be read.
Due(u) == Units(req, u, "credit", {"find"})

Bound(u) == OpeningAmount(u) + ledger[u].credit

\* There is room for the credits that are still to come.
Roomy(u) ==
  /\ Cardinality(Due(u)) <= Bound(u)
  /\ \A i \in DOMAIN rows[u] : rows[u][i] + Cardinality(Due(u)) <= Bound(u)
  /\ \A r \in Requests : req[r].user = u => req[r].new + Cardinality(Due(u)) <= Bound(u)

\* Debits and credits that are in the ledger, and not in the balance.
Underway == {"find", "write", "insert"}
Debits(u) == Units(req, u, "debit", Underway)
Credits(u) == Units(req, u, "credit", Underway)

Writing(p, u) == p.user = u /\ p.pc \in {"write", "insert"}
Held(u) == IF Has(u) THEN Balance(u) ELSE 0

\* The balance h, with credits c and debits d still to come, is what the ledger
\* makes of the opening amount o.
Tally(h, c, d, o, credit, debit, f) == h + c - d = o + credit - (debit - f)

\* Nobody else is writing while p is, and p writes what it has to.
Undisturbed(u) ==
  /\ Len(rows[u]) <= 1
  /\ \A r, s \in Requests : Writing(req[r], u) /\ Writing(req[s], u) => r = s
  /\ \A r \in Requests : Writing(req[r], u) =>
       /\ req[r].new = (IF req[r].kind = "debit" THEN Held(u) - req[r].amount
                                                 ELSE Held(u) + req[r].amount)
       /\ req[r].pc = "insert" => ~Has(u)
       /\ req[r].pc = "write" => Has(u)
  /\ Tally(Held(u), Cardinality(Credits(u)), Cardinality(Debits(u)),
           OpeningAmount(u), ledger[u].credit, ledger[u].debit, refused[u])

Finite(u) == IsFiniteSet(Due(u)) /\ IsFiniteSet(Debits(u)) /\ IsFiniteSet(Credits(u))

SumInv == \A u \in Users : Finite(u) /\ Roomy(u) /\ (~disturbed[u] => Undisturbed(u))

LEMMA RequestFields ==
  ASSUME NEW p \in Request
  PROVE  p.user \in Users /\ p.amount \in Nat /\ p.new \in Int /\ p.kind \in {"debit", "credit"}
         /\ p.pc \in Labels
  BY CreditAssumption DEF Request

LEMMA SliceSize ==
  ASSUME NEW r, NEW a \in Nat
  PROVE  IsFiniteSet({r} \X (1..a)) /\ Cardinality({r} \X (1..a)) = a
<1>1. IsFiniteSet({r}) /\ Cardinality({r}) = 1
  BY FS_Singleton
<1>2. IsFiniteSet(1..a) /\ Cardinality(1..a) = a
  <2>1. IsFiniteSet(1..a) /\ Cardinality(1..a) = IF 1 > a THEN 0 ELSE a - 1 + 1
    BY FS_Interval
  <2> QED
    BY <2>1
<1>3. /\ IsFiniteSet({r} \X (1..a))
      /\ Cardinality({r} \X (1..a)) = Cardinality({r}) * Cardinality(1..a)
  BY <1>1, <1>2, FS_Product
<1> QED
  BY <1>1, <1>2, <1>3

\* The sum of the amounts changes by what the one request that moves has in it.
Moved(q, q1, r, u, kind, at) ==
  /\ IsFiniteSet(Units(q1, u, kind, at))
  /\ Cardinality(Units(q1, u, kind, at)) =
       Cardinality(Units(q, u, kind, at)) - Share(q[r], u, kind, at) + Share(q1[r], u, kind, at)
  /\ Cardinality(Units(q, u, kind, at)) \in Nat
  /\ Cardinality(Units(q1, u, kind, at)) \in Nat

LEMMA UnitsMove ==
  ASSUME NEW q \in [Requests -> Request], NEW r \in Requests, NEW p \in Request,
         NEW u, NEW kind, NEW at, IsFiniteSet(Units(q, u, kind, at)),
         NEW q1, q1 = [q EXCEPT ![r] = p]
  PROVE  Moved(q, q1, r, u, kind, at)
<1> DEFINE S == Units(q, u, kind, at)
           T == Units(q1, u, kind, at)
           Own(x) == IF Counts(x, u, kind, at) THEN {r} \X (1..x.amount) ELSE {}
           M == UNION { {s} \X (1..q[s].amount) :
                          s \in {t \in Requests \ {r} : Counts(q[t], u, kind, at)} }
<1>1. S = M \cup Own(q[r])
  BY DEF Units
<1>2. T = M \cup Own(p)
  <2>1. q1[r] = p /\ \A s \in Requests \ {r} : q1[s] = q[s]
    OBVIOUS
  <2>2. {s \in Requests : Counts(q1[s], u, kind, at)}
          = {t \in Requests \ {r} : Counts(q[t], u, kind, at)}
              \cup (IF Counts(p, u, kind, at) THEN {r} ELSE {})
    BY <2>1
  <2> QED
    BY <2>1, <2>2 DEF Units
<1>3. M \cap Own(q[r]) = {} /\ M \cap Own(p) = {}
  OBVIOUS
<1>4. IsFiniteSet(M)
  <2>1. M \in SUBSET S
    BY <1>1
  <2> QED
    BY <2>1, FS_Subset
<1>5. ASSUME NEW x \in Request
      PROVE  IsFiniteSet(Own(x)) /\ Cardinality(Own(x)) = Share(x, u, kind, at)
  <2>1. x.amount \in Nat
    BY RequestFields
  <2> QED
    BY <2>1, SliceSize, FS_EmptySet DEF Share
<1>6. ASSUME NEW x \in Request, M \cap Own(x) = {}
      PROVE  /\ IsFiniteSet(M \cup Own(x))
             /\ Cardinality(M \cup Own(x)) = Cardinality(M) + Share(x, u, kind, at)
  <2>1. IsFiniteSet(Own(x)) /\ Cardinality(Own(x)) = Share(x, u, kind, at)
    BY <1>5
  <2>2. Cardinality(M \cap Own(x)) = 0
    BY <1>6, FS_EmptySet
  <2>3. Cardinality(M) \in Nat /\ Cardinality(Own(x)) \in Nat
    BY <1>4, <2>1, FS_CardinalityType
  <2> HIDE DEF M, Own
  <2>4. /\ IsFiniteSet(M \cup Own(x))
        /\ Cardinality(M \cup Own(x))
             = Cardinality(M) + Cardinality(Own(x)) - Cardinality(M \cap Own(x))
    BY <1>4, <2>1, FS_Union
  <2> QED
    BY <2>1, <2>2, <2>3, <2>4
<1>7. Share(q[r], u, kind, at) \in Nat /\ Share(p, u, kind, at) \in Nat /\ q[r] \in Request
  BY RequestFields DEF Share
<1>8. Cardinality(M) \in Nat
  BY <1>4, FS_CardinalityType
<1>9. IsFiniteSet(T) /\ Cardinality(T) = Cardinality(M) + Share(p, u, kind, at)
  <2> HIDE DEF M, Own
  <2> QED
    BY <1>2, <1>3, <1>6
<1>10. Cardinality(S) = Cardinality(M) + Share(q[r], u, kind, at)
  <2> HIDE DEF M, Own
  <2> QED
    BY <1>1, <1>3, <1>6, <1>7
<1>11. q1[r] = p
  OBVIOUS
<1> HIDE DEF M
<1> QED
  BY <1>7, <1>8, <1>9, <1>10, <1>11 DEF Moved

\* Nothing is under way when no request is.
LEMMA UnitsNone ==
  ASSUME NEW q, NEW u, NEW kind, NEW at, \A r \in Requests : ~Counts(q[r], u, kind, at)
  PROVE  IsFiniteSet(Units(q, u, kind, at)) /\ Cardinality(Units(q, u, kind, at)) = 0
<1>1. Units(q, u, kind, at) = {}
  BY DEF Units
<1> QED
  BY <1>1, FS_EmptySet

\* What a step that takes the request r to p does to the three sums.
Moves(r, p, u) ==
  /\ Finite(u)'
  /\ Cardinality(Due(u)) \in Nat /\ Cardinality(Due(u)') \in Nat
  /\ Cardinality(Debits(u)) \in Nat /\ Cardinality(Debits(u)') \in Nat
  /\ Cardinality(Credits(u)) \in Nat /\ Cardinality(Credits(u)') \in Nat
  /\ Cardinality(Due(u)') = Cardinality(Due(u))
       - Share(req[r], u, "credit", {"find"}) + Share(p, u, "credit", {"find"})
  /\ Cardinality(Debits(u)') = Cardinality(Debits(u))
       - Share(req[r], u, "debit", Underway) + Share(p, u, "debit", Underway)
  /\ Cardinality(Credits(u)') = Cardinality(Credits(u))
       - Share(req[r], u, "credit", Underway) + Share(p, u, "credit", Underway)

LEMMA SumsMove ==
  ASSUME TypeOK, SumInv, NEW r \in Requests, NEW p \in Request,
         req' = [req EXCEPT ![r] = p], NEW u \in Users
  PROVE  Moves(r, p, u)
<1>1. req \in [Requests -> Request] /\ Finite(u) /\ req'[r] = p
  BY DEF TypeOK, SumInv
<1>2. /\ IsFiniteSet(Due(u)') /\ Cardinality(Due(u)) \in Nat /\ Cardinality(Due(u)') \in Nat
      /\ Cardinality(Due(u)') = Cardinality(Due(u))
           - Share(req[r], u, "credit", {"find"}) + Share(p, u, "credit", {"find"})
  <2>1. Due(u) = Units(req, u, "credit", {"find"}) /\ IsFiniteSet(Due(u))
    BY <1>1 DEF Due, Finite
  <2>2. Due(u)' = Units(req', u, "credit", {"find"})
    BY DEF Due, Units, Counts
  <2>3. Moved(req, req', r, u, "credit", {"find"})
    BY <1>1, <2>1, UnitsMove
  <2> QED
    BY <1>1, <2>1, <2>2, <2>3 DEF Moved
<1>3. /\ IsFiniteSet(Debits(u)') /\ Cardinality(Debits(u)) \in Nat /\ Cardinality(Debits(u)') \in Nat
      /\ Cardinality(Debits(u)') = Cardinality(Debits(u))
           - Share(req[r], u, "debit", Underway) + Share(p, u, "debit", Underway)
  <2>1. Debits(u) = Units(req, u, "debit", Underway) /\ IsFiniteSet(Debits(u))
    BY <1>1 DEF Debits, Finite
  <2>2. Debits(u)' = Units(req', u, "debit", Underway)
    BY DEF Debits, Units, Counts, Underway
  <2>3. Moved(req, req', r, u, "debit", Underway)
    BY <1>1, <2>1, UnitsMove
  <2> QED
    BY <1>1, <2>1, <2>2, <2>3 DEF Moved
<1>4. /\ IsFiniteSet(Credits(u)') /\ Cardinality(Credits(u)) \in Nat /\ Cardinality(Credits(u)') \in Nat
      /\ Cardinality(Credits(u)') = Cardinality(Credits(u))
           - Share(req[r], u, "credit", Underway) + Share(p, u, "credit", Underway)
  <2>1. Credits(u) = Units(req, u, "credit", Underway) /\ IsFiniteSet(Credits(u))
    BY <1>1 DEF Credits, Finite
  <2>2. Credits(u)' = Units(req', u, "credit", Underway)
    BY DEF Credits, Units, Counts, Underway
  <2>3. Moved(req, req', r, u, "credit", Underway)
    BY <1>1, <2>1, UnitsMove
  <2> QED
    BY <1>1, <2>1, <2>2, <2>3 DEF Moved
<1> QED
  BY <1>2, <1>3, <1>4 DEF Moves, Finite

LEMMA BoundType ==
  ASSUME TypeOK, NEW u \in Users
  PROVE  /\ OpeningAmount(u) \in Nat /\ Bound(u) \in Nat
         /\ ledger[u].credit \in Nat /\ ledger[u].debit \in Nat /\ refused[u] \in Nat
<1>1. OpeningAmount(u) \in Nat
  BY CreditAssumption DEF OpeningAmount
<1> QED
  BY <1>1 DEF TypeOK, Bound

LEMMA InitSums == Init => SumInv
<1> SUFFICES ASSUME Init, NEW u \in Users
             PROVE  Finite(u) /\ Roomy(u) /\ Undisturbed(u)
  BY DEF SumInv
<1>1. TypeOK
  BY InitInv DEF Inv
<1>2. \A r \in Requests : req[r] = Idle
  BY DEF Init
<1>3. /\ IsFiniteSet(Due(u)) /\ Cardinality(Due(u)) = 0
      /\ IsFiniteSet(Debits(u)) /\ Cardinality(Debits(u)) = 0
      /\ IsFiniteSet(Credits(u)) /\ Cardinality(Credits(u)) = 0
  BY <1>2, UnitsNone, IdleType DEF Counts, Underway, Due, Debits, Credits
<1>4. OpeningAmount(u) \in Nat /\ Bound(u) = OpeningAmount(u)
  BY <1>1, BoundType DEF Init, Bound
<1>5. rows[u] = OpeningRows(u) /\ Opening[u] \in Nat \cup {NoBalance}
  BY CreditAssumption DEF Init
<1>6. /\ Len(rows[u]) <= 1 /\ Held(u) = OpeningAmount(u)
      /\ \A i \in DOMAIN rows[u] : rows[u][i] = OpeningAmount(u)
  BY <1>5 DEF OpeningRows, OpeningAmount, Held, Has, Balance
<1>7. Roomy(u)
  BY <1>2, <1>3, <1>4, <1>6, IdleType DEF Roomy
<1>8. Undisturbed(u)
  BY <1>2, <1>3, <1>4, <1>6, IdleType DEF Init, Undisturbed, Writing, Tally
<1> QED
  BY <1>3, <1>7, <1>8 DEF Finite

\* A user the step is not about: neither what r was nor what it becomes counts.
LEMMA OtherUser ==
  ASSUME Inv, SumInv, NEW r \in Requests, NEW p \in Request,
         req' = [req EXCEPT ![r] = p], NEW u \in Users,
         req[r].user # u \/ req[r].pc \in {"idle", "ledger"},
         p.user # u \/ (p.pc \in {"idle", "ledger"} /\ p.new = 0),
         rows'[u] = rows[u], ledger'[u] = ledger[u], refused'[u] = refused[u],
         disturbed[u] => disturbed'[u]
  PROVE  Finite(u)' /\ Roomy(u)' /\ (~disturbed'[u] => Undisturbed(u)')
<1>1. Moves(r, p, u) /\ TypeOK
  BY SumsMove DEF Inv
<1>2. /\ Share(req[r], u, "credit", {"find"}) = 0 /\ Share(p, u, "credit", {"find"}) = 0
      /\ Share(req[r], u, "debit", Underway) = 0 /\ Share(p, u, "debit", Underway) = 0
      /\ Share(req[r], u, "credit", Underway) = 0 /\ Share(p, u, "credit", Underway) = 0
  BY DEF Share, Counts, Underway
<1>3. /\ Cardinality(Due(u)') = Cardinality(Due(u)) /\ Cardinality(Due(u)) \in Nat
      /\ Cardinality(Debits(u)') = Cardinality(Debits(u))
      /\ Cardinality(Credits(u)') = Cardinality(Credits(u))
      /\ Finite(u)'
  BY <1>1, <1>2 DEF Moves
<1>4. \A s \in Requests : req'[s] = IF s = r THEN p ELSE req[s]
  BY <1>1 DEF TypeOK
<1>5. Bound(u)' = Bound(u) /\ Held(u)' = Held(u) /\ Has(u)' = Has(u) /\ Bound(u) \in Nat
  BY <1>1, BoundType DEF Bound, Held, Has, Balance
<1>6. Roomy(u)'
  BY <1>3, <1>4, <1>5 DEF Roomy, SumInv
<1>7. ASSUME ~disturbed'[u]
      PROVE  Undisturbed(u)'
  <2>1. Undisturbed(u)
    BY <1>7 DEF SumInv
  <2>2. \A s \in Requests : Writing(req'[s], u) => Writing(req[s], u) /\ req'[s] = req[s]
    BY <1>4 DEF Writing
  <2> QED
    BY <1>3, <1>5, <2>1, <2>2 DEF Undisturbed
<1> QED
  BY <1>3, <1>6, <1>7

-----------------------------------------------------------------------------
(* One lemma for each step: Inv' is known by then, so only the sums and what *)
(* is between the ledger and the balance are left to say.                    *)

Settled(u) == Finite(u)' /\ Roomy(u)' /\ (~disturbed'[u] => Undisturbed(u)')

LEMMA BeginSums ==
  ASSUME Inv, SumInv, NEW r \in Requests, NEW v \in Users, NEW kind \in {"debit", "credit"},
         NEW a \in Amounts, Begin(r, v, kind, a)
  PROVE  SumInv'
<1> DEFINE p == [pc |-> "ledger", user |-> v, kind |-> kind, amount |-> a, new |-> 0]
<1>1. p \in Request /\ p.pc = "ledger" /\ p.new = 0
  BY DEF Request, Labels
<1>2. req' = [req EXCEPT ![r] = p] /\ req[r].pc = "idle"
  BY DEF Begin, At
<1>3. UNCHANGED <<rows, ledger, refused, disturbed>>
  BY DEF Begin
<1> HIDE DEF p
<1>4. \A u \in Users : Settled(u)
  BY <1>1, <1>2, <1>3, OtherUser DEF Settled
<1> QED
  BY <1>4 DEF SumInv, Settled

LEMMA InsertLedgerSums ==
  ASSUME Inv, SumInv, NEW r \in Requests, InsertLedger(r)
  PROVE  SumInv'
<1> DEFINE p == [req[r] EXCEPT !.pc = "find"]
           v == req[r].user
           a == req[r].amount
<1>1. /\ req[r] \in Request /\ req \in [Requests -> Request] /\ v \in Users /\ a \in Nat
      /\ req[r].kind \in {"debit", "credit"} /\ req[r].pc = "ledger" /\ TypeOK
  BY RequestFields DEF Inv, TypeOK, InsertLedger, At
<1>2. /\ p \in Request /\ p.pc = "find" /\ p.user = v /\ p.amount = a
      /\ p.kind = req[r].kind /\ p.new = req[r].new
  BY <1>1 DEF Request, Labels
<1>3. req' = [req EXCEPT ![r] = p] /\ UNCHANGED <<rows, refused, disturbed>>
  BY DEF InsertLedger
<1>4. \A u \in Users :
        /\ ledger'[u].credit = ledger[u].credit + (IF u = v /\ req[r].kind = "credit" THEN a ELSE 0)
        /\ ledger'[u].debit = ledger[u].debit + (IF u = v /\ req[r].kind = "debit" THEN a ELSE 0)
  <2>1. ledger \in [Users -> [debit : Nat, credit : Nat]]
    BY <1>1 DEF TypeOK
  <2>2. CASE req[r].kind = "debit"
    BY <1>1, <2>1, <2>2 DEF InsertLedger
  <2>3. CASE req[r].kind = "credit"
    BY <1>1, <2>1, <2>3 DEF InsertLedger
  <2> QED
    BY <1>1, <2>2, <2>3
<1> HIDE DEF p, v, a
<1>5. SUFFICES ASSUME NEW u \in Users
               PROVE  Settled(u)
  BY DEF SumInv, Settled
<1>6. Moves(r, p, u)
  BY <1>1, <1>2, <1>3, SumsMove
<1>7. /\ Share(req[r], u, "credit", {"find"}) = 0
      /\ Share(req[r], u, "credit", Underway) = 0 /\ Share(req[r], u, "debit", Underway) = 0
  BY <1>1 DEF Share, Counts, Underway
<1>8. /\ Share(p, u, "credit", {"find"}) = IF u = v /\ req[r].kind = "credit" THEN a ELSE 0
      /\ Share(p, u, "credit", Underway) = IF u = v /\ req[r].kind = "credit" THEN a ELSE 0
      /\ Share(p, u, "debit", Underway) = IF u = v /\ req[r].kind = "debit" THEN a ELSE 0
  BY <1>2 DEF Share, Counts, Underway
<1>9. /\ OpeningAmount(u) \in Nat /\ Bound(u) \in Nat
      /\ ledger[u].credit \in Nat /\ ledger[u].debit \in Nat /\ refused[u] \in Nat
      /\ OpeningAmount(u)' = OpeningAmount(u)
  BY <1>1, BoundType DEF OpeningAmount
<1>10. \A s \in Requests : req'[s].user = req[s].user /\ req'[s].new = req[s].new
                           /\ req'[s].kind = req[s].kind /\ req'[s].amount = req[s].amount
                           /\ \A w : Writing(req'[s], w) => req'[s] = req[s]
  BY <1>1, <1>2, <1>3 DEF Writing, v, a
<1>11. Roomy(u)'
  <2>1. Roomy(u) /\ Finite(u)
    BY DEF SumInv
  <2> DEFINE c == IF u = v /\ req[r].kind = "credit" THEN a ELSE 0
  <2>2. /\ Cardinality(Due(u)) \in Nat /\ c \in Nat /\ Cardinality(Due(u)') = Cardinality(Due(u)) + c
    BY <1>1, <1>6, <1>7, <1>8 DEF Moves
  <2>3. Bound(u)' = Bound(u) + c
    BY <1>4, <1>9, <2>2 DEF Bound
  <2>4. rows'[u] = rows[u] /\ \A i \in DOMAIN rows[u] : rows[u][i] \in Int
    BY <1>1, <1>3 DEF TypeOK
  <2>5. \A s \in Requests : req[s].new \in Int
    BY <1>1, RequestFields
  <2> HIDE DEF c
  <2> QED
    BY <1>9, <1>10, <2>1, <2>2, <2>3, <2>4, <2>5 DEF Roomy
<1>12. ASSUME ~disturbed'[u]
       PROVE  Undisturbed(u)'
  <2>1. Undisturbed(u)
    BY <1>3, <1>12 DEF SumInv
  <2>2. Held(u)' = Held(u) /\ (Has(u)' <=> Has(u)) /\ rows'[u] = rows[u]
    BY <1>3 DEF Held, Has, Balance
  <2>3. Held(u) \in Int
    BY <1>1 DEF Held, Has, Balance, TypeOK
  <2>4. Tally(Held(u)', Cardinality(Credits(u)'), Cardinality(Debits(u)'),
              OpeningAmount(u)', ledger'[u].credit, ledger'[u].debit, refused'[u])
    <3> DEFINE c == IF u = v /\ req[r].kind = "credit" THEN a ELSE 0
               d == IF u = v /\ req[r].kind = "debit" THEN a ELSE 0
    <3>1. /\ Cardinality(Credits(u)) \in Nat /\ Cardinality(Debits(u)) \in Nat /\ c \in Nat /\ d \in Nat
          /\ Cardinality(Credits(u)') = Cardinality(Credits(u)) + c
          /\ Cardinality(Debits(u)') = Cardinality(Debits(u)) + d
      BY <1>1, <1>6, <1>7, <1>8 DEF Moves
    <3>2. Tally(Held(u), Cardinality(Credits(u)), Cardinality(Debits(u)),
                OpeningAmount(u), ledger[u].credit, ledger[u].debit, refused[u])
      BY <2>1 DEF Undisturbed
    <3>3. ledger'[u].credit = ledger[u].credit + c /\ ledger'[u].debit = ledger[u].debit + d
          /\ refused'[u] = refused[u]
      BY <1>3, <1>4
    <3> HIDE DEF c, d
    <3>4. Tally(Held(u), Cardinality(Credits(u)) + c, Cardinality(Debits(u)) + d,
                OpeningAmount(u), ledger[u].credit + c, ledger[u].debit + d, refused[u])
      <4>1. /\ Held(u) \in Int /\ OpeningAmount(u) \in Nat /\ ledger[u].credit \in Nat
            /\ ledger[u].debit \in Nat /\ refused[u] \in Nat
        BY <1>9, <2>3
      <4>2. /\ Cardinality(Credits(u)) \in Nat /\ Cardinality(Debits(u)) \in Nat
            /\ c \in Nat /\ d \in Nat
        BY <3>1
      <4> QED
        BY <3>2, <4>1, <4>2 DEF Tally
    <3> QED
      BY <1>9, <2>2, <3>1, <3>3, <3>4
  <2>5. \A s \in Requests : req'[s].user = u /\ req'[s].pc \in {"write", "insert"} => req'[s] = req[s]
    BY <1>10 DEF Writing
  <2> QED
    BY <2>1, <2>2, <2>4, <2>5 DEF Undisturbed, Writing
<1> QED
  BY <1>6, <1>11, <1>12 DEF Settled, Moves

\* What the read of a balance leaves of the sums: only the credit that has been
\* read, or the debit that was refused, moves.
LEMMA FindSums ==
  ASSUME Inv, SumInv, NEW r \in Requests, FindBalance(r),
         NEW p \in Request, req' = [req EXCEPT ![r] = p],
         p.pc \in {"idle", "write", "insert"},
         p.pc = "insert" => req[r].kind = "credit",
         p.pc = "idle" => req[r].kind = "debit" /\ p.new = 0,
         p.pc # "idle" => p.user = req[r].user /\ p.kind = req[r].kind /\ p.amount = req[r].amount,
         p.pc = "write" => Has(req[r].user), p.pc = "insert" => ~Has(req[r].user),
         p.pc # "idle" => p.new = (IF req[r].kind = "debit" THEN Held(req[r].user) - req[r].amount
                                                          ELSE Held(req[r].user) + req[r].amount),
         \A u \in Users : refused'[u] = refused[u]
           + (IF u = req[r].user /\ p.pc = "idle" THEN req[r].amount ELSE 0)
  PROVE  SumInv'
<1> DEFINE v == req[r].user
           a == req[r].amount
<1>1. /\ req[r] \in Request /\ req \in [Requests -> Request] /\ v \in Users /\ a \in Nat
      /\ req[r].kind \in {"debit", "credit"} /\ req[r].pc = "find" /\ TypeOK
  BY RequestFields DEF Inv, TypeOK, FindBalance, At
<1>2. UNCHANGED <<rows, ledger>>
  BY DEF FindBalance
<1>3. \A s \in Requests : req'[s] = IF s = r THEN p ELSE req[s]
  BY <1>1
<1>4. SUFFICES ASSUME NEW u \in Users
               PROVE  Settled(u)
  BY DEF SumInv, Settled
<1>5. /\ disturbed[u] => disturbed'[u]
      /\ ~disturbed'[v] => ~Overlaps(r)
  BY <1>1 DEF FindBalance, TypeOK
<1> HIDE DEF v, a
<1>6. CASE u # v
  <2>1. p.user # u \/ (p.pc \in {"idle", "ledger"} /\ p.new = 0)
    BY <1>6 DEF v
  <2>2. refused'[u] = refused[u]
    BY <1>1, <1>6 DEF v, TypeOK
  <2> QED
    BY <1>2, <1>5, <1>6, <2>1, <2>2, OtherUser DEF v, Settled
<1>7. CASE u = v
  <2>1. Moves(r, p, u)
    BY <1>1, SumsMove
  <2>2. /\ Share(req[r], u, "credit", {"find"}) = IF req[r].kind = "credit" THEN a ELSE 0
        /\ Share(req[r], u, "credit", Underway) = IF req[r].kind = "credit" THEN a ELSE 0
        /\ Share(req[r], u, "debit", Underway) = IF req[r].kind = "debit" THEN a ELSE 0
        /\ Share(p, u, "credit", {"find"}) = 0
    BY <1>1, <1>7 DEF Share, Counts, Underway, v, a
  <2>3. /\ Share(p, u, "credit", Underway) = IF p.pc # "idle" /\ req[r].kind = "credit" THEN a ELSE 0
        /\ Share(p, u, "debit", Underway) = IF p.pc # "idle" /\ req[r].kind = "debit" THEN a ELSE 0
    BY <1>1, <1>7 DEF Share, Counts, Underway, v, a
  <2>4. Roomy(u) /\ OpeningAmount(u) \in Nat /\ Bound(u) \in Nat /\ Bound(u)' = Bound(u)
    BY <1>1, <1>2, <1>7, BoundType DEF SumInv, Bound, OpeningAmount
  <2>5. Held(u) \in Int /\ Held(u)' = Held(u) /\ (Has(u)' <=> Has(u)) /\ rows'[u] = rows[u]
    BY <1>1, <1>2, <1>7 DEF Held, Has, Balance, TypeOK
  <2>6. Held(u) + Cardinality(Due(u)) <= Bound(u) /\ Cardinality(Due(u)) \in Nat
    <3>1. Cardinality(Due(u)) <= Bound(u) /\ Cardinality(Due(u)) \in Nat
      BY <2>1, <2>4 DEF Roomy, Moves
    <3>2. ASSUME Has(u) PROVE rows[u][1] + Cardinality(Due(u)) <= Bound(u)
      BY <1>1, <2>4, <3>2 DEF Has, Roomy, TypeOK
    <3> QED
      BY <3>1, <3>2 DEF Held, Balance
  <2>7. Roomy(u)'
    <3> DEFINE c == IF req[r].kind = "credit" THEN a ELSE 0
    <3>1. c \in Nat /\ Cardinality(Due(u)') = Cardinality(Due(u)) - c /\ Cardinality(Due(u)') \in Nat
      BY <1>1, <2>1, <2>2 DEF Moves
    <3>2. p.new + Cardinality(Due(u)') <= Bound(u)
      <4>1. CASE p.pc = "idle"
        BY <4>1, <2>4, <2>6, <3>1 DEF Roomy
      <4>2. CASE p.pc # "idle"
        BY <4>2, <1>1, <1>7, <2>4, <2>5, <2>6, <3>1 DEF v, a
      <4> QED
        BY <4>1, <4>2
    <3>3. \A s \in Requests : req[s].new \in Int
      BY <1>1, RequestFields
    <3>4. \A i \in DOMAIN rows[u] : rows[u][i] \in Int
      BY <1>1 DEF TypeOK
    <3> HIDE DEF c
    <3> QED
      BY <1>3, <2>4, <2>5, <2>6, <3>1, <3>2, <3>3, <3>4 DEF Roomy
  <2>8. ASSUME ~disturbed'[u]
        PROVE  Undisturbed(u)'
    <3>1. Undisturbed(u) /\ ~Overlaps(r)
      BY <1>1, <1>5, <1>7, <2>8 DEF SumInv
    <3>2. \A s \in Requests : req'[s].user = u /\ req'[s].pc \in {"write", "insert"} => s = r
      BY <1>3, <1>7, <3>1 DEF Overlaps, v
    <3>3. Tally(Held(u)', Cardinality(Credits(u)'), Cardinality(Debits(u)'),
                OpeningAmount(u)', ledger'[u].credit, ledger'[u].debit, refused'[u])
      <4> DEFINE d == IF p.pc = "idle" THEN a ELSE 0
      <4>1. /\ Cardinality(Credits(u)) \in Nat /\ Cardinality(Debits(u)) \in Nat /\ d \in Nat
            /\ Cardinality(Credits(u)') = Cardinality(Credits(u))
            /\ Cardinality(Debits(u)') = Cardinality(Debits(u)) - d
        BY <1>1, <2>1, <2>2, <2>3 DEF Moves
      <4>2. Tally(Held(u), Cardinality(Credits(u)), Cardinality(Debits(u)),
                  OpeningAmount(u), ledger[u].credit, ledger[u].debit, refused[u])
        BY <3>1 DEF Undisturbed
      <4>3. /\ ledger'[u] = ledger[u] /\ refused'[u] = refused[u] + d
            /\ OpeningAmount(u)' = OpeningAmount(u)
        BY <1>1, <1>2, <1>7 DEF v, a, OpeningAmount
      <4>4. ledger[u].credit \in Nat /\ ledger[u].debit \in Nat /\ refused[u] \in Nat
        BY <1>1, BoundType
      <4> HIDE DEF d
      <4>5. Tally(Held(u), Cardinality(Credits(u)), Cardinality(Debits(u)) - d,
                  OpeningAmount(u), ledger[u].credit, ledger[u].debit, refused[u] + d)
        BY <2>4, <2>5, <4>1, <4>2, <4>4 DEF Tally
      <4> QED
        BY <2>5, <4>1, <4>3, <4>5
    <3>4. req'[r] = p
      BY <1>3
    <3>5. p.pc = "idle" \/ (/\ p.pc = "write" => Has(u)
                            /\ p.pc = "insert" => ~Has(u)
                            /\ p.new = (IF p.kind = "debit" THEN Held(u) - p.amount ELSE Held(u) + p.amount))
      BY <1>7 DEF v
    <3> QED
      BY <2>5, <3>1, <3>2, <3>3, <3>4, <3>5 DEF Undisturbed, Writing
  <2> QED
    BY <1>7, <2>1, <2>7, <2>8 DEF Settled, Moves
<1> QED
  BY <1>6, <1>7

LEMMA FindBalanceSums ==
  ASSUME Inv, SumInv, NEW r \in Requests, FindBalance(r)
  PROVE  SumInv'
<1> DEFINE q == req[r]
<1>1. /\ q \in Request /\ req \in [Requests -> Request] /\ q.user \in Users /\ q.amount \in Nat
      /\ refused \in [Users -> Nat] /\ rows \in [Users -> Seq(Int)]
  BY RequestFields DEF Inv, TypeOK
<1>2. Has(q.user) => Balance(q.user) \in Int /\ Held(q.user) = Balance(q.user)
  BY <1>1 DEF Has, Balance, Held
<1>3. ~Has(q.user) => Held(q.user) = 0
  BY DEF Held
<1>4. ASSUME NEW label \in {"write", "insert"}, NEW n \in Int,
             req' = [req EXCEPT ![r] = [req[r] EXCEPT !.pc = label, !.new = n]],
             label = "insert" => q.kind = "credit" /\ ~Has(q.user),
             label = "write" => Has(q.user),
             n = (IF q.kind = "debit" THEN Held(q.user) - q.amount ELSE Held(q.user) + q.amount),
             refused' = refused
      PROVE  SumInv'
  <2> DEFINE p == [req[r] EXCEPT !.pc = label, !.new = n]
  <2>1. p \in Request /\ p.pc = label /\ p.new = n /\ p.user = q.user /\ p.kind = q.kind
        /\ p.amount = q.amount
    BY <1>1, <1>4 DEF Request, Labels
  <2>2. req' = [req EXCEPT ![r] = p]
    BY <1>4
  <2> HIDE DEF p
  <2>3. \A u \in Users : refused'[u] = refused[u]
          + (IF u = req[r].user /\ p.pc = "idle" THEN req[r].amount ELSE 0)
    BY <1>1, <1>4, <2>1
  <2> QED
    BY <1>4, <2>1, <2>2, <2>3, FindSums
<1>5. CASE FindToDebit(r)
  <2>1. CASE Has(q.user) /\ Balance(q.user) >= q.amount
    <3> DEFINE n == Balance(q.user) - q.amount
    <3>1. /\ req' = [req EXCEPT ![r] = [req[r] EXCEPT !.pc = "write", !.new = n]]
          /\ refused' = refused /\ q.kind = "debit"
      BY <1>5, <2>1 DEF FindToDebit
    <3>2. n \in Int /\ n = Held(q.user) - q.amount
      BY <1>1, <1>2, <2>1
    <3> HIDE DEF n
    <3> QED
      BY <1>4, <2>1, <3>1, <3>2
  <2>2. CASE ~(Has(q.user) /\ Balance(q.user) >= q.amount)
    <3>1. /\ req' = [req EXCEPT ![r] = Idle] /\ q.kind = "debit"
          /\ refused' = [refused EXCEPT ![q.user] = @ + q.amount]
      BY <1>5, <2>2 DEF FindToDebit, End
    <3>2. \A u \in Users : refused'[u] = refused[u]
            + (IF u = req[r].user /\ Idle.pc = "idle" THEN req[r].amount ELSE 0)
      BY <1>1, <3>1, IdleType
    <3> QED
      BY <3>1, <3>2, IdleType, FindSums
  <2> QED
    BY <2>1, <2>2
<1>6. CASE FindToCredit(r)
  <2>1. CASE Has(q.user)
    <3> DEFINE n == Balance(q.user) + q.amount
    <3>1. /\ req' = [req EXCEPT ![r] = [req[r] EXCEPT !.pc = "write", !.new = n]]
          /\ refused' = refused /\ q.kind = "credit"
      BY <1>6, <2>1 DEF FindToCredit
    <3>2. n \in Int /\ n = Held(q.user) + q.amount
      BY <1>1, <1>2, <2>1
    <3> HIDE DEF n
    <3> QED
      BY <1>4, <2>1, <3>1, <3>2
  <2>2. CASE ~Has(q.user)
    <3> DEFINE n == q.amount
    <3>1. /\ req' = [req EXCEPT ![r] = [req[r] EXCEPT !.pc = "insert", !.new = n]]
          /\ refused' = refused /\ q.kind = "credit"
      BY <1>6, <2>2 DEF FindToCredit
    <3>2. n \in Int /\ n = Held(q.user) + q.amount
      BY <1>1, <1>3, <2>2
    <3> HIDE DEF n
    <3> QED
      BY <1>4, <2>2, <3>1, <3>2
  <2> QED
    BY <2>1, <2>2
<1> QED
  BY <1>5, <1>6 DEF FindBalance

\* What WriteBalance and InsertBalance share: the user's balance becomes what
\* the request has computed, and the request is done.
LEMMA WrittenSums ==
  ASSUME Inv, SumInv, NEW r \in Requests, Writing(req[r], req[r].user),
         req' = [req EXCEPT ![r] = Idle], UNCHANGED <<ledger, refused, disturbed>>,
         \A u \in Users \ {req[r].user} : rows'[u] = rows[u],
         \A i \in DOMAIN rows'[req[r].user] :
           rows'[req[r].user][i] = req[r].new
             \/ (i \in DOMAIN rows[req[r].user] /\ rows'[req[r].user][i] = rows[req[r].user][i]),
         ~disturbed[req[r].user] =>
           Len(rows'[req[r].user]) <= 1 /\ rows'[req[r].user] # << >>
             /\ rows'[req[r].user][1] = req[r].new
  PROVE  SumInv'
<1> DEFINE a == req[r].amount
<1>1. /\ req[r] \in Request /\ req \in [Requests -> Request] /\ req[r].user \in Users /\ a \in Nat
      /\ req[r].kind \in {"debit", "credit"} /\ TypeOK /\ req[r].new \in Int
      /\ Idle \in Request /\ Idle.new = 0 /\ Idle.pc = "idle"
  BY RequestFields, IdleType DEF Inv, TypeOK
<1>2. \A s \in Requests : req'[s] = IF s = r THEN Idle ELSE req[s]
  BY <1>1
<1>3. req[r].pc \in {"write", "insert"}
  BY DEF Writing
<1> HIDE DEF a
<1>4. SUFFICES ASSUME NEW u \in Users
               PROVE  Settled(u)
  BY DEF SumInv, Settled
<1>5. CASE u # req[r].user
  BY <1>1, <1>5, OtherUser DEF Settled
<1>6. CASE u = req[r].user
  <2>1. Moves(r, Idle, u)
    BY <1>1, SumsMove
  <2>2. /\ Share(req[r], u, "credit", {"find"}) = 0 /\ Share(Idle, u, "credit", {"find"}) = 0
        /\ Share(req[r], u, "credit", Underway) = IF req[r].kind = "credit" THEN a ELSE 0
        /\ Share(req[r], u, "debit", Underway) = IF req[r].kind = "debit" THEN a ELSE 0
        /\ Share(Idle, u, "credit", Underway) = 0 /\ Share(Idle, u, "debit", Underway) = 0
    BY <1>1, <1>3, <1>6 DEF Share, Counts, Underway, a
  <2>3. /\ Roomy(u) /\ OpeningAmount(u) \in Nat /\ Bound(u) \in Nat
        /\ Bound(u)' = Bound(u) /\ OpeningAmount(u)' = OpeningAmount(u)
    BY <1>1, BoundType DEF SumInv, Bound, OpeningAmount
  <2>4. Roomy(u)'
    <3>1. Cardinality(Due(u)) \in Nat /\ Cardinality(Due(u)') = Cardinality(Due(u))
      BY <2>1, <2>2 DEF Moves
    <3>2. req[r].new + Cardinality(Due(u)) <= Bound(u)
      BY <1>6, <2>3 DEF Roomy
    <3> QED
      BY <1>1, <1>2, <1>6, <2>3, <3>1, <3>2 DEF Roomy
  <2>5. ASSUME ~disturbed'[u]
        PROVE  Undisturbed(u)'
    <3>1. Undisturbed(u) /\ ~disturbed[u]
      BY <2>5 DEF SumInv
    <3>2. Len(rows'[u]) <= 1 /\ rows'[u] # << >> /\ Held(u)' = req[r].new
      BY <1>6, <3>1 DEF Held, Has, Balance
    <3>3. req[r].new = IF req[r].kind = "debit" THEN Held(u) - a ELSE Held(u) + a
      BY <1>6, <3>1 DEF Undisturbed, a
    <3>4. \A s \in Requests : ~Writing(req'[s], u)
      BY <1>1, <1>2, <1>6, <3>1 DEF Undisturbed, Writing
    <3>5. Tally(Held(u)', Cardinality(Credits(u)'), Cardinality(Debits(u)'),
                OpeningAmount(u)', ledger'[u].credit, ledger'[u].debit, refused'[u])
      <4> DEFINE c == IF req[r].kind = "credit" THEN a ELSE 0
                 d == IF req[r].kind = "debit" THEN a ELSE 0
      <4>1. /\ Cardinality(Credits(u)) \in Nat /\ Cardinality(Debits(u)) \in Nat /\ c \in Nat /\ d \in Nat
            /\ Cardinality(Credits(u)') = Cardinality(Credits(u)) - c
            /\ Cardinality(Debits(u)') = Cardinality(Debits(u)) - d
        BY <1>1, <2>1, <2>2 DEF Moves
      <4>2. Tally(Held(u), Cardinality(Credits(u)), Cardinality(Debits(u)),
                  OpeningAmount(u), ledger[u].credit, ledger[u].debit, refused[u])
        BY <3>1 DEF Undisturbed
      <4>3. ledger[u].credit \in Nat /\ ledger[u].debit \in Nat /\ refused[u] \in Nat /\ Held(u) \in Int
        BY <1>1, BoundType DEF Held, Has, Balance, TypeOK
      <4>4. Held(u)' = Held(u) + c - d
        BY <1>1, <3>2, <3>3, <4>3
      <4> HIDE DEF c, d
      <4>5. Tally(Held(u) + c - d, Cardinality(Credits(u)) - c, Cardinality(Debits(u)) - d,
                  OpeningAmount(u), ledger[u].credit, ledger[u].debit, refused[u])
        BY <2>3, <4>1, <4>2, <4>3 DEF Tally
      <4> QED
        BY <2>3, <4>1, <4>4, <4>5
    <3> QED
      BY <3>2, <3>4, <3>5 DEF Undisturbed, Writing
  <2> QED
    BY <2>1, <2>4, <2>5 DEF Settled, Moves
<1> QED
  BY <1>5, <1>6

LEMMA FirstReplaced ==
  ASSUME NEW s \in Seq(Int), s # << >>, NEW n \in Int
  PROVE  /\ [s EXCEPT ![1] = n] # << >>
         /\ DOMAIN [s EXCEPT ![1] = n] = DOMAIN s
         /\ Len([s EXCEPT ![1] = n]) = Len(s)
         /\ [s EXCEPT ![1] = n][1] = n
         /\ \A i \in DOMAIN s : [s EXCEPT ![1] = n][i] = IF i = 1 THEN n ELSE s[i]
<1>1. Len(s) \in Nat /\ DOMAIN s = 1..Len(s) /\ 1 \in DOMAIN s
  OBVIOUS
<1> DEFINE t == [s EXCEPT ![1] = n]
<1>2. DOMAIN t = 1..Len(s) /\ t[1] = n /\ \A i \in DOMAIN s : t[i] = IF i = 1 THEN n ELSE s[i]
  BY <1>1
<1>3. t \in Seq(Int)
  OBVIOUS
<1>4. Len(t) = Len(s)
  BY <1>1, <1>2, <1>3
<1>5. t # << >>
  BY <1>1, <1>2
<1> QED
  BY <1>1, <1>2, <1>4, <1>5

LEMMA WriteBalanceSums ==
  ASSUME Inv, SumInv, NEW r \in Requests, WriteBalance(r)
  PROVE  SumInv'
<1> DEFINE u == req[r].user
           n == req[r].new
<1>1. u \in Users /\ n \in Int /\ rows[u] \in Seq(Int) /\ rows[u] # << >> /\ rows \in [Users -> Seq(Int)]
  BY DEF WriteBalance, At, Inv, TypeOK, Request, Computed
<1>2. rows' = [rows EXCEPT ![u] = [rows[u] EXCEPT ![1] = n]]
  BY DEF WriteBalance
<1>3. /\ [rows[u] EXCEPT ![1] = n] # << >>
      /\ DOMAIN [rows[u] EXCEPT ![1] = n] = DOMAIN rows[u]
      /\ Len([rows[u] EXCEPT ![1] = n]) = Len(rows[u])
      /\ [rows[u] EXCEPT ![1] = n][1] = n
      /\ \A i \in DOMAIN rows[u] : [rows[u] EXCEPT ![1] = n][i] = IF i = 1 THEN n ELSE rows[u][i]
  BY <1>1, FirstReplaced
<1>4. rows'[u] = [rows[u] EXCEPT ![1] = n] /\ \A v \in Users \ {u} : rows'[v] = rows[v]
  BY <1>1, <1>2
<1>5. /\ req' = [req EXCEPT ![r] = Idle] /\ UNCHANGED <<ledger, refused, disturbed>>
      /\ Writing(req[r], u)
  BY DEF WriteBalance, End, Writing, At
<1>6. ~disturbed[u] => Len(rows[u]) <= 1
  BY <1>1 DEF SumInv, Undisturbed
<1> QED
  BY <1>3, <1>4, <1>5, <1>6, WrittenSums

LEMMA InsertBalanceSums ==
  ASSUME Inv, SumInv, NEW r \in Requests, InsertBalance(r)
  PROVE  SumInv'
<1> DEFINE u == req[r].user
           n == req[r].new
<1>1. u \in Users /\ n \in Int /\ rows[u] \in Seq(Int) /\ rows \in [Users -> Seq(Int)]
  BY DEF Inv, TypeOK, Request
<1>2. rows' = [rows EXCEPT ![u] = Append(rows[u], n)]
  BY DEF InsertBalance
<1>3. /\ Len(Append(rows[u], n)) = Len(rows[u]) + 1 /\ Append(rows[u], n) # << >>
      /\ Append(rows[u], n)[Len(rows[u]) + 1] = n
      /\ \A i \in 1..Len(rows[u]) : Append(rows[u], n)[i] = rows[u][i]
      /\ DOMAIN Append(rows[u], n) = 1..(Len(rows[u]) + 1) /\ DOMAIN rows[u] = 1..Len(rows[u])
      /\ Len(rows[u]) \in Nat
  <2> DEFINE s == rows[u]
             t == Append(s, n)
  <2>1. s \in Seq(Int) /\ n \in Int
    BY <1>1
  <2> HIDE DEF s, n, t
  <2>2. t \in Seq(Int) /\ Len(t) = Len(s) + 1 /\ t[Len(s) + 1] = n
        /\ \A i \in 1..Len(s) : t[i] = s[i]
    BY <2>1, AppendProperties DEF t
  <2>3. DOMAIN s = 1..Len(s) /\ Len(s) \in Nat
    BY <2>1
  <2>4. DOMAIN t = 1..(Len(s) + 1) /\ t # << >>
    BY <2>2, <2>3
  <2> QED
    BY <2>2, <2>3, <2>4 DEF s, t
<1>4. rows'[u] = Append(rows[u], n) /\ \A v \in Users \ {u} : rows'[v] = rows[v]
  BY <1>1, <1>2
<1>5. /\ req' = [req EXCEPT ![r] = Idle] /\ UNCHANGED <<ledger, refused, disturbed>>
      /\ Writing(req[r], u) /\ req[r].pc = "insert"
  BY DEF InsertBalance, End, Writing, At
<1>6. ~disturbed[u] => Len(rows[u]) = 0
  BY <1>1, <1>5 DEF SumInv, Undisturbed, Has
<1>7. ~disturbed[u] => Len(rows'[u]) <= 1 /\ rows'[u] # << >> /\ rows'[u][1] = n
  BY <1>3, <1>4, <1>6
<1>8. \A i \in DOMAIN rows'[u] :
        rows'[u][i] = n \/ (i \in DOMAIN rows[u] /\ rows'[u][i] = rows[u][i])
  BY <1>3, <1>4
<1> QED
  BY <1>4, <1>5, <1>7, <1>8, WrittenSums

LEMMA CrashSums ==
  ASSUME Inv, SumInv, NEW r \in Requests, Crash(r)
  PROVE  SumInv'
<1>1. /\ req[r] \in Request /\ req \in [Requests -> Request] /\ req[r].user \in Users
      /\ req[r].amount \in Nat /\ TypeOK /\ Idle \in Request /\ Idle.new = 0 /\ Idle.pc = "idle"
  BY RequestFields, IdleType DEF Inv, TypeOK
<1>2. /\ req' = [req EXCEPT ![r] = Idle] /\ UNCHANGED <<rows, ledger, refused>>
      /\ disturbed'[req[r].user] /\ \A u \in Users : disturbed[u] => disturbed'[u]
  BY <1>1 DEF Crash, End, TypeOK
<1>3. \A s \in Requests : req'[s] = IF s = r THEN Idle ELSE req[s]
  BY <1>1, <1>2
<1>4. SUFFICES ASSUME NEW u \in Users
               PROVE  Settled(u)
  BY DEF SumInv, Settled
<1>5. CASE u # req[r].user
  BY <1>1, <1>2, <1>5, OtherUser DEF Settled
<1>6. CASE u = req[r].user
  <2>1. Moves(r, Idle, u)
    BY <1>1, <1>2, SumsMove
  <2>2. /\ Share(req[r], u, "credit", {"find"}) \in Nat
        /\ Share(Idle, u, "credit", {"find"}) = 0
    BY <1>1 DEF Share, Counts
  <2>3. /\ Roomy(u) /\ Bound(u) \in Nat /\ Bound(u)' = Bound(u)
    BY <1>1, <1>2, BoundType DEF SumInv, Bound, OpeningAmount
  <2>4. /\ Cardinality(Due(u)') \in Nat /\ Cardinality(Due(u)) \in Nat
        /\ Cardinality(Due(u)') <= Cardinality(Due(u))
    BY <2>1, <2>2 DEF Moves
  <2>5. Roomy(u)'
    <3>1. \A s \in Requests : req[s].new \in Int
      BY <1>1, RequestFields
    <3>2. \A i \in DOMAIN rows[u] : rows[u][i] \in Int
      BY <1>1 DEF TypeOK
    <3> QED
      BY <1>1, <1>2, <1>3, <2>3, <2>4, <3>1, <3>2 DEF Roomy
  <2> QED
    BY <1>2, <1>6, <2>1, <2>5 DEF Settled, Moves
<1> QED
  BY <1>5, <1>6

LEMMA NextSums == Inv /\ SumInv /\ [Next]_vars => SumInv'
<1> SUFFICES ASSUME Inv, SumInv, [Next]_vars PROVE SumInv'
  OBVIOUS
<1>1. CASE UNCHANGED vars
  <2> SUFFICES ASSUME NEW u \in Users PROVE Settled(u)
    BY DEF SumInv, Settled
  <2>1. UNCHANGED <<Due(u), Debits(u), Credits(u), Bound(u), Held(u), rows, req, disturbed>>
    BY <1>1 DEF vars, Due, Debits, Credits, Units, Counts, Underway, Bound, OpeningAmount,
                Held, Has, Balance
  <2>2. UNCHANGED <<ledger, refused>> /\ OpeningAmount(u)' = OpeningAmount(u)
    BY <1>1 DEF vars, OpeningAmount
  <2>3. Finite(u) /\ Roomy(u) /\ (~disturbed[u] => Undisturbed(u))
    BY DEF SumInv
  <2> QED
    BY <2>1, <2>2, <2>3 DEF Settled, Finite, Roomy, Undisturbed, Writing, Has
<1>2. CASE Next
  BY <1>2, BeginSums, InsertLedgerSums, FindBalanceSums, WriteBalanceSums, InsertBalanceSums,
     CrashSums DEF Next
<1> QED
  BY <1>1, <1>2

\* However debits and credits interleave, lose each other's updates, insert
\* several rows or are cut off, no balance row exceeds what the user started with
\* and the ledger credits: creditToBalance books before it reads.
THEOREM NoneMinted == Spec => []NothingMinted
<1>1. ASSUME Inv, SumInv PROVE NothingMinted
  <2> SUFFICES ASSUME NEW u \in Users, NEW i \in DOMAIN rows[u]
               PROVE  rows[u][i] <= OpeningAmount(u) + ledger[u].credit
    BY DEF NothingMinted
  <2>1. rows[u][i] + Cardinality(Due(u)) <= Bound(u) /\ IsFiniteSet(Due(u))
    BY <1>1 DEF SumInv, Roomy, Finite
  <2>2. Cardinality(Due(u)) \in Nat
    BY <2>1, FS_CardinalityType
  <2>3. rows[u][i] \in Int /\ Bound(u) \in Nat
    BY <1>1, BoundType DEF Inv, TypeOK
  <2> QED
    BY <2>1, <2>2, <2>3 DEF Bound
<1> QED
  BY InitInv, NextInv, InitSums, NextSums, <1>1, PTL DEF Spec

\* A user whose debits and credits neither overlapped between their read and
\* their write nor were cut off has one balance row at most, and once they are done
\* it is what the ledger says: what debitFromBalance books and then refuses is
\* all they differ by.
THEOREM UndisturbedReconciles == Spec => []ReconcilesUndisturbed
<1>1. ASSUME Inv, SumInv PROVE ReconcilesUndisturbed
  <2> SUFFICES ASSUME NEW u \in Users, ~disturbed[u],
                      \A r \in Requests : At(r, "idle") \/ req[r].user # u
               PROVE  /\ Len(rows[u]) <= 1
                      /\ Held(u) = OpeningAmount(u) + ledger[u].credit - (ledger[u].debit - refused[u])
    BY DEF ReconcilesUndisturbed, Held
  <2>1. Undisturbed(u)
    BY <1>1 DEF SumInv
  <2>2. Cardinality(Credits(u)) = 0 /\ Cardinality(Debits(u)) = 0
    BY UnitsNone DEF At, Counts, Underway, Credits, Debits
  <2>3. Held(u) \in Int
    BY <1>1 DEF Inv, TypeOK, Held, Has, Balance
  <2>4. /\ OpeningAmount(u) \in Nat /\ ledger[u].credit \in Nat /\ ledger[u].debit \in Nat
        /\ refused[u] \in Nat
    BY <1>1, BoundType DEF Inv
  <2> QED
    BY <2>1, <2>2, <2>3, <2>4 DEF Undisturbed, Tally
<1> QED
  BY InitInv, NextInv, InitSums, NextSums, <1>1, PTL DEF Spec
=============================================================================

--------------------------- MODULE CreditAccount ---------------------------
(***************************************************************************)
(* The credit account of a user: CreditService.debitFromBalance and        *)
(* creditToBalance with every await of theirs.                             *)
(*                                                                         *)
(* Both insert a row into credit_ledger, read the balance row of the user, *)
(* compute the new amount and write it back; nothing locks the row and     *)
(* nothing keeps a user from having several.  Of several rows findOne      *)
(* returns the one that was inserted first.  The ledger is only ever       *)
(* added to, so what it debits and what it credits in all stands for it.   *)
(***************************************************************************)
EXTENDS Integers, Sequences

CONSTANTS
  Users,
  Requests,   \* request slots: at most so many requests run at once
  Amounts,    \* the amounts in USD that are debited and credited
  Opening,    \* the amount each user starts with, NoBalance without a row
  NoBalance,
  MaxLedger   \* bound: no request begins once the ledger debits or credits more

ASSUME CreditAssumption ==
  /\ Users # {}
  /\ Amounts # {}
  /\ Amounts \subseteq Nat \ {0}
  /\ NoBalance \notin Nat
  /\ Opening \in [Users -> Nat \cup {NoBalance}]
  /\ MaxLedger \in Nat

VARIABLES
  rows,      \* credit_balances: the amounts of each user, in the order of the ids
  ledger,    \* credit_ledger: what it debits and credits each user in all
  req,       \* the requests
  refused,   \* history: what the ledger debits although the debit was refused
  disturbed  \* history: have requests about the user overlapped, or stopped short

vars == <<rows, ledger, req, refused, disturbed>>

Labels == {"idle", "ledger", "find", "write", "insert"}

Request ==
  [ pc     : Labels,
    user   : Users,
    kind   : {"debit", "credit"},
    amount : Amounts,
    new    : Int ]  \* the amount to write, computed from what was read

Idle ==
  [ pc |-> "idle", user |-> CHOOSE u \in Users : TRUE, kind |-> "debit",
    amount |-> CHOOSE a \in Amounts : TRUE, new |-> 0 ]

At(r, label) == req[r].pc = label
End(r) == req' = [req EXCEPT ![r] = Idle]

\* The row findByUserId returns.
Has(u) == rows[u] # << >>
Balance(u) == rows[u][1]

-----------------------------------------------------------------------------
Begin(r, u, kind, amount) ==
  /\ At(r, "idle")
  /\ ledger[u].debit <= MaxLedger /\ ledger[u].credit <= MaxLedger
  /\ req' = [req EXCEPT ![r] =
       [pc |-> "ledger", user |-> u, kind |-> kind, amount |-> amount, new |-> 0]]
  /\ UNCHANGED <<rows, ledger, refused, disturbed>>

\* Mutant: a debit is booked as a credit, too.
InsertLedgerTwice(r) ==
  /\ At(r, "ledger")
  /\ LET q == req[r]
     IN ledger' = [ledger EXCEPT ![q.user].debit = @ + q.amount,
                                 ![q.user].credit = @ + q.amount]
  /\ req' = [req EXCEPT ![r].pc = "find"]
  /\ UNCHANGED <<rows, refused, disturbed>>

\* CreditLedger.createDebit, createCredit
InsertLedger(r) ==
  /\ At(r, "ledger")
  /\ LET q == req[r]
     IN ledger' = IF q.kind = "debit"
                  THEN [ledger EXCEPT ![q.user].debit = @ + q.amount]
                  ELSE [ledger EXCEPT ![q.user].credit = @ + q.amount]
  /\ req' = [req EXCEPT ![r].pc = "find"]
  /\ UNCHANGED <<rows, refused, disturbed>>

\* Another request is between its read and its write of the same balance.
Overlaps(r) ==
  \E s \in Requests \ {r} : req[s].user = req[r].user /\ req[s].pc \in {"write", "insert"}

\* Mutant: the debit does not compare the amounts.
FindToDebitUnchecked(r) ==
  LET q == req[r]
  IN /\ q.kind = "debit"
     /\ Has(q.user)
     /\ req' = [req EXCEPT ![r].pc = "write", ![r].new = Balance(q.user) - q.amount]
     /\ UNCHANGED refused

\* Mutant: the user without a balance is not noticed.
FindToDebitOfNothing(r) ==
  LET q == req[r]
  IN /\ q.kind = "debit"
     /\ req' = [req EXCEPT ![r].pc = "write",
                           ![r].new = IF Has(q.user) THEN 0 ELSE NoBalance]
     /\ UNCHANGED refused

\* A debit of more than the balance, or of a user who has none, rejects; the
\* ledger keeps its row.
FindToDebit(r) ==
  LET q == req[r]
  IN /\ q.kind = "debit"
     /\ IF Has(q.user) /\ Balance(q.user) >= q.amount
        THEN /\ req' = [req EXCEPT ![r].pc = "write", ![r].new = Balance(q.user) - q.amount]
             /\ UNCHANGED refused
        ELSE /\ End(r)
             /\ refused' = [refused EXCEPT ![q.user] = @ + q.amount]

\* Mutant: the first credit is put on top of nothing, every later one twice.
FindToCreditTwice(r) ==
  LET q == req[r]
  IN /\ q.kind = "credit"
     /\ req' = IF Has(q.user)
               THEN [req EXCEPT ![r].pc = "write", ![r].new = Balance(q.user) + 2 * q.amount]
               ELSE [req EXCEPT ![r].pc = "insert", ![r].new = q.amount]
     /\ UNCHANGED refused

FindToCredit(r) ==
  LET q == req[r]
  IN /\ q.kind = "credit"
     /\ req' = IF Has(q.user)
               THEN [req EXCEPT ![r].pc = "write", ![r].new = Balance(q.user) + q.amount]
               ELSE [req EXCEPT ![r].pc = "insert", ![r].new = q.amount]
     /\ UNCHANGED refused

\* CreditBalance.findByUserId has answered, and the new amount is computed.
FindBalance(r) ==
  /\ At(r, "find")
  /\ FindToDebit(r) \/ FindToCredit(r)
  /\ disturbed' = [disturbed EXCEPT ![req[r].user] = @ \/ Overlaps(r)]
  /\ UNCHANGED <<rows, ledger>>

\* creditBalance.updateAmount
WriteBalance(r) ==
  /\ At(r, "write")
  /\ rows' = [rows EXCEPT ![req[r].user][1] = req[r].new]
  /\ End(r)
  /\ UNCHANGED <<ledger, refused, disturbed>>

\* CreditBalance.build(...).save()
InsertBalance(r) ==
  /\ At(r, "insert")
  /\ rows' = [rows EXCEPT ![req[r].user] = Append(@, req[r].new)]
  /\ End(r)
  /\ UNCHANGED <<ledger, refused, disturbed>>

\* The server process stops.
Crash(r) ==
  /\ ~At(r, "idle")
  /\ disturbed' = [disturbed EXCEPT ![req[r].user] = TRUE]
  /\ End(r)
  /\ UNCHANGED <<rows, ledger, refused>>

-----------------------------------------------------------------------------
OpeningRows(u) == IF Opening[u] = NoBalance THEN << >> ELSE <<Opening[u]>>
OpeningAmount(u) == IF Opening[u] = NoBalance THEN 0 ELSE Opening[u]

Init ==
  /\ rows = [u \in Users |-> OpeningRows(u)]
  /\ ledger = [u \in Users |-> [debit |-> 0, credit |-> 0]]
  /\ req = [r \in Requests |-> Idle]
  /\ refused = [u \in Users |-> 0]
  /\ disturbed = [u \in Users |-> FALSE]

Next ==
  \E r \in Requests :
    \/ \E u \in Users, kind \in {"debit", "credit"}, amount \in Amounts : Begin(r, u, kind, amount)
    \/ InsertLedger(r) \/ FindBalance(r) \/ WriteBalance(r) \/ InsertBalance(r)
    \/ Crash(r)

Spec == Init /\ [][Next]_vars

-----------------------------------------------------------------------------
TypeOK ==
  /\ rows \in [Users -> Seq(Int)]
  /\ ledger \in [Users -> [debit : Nat, credit : Nat]]
  /\ req \in [Requests -> Request]
  /\ refused \in [Users -> Nat]
  /\ disturbed \in [Users -> BOOLEAN]

\* No debit overdraws an account, although the amount a debit is checked
\* against may be out of date when the new amount is written.
NeverOverdrawn ==
  \A u \in Users : \A i \in DOMAIN rows[u] : rows[u][i] >= 0

\* No interleaving of debits and credits leaves a user with more than what
\* the account was opened with and the ledger credits in all: updates may
\* get lost, credit never appears from nowhere.
NothingMinted ==
  \A u \in Users : \A i \in DOMAIN rows[u] :
    rows[u][i] <= OpeningAmount(u) + ledger[u].credit

\* Unless requests about the user overlapped or were cut off, the balance is
\* what the ledger says, the debits it books and then refuses left out.
ReconcilesUndisturbed ==
  \A u \in Users :
    ~disturbed[u] /\ (\A r \in Requests : At(r, "idle") \/ req[r].user # u)
    => /\ Len(rows[u]) <= 1
       /\ (IF Has(u) THEN Balance(u) ELSE 0)
            = OpeningAmount(u) + ledger[u].credit - (ledger[u].debit - refused[u])
=============================================================================

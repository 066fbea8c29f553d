------------------------------- MODULE Cards -------------------------------
(***************************************************************************)
(* The cards of the users of Accounts: sources of a customer at Stripe,    *)
(* and the rows of payment_sources that refer to them.                     *)
(*                                                                         *)
(* The customer of a user is noted in users.meta, a JSON column that every *)
(* writer of the row (cards, payout account, wallet, profile) writes as a  *)
(* whole, from the instance it loaded at its beginning.                    *)
(*                                                                         *)
(* A row of payment_sources and its source at Stripe are one card here,    *)
(* numbered in the order of creation: each source is noted by one row.     *)
(***************************************************************************)
EXTENDS Accounts

CONSTANTS
  MaxFingerprints,  \* how many different cards the users have
  MaxCustomers,     \* bound: how many customers are ever created
  MaxSources        \* bound: how many sources are ever created

ASSUME CardsAssumption ==
  MaxFingerprints \in Nat /\ MaxCustomers \in Nat /\ MaxSources \in Nat

VARIABLES
  customers,  \* Stripe: how many customers have been created
  sources,    \* Stripe: how many sources have been created
  held,       \* Stripe: the sources that are still there
  listed,     \* table payment_sources: the sources that have a row
  card        \* of each source, and its row

stripe == <<customers, sources, held>>
cardVars == <<stripe, listed, card>>
vars == <<accountVars, cardVars>>

Fingerprints == 1..MaxFingerprints
Sources == 1..MaxSources

Card == [fingerprint : Nat, customer : Nat, user : Uids \cup {0}]
NoCard == [fingerprint |-> 0, customer |-> 0, user |-> 0]

\* The save of an instance whose meta has changed.
SaveMeta(u, meta) ==
  row' = IF u \in users THEN [row EXCEPT ![u].meta = meta] ELSE row

\* A request of a user has loaded the user's row.
LoadUser(r, u, call, at, c) ==
  /\ May(r, call)
  /\ u \in users
  /\ Become(r, [Idle EXCEPT !.call = call, !.at = at, !.uid = u,
                            !.meta = row[u].meta, !.card = c])
  /\ UNCHANGED <<firebase, table, belongings, calls, cardVars>>

-----------------------------------------------------------------------------
(* addPaymentSource                                                         *)

AddCard(r, u, f) == LoadUser(r, u, "addCard", "check", f)

\* Mutant: the fingerprints are not compared.
CheckCardNever(r) ==
  /\ At(r, "addCard", "check")
  /\ Go(r, "customer")
  /\ UNCHANGED <<firebase, table, belongings, calls, marks, cardVars>>

\* PaymentSource.findAll, tokens.retrieve
CheckCard(r) ==
  /\ At(r, "addCard", "check")
  /\ IF \E c \in listed : /\ card[c].user = req[r].uid
                          /\ card[c].fingerprint = req[r].card
     THEN End(r)
     ELSE Go(r, "customer")
  /\ UNCHANGED <<firebase, table, belongings, calls, marks, cardVars>>

\* customers.retrieve or customers.create
FindOrCreateCustomer(r) ==
  /\ At(r, "addCard", "customer")
  /\ IF req[r].meta.customer # 0
     THEN Go(r, "source") /\ UNCHANGED customers
     ELSE /\ customers < MaxCustomers
          /\ customers' = customers + 1
          /\ req' = [req EXCEPT ![r].at = "note", ![r].meta.customer = customers + 1]
  /\ UNCHANGED <<firebase, table, belongings, calls, marks, sources, held, listed, card>>

\* Mutant: meta becomes the customer alone.
NoteCustomerAlone(r) ==
  /\ At(r, "addCard", "note")
  /\ SaveMeta(req[r].uid, [customer |-> req[r].meta.customer])
  /\ Go(r, "source")
  /\ UNCHANGED <<firebase, users, belongings, calls, marks, cardVars>>

\* updateStripeCustomerId
NoteCustomer(r) ==
  /\ At(r, "addCard", "note")
  /\ SaveMeta(req[r].uid, req[r].meta)
  /\ Go(r, "source")
  /\ UNCHANGED <<firebase, users, belongings, calls, marks, cardVars>>

\* customers.createSource
CreateSource(r) ==
  /\ At(r, "addCard", "source")
  /\ sources < MaxSources
  /\ sources' = sources + 1
  /\ held' = held \cup {sources + 1}
  /\ card' = [card EXCEPT ![sources + 1] =
       [fingerprint |-> req[r].card, customer |-> req[r].meta.customer,
        user |-> req[r].uid]]
  /\ req' = [req EXCEPT ![r].at = "create", ![r].card = sources + 1]
  /\ UNCHANGED <<firebase, table, belongings, calls, marks, customers, listed>>

\* PaymentSource.create
CreateRow(r) ==
  /\ At(r, "addCard", "create")
  /\ listed' = listed \cup {req[r].card}
  /\ End(r)
  /\ UNCHANGED <<firebase, table, belongings, calls, marks, stripe, card>>

-----------------------------------------------------------------------------
(* removePaymentSource and updatePaymentSource                              *)

RemoveCard(r, c) ==
  /\ c \in listed
  /\ LoadUser(r, card[c].user, "removeCard", "delete", c)

\* Stripe does not know a card that is gone.
DeleteCard(r) ==
  /\ At(r, "removeCard", "delete")
  /\ held' = held \ {req[r].card}
  /\ IF req[r].card \in held THEN Go(r, "destroy") ELSE End(r)
  /\ UNCHANGED <<firebase, table, belongings, calls, marks, customers, sources, listed, card>>

\* Mutant: the row stays.
DestroyRowNever(r) ==
  /\ At(r, "removeCard", "destroy")
  /\ End(r)
  /\ UNCHANGED <<firebase, table, belongings, calls, marks, cardVars>>

DestroyRow(r) ==
  /\ At(r, "removeCard", "destroy")
  /\ listed' = listed \ {req[r].card}
  /\ End(r)
  /\ UNCHANGED <<firebase, table, belongings, calls, marks, stripe, card>>

\* Whose card it is, is not asked, but the user needs a customer.
UpdateCard(r, u, c) ==
  /\ c \in listed
  /\ row[u].meta.customer # 0
  /\ LoadUser(r, u, "updateCard", "update", c)

\* Stripe looks for the card among those of the user's customer.
UpdateSource(r) ==
  /\ At(r, "updateCard", "update")
  /\ IF req[r].card \in held /\ card[req[r].card].customer = req[r].meta.customer
     THEN Go(r, "save")
     ELSE End(r)
  /\ UNCHANGED <<firebase, table, belongings, calls, marks, cardVars>>

UpdateRow(r) ==
  LET c == req[r].card
  IN /\ At(r, "updateCard", "save")
     /\ card' = IF c \in listed THEN [card EXCEPT ![c].user = req[r].uid] ELSE card
     /\ End(r)
     /\ UNCHANGED <<firebase, table, belongings, calls, marks, stripe, listed>>

-----------------------------------------------------------------------------
(* Other writers of users.meta.                                             *)

\* POST /stripe_express_accounts has found the user by the email.
Connect(r, u) == LoadUser(r, u, "connect", "save", 0)

\* Mutant: the payout account replaces what was noted.
ConnectSaveOnly(r) ==
  /\ At(r, "connect", "save")
  /\ SaveMeta(req[r].uid, [NoMeta EXCEPT !.connected = TRUE])
  /\ End(r)
  /\ UNCHANGED <<firebase, users, belongings, calls, marks, cardVars>>

\* updateStripeAccountInfo
ConnectSave(r) ==
  /\ At(r, "connect", "save")
  /\ SaveMeta(req[r].uid, [req[r].meta EXCEPT !.connected = TRUE])
  /\ End(r)
  /\ UNCHANGED <<firebase, users, belongings, calls, marks, cardVars>>

\* updateWalletAddress: the Bitcoin address is in meta too.
Wallet(r, u) == LoadUser(r, u, "wallet", "save", 0)

WalletSave(r) ==
  /\ At(r, "wallet", "save")
  /\ SaveMeta(req[r].uid, req[r].meta)
  /\ End(r)
  /\ UNCHANGED <<firebase, users, belongings, calls, marks, cardVars>>

-----------------------------------------------------------------------------
CardStep(r) ==
  \/ CheckCard(r) \/ FindOrCreateCustomer(r) \/ NoteCustomer(r)
  \/ CreateSource(r) \/ CreateRow(r)
  \/ DeleteCard(r) \/ DestroyRow(r)
  \/ UpdateSource(r) \/ UpdateRow(r)
  \/ ConnectSave(r) \/ WalletSave(r)

CardCall(r) ==
  \/ \E u \in Uids :
       \/ \E f \in Fingerprints : AddCard(r, u, f)
       \/ \E c \in Sources : UpdateCard(r, u, c)
       \/ Connect(r, u) \/ Wallet(r, u)
  \/ \E c \in Sources : RemoveCard(r, c)

Init ==
  /\ AccountInit
  /\ customers = 0 /\ sources = 0 /\ held = {} /\ listed = {}
  /\ card = [c \in Sources |-> NoCard]

Next ==
  \/ AccountNext /\ UNCHANGED cardVars
  \/ \E r \in Requests : CardCall(r) \/ CardStep(r)

Spec == Init /\ [][Next]_vars

-----------------------------------------------------------------------------
(* Properties.                                                              *)

\* Every variable has its type.
TypeOK ==
  /\ AccountTypeOK
  /\ customers \in 0..MaxCustomers /\ sources \in 0..MaxSources
  /\ held \subseteq Sources /\ listed \subseteq Sources
  /\ card \in [Sources -> Card]

\* All cards of a user belong to the customer noted in the user's meta:
\* updatePaymentSource looks for them nowhere else.  Unless requests of the
\* user overlap, no writer of meta loses the customer, whatever stops where.
CardsOfOneCustomer ==
  \A c \in listed :
    LET u == card[c].user
    IN \/ u \notin users
       \/ row[u].meta.customer = card[c].customer
       \/ Marked({"overlapped", "destroyed", "renamed"}, u)

\* A user has no card twice, unless two requests overlapped.
OneCardOnce ==
  \A c, d \in listed :
    \/ c = d \/ card[c].user # card[d].user
    \/ card[c].fingerprint # card[d].fingerprint
    \/ Marked({"overlapped", "renamed"}, card[c].user)

\* A row whose card is gone at Stripe can never be removed, for deleteCard
\* fails; it stays only when the removal stopped between the two, or when the
\* row has changed hands meanwhile, which takes a user whose id was overwritten.
CardsAreReal ==
  \A c \in listed :
    \/ c \in held
    \/ \E r \in Requests : At(r, "removeCard", "destroy") /\ req[r].card = c
    \/ Marked({"torn", "renamed"}, card[c].user)
=============================================================================

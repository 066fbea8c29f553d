------------------------------ MODULE Accounts ------------------------------
(***************************************************************************)
(* User accounts: a login at Firebase and a row of table users, with the   *)
(* Firebase uid as its id, written one after the other by requests that    *)
(* may overlap or stop at any await.                                       *)
(*                                                                         *)
(* "Firebase is our source of truth, so create a user if we can't find     *)
(* one": any request with a valid token makes the missing row.  A token    *)
(* shows the email its account had when it was issued, and nothing asks    *)
(* whether the account is still there.                                     *)
(*                                                                         *)
(* A step that reads and the first write or the next call that waits for   *)
(* it are one action each; what a request has read is kept in req.  The    *)
(* cards of a user are in Cards, which extends this module.                *)
(***************************************************************************)
EXTENDS Naturals

CONSTANTS
  Emails,
  NoEmail,      \* of a login with a phone; of a row, the made-up address
  Requests,     \* slots: the requests the servers work on at once
  MaxAccounts,  \* bound: how many logins Firebase ever issues
  MaxPlaces,    \* bound: how many listings there are at once
  Mixes         \* bound: which calls a behaviour may make in which slot

ASSUME AccountsAssumption ==
  NoEmail \notin Emails /\ MaxAccounts \in Nat /\ MaxPlaces \in Nat

VARIABLES
  issued,    \* Firebase: how many uids it has issued
  accounts,  \* Firebase: the uids that have an account
  login,     \* Firebase: the email of each account
  had,       \* Firebase: the emails that tokens of each uid show
  users,     \* table users: the ids that have a row
  row,       \* table users: what the row of each id holds
  listings,  \* table listings: the hostId of each listing, 0 for none
  bookings,  \* table bookings: listing, guestId and hostId of the bookings
  credited,  \* the ids that credit balances refer to
  req,       \* the requests in progress
  calls,     \* the calls this behaviour may make, each with its slot
  marks      \* history: what has happened to a uid that excuses it

firebase == <<issued, accounts, login, had>>
table == <<users, row>>
belongings == <<listings, bookings, credited>>
accountVars == <<firebase, table, belongings, req, calls, marks>>

Uids == 1..MaxAccounts
Addresses == Emails \cup {NoEmail}
Places == 1..MaxPlaces
Booking == [listing : Places, guest : Uids, host : Uids]

\* customer: users.meta.stripeCustomerId, 0 for none.
Meta == [customer : Nat, connected : BOOLEAN]
Row == [email : Addresses, meta : Meta]
NoMeta == [customer |-> 0, connected |-> FALSE]
NoRow == [email |-> NoEmail, meta |-> NoMeta]

Handlers ==
  {"signUp", "context", "fetch", "login", "admin", "delete", "change", "own",
   "book", "move", "unlist", "addCard", "removeCard", "updateCard", "connect", "wallet"}

Awaits ==
  {"idle", "lookup", "find", "verify", "check", "bookings", "account", "create",
   "rename", "update", "save", "credit", "destroy", "store", "customer", "note", "source",
   "delete"}

Request ==
  [ call  : Handlers \cup {"none"},
    at    : Awaits,
    uid   : Uids \cup {0},   \* whose request it is, once it is known
    other : Uids \cup {0},   \* adminCreateHost: the id the row has now
    email : Addresses,
    meta  : Meta,            \* of the instance the request has loaded
    listing : Places \cup {0},
    host  : Uids \cup {0},   \* of the listing, as a booking of it has read it
    card  : Nat ]            \* a card's fingerprint, then its id at Stripe

Idle == [call |-> "none", at |-> "idle", uid |-> 0, other |-> 0,
         email |-> NoEmail, meta |-> NoMeta, listing |-> 0, host |-> 0, card |-> 0]

\* "torn": a change stopped between two stores.  "replayed": the row was
\* made from a token that no longer told the truth.  "moved": the user had a
\* listing that was given to another host.
Causes == {"overlapped", "torn", "replayed", "renamed", "destroyed", "moved"}

Marked(causes, u) == \E c \in causes : <<c, u>> \in marks

-----------------------------------------------------------------------------
(* Requests.                                                                *)

\* Another request is about the same user.
Overlap(r, ids) ==
  { <<"overlapped", u>> : u \in {v \in ids \ {0} : \E q \in Requests \ {r} :
                                   v \in {req[q].uid, req[q].other}} }

Become(r, request) ==
  /\ req' = [req EXCEPT ![r] = request]
  /\ marks' = marks \cup Overlap(r, {request.uid, request.other})

Go(r, at) == req' = [req EXCEPT ![r].at = at]

End(r) == req' = [req EXCEPT ![r] = Idle]

May(r, call) == req[r] = Idle /\ <<r, call>> \in calls

At(r, call, at) == req[r].call = call /\ req[r].at = at

-----------------------------------------------------------------------------
(* The two stores.                                                          *)

RowWith(e) == {u \in users : row[u].email = e}

LoginWith(e) == {u \in accounts : login[u] = e}

\* Primary key id, unique email; email is NOT NULL, and only fetchAndSync
\* makes an address up.
CanInsert(u, e) == u \notin users /\ (e \in Emails => RowWith(e) = {})

InsertRow(u, e) ==
  /\ users' = users \cup {u}
  /\ row' = [row EXCEPT ![u] = [email |-> e, meta |-> NoMeta]]

RemoveRow(u) ==
  /\ users' = users \ {u}
  /\ row' = [row EXCEPT ![u] = NoRow]

\* Firebase refuses an email another account has.
CanIssue(e) == issued < MaxAccounts /\ (e \in Emails => LoginWith(e) = {})

Issue(e) ==
  /\ issued' = issued + 1
  /\ accounts' = accounts \cup {issued + 1}
  /\ login' = [login EXCEPT ![issued + 1] = e]
  /\ had' = [had EXCEPT ![issued + 1] = {e}]

\* The web client signs up at Firebase itself: with a provider or a phone.
ClientSignUp(e) ==
  /\ <<"client", e>> \in calls
  /\ CanIssue(e)
  /\ Issue(e)
  /\ UNCHANGED <<table, belongings, req, calls, marks>>

-----------------------------------------------------------------------------
(* createUser                                                               *)

\* No row has the email.
SignUp(r, e) ==
  /\ May(r, "signUp")
  /\ RowWith(e) = {}
  /\ Become(r, [Idle EXCEPT !.call = "signUp", !.at = "lookup", !.email = e])
  /\ UNCHANGED <<firebase, table, belongings, calls>>

\* doesUserExist
SignUpLookup(r) ==
  /\ At(r, "signUp", "lookup")
  /\ IF LoginWith(req[r].email) = {} THEN Go(r, "account") ELSE End(r)
  /\ UNCHANGED <<firebase, table, belongings, calls, marks>>

SignUpAccount(r) ==
  /\ At(r, "signUp", "account")
  /\ IF CanIssue(req[r].email)
     THEN /\ Issue(req[r].email)
          /\ req' = [req EXCEPT ![r].at = "save", ![r].uid = issued + 1]
     ELSE End(r) /\ UNCHANGED firebase
  /\ UNCHANGED <<table, belongings, calls, marks>>

\* A request with the new token may have made the row first: then nothing is
\* credited.
SignUpSave(r) ==
  /\ At(r, "signUp", "save")
  /\ IF CanInsert(req[r].uid, req[r].email)
     THEN InsertRow(req[r].uid, req[r].email) /\ Go(r, "credit")
     ELSE End(r) /\ UNCHANGED table
  /\ UNCHANGED <<firebase, belongings, calls, marks>>

\* PromoCodeService.creditUser: with a known code there is a balance from now
\* on.
SignUpCredit(r) ==
  /\ At(r, "signUp", "credit")
  /\ credited' \in {credited, credited \cup {req[r].uid}}
  /\ End(r)
  /\ UNCHANGED <<firebase, table, listings, bookings, calls, marks>>

-----------------------------------------------------------------------------
(* Requests that make a missing row.                                        *)

\* The context of a GraphQL request: the token is valid, and no row is found.
Context(r, u, e) ==
  /\ May(r, "context")
  /\ e \in had[u]
  /\ u \notin users
  /\ Become(r, [Idle EXCEPT !.call = "context", !.at = "create", !.uid = u,
                            !.email = e])
  /\ UNCHANGED <<firebase, table, belongings, calls>>

ContextCreate(r) ==
  LET u == req[r].uid
      e == req[r].email
  IN /\ At(r, "context", "create")
     /\ IF e # NoEmail /\ CanInsert(u, e)
        THEN /\ InsertRow(u, e)
             /\ marks' = marks \cup
                  (IF u \in accounts /\ login[u] = e THEN {} ELSE {<<"replayed", u>>})
        ELSE UNCHANGED <<table, marks>>
     /\ End(r)
     /\ UNCHANGED <<firebase, belongings, calls>>

\* The same for the REST endpoints, which ask Firebase for the account first.
Fetch(r, u) ==
  /\ May(r, "fetch")
  /\ u \in accounts
  /\ Become(r, [Idle EXCEPT !.call = "fetch", !.at = "find", !.uid = u,
                            !.email = login[u]])
  /\ UNCHANGED <<firebase, table, belongings, calls>>

FetchFind(r) ==
  /\ At(r, "fetch", "find")
  /\ IF req[r].uid \in users THEN End(r) ELSE Go(r, "create")
  /\ UNCHANGED <<firebase, table, belongings, calls, marks>>

\* The made-up address contains the uid: nobody else has it.
FetchCreate(r) ==
  LET u == req[r].uid
      e == req[r].email
  IN /\ At(r, "fetch", "create")
     /\ IF CanInsert(u, e)
        THEN InsertRow(u, e)
        ELSE UNCHANGED table
     /\ End(r)
     /\ UNCHANGED <<firebase, belongings, calls, marks>>

\* createOrLoginWithProviders: getUserById has found the account.
Login(r, u) ==
  /\ May(r, "login")
  /\ u \in accounts
  /\ Become(r, [Idle EXCEPT !.call = "login", !.at = "find", !.uid = u,
                            !.email = login[u]])
  /\ UNCHANGED <<firebase, table, belongings, calls>>

LoginFind(r) ==
  /\ At(r, "login", "find")
  /\ IF req[r].uid \in users THEN End(r) ELSE Go(r, "verify")
  /\ UNCHANGED <<firebase, table, belongings, calls, marks>>

\* verifyFirebaseEmail fails when the account is gone.
LoginVerify(r) ==
  /\ At(r, "login", "verify")
  /\ IF req[r].email = NoEmail \/ req[r].uid \in accounts
     THEN Go(r, "create")
     ELSE End(r)
  /\ UNCHANGED <<firebase, table, belongings, calls, marks>>

LoginCreate(r) ==
  LET u == req[r].uid
      e == req[r].email
  IN /\ At(r, "login", "create")
     /\ IF e # NoEmail /\ CanInsert(u, e)
        THEN InsertRow(u, e)
        ELSE UNCHANGED table
     /\ End(r)
     /\ UNCHANGED <<firebase, belongings, calls, marks>>

-----------------------------------------------------------------------------
(* adminCreateHost                                                          *)

AdminCreateHost(r, e) ==
  /\ May(r, "admin")
  /\ \E old \in (IF RowWith(e) = {} THEN {0} ELSE RowWith(e)) :
       Become(r, [Idle EXCEPT !.call = "admin", !.at = "lookup", !.other = old,
                              !.email = e])
  /\ UNCHANGED <<firebase, table, belongings, calls>>

\* What adminCreateHost does once it has the account u of the email.
AdminFound(r, u) ==
  IF req[r].other = u
  THEN End(r) /\ UNCHANGED marks
  ELSE Become(r, [req[r] EXCEPT !.uid = u,
                    !.at = IF req[r].other = 0 THEN "create" ELSE "rename"])

\* getUserByEmail
AdminLookup(r) ==
  /\ At(r, "admin", "lookup")
  /\ \/ \E u \in LoginWith(req[r].email) : AdminFound(r, u)
     \/ /\ LoginWith(req[r].email) = {}
        /\ Go(r, "account")
        /\ UNCHANGED marks
  /\ UNCHANGED <<firebase, table, belongings, calls>>

\* createUser
AdminAccount(r) ==
  /\ At(r, "admin", "account")
  /\ IF CanIssue(req[r].email)
     THEN Issue(req[r].email) /\ AdminFound(r, issued + 1)
     ELSE End(r) /\ UNCHANGED <<firebase, marks>>
  /\ UNCHANGED <<table, belongings, calls>>

\* A row that gets another id takes its history along.
Inherited(old, u) == {<<c, u>> : c \in {d \in Causes : <<d, old>> \in marks}}

\* User.update of the id: nothing else refers to the new one.
AdminRename(r) ==
  LET u == req[r].uid
      old == req[r].other
  IN /\ At(r, "admin", "rename")
     /\ IF old \in users /\ u \notin users
        THEN /\ users' = (users \ {old}) \cup {u}
             /\ row' = [row EXCEPT ![u] = row[old], ![old] = NoRow]
             /\ marks' = marks \cup {<<"renamed", old>>, <<"renamed", u>>}
                               \cup Inherited(old, u)
        ELSE UNCHANGED <<table, marks>>
     /\ End(r)
     /\ UNCHANGED <<firebase, belongings, calls>>

AdminCreate(r) ==
  LET u == req[r].uid
      e == req[r].email
  IN /\ At(r, "admin", "create")
     /\ IF CanInsert(u, e) THEN InsertRow(u, e) ELSE UNCHANGED table
     /\ End(r)
     /\ UNCHANGED <<firebase, belongings, calls, marks>>

-----------------------------------------------------------------------------
(* deleteUser                                                               *)

Delete(r, u) ==
  /\ May(r, "delete")
  /\ u \in users
  /\ Become(r, [Idle EXCEPT !.call = "delete", !.at = "lookup", !.uid = u])
  /\ UNCHANGED <<firebase, table, belongings, calls>>

DeleteLookup(r) ==
  /\ At(r, "delete", "lookup")
  /\ IF req[r].uid \in accounts THEN Go(r, "check") ELSE End(r)
  /\ UNCHANGED <<firebase, table, belongings, calls, marks>>

Hosts(u) == \E p \in Places : listings[p] = u

\* Mutant: nobody asks for listings and bookings.
DeleteCheckNothing(r) ==
  /\ At(r, "delete", "check")
  /\ Go(r, "destroy")
  /\ UNCHANGED <<firebase, table, belongings, calls, marks>>

\* The user is the host of no listing.
DeleteCheck(r) ==
  /\ At(r, "delete", "check")
  /\ IF Hosts(req[r].uid) THEN End(r) ELSE Go(r, "bookings")
  /\ UNCHANGED <<firebase, table, belongings, calls, marks>>

\* Bookings by guestId; nobody asks for those by hostId, nor for a credit
\* balance.
Booked(u) == \E b \in bookings : b.guest = u

\* Mutant: the row is kept.
DeleteCheckKeepsRow(r) ==
  /\ At(r, "delete", "bookings")
  /\ IF Booked(req[r].uid) THEN End(r) ELSE Go(r, "account")
  /\ UNCHANGED <<firebase, table, belongings, calls, marks>>

\* The user is the guest of no booking.
DeleteCheckBookings(r) ==
  /\ At(r, "delete", "bookings")
  /\ IF Booked(req[r].uid) THEN End(r) ELSE Go(r, "destroy")
  /\ UNCHANGED <<firebase, table, belongings, calls, marks>>

DeleteRow(r) ==
  LET u == req[r].uid
  IN /\ At(r, "delete", "destroy")
     /\ IF u \in users
        THEN /\ RemoveRow(u)
             /\ Go(r, "account")
             /\ marks' = marks \cup {<<"destroyed", u>>}
        ELSE End(r) /\ UNCHANGED <<table, marks>>
     /\ UNCHANGED <<firebase, belongings, calls>>

DeleteAccount(r) ==
  LET u == req[r].uid
  IN /\ At(r, "delete", "account")
     /\ accounts' = accounts \ {u}
     /\ login' = [login EXCEPT ![u] = NoEmail]
     /\ End(r)
     /\ UNCHANGED <<issued, had, table, belongings, calls, marks>>

-----------------------------------------------------------------------------
(* updateUser and updateHost: Firebase first, then the row.                 *)

\* The row is found, then the account.
Change(r, u, e) ==
  /\ May(r, "change")
  /\ u \in users
  /\ Become(r, [Idle EXCEPT !.call = "change", !.at = "lookup", !.uid = u,
                            !.email = e, !.meta = row[u].meta])
  /\ UNCHANGED <<firebase, table, belongings, calls>>

ChangeLookup(r) ==
  /\ At(r, "change", "lookup")
  /\ IF req[r].uid \in accounts THEN Go(r, "update") ELSE End(r)
  /\ UNCHANGED <<firebase, table, belongings, calls, marks>>

\* Mutant: what Firebase answers is not looked at.
ChangeAccountIgnored(r) ==
  LET u == req[r].uid
      e == req[r].email
  IN /\ At(r, "change", "update")
     /\ IF u \in accounts /\ LoginWith(e) \subseteq {u}
        THEN /\ login' = [login EXCEPT ![u] = e]
             /\ had' = [had EXCEPT ![u] = @ \cup {e}]
        ELSE UNCHANGED <<login, had>>
     /\ Go(r, "save")
     /\ UNCHANGED <<issued, accounts, table, belongings, calls, marks>>

\* firebaseAuth.updateUser
ChangeAccount(r) ==
  LET u == req[r].uid
      e == req[r].email
  IN /\ At(r, "change", "update")
     /\ IF u \in accounts /\ LoginWith(e) \subseteq {u}
        THEN /\ login' = [login EXCEPT ![u] = e]
             /\ had' = [had EXCEPT ![u] = @ \cup {e}]
             /\ Go(r, "save")
        ELSE End(r) /\ UNCHANGED <<login, had>>
     /\ UNCHANGED <<issued, accounts, table, belongings, calls, marks>>

\* An update of a row that is gone changes none; the database refuses an
\* email another row has, and Firebase is not asked to take it back.
ChangeSave(r) ==
  LET u == req[r].uid
      e == req[r].email
  IN /\ At(r, "change", "save")
     /\ IF RowWith(e) \subseteq {u}
        THEN /\ row' = IF u \in users
                       THEN [row EXCEPT ![u] = [email |-> e, meta |-> req[r].meta]]
                       ELSE row
             /\ UNCHANGED marks
        ELSE marks' = marks \cup {<<"torn", u>>} /\ UNCHANGED row
     /\ End(r)
     /\ UNCHANGED <<firebase, users, belongings, calls>>

-----------------------------------------------------------------------------
(* Listings and bookings: who they refer to.                               *)

\* Ids are not given twice: what is left of a deleted listing keeps its number.
Unused(p) ==
  /\ listings[p] = 0
  /\ \A b \in bookings : b.listing # p
  /\ \A r \in Requests : req[r].listing # p

\* createListing has found its user's row.
Own(r, u) ==
  /\ May(r, "own")
  /\ u \in users
  /\ \E p \in Places : Unused(p)
  /\ Become(r, [Idle EXCEPT !.call = "own", !.at = "store", !.uid = u])
  /\ UNCHANGED <<firebase, table, belongings, calls>>

OwnStore(r) ==
  /\ At(r, "own", "store")
  /\ \E p \in Places :
       Unused(p) /\ listings' = [listings EXCEPT ![p] = req[r].uid]
  /\ End(r)
  /\ UNCHANGED <<firebase, table, bookings, credited, calls, marks>>

\* A guest with a row has found the listing, and in it the host.
Book(r, u, p) ==
  /\ May(r, "book")
  /\ u \in users
  /\ listings[p] # 0
  /\ Become(r, [Idle EXCEPT !.call = "book", !.at = "store", !.uid = u,
                            !.listing = p, !.host = listings[p]])
  /\ UNCHANGED <<firebase, table, belongings, calls>>

BookStore(r) ==
  /\ At(r, "book", "store")
  /\ bookings' = bookings \cup
       {[listing |-> req[r].listing, guest |-> req[r].uid, host |-> req[r].host]}
  /\ End(r)
  /\ UNCHANGED <<firebase, table, listings, credited, calls, marks>>

\* updateListing with a hostEmail, by an admin: the row with the email is not
\* the host's.
Move(r, u, p) ==
  /\ May(r, "move")
  /\ u \in users
  /\ listings[p] \notin {0, u}
  /\ Become(r, [Idle EXCEPT !.call = "move", !.at = "store", !.uid = u, !.listing = p])
  /\ UNCHANGED <<firebase, table, belongings, calls>>

\* The bookings of the listing keep their host.
MoveStore(r) ==
  LET p == req[r].listing
      host == listings[p]
  IN /\ At(r, "move", "store")
     /\ IF host = 0
        THEN UNCHANGED <<listings, marks>>
        ELSE /\ listings' = [listings EXCEPT ![p] = req[r].uid]
             /\ marks' = marks \cup
                  (IF host = req[r].uid THEN {} ELSE {<<"moved", host>>})
     /\ End(r)
     /\ UNCHANGED <<firebase, table, bookings, credited, calls>>

\* deleteListing: there is no booking of the listing.
Unlist(r, p) ==
  /\ May(r, "unlist")
  /\ listings[p] # 0
  /\ \A b \in bookings : b.listing # p
  /\ Become(r, [Idle EXCEPT !.call = "unlist", !.at = "store", !.listing = p])
  /\ UNCHANGED <<firebase, table, belongings, calls>>

\* Somebody books, or has booked, the listing all the same.
BookedMeanwhile(p) ==
  \/ \E b \in bookings : b.listing = p
  \/ \E r \in Requests : req[r].call = "book" /\ req[r].listing = p

UnlistStore(r) ==
  LET p == req[r].listing
      host == listings[p]
  IN /\ At(r, "unlist", "store")
     /\ listings' = [listings EXCEPT ![p] = 0]
     /\ marks' = marks \cup
          (IF host # 0 /\ BookedMeanwhile(p) THEN {<<"overlapped", host>>} ELSE {})
     /\ End(r)
     /\ UNCHANGED <<firebase, table, bookings, credited, calls>>

-----------------------------------------------------------------------------
(* Everything together.                                                     *)

\* One of two stores has been written already.
HalfDone(r) == At(r, "change", "save") \/ At(r, "removeCard", "destroy")

\* The server stops, or a call it waits for fails.
Crash(r) ==
  /\ <<r, "crash">> \in calls
  /\ req[r] # Idle
  /\ marks' = IF HalfDone(r) THEN marks \cup {<<"torn", req[r].uid>>} ELSE marks
  /\ End(r)
  /\ UNCHANGED <<firebase, table, belongings, calls>>

AccountStep(r) ==
  \/ SignUpLookup(r) \/ SignUpAccount(r) \/ SignUpSave(r) \/ SignUpCredit(r)
  \/ ContextCreate(r)
  \/ FetchFind(r) \/ FetchCreate(r)
  \/ LoginFind(r) \/ LoginVerify(r) \/ LoginCreate(r)
  \/ AdminLookup(r) \/ AdminAccount(r) \/ AdminRename(r) \/ AdminCreate(r)
  \/ DeleteLookup(r) \/ DeleteCheck(r) \/ DeleteCheckBookings(r)
  \/ DeleteRow(r) \/ DeleteAccount(r)
  \/ ChangeLookup(r) \/ ChangeAccount(r) \/ ChangeSave(r)
  \/ OwnStore(r) \/ BookStore(r) \/ MoveStore(r) \/ UnlistStore(r)

AccountCall(r) ==
  \/ \E e \in Emails : SignUp(r, e) \/ AdminCreateHost(r, e)
  \/ \E u \in Uids :
       \/ \E e \in Addresses : Context(r, u, e)
       \/ Fetch(r, u) \/ Login(r, u) \/ Delete(r, u) \/ Own(r, u)
       \/ \E e \in Emails : Change(r, u, e)
       \/ \E p \in Places : Book(r, u, p) \/ Move(r, u, p)
  \/ \E p \in Places : Unlist(r, p)

AccountInit ==
  /\ issued = 0 /\ accounts = {}
  /\ login = [u \in Uids |-> NoEmail]
  /\ had = [u \in Uids |-> {}]
  /\ users = {} /\ row = [u \in Uids |-> NoRow]
  /\ listings = [p \in Places |-> 0] /\ bookings = {} /\ credited = {}
  /\ req = [r \in Requests |-> Idle]
  /\ calls \in Mixes
  /\ marks = {}

AccountNext ==
  \/ \E e \in Addresses : ClientSignUp(e)
  \/ \E r \in Requests : AccountCall(r) \/ AccountStep(r) \/ Crash(r)

AccountSpec == AccountInit /\ [][AccountNext]_accountVars

-----------------------------------------------------------------------------
(* Properties.                                                              *)

\* Every variable has its type.
AccountTypeOK ==
  /\ issued \in 0..MaxAccounts /\ accounts \subseteq Uids
  /\ login \in [Uids -> Addresses]
  /\ had \in [Uids -> SUBSET Addresses]
  /\ users \subseteq Uids
  /\ row \in [Uids -> Row]
  /\ listings \in [Places -> Uids \cup {0}] /\ bookings \subseteq Booking
  /\ credited \subseteq Uids
  /\ req \in [Requests -> Request]
  /\ calls \in Mixes
  /\ marks \subseteq Causes \X Uids

\* A row whose login is gone keeps its email from ever being used again.
\* However deletions stop, they leave none: only a request that overlapped
\* with the deletion, or a token that outlived the account, makes one.
RowHasLogin ==
  \A u \in users : u \in accounts \/ Marked({"overlapped", "replayed"}, u)

\* The row and the login of a user have the same email, unless a change
\* stopped between the two (or is there now), or requests about the user
\* overlapped, or the row was made from an old token.
EmailsAgree ==
  \A u \in users \cap accounts :
    \/ row[u].email = login[u]
    \/ \E r \in Requests : At(r, "change", "save") /\ req[r].uid = u
    \/ Marked({"overlapped", "torn", "replayed"}, u)

\* Listings, bookings and credit refer to a user that is there.  A user who
\* has listings, or bookings as a guest, is not deleted, but adminCreateHost may
\* give the row another id; the credit is nobody's business when a user is
\* deleted.  The host of a booking is asked for only through the listing: so
\* long as no listing of the host was given away, that is enough.
OwnersExist ==
  /\ \A u \in Uids :
       Hosts(u) \/ Booked(u) => u \in users \/ Marked({"overlapped", "renamed"}, u)
  /\ \A b \in bookings :
       b.host \in users \/ Marked({"overlapped", "renamed", "moved"}, b.host)
  /\ \A u \in credited :
       u \in users \/ Marked({"overlapped", "renamed", "destroyed"}, u)
=============================================================================

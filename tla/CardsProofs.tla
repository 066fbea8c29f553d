----------------------------- MODULE CardsProofs -----------------------------
(***************************************************************************)
(* The properties of Cards, and those of Accounts with the cards there,    *)
(* for any number of logins, requests, customers and cards.                *)
(*                                                                         *)
(* First what every step of Accounts leaves as it must be: a row has a     *)
(* login, the emails of the two agree, and owners exist, but for the       *)
(* causes the properties name.  Then the customers and the cards, and the  *)
(* theorems.                                                               *)
(***************************************************************************)
EXTENDS Cards, TLAPS

(***************************************************************************)
(* A request works on the users of its ids.  What it has read of them      *)
(* stays true until it is used (Undisturbed), because whoever changes it   *)
(* meanwhile is another request about the user, for which the user is      *)
(* marked (Met).                                                           *)
(***************************************************************************)
IdsOf(q) == {q.uid, q.other} \ {0}

Knows(q) == q.uid \in accounts /\ login[q.uid] = q.email

SeesUid(q) ==
  /\ q.call = "signUp" /\ q.at = "save" => Knows(q)
  /\ q.call = "signUp" /\ q.at = "credit" => q.uid \in users
  /\ q.call \in {"fetch", "login", "admin"} => Knows(q)
  /\ q.call = "change" /\ q.at = "save" => login[q.uid] = q.email
  /\ q.call = "delete" /\ q.at \in {"bookings", "destroy"} => ~ Hosts(q.uid)
  /\ q.call = "delete" /\ q.at = "destroy" => ~ Booked(q.uid)
  /\ q.call = "delete" /\ q.at = "account" => q.uid \notin users
  /\ q.call \in {"own", "book", "move"} => q.uid \in users

SeesOther(q) ==
  q.call = "admin" /\ q.other \in users => row[q.other].email = q.email

Disturbed(v) == <<"overlapped", v>> \in marks

Sees(q) ==
  /\ q.uid = 0 \/ Disturbed(q.uid) \/ SeesUid(q)
  /\ q.other = 0 \/ Disturbed(q.other) \/ SeesOther(q)

Undisturbed == \A r \in Requests : Sees(req[r])

Met ==
  \A r, s \in Requests :
    r # s => \A v \in IdsOf(req[r]) \cap IdsOf(req[s]) : Disturbed(v)

\* Whose request it is, is known where it must be.
Shape(q) ==
  /\ q.call \notin {"none", "signUp", "admin", "unlist"} => q.uid # 0
  /\ q.call = "signUp" /\ q.at \in {"save", "credit"} => q.uid # 0
  /\ q.call = "admin" /\ q.at \in {"rename", "create"} => q.uid # 0
  /\ q.call = "admin" /\ q.at = "rename" => q.other # 0
  /\ q.call # "admin" => q.other = 0
  /\ q.call \in {"book", "move", "unlist"} => q.listing \in Places
  /\ q.call = "book" => q.host \in Uids

Numbered ==
  /\ \A v \in users \cup accounts \cup credited : v <= issued
  /\ \A v \in Uids : Hosts(v) \/ Booked(v) => v <= issued
  /\ \A v \in Uids : v <= issued \/ had[v] = {}
  /\ \A r \in Requests : req[r].uid <= issued /\ req[r].other <= issued

\* The properties, of one user.
Changing(v) == \E r \in Requests : At(r, "change", "save") /\ req[r].uid = v

Sound(v) ==
  /\ v \in users => v \in accounts \/ Marked({"overlapped", "replayed"}, v)
  /\ v \in users \cap accounts =>
       \/ row[v].email = login[v]
       \/ Changing(v)
       \/ Marked({"overlapped", "torn", "replayed"}, v)
  /\ Hosts(v) \/ Booked(v) => v \in users \/ Marked({"overlapped", "renamed"}, v)
  /\ v \in credited => v \in users \/ Marked({"overlapped", "renamed", "destroyed"}, v)

AccountInv ==
  /\ AccountTypeOK
  /\ Numbered /\ Met /\ Undisturbed
  /\ \A r \in Requests : Shape(req[r])
  /\ \A v \in Uids : Sound(v)

-----------------------------------------------------------------------------
(***************************************************************************)
(* Types.                                                                  *)
(***************************************************************************)
LEMMA IdleType ==
  /\ NoMeta \in Meta /\ NoRow \in Row
  /\ Idle \in Request /\ Idle.uid = 0 /\ Idle.other = 0 /\ Idle.call = "none"
  /\ IdsOf(Idle) = {} /\ Shape(Idle)
<1>1. NoMeta \in Meta /\ NoRow \in Row
  BY DEF NoMeta, Meta, NoRow, Row, Addresses
<1>2. Idle \in Request
  BY <1>1 DEF Idle, Request, Handlers, Awaits, Addresses
<1> QED
  BY <1>1, <1>2 DEF Idle, IdsOf, Shape

LEMMA UidType == Uids \subseteq Nat \ {0}
  BY AccountsAssumption DEF Uids

LEMMA UidOrNone == \A v \in Uids \cup {0} : v \in Nat /\ (v # 0 => v \in Uids)
  BY UidType

LEMMA GoType ==
  ASSUME AccountTypeOK, NEW r \in Requests, NEW at \in Awaits
  PROVE  /\ [req[r] EXCEPT !.at = at] \in Request
         /\ [req EXCEPT ![r].at = at] = [req EXCEPT ![r] = [req[r] EXCEPT !.at = at]]
<1>1. req[r] \in Request
  BY DEF AccountTypeOK
<1> QED
  BY <1>1 DEF AccountTypeOK, Request

(***************************************************************************)
(* A step of request r that leaves alone all users but its own.            *)
(***************************************************************************)
MetHere(r, v) ==
  \A s \in Requests \ {r} : v \in IdsOf(req[s]) => Disturbed(v)

Same(v) ==
  /\ (v \in users)' = (v \in users) /\ (v \in accounts)' = (v \in accounts)
  /\ (v \in credited)' = (v \in credited)
  /\ Hosts(v)' => Hosts(v)
  /\ Booked(v)' => Booked(v)
  /\ row'[v].email = row[v].email /\ login'[v] = login[v] /\ had'[v] = had[v]

Typed ==
  /\ issued' \in 0..MaxAccounts /\ issued <= issued'
  /\ accounts' \subseteq Uids /\ login' \in [Uids -> Addresses]
  /\ had' \in [Uids -> SUBSET Addresses]
  /\ users' \subseteq Uids /\ row' \in [Uids -> Row]
  /\ listings' \in [Places -> Uids \cup {0}] /\ bookings' \subseteq Booking
  /\ credited' \subseteq Uids
  /\ calls' = calls
  /\ marks \subseteq marks' /\ marks' \subseteq Causes \X Uids

LEMMA MarksGrow ==
  ASSUME marks \subseteq marks', NEW causes, NEW v, Marked(causes, v)
  PROVE  Marked(causes, v)'
  BY DEF Marked

LEMMA SeesStays ==
  ASSUME NEW q, marks \subseteq marks', Sees(q), q.uid = 0 \/ Same(q.uid),
         q.other = 0 \/ Same(q.other)
  PROVE  Sees(q)'
  BY DEF Sees, SeesUid, SeesOther, Knows, Same, Disturbed

LEMMA StepKeeps ==
  ASSUME AccountInv, Typed, NEW r \in Requests, NEW q \in Request,
         req' = [req EXCEPT ![r] = q],
         \A v \in IdsOf(q) \ IdsOf(req[r]) : v > issued \/ MetHere(r, v)',
         IdsOf(q) \subseteq 1..issued', Shape(q), Sees(q)',
         \A v \in Uids : v \notin IdsOf(req[r]) \cup IdsOf(q) => Same(v),
         \A v \in Uids : v \in IdsOf(req[r]) \cup IdsOf(q) => Sound(v)'
  PROVE  AccountInv'
<1>1. /\ req' \in [Requests -> Request] /\ req'[r] = q
      /\ \A s \in Requests : s # r => req'[s] = req[s]
      /\ \A s \in Requests : req[s] \in Request
  BY DEF AccountInv, AccountTypeOK
<1>0. Met'
  <2>0. \A s \in Requests : \A v \in IdsOf(req[s]) : v \in Nat /\ v <= issued
    BY <1>1, UidOrNone DEF IdsOf, Request, AccountInv, Numbered
  <2>1. issued \in Nat
    BY DEF AccountInv, AccountTypeOK
  <2>2. \A v : Disturbed(v) => Disturbed(v)'
    BY DEF Typed, Disturbed
  <2>3. ASSUME NEW s \in Requests \ {r}, NEW v \in IdsOf(q), v \in IdsOf(req[s])
        PROVE  Disturbed(v)'
    <3>1. v \in Nat /\ v <= issued /\ req'[s] = req[s]
      BY <1>1, <2>0, <2>3
    <3>2. CASE v \in IdsOf(req[r])
      BY <2>2, <2>3, <3>2 DEF AccountInv, Met
    <3>3. CASE v \notin IdsOf(req[r])
      <4>1. MetHere(r, v)'
        BY <2>1, <2>3, <3>1, <3>3
      <4>2. v \in IdsOf(req'[s])
        BY <2>3, <3>1
      <4> QED
        BY <4>1, <4>2 DEF MetHere, IdsOf, Disturbed
    <3> QED
      BY <3>2, <3>3
  <2> SUFFICES ASSUME NEW s \in Requests, NEW t \in Requests, s # t,
                      NEW v \in IdsOf(req'[s]), v \in IdsOf(req'[t])
               PROVE  Disturbed(v)'
    BY DEF Met, IdsOf, Disturbed
  <2>4. CASE s = r
    BY <1>1, <2>3, <2>4
  <2>5. CASE t = r
    BY <1>1, <2>3, <2>5
  <2>6. CASE s # r /\ t # r
    BY <1>1, <2>2, <2>6 DEF AccountInv, Met
  <2> QED
    BY <2>4, <2>5, <2>6
<1>2. AccountTypeOK'
  BY <1>1 DEF AccountTypeOK, AccountInv, Typed
<1>3. issued \in Nat /\ issued' \in Nat /\ issued <= issued'
  BY AccountsAssumption DEF Typed, AccountInv, AccountTypeOK
<1>4. \A v \in IdsOf(req[r]) \cup IdsOf(q) : v <= issued' /\ v \in Nat
  <2>1. \A v \in IdsOf(req[r]) : v <= issued /\ v \in Uids
    BY <1>1 DEF IdsOf, AccountInv, Numbered, Request
  <2>2. \A v \in Uids : v <= issued => v <= issued'
    BY <1>3, UidType
  <2>3. \A v \in IdsOf(q) : v <= issued' /\ v \in Uids
    BY <1>3 DEF IdsOf, Request
  <2> QED
    BY <2>1, <2>2, <2>3, UidType
<1>5. Numbered'
  <2>1. \A v \in Uids :
          v \in users' \cup accounts' \cup credited' \/ Hosts(v)' \/ Booked(v)' => v <= issued'
    BY <1>3, <1>4, UidType DEF Same, AccountInv, Numbered
  <2>2. \A v \in Uids : v <= issued' \/ had'[v] = {}
    <3> SUFFICES ASSUME NEW v \in Uids, ~(v <= issued')
                 PROVE  had'[v] = {}
      OBVIOUS
    <3>1. v \notin IdsOf(req[r]) \cup IdsOf(q) /\ ~(v <= issued)
      BY <1>3, <1>4, UidType
    <3> QED
      BY <3>1 DEF Same, AccountInv, Numbered
  <2>3. \A s \in Requests : req'[s].uid <= issued' /\ req'[s].other <= issued'
    <3> TAKE s \in Requests
    <3>1. CASE s = r
      BY <1>1, <1>3, <1>4, <3>1, UidType DEF IdsOf, Request
    <3>2. CASE s # r
      <4>1. req[s] \in Request /\ req[s].uid <= issued /\ req[s].other <= issued
        BY <1>1 DEF AccountInv, Numbered
      <4>2. req[s].uid \in Nat /\ req[s].other \in Nat
        <5>1. req[s].uid \in Uids \cup {0} /\ req[s].other \in Uids \cup {0}
          BY <4>1 DEF Request
        <5> QED
          BY <5>1, UidOrNone
      <4>3. req'[s] = req[s]
        BY <1>1, <3>2
      <4> HIDE <1>1
      <4> QED
        BY <1>3, <4>1, <4>2, <4>3
    <3> QED
      BY <3>1, <3>2
  <2> QED
    BY <2>1, <2>2, <2>3 DEF Numbered, Typed
<1>6. Undisturbed'
  <2> SUFFICES ASSUME NEW s \in Requests
               PROVE  Sees(req[s])'
    BY DEF Undisturbed
  <2>1. CASE s = r
    BY <1>1, <2>1 DEF Sees, SeesUid, SeesOther, Knows, Disturbed
  <2>2. CASE s # r
    <3>1. req'[s] = req[s] /\ Sees(req[s]) /\ req[s] \in Request
      BY <1>1, <2>2 DEF AccountInv, Undisturbed
    <3> DEFINE ids == IdsOf(req[r]) \cup IdsOf(q)
    <3>2. \A v \in IdsOf(req[s]) : v \in ids => Disturbed(v)'
      <4>1. \A v \in IdsOf(req[s]) : v \in IdsOf(req[r]) => Disturbed(v)'
        BY <2>2 DEF AccountInv, Met, Disturbed, Typed
      <4>2. \A v \in IdsOf(req'[s]) : v \in IdsOf(req'[r]) => Disturbed(v)'
        BY <1>0, <2>2 DEF Met, IdsOf, Disturbed
      <4> QED
        BY <1>1, <2>2, <4>1, <4>2
    <3>3. \A v \in IdsOf(req[s]) : v \notin ids => Same(v)
      BY <3>1 DEF IdsOf, Request
    <3>0. \A v \in IdsOf(req[s]) : Same(v) \/ Disturbed(v)'
      BY <3>2, <3>3
    <3> HIDE DEF ids
    <3>4. PICK v : v = req[s].uid /\ (v = 0 \/ Disturbed(v)' \/ Same(v))
      BY <3>0 DEF IdsOf
    <3>5. PICK w : w = req[s].other /\ (w = 0 \/ Disturbed(w)' \/ Same(w))
      BY <3>0 DEF IdsOf
    <3>6. marks \subseteq marks'
      BY DEF Typed
    <3> QED
      BY <3>1, <3>4, <3>5, <3>6 DEF Sees, SeesUid, SeesOther, Knows, Same, Disturbed
  <2> QED
    BY <2>1, <2>2
<1>7. \A s \in Requests : Shape(req'[s])
  BY <1>1 DEF AccountInv
<1>8. \A v \in Uids : Sound(v)'
  <2> SUFFICES ASSUME NEW v \in Uids, v \notin IdsOf(req[r]) \cup IdsOf(q)
               PROVE  Sound(v)'
    OBVIOUS
  <2>1. Sound(v) /\ Same(v) /\ v # 0
    BY UidType DEF AccountInv
  <2>2. Changing(v) => Changing(v)'
    <3> SUFFICES ASSUME NEW s \in Requests, At(s, "change", "save"), req[s].uid = v
                 PROVE  Changing(v)'
      BY DEF Changing
    <3>1. s # r
      BY <2>1 DEF IdsOf
    <3> QED
      BY <1>1, <3>1 DEF Changing, At
  <2>3. \A causes : Marked(causes, v) => Marked(causes, v)'
    BY MarksGrow DEF Typed
  <2> QED
    BY <2>1, <2>2, <2>3 DEF Sound, Same
<1> QED
  BY <1>0, <1>2, <1>5, <1>6, <1>7, <1>8 DEF AccountInv

\* A user the step leaves alone.
LEMMA SoundStays ==
  ASSUME NEW v, Sound(v), Same(v), marks \subseteq marks',
         Changing(v) => Changing(v)' \/ Marked({"overlapped", "torn"}, v)'
  PROVE  Sound(v)'
<1>1. \A causes : Marked(causes, v) => Marked(causes, v)'
  BY MarksGrow
<1>2. Marked({"overlapped", "torn"}, v)' => Marked({"overlapped", "torn", "replayed"}, v)'
  BY DEF Marked
<1> QED
  BY <1>1, <1>2 DEF Sound, Same

LEMMA ChangingStays ==
  ASSUME AccountTypeOK, NEW r \in Requests, NEW q, req' = [req EXCEPT ![r] = q],
         NEW v, Changing(v), At(r, "change", "save") => req[r].uid # v
  PROVE  Changing(v)'
<1>1. PICK s \in Requests : At(s, "change", "save") /\ req[s].uid = v
  BY DEF Changing
<1>2. s # r /\ req'[s] = req[s]
  BY <1>1 DEF AccountTypeOK
<1> QED
  BY <1>1, <1>2 DEF Changing, At

(***************************************************************************)
(* A step that changes no email and no id.                                 *)
(***************************************************************************)
Kept ==
  /\ UNCHANGED <<firebase, users, belongings, calls>>
  /\ row' \in [Uids -> Row]
  /\ \A v \in Uids : row'[v].email = row[v].email
  /\ marks \subseteq marks' /\ marks' \subseteq Causes \X Uids

LEMMA KeptTyped ==
  ASSUME AccountTypeOK, Kept
  PROVE  Typed /\ \A v \in Uids : Same(v)
<1>1. issued \in Nat
  BY AccountsAssumption DEF AccountTypeOK
<1> QED
  BY <1>1 DEF AccountTypeOK, Kept, Typed, Same, firebase, belongings, Hosts, Booked

LEMMA KeptStep ==
  ASSUME AccountInv, Kept, NEW r \in Requests, NEW q \in Request,
         req' = [req EXCEPT ![r] = q],
         \A v \in IdsOf(q) \ IdsOf(req[r]) : MetHere(r, v)',
         IdsOf(q) \subseteq 1..issued, Shape(q), Sees(q)',
         At(r, "change", "save") => <<"torn", req[r].uid>> \in marks'
  PROVE  AccountInv'
<1>1. AccountTypeOK /\ (\A v \in Uids : Sound(v)) /\ UNCHANGED issued
      /\ marks \subseteq marks'
  BY DEF AccountInv, Kept, firebase
<1>2. Typed /\ \A v \in Uids : Same(v)
  BY <1>1, KeptTyped
<1>3. ASSUME NEW v \in Uids
      PROVE  Sound(v)'
  <2>1. CASE At(r, "change", "save") /\ req[r].uid = v
    <3>1. Marked({"overlapped", "torn"}, v)'
      BY <2>1 DEF Marked
    <3> QED
      BY <1>1, <1>2, <3>1, SoundStays
  <2>2. CASE At(r, "change", "save") => req[r].uid # v
    BY <1>1, <1>2, <2>2, ChangingStays, SoundStays
  <2> QED
    BY <2>1, <2>2
<1>4. \A v \in IdsOf(q) \ IdsOf(req[r]) : v > issued \/ MetHere(r, v)'
  OBVIOUS
<1>5. IdsOf(q) \subseteq 1..issued'
  BY <1>1
<1> HIDE DEF Kept
<1> QED
  BY <1>2, <1>3, <1>4, <1>5, StepKeeps

\* What a request is about when it goes on or ends.
LEMMA GoKeeps ==
  ASSUME AccountInv, NEW r \in Requests, NEW q \in Request,
         IdsOf(q) \subseteq IdsOf(req[r])
  PROVE  /\ IdsOf(q) \subseteq 1..issued
         /\ IdsOf(q) \ IdsOf(req[r]) = {}
<1>1. req[r].uid \in Uids \cup {0} /\ req[r].other \in Uids \cup {0}
  BY DEF AccountInv, AccountTypeOK, Request
<1>2. issued \in Nat /\ req[r].uid <= issued /\ req[r].other <= issued
  BY DEF AccountInv, AccountTypeOK, Numbered
<1>3. \A v \in IdsOf(req[r]) : v \in Uids /\ v \in Nat \ {0} /\ v <= issued
  BY <1>1, <1>2, UidType DEF IdsOf
<1> QED
  BY <1>2, <1>3

\* What is known of another request about the same user.
LEMMA BecomeMeets ==
  ASSUME AccountInv, NEW r \in Requests, NEW q \in Request, Become(r, q)
  PROVE  /\ req' = [req EXCEPT ![r] = q]
         /\ \A v \in IdsOf(q) : MetHere(r, v)'
         /\ marks \subseteq marks' /\ marks' \subseteq Causes \X Uids
<1>1. \A s \in Requests \ {r} : req'[s] = req[s]
  BY DEF Become, AccountInv, AccountTypeOK
<1>2. ASSUME NEW v \in IdsOf(q), NEW s \in Requests \ {r}, v \in IdsOf(req[s])'
      PROVE  <<"overlapped", v>> \in marks'
  BY <1>1, <1>2 DEF Become, Overlap, IdsOf
<1>3. Overlap(r, {q.uid, q.other}) \subseteq Causes \X Uids
  BY DEF Overlap, Request, Causes
<1> QED
  BY <1>2, <1>3 DEF Become, MetHere, Disturbed, AccountInv, AccountTypeOK

-----------------------------------------------------------------------------
(***************************************************************************)
(* Steps that only read, and the end of a request.                         *)
(***************************************************************************)
LEMMA EndKeeps ==
  ASSUME AccountInv, Kept, NEW r \in Requests, End(r),
         At(r, "change", "save") => <<"torn", req[r].uid>> \in marks'
  PROVE  AccountInv'
<1>1. Idle \in Request /\ IdsOf(Idle) = {} /\ Shape(Idle)
  BY IdleType
<1>2. Sees(Idle)'
  BY IdleType DEF Sees
<1>3. req' = [req EXCEPT ![r] = Idle]
  BY DEF End
<1> QED
  BY <1>1, <1>2, <1>3, KeptStep

\* A request that goes on.
GoesTo(q, r, at) ==
  /\ q.at = at /\ q.call = req[r].call /\ q.email = req[r].email
  /\ q.uid = req[r].uid /\ q.other = req[r].other

LEMMA GoIs ==
  ASSUME AccountTypeOK, NEW r \in Requests, NEW at \in Awaits
  PROVE  \E q \in Request :
           /\ q = [req[r] EXCEPT !.at = at]
           /\ [req EXCEPT ![r].at = at] = [req EXCEPT ![r] = q]
           /\ GoesTo(q, r, at)
           /\ IdsOf(q) = IdsOf(req[r])
<1>1. PICK q : q = [req[r] EXCEPT !.at = at]
  OBVIOUS
<1>2. req[r] \in Request
  BY DEF AccountTypeOK
<1>3. GoesTo(q, r, at)
  BY <1>1, <1>2 DEF Request, GoesTo
<1> QED
  BY <1>1, <1>3, GoType DEF IdsOf, GoesTo

LEMMA ReadKeeps ==
  ASSUME AccountInv, NEW r \in Requests, NEW at \in Awaits,
         UNCHANGED <<firebase, table, belongings, calls, marks>>,
         Go(r, at), ~ At(r, "change", "save"),
         \A q \in Request : GoesTo(q, r, at) =>
           Shape(q) /\ (q.uid = 0 \/ Disturbed(q.uid) \/ SeesUid(q))
  PROVE  AccountInv'
<1>1. PICK q \in Request :
        /\ [req EXCEPT ![r].at = at] = [req EXCEPT ![r] = q]
        /\ GoesTo(q, r, at)
        /\ IdsOf(q) = IdsOf(req[r])
  BY GoIs DEF AccountInv
<1>2. Shape(q) /\ (q.uid = 0 \/ Disturbed(q.uid) \/ SeesUid(q))
  BY <1>1
<1>3. Kept
  BY DEF Kept, table, AccountInv, AccountTypeOK
<1>4. q.other = 0 \/ Disturbed(q.other) \/ SeesOther(q)
  BY <1>1 DEF AccountInv, Undisturbed, Sees, SeesOther, GoesTo
<1>5. Sees(q)'
  BY <1>2, <1>4 DEF Sees, SeesUid, SeesOther, Knows, Disturbed, firebase, table,
         belongings, Hosts, Booked
<1>6. IdsOf(q) \subseteq 1..issued
  BY <1>1, GoKeeps
<1>7. \A v \in IdsOf(q) \ IdsOf(req[r]) : MetHere(r, v)'
  BY <1>1
<1>8. req' = [req EXCEPT ![r] = q]
  BY <1>1 DEF Go
<1> QED
  BY <1>2, <1>3, <1>5, <1>6, <1>7, <1>8, KeptStep

LEMMA BeginKeeps ==
  ASSUME AccountInv, NEW r \in Requests, NEW q \in Request, req[r] = Idle,
         Become(r, q), UNCHANGED <<firebase, table, belongings, calls>>,
         IdsOf(q) \subseteq 1..issued, Shape(q), Sees(q)'
  PROVE  AccountInv'
<1>1. Kept
  BY BecomeMeets DEF Kept, table, AccountInv, AccountTypeOK
<1>2. ~ At(r, "change", "save")
  BY IdleType DEF At
<1> QED
  BY <1>1, <1>2, BecomeMeets, KeptStep

\* The calls.
LEMMA SignUpKeeps ==
  ASSUME AccountInv, NEW r \in Requests, NEW e \in Emails, SignUp(r, e)
  PROVE  AccountInv'
<1>0. PICK q : q = [Idle EXCEPT !.call = "signUp", !.at = "lookup", !.email = e]
  OBVIOUS
<1>1. q \in Request /\ IdsOf(q) = {} /\ Shape(q)
  BY <1>0, IdleType DEF Idle, Request, IdsOf, Shape, Handlers, Awaits, Addresses
<1>2. q.uid = 0 /\ q.other = 0
  BY <1>0 DEF Idle
<1>3. Sees(q)'
  BY <1>2 DEF Sees
<1> QED
  BY <1>0, <1>1, <1>3, BeginKeeps DEF SignUp, May

LEMMA UserCallKeeps ==
  ASSUME AccountInv, NEW r \in Requests, req[r] = Idle, NEW q \in Request,
         q.call \notin {"none", "signUp", "admin", "move", "book", "unlist"},
         q.uid \in Uids, q.other = 0,
         Become(r, q), UNCHANGED <<firebase, table, belongings, calls>>,
         q.uid <= issued, SeesUid(q)
  PROVE  AccountInv'
<1>0. issued \in Nat
  BY DEF AccountInv, AccountTypeOK
<1>1. IdsOf(q) \subseteq 1..issued /\ Shape(q)
  <2>1. q.uid \in Nat \ {0}
    BY UidType
  <2>2. IdsOf(q) = {q.uid}
    BY <2>1 DEF IdsOf
  <2> QED
    BY <1>0, <2>1, <2>2 DEF Shape
<1>2. Sees(q)'
  BY DEF Sees, SeesUid, Knows, firebase, table,
         belongings, Hosts, Booked
<1> QED
  BY <1>1, <1>2, BeginKeeps

LEMMA ListingCallKeeps ==
  ASSUME AccountInv, NEW r \in Requests, NEW u \in Uids, NEW p \in Places,
         Book(r, u, p) \/ Move(r, u, p)
  PROVE  AccountInv'
<1>1. /\ req[r] = Idle /\ u \in users /\ listings[p] # 0
      /\ UNCHANGED <<firebase, table, belongings, calls>>
  BY DEF Book, Move, May
<1>2. u <= issued /\ listings[p] \in Uids /\ u \in Nat \ {0} /\ issued \in Nat
  BY <1>1, UidType DEF AccountInv, Numbered, AccountTypeOK
<1>3. PICK q : /\ Become(r, q)
               /\ \/ q = [Idle EXCEPT !.call = "book", !.at = "store", !.uid = u,
                                      !.listing = p, !.host = listings[p]]
                  \/ q = [Idle EXCEPT !.call = "move", !.at = "store", !.uid = u,
                                      !.listing = p]
  BY DEF Book, Move
<1>4. /\ q \in Request /\ q.call \in {"book", "move"} /\ q.uid = u /\ q.other = 0
      /\ q.listing = p
      /\ q.call = "book" => q.host \in Uids
  <2>1. CASE q = [Idle EXCEPT !.call = "book", !.at = "store", !.uid = u,
                              !.listing = p, !.host = listings[p]]
    <3>1. q.call = "book" /\ q.uid = u /\ q.other = 0 /\ q.listing = p
          /\ q.host = listings[p]
      BY <2>1 DEF Idle
    <3>2. q \in Request
      BY <1>2, <2>1, IdleType DEF Request, Handlers, Awaits
    <3> QED
      BY <1>2, <3>1, <3>2
  <2>2. CASE q = [Idle EXCEPT !.call = "move", !.at = "store", !.uid = u, !.listing = p]
    <3>1. q.call = "move" /\ q.uid = u /\ q.other = 0 /\ q.listing = p
      BY <2>2 DEF Idle
    <3>2. q \in Request
      BY <1>2, <2>2, IdleType DEF Request, Handlers, Awaits
    <3> QED
      BY <3>1, <3>2
  <2> QED
    BY <1>3, <2>1, <2>2
<1>5. Shape(q)
  BY <1>2, <1>4 DEF Shape
<1>6. IdsOf(q) = {u}
  BY <1>2, <1>4 DEF IdsOf
<1>7. IdsOf(q) \subseteq 1..issued
  BY <1>2, <1>6
<1>8. Sees(q)'
  BY <1>1, <1>4 DEF Sees, SeesUid, table
<1> QED
  BY <1>1, <1>3, <1>4, <1>5, <1>7, <1>8, BeginKeeps

LEMMA UnlistKeeps ==
  ASSUME AccountInv, NEW r \in Requests, NEW p \in Places, Unlist(r, p)
  PROVE  AccountInv'
<1>0. PICK q : q = [Idle EXCEPT !.call = "unlist", !.at = "store", !.listing = p]
  OBVIOUS
<1>1. q \in Request /\ IdsOf(q) = {} /\ Shape(q)
  BY <1>0, IdleType DEF Idle, Request, IdsOf, Shape, Handlers, Awaits, Addresses
<1>2. q.uid = 0 /\ q.other = 0
  BY <1>0 DEF Idle
<1>3. Sees(q)'
  BY <1>2 DEF Sees
<1> QED
  BY <1>0, <1>1, <1>3, BeginKeeps DEF Unlist, May

LEMMA CallsKeep ==
  ASSUME AccountInv, NEW r \in Requests, NEW u \in Uids,
         \/ \E e \in Addresses : Context(r, u, e)
         \/ Fetch(r, u) \/ Login(r, u) \/ Delete(r, u) \/ Own(r, u)
         \/ \E e \in Emails : Change(r, u, e)
  PROVE  AccountInv'
<1>0. u \in users \cup accounts \/ had[u] # {} => u <= issued
  BY DEF AccountInv, Numbered
<1>1. login[u] \in Addresses /\ row[u].meta \in Meta /\ NoEmail \in Addresses
      /\ NoMeta \in Meta /\ Emails \subseteq Addresses
  BY IdleType DEF AccountInv, AccountTypeOK, Row, Addresses
<1>2. ASSUME NEW e \in Addresses, Context(r, u, e)
      PROVE  AccountInv'
  <2>0. PICK q : q = [Idle EXCEPT !.call = "context", !.at = "create", !.uid = u,
                                    !.email = e]
      OBVIOUS
  <2>1. u <= issued /\ req[r] = Idle
    BY <1>0, <1>2 DEF Context, May
  <2>2. Become(r, q) /\ UNCHANGED <<firebase, table, belongings, calls>>
    BY <1>2, <2>0 DEF Context
  <2>3. q \in Request /\ q.call = "context" /\ q.uid = u /\ q.other = 0
    BY <1>1, <2>0 DEF Idle, Request, Handlers, Awaits
  <2> QED
    BY <2>1, <2>2, <2>3, UserCallKeeps DEF SeesUid
<1>3. CASE Fetch(r, u)
  <2>0. PICK q : q = [Idle EXCEPT !.call = "fetch", !.at = "find", !.uid = u,
                                    !.email = login[u]]
      OBVIOUS
  <2>1. u <= issued /\ req[r] = Idle /\ u \in accounts
    BY <1>0, <1>3 DEF Fetch, May
  <2>2. Become(r, q) /\ UNCHANGED <<firebase, table, belongings, calls>>
    BY <1>3, <2>0 DEF Fetch
  <2>3. q \in Request /\ q.call = "fetch" /\ q.uid = u /\ q.other = 0
        /\ q.email = login[u]
    BY <1>1, <2>0 DEF Idle, Request, Handlers, Awaits
  <2> QED
    BY <2>1, <2>2, <2>3, UserCallKeeps DEF SeesUid, Knows
<1>4. CASE Login(r, u)
  <2>0. PICK q : q = [Idle EXCEPT !.call = "login", !.at = "find", !.uid = u,
                                    !.email = login[u]]
      OBVIOUS
  <2>1. u <= issued /\ req[r] = Idle /\ u \in accounts
    BY <1>0, <1>4 DEF Login, May
  <2>2. Become(r, q) /\ UNCHANGED <<firebase, table, belongings, calls>>
    BY <1>4, <2>0 DEF Login
  <2>3. q \in Request /\ q.call = "login" /\ q.uid = u /\ q.other = 0
        /\ q.email = login[u]
    BY <1>1, <2>0 DEF Idle, Request, Handlers, Awaits
  <2> QED
    BY <2>1, <2>2, <2>3, UserCallKeeps DEF SeesUid, Knows
<1>5. CASE Delete(r, u)
  <2>0. PICK q : q = [Idle EXCEPT !.call = "delete", !.at = "lookup", !.uid = u]
      OBVIOUS
  <2>1. u <= issued /\ req[r] = Idle
    BY <1>0, <1>5 DEF Delete, May
  <2>2. Become(r, q) /\ UNCHANGED <<firebase, table, belongings, calls>>
    BY <1>5, <2>0 DEF Delete
  <2>3. q \in Request /\ q.call = "delete" /\ q.at = "lookup" /\ q.uid = u
        /\ q.other = 0
    BY <1>1, <2>0 DEF Idle, Request, Handlers, Awaits
  <2> QED
    BY <2>1, <2>2, <2>3, UserCallKeeps DEF SeesUid
<1>6. CASE Own(r, u)
  <2>0. PICK q : q = [Idle EXCEPT !.call = "own", !.at = "store", !.uid = u]
      OBVIOUS
  <2>1. u <= issued /\ req[r] = Idle /\ u \in users
    BY <1>0, <1>6 DEF Own, May
  <2>2. Become(r, q) /\ UNCHANGED <<firebase, table, belongings, calls>>
    BY <1>6, <2>0 DEF Own
  <2>3. q \in Request /\ q.call = "own" /\ q.uid = u /\ q.other = 0
    BY <1>1, <2>0 DEF Idle, Request, Handlers, Awaits
  <2> QED
    BY <2>1, <2>2, <2>3, UserCallKeeps DEF SeesUid
<1>7. ASSUME NEW e \in Emails, Change(r, u, e)
      PROVE  AccountInv'
  <2>0. PICK q : q = [Idle EXCEPT !.call = "change", !.at = "lookup", !.uid = u,
                                    !.email = e, !.meta = row[u].meta]
      OBVIOUS
  <2>1. u <= issued /\ req[r] = Idle
    BY <1>0, <1>7 DEF Change, May
  <2>2. Become(r, q) /\ UNCHANGED <<firebase, table, belongings, calls>>
    BY <1>7, <2>0 DEF Change
  <2>3. q \in Request /\ q.call = "change" /\ q.at = "lookup" /\ q.uid = u
        /\ q.other = 0
    BY <1>1, <2>0 DEF Idle, Request, Handlers, Awaits
  <2> QED
    BY <2>1, <2>2, <2>3, UserCallKeeps DEF SeesUid
<1> QED
  BY <1>2, <1>3, <1>4, <1>5, <1>6, <1>7

LEMMA AdminCreateHostKeeps ==
  ASSUME AccountInv, NEW r \in Requests, NEW e \in Emails, AdminCreateHost(r, e)
  PROVE  AccountInv'
<1>1. PICK old \in (IF RowWith(e) = {} THEN {0} ELSE RowWith(e)) :
        Become(r, [Idle EXCEPT !.call = "admin", !.at = "lookup", !.other = old,
                               !.email = e])
  BY DEF AdminCreateHost
<1>0. PICK q : q = [Idle EXCEPT !.call = "admin", !.at = "lookup", !.other = old,
                                !.email = e]
  OBVIOUS
<1>2. old = 0 \/ (old \in users /\ row[old].email = e)
  BY DEF RowWith
<1>3. old = 0 \/ (old \in Uids /\ old <= issued)
  BY <1>2 DEF AccountInv, AccountTypeOK, Numbered
<1>4. q.call = "admin" /\ q.at = "lookup" /\ q.uid = 0 /\ q.other = old /\ q.email = e
  BY <1>0 DEF Idle
<1>5. q \in Request
  BY <1>0, <1>3 DEF Idle, Request, Handlers, Awaits, Addresses, NoMeta, Meta
<1>6. Shape(q) /\ IdsOf(q) \subseteq 1..issued
  BY <1>3, <1>4, UidType DEF Shape, IdsOf
<1>7. Sees(q)'
  BY <1>2, <1>4 DEF Sees, SeesOther, AdminCreateHost, table
<1>8. Become(r, q)
  BY <1>0, <1>1
<1> QED
  BY <1>5, <1>6, <1>7, <1>8, BeginKeeps DEF AdminCreateHost, May

\* What a step can rely on.
LEMMA Known ==
  ASSUME AccountInv, NEW r \in Requests
  PROVE  /\ req[r] \in Request /\ Shape(req[r]) /\ Sees(req[r])
         /\ req[r].uid = 0 \/ (req[r].uid \in Uids /\ Sound(req[r].uid))
         /\ req[r].other = 0 \/ (req[r].other \in Uids /\ Sound(req[r].other))
         /\ AccountTypeOK
  BY DEF AccountInv, AccountTypeOK, Undisturbed, Request

LEMMA ReadsKeep ==
  ASSUME AccountInv, NEW r \in Requests,
         \/ SignUpLookup(r) \/ FetchFind(r) \/ LoginFind(r) \/ LoginVerify(r)
         \/ DeleteLookup(r) \/ DeleteCheck(r) \/ DeleteCheckBookings(r)
         \/ ChangeLookup(r)
  PROVE  AccountInv'
<1>1. /\ UNCHANGED <<firebase, table, belongings, calls, marks>>
      /\ ~ At(r, "change", "save")
      /\ \/ End(r)
         \/ Go(r, "account") /\ At(r, "signUp", "lookup")
         \/ Go(r, "create") /\ At(r, "fetch", "find")
         \/ Go(r, "verify") /\ At(r, "login", "find")
         \/ Go(r, "create") /\ At(r, "login", "verify")
         \/ Go(r, "check") /\ At(r, "delete", "lookup")
         \/ Go(r, "bookings") /\ At(r, "delete", "check") /\ ~ Hosts(req[r].uid)
         \/ Go(r, "destroy") /\ At(r, "delete", "bookings") /\ ~ Booked(req[r].uid)
         \/ Go(r, "update") /\ At(r, "change", "lookup")
  BY DEF SignUpLookup, FetchFind, LoginFind, LoginVerify, DeleteLookup,
         DeleteCheck, DeleteCheckBookings, ChangeLookup, At
<1>2. Kept
  BY <1>1 DEF Kept, table, AccountInv, AccountTypeOK
<1>3. CASE End(r)
  BY <1>1, <1>2, <1>3, EndKeeps
<1>4. CASE Go(r, "account") /\ At(r, "signUp", "lookup")
  <2>1. \A q \in Request : GoesTo(q, r, "account") =>
          Shape(q) /\ (q.uid = 0 \/ Disturbed(q.uid) \/ SeesUid(q))
    BY <1>4, Known DEF At, GoesTo, Shape, SeesUid
  <2> QED
    BY <1>1, <1>4, <2>1, ReadKeeps DEF Awaits
<1>5. CASE Go(r, "create") /\ At(r, "fetch", "find")
  <2>1. \A q \in Request : GoesTo(q, r, "create") =>
          Shape(q) /\ (q.uid = 0 \/ Disturbed(q.uid) \/ SeesUid(q))
    BY <1>5, Known DEF At, GoesTo, Shape, Sees, SeesUid, Knows
  <2> QED
    BY <1>1, <1>5, <2>1, ReadKeeps DEF Awaits
<1>6. CASE Go(r, "verify") /\ At(r, "login", "find")
  <2>1. \A q \in Request : GoesTo(q, r, "verify") =>
          Shape(q) /\ (q.uid = 0 \/ Disturbed(q.uid) \/ SeesUid(q))
    BY <1>6, Known DEF At, GoesTo, Shape, Sees, SeesUid, Knows
  <2> QED
    BY <1>1, <1>6, <2>1, ReadKeeps DEF Awaits
<1>7. CASE Go(r, "create") /\ At(r, "login", "verify")
  <2>1. \A q \in Request : GoesTo(q, r, "create") =>
          Shape(q) /\ (q.uid = 0 \/ Disturbed(q.uid) \/ SeesUid(q))
    BY <1>7, Known DEF At, GoesTo, Shape, Sees, SeesUid, Knows
  <2> QED
    BY <1>1, <1>7, <2>1, ReadKeeps DEF Awaits
<1>8. CASE Go(r, "check") /\ At(r, "delete", "lookup")
  <2>1. \A q \in Request : GoesTo(q, r, "check") =>
          Shape(q) /\ (q.uid = 0 \/ Disturbed(q.uid) \/ SeesUid(q))
    BY <1>8, Known DEF At, GoesTo, Shape, SeesUid
  <2> QED
    BY <1>1, <1>8, <2>1, ReadKeeps DEF Awaits
<1>9. CASE Go(r, "bookings") /\ At(r, "delete", "check") /\ ~ Hosts(req[r].uid)
  <2>1. \A q \in Request : GoesTo(q, r, "bookings") =>
          Shape(q) /\ (q.uid = 0 \/ Disturbed(q.uid) \/ SeesUid(q))
    BY <1>9, Known DEF At, GoesTo, Shape, SeesUid
  <2> QED
    BY <1>1, <1>9, <2>1, ReadKeeps DEF Awaits
<1>11. CASE Go(r, "destroy") /\ At(r, "delete", "bookings") /\ ~ Booked(req[r].uid)
  <2>1. \A q \in Request : GoesTo(q, r, "destroy") =>
          Shape(q) /\ (q.uid = 0 \/ Disturbed(q.uid) \/ SeesUid(q))
    BY <1>11, Known DEF At, GoesTo, Shape, Sees, SeesUid
  <2> QED
    BY <1>1, <1>11, <2>1, ReadKeeps DEF Awaits
<1>10. CASE Go(r, "update") /\ At(r, "change", "lookup")
  <2>1. \A q \in Request : GoesTo(q, r, "update") =>
          Shape(q) /\ (q.uid = 0 \/ Disturbed(q.uid) \/ SeesUid(q))
    BY <1>10, Known DEF At, GoesTo, Shape, SeesUid
  <2> QED
    BY <1>1, <1>10, <2>1, ReadKeeps DEF Awaits
<1> QED
  BY <1>1, <1>3, <1>4, <1>5, <1>6, <1>7, <1>8, <1>9, <1>10, <1>11

-----------------------------------------------------------------------------
(***************************************************************************)
(* Steps that write.  WriteKeeps has what they have in common: all users   *)
(* but those the request is about are left alone, and those are sound.     *)
(***************************************************************************)
LEMMA OthersSound ==
  ASSUME AccountInv, Typed, NEW r \in Requests, NEW q,
         req' = [req EXCEPT ![r] = q], NEW S,
         \A v \in Uids \ S : Same(v), \A v \in S : Sound(v)',
         At(r, "change", "save") => req[r].uid \in S
  PROVE  \A v \in Uids : Sound(v)'
<1> SUFFICES ASSUME NEW v \in Uids \ S
             PROVE  Sound(v)'
  OBVIOUS
<1>1. Same(v) /\ Sound(v) /\ AccountTypeOK /\ marks \subseteq marks'
  BY DEF AccountInv, Typed
<1>2. Changing(v) => Changing(v)'
  BY <1>1, ChangingStays
<1> QED
  BY <1>1, <1>2, SoundStays

LEMMA WriteEnds ==
  ASSUME AccountInv, Typed, NEW r \in Requests, End(r),
         NEW S \in SUBSET IdsOf(req[r]),
         \A v \in Uids \ S : Same(v), \A v \in S : Sound(v)',
         At(r, "change", "save") => req[r].uid \in S
  PROVE  AccountInv'
<1>1. PICK q \in Request : q = Idle
  BY IdleType
<1>2. IdsOf(q) = {} /\ Shape(q) /\ q.uid = 0 /\ q.other = 0
  BY <1>1, IdleType
<1>3. Sees(q)'
  BY <1>2 DEF Sees
<1>4. req' = [req EXCEPT ![r] = q]
  BY <1>1 DEF End
<1> HIDE DEF Typed
<1>5. \A v \in Uids : Sound(v)'
  BY <1>4, OthersSound
<1> QED
  BY <1>2, <1>3, <1>4, <1>5, StepKeeps

\* Changes of one user by a request that ends.
LEMMA InsertTyped ==
  ASSUME AccountTypeOK, NEW u \in Uids, NEW e \in Addresses, InsertRow(u, e),
         UNCHANGED <<firebase, belongings, calls>>,
         marks \subseteq marks', marks' \subseteq Causes \X Uids
  PROVE  /\ Typed
         /\ \A v \in Uids : v # u => Same(v)
         /\ u \in users' /\ row'[u].email = e
<1>1. issued \in Nat
  BY AccountsAssumption DEF AccountTypeOK
<1>2. [email |-> e, meta |-> NoMeta] \in Row
  BY IdleType DEF Row
<1> QED
  BY <1>1, <1>2 DEF AccountTypeOK, InsertRow, Typed, Same, firebase, belongings, Hosts, Booked

\* The row made of a login that is what the request has read.
LEMMA InsertSound ==
  ASSUME AccountInv, NEW u \in Uids, NEW e \in Addresses, InsertRow(u, e),
         UNCHANGED <<firebase, belongings, calls>>,
         marks \subseteq marks',
         \/ Disturbed(u)
         \/ u \in accounts /\ login[u] = e
         \/ <<"replayed", u>> \in marks'
  PROVE  Sound(u)'
<1>1. u \in users' /\ row'[u].email = e /\ accounts' = accounts /\ login' = login
  BY DEF InsertRow, firebase, AccountInv, AccountTypeOK
<1>2. CASE Disturbed(u) \/ <<"replayed", u>> \in marks'
  <2>1. <<"overlapped", u>> \in marks' \/ <<"replayed", u>> \in marks'
    BY <1>2 DEF Disturbed
  <2> QED
    BY <1>1, <2>1 DEF Sound, Marked
<1>3. CASE u \in accounts /\ login[u] = e
  BY <1>1, <1>3 DEF Sound
<1> QED
  BY <1>2, <1>3

\* A request that goes on after a write.
\* A request that goes on after a write.
LEMMA WriteGoes ==
  ASSUME AccountInv, Typed, NEW r \in Requests, NEW at \in Awaits, Go(r, at),
         NEW S \in SUBSET IdsOf(req[r]),
         \A v \in Uids \ S : Same(v), \A v \in S : Sound(v)',
         At(r, "change", "save") => req[r].uid \in S,
         \A q \in Request : GoesTo(q, r, at) => Shape(q) /\ Sees(q)'
  PROVE  AccountInv'
<1>1. PICK q \in Request :
        /\ [req EXCEPT ![r].at = at] = [req EXCEPT ![r] = q]
        /\ GoesTo(q, r, at)
        /\ IdsOf(q) = IdsOf(req[r])
  BY GoIs DEF AccountInv
<1>2. issued \in Nat /\ issued' \in Nat /\ issued <= issued'
  BY AccountsAssumption DEF Typed, AccountInv, AccountTypeOK
<1>3. IdsOf(q) \subseteq 1..issued
  BY <1>1, GoKeeps
<1>4. IdsOf(q) \subseteq 1..issued'
  BY <1>2, <1>3
<1>5. Shape(q) /\ Sees(q)'
  BY <1>1
<1>6. req' = [req EXCEPT ![r] = q]
  BY <1>1 DEF Go
<1>7. \A v \in IdsOf(q) \ IdsOf(req[r]) : v > issued \/ MetHere(r, v)'
  BY <1>1
<1> HIDE DEF Typed
<1>8. \A v \in Uids : Sound(v)'
  BY <1>6, OthersSound
<1> QED
  BY <1>1, <1>4, <1>5, <1>6, <1>7, <1>8, StepKeeps

\* Creations that end a request: u is its uid, and e its email.
LEMMA InsertEnds ==
  ASSUME AccountInv, NEW r \in Requests, NEW u \in Uids, NEW e \in Addresses,
         req[r].uid = u, InsertRow(u, e), End(r), ~ At(r, "change", "save"),
         UNCHANGED <<firebase, belongings, calls>>,
         marks \subseteq marks', marks' \subseteq Causes \X Uids,
         \/ Disturbed(u)
         \/ u \in accounts /\ login[u] = e
         \/ <<"replayed", u>> \in marks'
  PROVE  AccountInv'
<1>1. /\ Typed
      /\ \A v \in Uids \ {u} : Same(v)
      /\ Sound(u)'
  BY InsertTyped, InsertSound DEF AccountInv
<1>2. {u} \in SUBSET IdsOf(req[r])
  BY UidType DEF IdsOf
<1> HIDE DEF Typed
<1> QED
  BY <1>1, <1>2, WriteEnds

\* ... and a creation that fails.
LEMMA NothingDone ==
  ASSUME AccountInv, NEW r \in Requests, End(r), ~ At(r, "change", "save"),
         UNCHANGED <<firebase, table, belongings, calls, marks>>
  PROVE  AccountInv'
<1>1. Kept
  BY DEF Kept, table, AccountInv, AccountTypeOK
<1> QED
  BY <1>1, EndKeeps

\* The user and the email of a request that has one.
LEMMA UidKnown ==
  ASSUME AccountInv, NEW r \in Requests, req[r].uid # 0
  PROVE  \E u \in Uids, e \in Addresses :
           /\ u = req[r].uid /\ e = req[r].email
           /\ {u} \in SUBSET IdsOf(req[r])
           /\ Disturbed(u) \/ SeesUid(req[r])
  BY Known DEF Request, IdsOf, Sees

LEMMA SignUpSaveKeeps ==
  ASSUME AccountInv, NEW r \in Requests, SignUpSave(r)
  PROVE  AccountInv'
<1>0. req[r].uid # 0 /\ req[r].call = "signUp" /\ req[r].at = "save"
      /\ Shape(req[r])
  BY Known DEF SignUpSave, At, Shape
<1>1. PICK u \in Uids, e \in Addresses :
        /\ u = req[r].uid /\ e = req[r].email
        /\ {u} \in SUBSET IdsOf(req[r])
        /\ Disturbed(u) \/ SeesUid(req[r])
  BY <1>0, UidKnown
<1>2. /\ marks' = marks /\ marks \subseteq Causes \X Uids /\ AccountTypeOK
      /\ UNCHANGED <<firebase, belongings, calls>>
  BY DEF SignUpSave, AccountInv, AccountTypeOK
<1>3. CASE InsertRow(u, e) /\ Go(r, "credit")
  <2>1. Disturbed(u) \/ (u \in accounts /\ login[u] = e)
    BY <1>0, <1>1 DEF SeesUid, Knows
  <2>2. /\ Typed
        /\ \A v \in Uids \ {u} : Same(v)
        /\ u \in users'
        /\ Sound(u)'
    BY <1>2, <1>3, <2>1, InsertTyped, InsertSound
  <2>3. ASSUME NEW q \in Request, GoesTo(q, r, "credit")
        PROVE  Shape(q) /\ Sees(q)'
    <3>1. q.call = "signUp" /\ q.at = "credit" /\ q.uid = u /\ q.other = 0
      BY <1>0, <1>1, <2>3 DEF GoesTo, Shape
    <3> QED
      BY <1>0, <1>1, <2>2, <3>1 DEF Shape, Sees, SeesUid
  <2> HIDE DEF Typed
  <2> QED
    BY <1>0, <1>1, <1>3, <2>2, <2>3, WriteGoes DEF Awaits, At
<1>4. CASE End(r) /\ UNCHANGED table
  BY <1>0, <1>2, <1>4, NothingDone DEF At
<1> QED
  BY <1>1, <1>3, <1>4 DEF SignUpSave

LEMMA CreatesKeep ==
  ASSUME AccountInv, NEW r \in Requests,
         FetchCreate(r) \/ LoginCreate(r) \/ AdminCreate(r)
  PROVE  AccountInv'
<1>0. /\ req[r].uid # 0 /\ req[r].call \in {"fetch", "login", "admin"}
      /\ UNCHANGED <<firebase, belongings, calls, marks>> /\ End(r)
      /\ ~ At(r, "change", "save")
  BY Known DEF FetchCreate, LoginCreate, AdminCreate, At, Shape
<1>1. PICK u \in Uids, e \in Addresses :
        /\ u = req[r].uid /\ e = req[r].email
        /\ {u} \in SUBSET IdsOf(req[r])
        /\ Disturbed(u) \/ SeesUid(req[r])
  BY <1>0, UidKnown
<1>2. InsertRow(u, e) \/ UNCHANGED table
  BY <1>1 DEF FetchCreate, LoginCreate, AdminCreate
<1>3. CASE InsertRow(u, e)
  <2>1. Disturbed(u) \/ (u \in accounts /\ login[u] = e)
    BY <1>0, <1>1 DEF SeesUid, Knows
  <2> QED
    BY <1>0, <1>1, <1>3, <2>1, InsertEnds DEF AccountInv, AccountTypeOK
<1>4. CASE UNCHANGED table
  BY <1>0, <1>4, NothingDone
<1> QED
  BY <1>2, <1>3, <1>4

LEMMA ContextCreateKeeps ==
  ASSUME AccountInv, NEW r \in Requests, ContextCreate(r)
  PROVE  AccountInv'
<1>0. /\ req[r].uid # 0 /\ req[r].call = "context"
      /\ UNCHANGED <<firebase, belongings, calls>> /\ End(r)
      /\ ~ At(r, "change", "save")
  BY Known DEF ContextCreate, At, Shape
<1>1. PICK u \in Uids, e \in Addresses :
        /\ u = req[r].uid /\ e = req[r].email
        /\ {u} \in SUBSET IdsOf(req[r])
        /\ Disturbed(u) \/ SeesUid(req[r])
  BY <1>0, UidKnown
<1>2. CASE e # NoEmail /\ CanInsert(u, e)
  <2>1. /\ InsertRow(u, e)
        /\ marks' = marks \cup
             (IF u \in accounts /\ login[u] = e THEN {} ELSE {<<"replayed", u>>})
    BY <1>1, <1>2 DEF ContextCreate
  <2>2. marks \subseteq marks' /\ marks' \subseteq Causes \X Uids
    BY <2>1 DEF AccountInv, AccountTypeOK, Causes
  <2>3. (u \in accounts /\ login[u] = e) \/ <<"replayed", u>> \in marks'
    BY <2>1
  <2> QED
    BY <1>0, <1>1, <2>1, <2>2, <2>3, InsertEnds
<1>3. CASE ~ (e # NoEmail /\ CanInsert(u, e))
  BY <1>0, <1>1, <1>3, NothingDone DEF ContextCreate
<1> QED
  BY <1>2, <1>3

-----------------------------------------------------------------------------
(***************************************************************************)
(* New logins.                                                             *)
(***************************************************************************)
LEMMA Issued ==
  ASSUME AccountInv, NEW e \in Addresses, CanIssue(e), Issue(e),
         UNCHANGED <<table, belongings, calls>>,
         marks \subseteq marks', marks' \subseteq Causes \X Uids
  PROVE  \E u \in Uids :
           /\ u = issued + 1 /\ issued' = u /\ ~(u <= issued)
           /\ Typed
           /\ \A v \in Uids \ {u} : Same(v)
           /\ u \in accounts' /\ login'[u] = e /\ ~ Hosts(u)' /\ ~ Booked(u)'
           /\ Sound(u)'
           /\ \A r \in Requests : u \notin IdsOf(req[r])
<1>0. AccountTypeOK /\ Numbered
  BY DEF AccountInv
<1>1. issued \in Nat /\ issued < MaxAccounts /\ MaxAccounts \in Nat
  BY <1>0, AccountsAssumption DEF CanIssue, AccountTypeOK
<1>2. PICK u \in Uids : u = issued + 1 /\ ~(u <= issued) /\ u # 0
  BY <1>1 DEF Uids
<1>3. /\ issued' = u /\ accounts' = accounts \cup {u}
      /\ login' = [login EXCEPT ![u] = e] /\ had' = [had EXCEPT ![u] = {e}]
      /\ UNCHANGED <<users, row, listings, bookings, credited, calls>>
  BY <1>2 DEF Issue, table, belongings
<1>4. issued' \in 0..MaxAccounts /\ issued <= issued'
  BY <1>1, <1>2, <1>3
<1>5. Typed /\ \A v \in Uids \ {u} : Same(v)
  BY <1>0, <1>3, <1>4 DEF Typed, Same, AccountTypeOK, Hosts, Booked
<1>6. u \notin users /\ ~ Hosts(u) /\ ~ Booked(u) /\ u \notin credited
  BY <1>0, <1>2 DEF Numbered
<1>7. u \in accounts' /\ login'[u] = e
  BY <1>0, <1>3 DEF AccountTypeOK
<1>10. ~ Hosts(u)' /\ ~ Booked(u)'
  BY <1>3, <1>6 DEF Hosts, Booked
<1>8. Sound(u)'
  BY <1>3, <1>6, <1>10 DEF Sound
<1>9. \A r \in Requests : u \notin IdsOf(req[r])
  BY <1>0, <1>2 DEF Numbered, IdsOf
<1> QED
  BY <1>2, <1>3, <1>5, <1>7, <1>8, <1>9, <1>10

LEMMA ClientSignUpKeeps ==
  ASSUME AccountInv, NEW e \in Addresses, ClientSignUp(e)
  PROVE  AccountInv'
<1>0. /\ AccountTypeOK /\ Numbered /\ Met /\ Undisturbed
      /\ req' = req /\ marks' = marks
      /\ CanIssue(e) /\ Issue(e) /\ UNCHANGED <<table, belongings, calls>>
  BY DEF AccountInv, ClientSignUp
<1>1. PICK u \in Uids :
        /\ u = issued + 1 /\ issued' = u /\ ~(u <= issued)
        /\ Typed
        /\ \A v \in Uids \ {u} : Same(v)
        /\ u \in accounts' /\ login'[u] = e /\ ~ Hosts(u)' /\ ~ Booked(u)'
        /\ Sound(u)'
        /\ \A r \in Requests : u \notin IdsOf(req[r])
  BY <1>0, Issued DEF AccountTypeOK
<1>2. AccountTypeOK'
  BY <1>0, <1>1 DEF AccountTypeOK, Typed
<1>3. Numbered'
  <2>1. \A n \in Nat : n <= issued => n <= issued'
    BY <1>0, <1>1 DEF AccountTypeOK
  <2>2. \A v \in Uids : v \in Nat
    BY UidType
  <2>3. u <= issued'
    BY <1>1, <2>2
  <2>4. \A v \in Uids :
          v \in users' \cup accounts' \cup credited' \/ Hosts(v)' \/ Booked(v)' => v <= issued'
    BY <1>0, <1>1, <2>1, <2>2, <2>3 DEF Same, Numbered
  <2>5. \A v \in Uids : v <= issued' \/ had'[v] = {}
    BY <1>0, <1>1, <2>1, <2>2, <2>3 DEF Same, Numbered
  <2>6. \A r \in Requests : req'[r].uid <= issued' /\ req'[r].other <= issued'
    <3> SUFFICES ASSUME NEW r \in Requests
                 PROVE  req[r].uid <= issued' /\ req[r].other <= issued'
      BY <1>0
    <3>1. req[r].uid \in Uids \cup {0} /\ req[r].other \in Uids \cup {0}
      BY <1>0 DEF AccountTypeOK, Request
    <3>2. req[r].uid \in Nat /\ req[r].other \in Nat
      BY <3>1, UidOrNone
    <3> QED
      BY <1>0, <2>1, <3>2 DEF Numbered
  <2> QED
    BY <1>2, <2>4, <2>5, <2>6 DEF Numbered, AccountTypeOK
<1>4. Met'
  BY <1>0 DEF Met, Disturbed, IdsOf
<1>5. Undisturbed'
  <2> SUFFICES ASSUME NEW r \in Requests
               PROVE  Sees(req[r])'
    BY DEF Undisturbed
  <2>1. PICK q \in Request : q = req[r] /\ q = req'[r]
    BY <1>0 DEF AccountTypeOK
  <2>2. q.uid = 0 \/ Same(q.uid)
    BY <1>1, <2>1 DEF IdsOf, Request
  <2>3. q.other = 0 \/ Same(q.other)
    BY <1>1, <2>1 DEF IdsOf, Request
  <2>4. Sees(q)
    BY <1>0, <2>1 DEF Undisturbed
  <2>5. Sees(q)'
    BY <1>0, <2>2, <2>3, <2>4, SeesStays
  <2> QED
    BY <2>1, <2>5 DEF Sees, SeesUid, SeesOther, Knows, Disturbed
<1>6. \A v \in Uids : Sound(v)'
  <2> SUFFICES ASSUME NEW v \in Uids \ {u}
               PROVE  Sound(v)'
    BY <1>1
  <2>1. Changing(v) => Changing(v)'
    BY <1>0 DEF Changing, At
  <2> QED
    BY <1>0, <1>1, <2>1, SoundStays DEF AccountInv
<1> QED
  BY <1>0, <1>2, <1>3, <1>4, <1>5, <1>6 DEF AccountInv

\* A request that gets a new login.
LEMMA IssueKeeps ==
  ASSUME AccountInv, NEW r \in Requests, NEW e \in Addresses,
         CanIssue(e), Issue(e), UNCHANGED <<table, belongings, calls>>,
         marks \subseteq marks', marks' \subseteq Causes \X Uids,
         NEW q \in Request, req' = [req EXCEPT ![r] = q],
         IdsOf(q) \subseteq IdsOf(req[r]) \cup {issued + 1},
         Shape(q), ~ At(r, "change", "save"),
         q.uid = issued + 1, q.email = e,
         q.call = "admin" \/ (q.call = "signUp" /\ q.at = "save"),
         q.other # 0 => q.other = req[r].other /\ q.call = req[r].call
                        /\ q.email = req[r].email
  PROVE  AccountInv'
<1>1. PICK u \in Uids :
        /\ u = issued + 1 /\ issued' = u /\ ~(u <= issued)
        /\ Typed
        /\ \A v \in Uids \ {u} : Same(v)
        /\ u \in accounts' /\ login'[u] = e /\ ~ Hosts(u)' /\ ~ Booked(u)'
        /\ Sound(u)'
        /\ \A s \in Requests : u \notin IdsOf(req[s])
  BY Issued
<1>2. u \in Nat \ {0} /\ issued \in Nat
  BY UidType DEF AccountInv, AccountTypeOK
<1>3. IdsOf(q) \subseteq 1..issued'
  <2>1. PICK p \in Request : p = req[r]
    BY Known
  <2>2. IdsOf(p) \subseteq 1..issued
    BY <2>1, GoKeeps
  <2> QED
    BY <1>1, <1>2, <2>1, <2>2
<1>4. \A v \in IdsOf(q) \ IdsOf(req[r]) : v > issued \/ MetHere(r, v)'
  BY <1>1, <1>2
<1>5. Sees(q)'
  <2>1. q.uid = 0 \/ SeesUid(q)'
    BY <1>1 DEF SeesUid, Knows
  <2>2. q.other = 0 \/ (q.other \in Uids \ {u} /\ q.other = req[r].other)
    BY <1>1 DEF Request, IdsOf
  <2>3. q.other = 0 \/ Disturbed(q.other) \/ SeesOther(q)
    BY Known DEF Sees, SeesOther
  <2>4. q.other = 0 \/ Disturbed(q.other)' \/ SeesOther(q)'
    BY <1>1, <2>2, <2>3 DEF SeesOther, Same, Disturbed
  <2> QED
    BY <2>1, <2>4 DEF Sees
<1>6. \A v \in Uids : Sound(v)'
  BY <1>1, OthersSound
<1>7. \A v \in Uids : v \notin IdsOf(req[r]) \cup IdsOf(q) => Same(v)
  BY <1>1, <1>2 DEF IdsOf
<1> QED
  BY <1>1, <1>3, <1>4, <1>5, <1>6, <1>7, StepKeeps

LEMMA SignUpAccountKeeps ==
  ASSUME AccountInv, NEW r \in Requests, SignUpAccount(r)
  PROVE  AccountInv'
<1>0. /\ req[r] \in Request /\ AccountTypeOK /\ Shape(req[r])
      /\ req[r].call = "signUp" /\ req[r].at = "account"
      /\ marks' = marks /\ UNCHANGED <<table, belongings, calls>>
  BY Known DEF SignUpAccount, At
<1>1. CASE CanIssue(req[r].email)
  <2>1. /\ Issue(req[r].email)
        /\ req' = [req EXCEPT ![r].at = "save", ![r].uid = issued + 1]
    BY <1>1 DEF SignUpAccount
  <2>2. PICK q : q = [req[r] EXCEPT !.at = "save", !.uid = issued + 1]
    OBVIOUS
  <2>3. PICK e \in Addresses : e = req[r].email
    BY <1>0 DEF Request
  <2>4. issued + 1 \in Uids /\ issued + 1 # 0
    BY <1>0, <1>1, AccountsAssumption DEF CanIssue, AccountTypeOK, Uids
  <2>5. /\ q \in Request
        /\ q.call = "signUp" /\ q.at = "save" /\ q.uid = issued + 1 /\ q.email = e
        /\ q.other = 0
    BY <1>0, <2>2, <2>3, <2>4 DEF Request, Awaits, Shape
  <2>6. IdsOf(q) \subseteq IdsOf(req[r]) \cup {issued + 1} /\ Shape(q)
    BY <2>4, <2>5 DEF IdsOf, Shape
  <2>7. req' = [req EXCEPT ![r] = q]
    BY <1>0, <2>1, <2>2 DEF AccountTypeOK, Request
  <2>8. marks \subseteq marks' /\ marks' \subseteq Causes \X Uids
    BY <1>0 DEF AccountTypeOK
  <2> QED
    BY <1>0, <1>1, <2>1, <2>3, <2>5, <2>6, <2>7, <2>8, IssueKeeps DEF At
<1>2. CASE ~ CanIssue(req[r].email)
  BY <1>0, <1>2, NothingDone DEF SignUpAccount, At
<1> QED
  BY <1>1, <1>2

\* What adminCreateHost does next, with an account it has found or created.
LEMMA AdminFoundType ==
  ASSUME AccountInv, NEW r \in Requests, NEW at0, At(r, "admin", at0), NEW u \in Uids,
         AdminFound(r, u), req[r].other # u
  PROVE  \E q \in Request :
           /\ q.call = "admin" /\ q.at \in {"create", "rename"}
           /\ q.uid = u /\ q.other = req[r].other /\ q.email = req[r].email
           /\ Become(r, q) /\ Shape(q)
           /\ IdsOf(q) \subseteq IdsOf(req[r]) \cup {u}
           /\ u \in IdsOf(q)
<1>0. req[r] \in Request /\ u # 0
  BY Known, UidType
<1>1. PICK q : q = [req[r] EXCEPT !.uid = u,
                      !.at = IF req[r].other = 0 THEN "create" ELSE "rename"]
  OBVIOUS
<1>2. /\ q \in Request /\ q.call = "admin"
      /\ q.at = (IF req[r].other = 0 THEN "create" ELSE "rename")
      /\ q.uid = u /\ q.other = req[r].other /\ q.email = req[r].email
  BY <1>0, <1>1 DEF Request, Awaits, At
<1>3. Become(r, q)
  BY <1>1 DEF AdminFound
<1>4. /\ Shape(q)
      /\ IdsOf(q) \subseteq IdsOf(req[r]) \cup {u}
      /\ u \in IdsOf(q)
  BY <1>0, <1>2 DEF Shape, IdsOf
<1> QED
  BY <1>2, <1>3, <1>4

LEMMA AdminAccountKeeps ==
  ASSUME AccountInv, NEW r \in Requests, AdminAccount(r)
  PROVE  AccountInv'
<1>0. /\ req[r] \in Request /\ AccountTypeOK /\ Numbered
      /\ At(r, "admin", "account") /\ req[r].call = "admin"
      /\ UNCHANGED <<table, belongings, calls>>
  BY Known DEF AdminAccount, At, AccountInv
<1>1. CASE CanIssue(req[r].email)
  <2>1. PICK e \in Addresses : e = req[r].email /\ CanIssue(e) /\ Issue(e)
    BY <1>0, <1>1 DEF Request, AdminAccount
  <2>2. PICK u \in Uids : u = issued + 1 /\ ~(u <= issued)
    BY <1>0, <1>1, AccountsAssumption DEF CanIssue, AccountTypeOK, Uids
  <2>3. AdminFound(r, u) /\ req[r].other # u
    BY <1>0, <1>1, <2>2 DEF AdminAccount, Numbered
  <2>4. PICK q \in Request :
          /\ q.call = "admin" /\ q.at \in {"create", "rename"}
          /\ q.uid = u /\ q.other = req[r].other /\ q.email = req[r].email
          /\ Become(r, q) /\ Shape(q)
          /\ IdsOf(q) \subseteq IdsOf(req[r]) \cup {u}
          /\ u \in IdsOf(q)
    BY <1>0, <2>3, AdminFoundType
  <2>5. /\ req' = [req EXCEPT ![r] = q]
        /\ marks \subseteq marks' /\ marks' \subseteq Causes \X Uids
    BY <2>4, BecomeMeets
  <2> QED
    BY <1>0, <2>1, <2>2, <2>4, <2>5, IssueKeeps DEF At
<1>2. CASE ~ CanIssue(req[r].email)
  BY <1>0, <1>2, NothingDone DEF AdminAccount, At
<1> QED
  BY <1>1, <1>2

LEMMA AdminLookupKeeps ==
  ASSUME AccountInv, NEW r \in Requests, AdminLookup(r)
  PROVE  AccountInv'
<1>0. /\ req[r] \in Request /\ AccountTypeOK /\ Numbered /\ Shape(req[r]) /\ Sees(req[r])
      /\ At(r, "admin", "lookup") /\ req[r].call = "admin"
      /\ ~ At(r, "change", "save")
      /\ UNCHANGED <<firebase, table, belongings, calls>>
  BY Known DEF AdminLookup, At, AccountInv
<1>1. ASSUME NEW u \in LoginWith(req[r].email), AdminFound(r, u)
      PROVE  AccountInv'
  <2>1. u \in Uids /\ u \in accounts /\ login[u] = req[r].email /\ u <= issued /\ u # 0
    BY <1>0, UidType DEF LoginWith, AccountTypeOK, Numbered
  <2>2. CASE req[r].other = u
    BY <1>0, <1>1, <2>2, NothingDone DEF AdminFound
  <2>3. CASE req[r].other # u
    <3>1. PICK q \in Request :
            /\ q.call = "admin" /\ q.at \in {"create", "rename"}
            /\ q.uid = u /\ q.other = req[r].other /\ q.email = req[r].email
            /\ Become(r, q) /\ Shape(q)
            /\ IdsOf(q) \subseteq IdsOf(req[r]) \cup {u}
            /\ u \in IdsOf(q)
      BY <1>0, <1>1, <2>1, <2>3, AdminFoundType
    <3>2. /\ req' = [req EXCEPT ![r] = q]
          /\ \A v \in IdsOf(q) : MetHere(r, v)'
          /\ marks \subseteq marks' /\ marks' \subseteq Causes \X Uids
      BY <3>1, BecomeMeets
    <3>3. Kept
      BY <1>0, <3>2 DEF Kept, table, AccountTypeOK
    <3>4. q.uid = 0 \/ SeesUid(q)'
      BY <1>0, <2>1, <3>1 DEF SeesUid, Knows, firebase
    <3>5. q.other = 0 \/ Disturbed(q.other)' \/ SeesOther(q)'
      BY <1>0, <3>1, <3>2 DEF Sees, SeesOther, Disturbed, table
    <3>6. Sees(q)'
      BY <3>4, <3>5 DEF Sees
    <3>7. IdsOf(q) \subseteq 1..issued
      <4>1. PICK p \in Request : p = req[r]
        BY <1>0
      <4>2. IdsOf(p) \subseteq 1..issued
        BY <4>1, GoKeeps
      <4> QED
        BY <1>0, <2>1, <3>1, <4>1, <4>2, UidType DEF AccountTypeOK
    <3> QED
      BY <1>0, <3>1, <3>2, <3>3, <3>6, <3>7, KeptStep
  <2> QED
    BY <2>2, <2>3
<1>2. CASE Go(r, "account") /\ UNCHANGED marks
  <2>1. \A q \in Request : GoesTo(q, r, "account") =>
          Shape(q) /\ (q.uid = 0 \/ Disturbed(q.uid) \/ SeesUid(q))
    BY <1>0 DEF GoesTo, Shape, Sees, SeesUid, Knows
  <2> QED
    BY <1>0, <1>2, <2>1, ReadKeeps DEF Awaits
<1> QED
  BY <1>1, <1>2 DEF AdminLookup

-----------------------------------------------------------------------------
(***************************************************************************)
(* Changes of what is there.                                               *)
(***************************************************************************)

\* A change of user u by a request about u.
LEMMA UserTyped ==
  ASSUME AccountTypeOK, UNCHANGED <<issued, calls>>,
         accounts' \subseteq accounts, login' \in [Uids -> Addresses],
         had' \in [Uids -> SUBSET Addresses], users' \subseteq users,
         row' \in [Uids -> Row], credited' \subseteq Uids,
         listings' \in [Places -> Uids \cup {0}], bookings' \subseteq Booking,
         marks \subseteq marks', marks' \subseteq Causes \X Uids
  PROVE  Typed
<1>1. issued \in Nat
  BY AccountsAssumption DEF AccountTypeOK
<1> QED
  BY <1>1 DEF Typed, AccountTypeOK

LEMMA AdminRenameKeeps ==
  ASSUME AccountInv, NEW r \in Requests, AdminRename(r)
  PROVE  AccountInv'
<1>0. /\ req[r] \in Request /\ AccountTypeOK /\ Sees(req[r])
      /\ req[r].call = "admin" /\ req[r].uid # 0 /\ req[r].other # 0
      /\ ~ At(r, "change", "save") /\ End(r)
      /\ UNCHANGED <<firebase, belongings, calls>>
  BY Known DEF AdminRename, At, Shape
<1>1. PICK u \in Uids, old \in Uids : u = req[r].uid /\ old = req[r].other
  BY <1>0 DEF Request
<1>2. CASE old \in users /\ u \notin users
  <2>1. /\ users' = (users \ {old}) \cup {u} /\ u # old
        /\ row' = [row EXCEPT ![u] = row[old], ![old] = NoRow]
        /\ marks' = marks \cup {<<"renamed", old>>, <<"renamed", u>>}
                          \cup Inherited(old, u)
    BY <1>1, <1>2 DEF AdminRename
  <2>2. /\ row' \in [Uids -> Row] /\ row'[u] = row[old]
        /\ \A v \in Uids \ {u, old} : row'[v] = row[v]
    BY <1>0, <2>1, IdleType DEF AccountTypeOK
  <2>3. marks \subseteq marks' /\ marks' \subseteq Causes \X Uids
    <3>1. Inherited(old, u) \subseteq Causes \X Uids
      <4> SUFFICES ASSUME NEW x \in Inherited(old, u)
                   PROVE  x \in Causes \X Uids
        OBVIOUS
      <4>1. PICK c \in Causes : x = <<c, u>>
        BY DEF Inherited
      <4> QED
        BY <4>1
    <3>2. {<<"renamed", old>>, <<"renamed", u>>} \subseteq Causes \X Uids
      BY DEF Causes
    <3> QED
      BY <1>0, <2>1, <3>1, <3>2 DEF AccountTypeOK
  <2>4. users' \subseteq Uids
    BY <1>0, <2>1 DEF AccountTypeOK
  <2>5. Typed
    <3>1. issued \in Nat
      BY <1>0, AccountsAssumption DEF AccountTypeOK
    <3> QED
      BY <1>0, <2>2, <2>3, <2>4, <3>1 DEF Typed, AccountTypeOK, firebase, belongings
  <2>6. \A v \in Uids \ {u, old} : Same(v)
    BY <1>0, <2>1, <2>2 DEF Same, firebase, belongings, Hosts, Booked
  <2>7. Sound(old)'
    BY <2>1 DEF Sound, Marked
  <2>8. Sound(u)'
    <3>1. Marked({"overlapped", "renamed"}, u)'
          /\ Marked({"overlapped", "renamed", "destroyed"}, u)'
      BY <2>1 DEF Marked
    <3>2. CASE Disturbed(u) \/ Disturbed(old)
      <4>1. <<"overlapped", u>> \in marks'
        BY <2>1, <3>2 DEF Disturbed, Inherited, Causes
      <4> QED
        BY <4>1 DEF Sound, Marked
    <3>3. CASE ~ Disturbed(u) /\ ~ Disturbed(old)
      <4>1. /\ u \in accounts /\ login[u] = req[r].email
            /\ row[old].email = req[r].email
        BY <1>0, <1>1, <1>2, <3>3 DEF Sees, SeesUid, SeesOther, Knows
      <4>2. u \in accounts' /\ row'[u].email = login'[u]
        BY <1>0, <2>2, <4>1 DEF firebase
      <4> QED
        BY <3>1, <4>2 DEF Sound
    <3> QED
      BY <3>2, <3>3
  <2>9. {u, old} \in SUBSET IdsOf(req[r])
    BY <1>0, <1>1 DEF IdsOf
  <2> HIDE DEF Typed
  <2>10. \A v \in {u, old} : Sound(v)'
    BY <2>7, <2>8
  <2> QED
    BY <1>0, <2>5, <2>6, <2>9, <2>10, WriteEnds
<1>3. CASE ~ (old \in users /\ u \notin users)
  BY <1>0, <1>1, <1>3, NothingDone DEF AdminRename
<1> QED
  BY <1>2, <1>3

LEMMA DeleteRowKeeps ==
  ASSUME AccountInv, NEW r \in Requests, DeleteRow(r)
  PROVE  AccountInv'
<1>0. /\ AccountTypeOK /\ Shape(req[r]) /\ req[r].uid # 0
      /\ req[r].call = "delete" /\ req[r].at = "destroy"
      /\ ~ At(r, "change", "save")
      /\ UNCHANGED <<firebase, belongings, calls>>
  BY Known DEF DeleteRow, At, Shape
<1>1. PICK u \in Uids, e \in Addresses :
        /\ u = req[r].uid /\ e = req[r].email
        /\ {u} \in SUBSET IdsOf(req[r])
        /\ Disturbed(u) \/ SeesUid(req[r])
  BY <1>0, UidKnown
<1>2. CASE u \in users
  <2>1. /\ RemoveRow(u) /\ Go(r, "account")
        /\ marks' = marks \cup {<<"destroyed", u>>}
    BY <1>1, <1>2 DEF DeleteRow
  <2>2. marks \subseteq marks' /\ marks' \subseteq Causes \X Uids
    BY <1>0, <2>1 DEF AccountTypeOK, Causes
  <2>3. /\ users' = users \ {u} /\ row' = [row EXCEPT ![u] = NoRow]
        /\ row' \in [Uids -> Row]
    BY <1>0, <2>1, IdleType DEF RemoveRow, AccountTypeOK
  <2>4. Typed
    BY <1>0, <2>2, <2>3, UserTyped DEF AccountTypeOK, firebase, belongings
  <2>5. \A v \in Uids \ {u} : Same(v)
    BY <1>0, <2>3 DEF Same, AccountTypeOK, firebase, belongings, Hosts, Booked
  <2>6. (~ Hosts(u) /\ ~ Booked(u)) \/ <<"overlapped", u>> \in marks'
    BY <1>0, <1>1, <2>2 DEF SeesUid, Disturbed
  <2>7. Sound(u)'
    BY <1>0, <2>1, <2>3, <2>6 DEF Sound, Marked, belongings, Hosts, Booked
  <2>8. ASSUME NEW q \in Request, GoesTo(q, r, "account")
        PROVE  Shape(q) /\ Sees(q)'
    <3>1. /\ q.call = "delete" /\ q.at = "account" /\ q.uid = u /\ q.uid # 0
          /\ q.other = 0
      BY <1>0, <1>1, <2>8 DEF GoesTo, Shape
    <3>2. u \notin users'
      BY <2>3
    <3> QED
      BY <3>1, <3>2 DEF Shape, Sees, SeesUid
  <2> HIDE DEF Typed
  <2> QED
    BY <1>0, <1>1, <2>1, <2>4, <2>5, <2>7, <2>8, WriteGoes DEF Awaits
<1>3. CASE u \notin users
  BY <1>0, <1>1, <1>3, NothingDone DEF DeleteRow
<1> QED
  BY <1>2, <1>3

LEMMA DeleteAccountKeeps ==
  ASSUME AccountInv, NEW r \in Requests, DeleteAccount(r)
  PROVE  AccountInv'
<1>0. /\ AccountTypeOK /\ req[r].uid # 0
      /\ req[r].call = "delete" /\ req[r].at = "account" /\ End(r)
      /\ ~ At(r, "change", "save")
      /\ UNCHANGED <<issued, had, table, belongings, calls, marks>>
  BY Known DEF DeleteAccount, At, Shape
<1>1. PICK u \in Uids, e \in Addresses :
        /\ u = req[r].uid /\ e = req[r].email
        /\ {u} \in SUBSET IdsOf(req[r])
        /\ Disturbed(u) \/ SeesUid(req[r])
  BY <1>0, UidKnown
<1>2. /\ accounts' = accounts \ {u} /\ login' = [login EXCEPT ![u] = NoEmail]
      /\ login' \in [Uids -> Addresses]
  BY <1>0, <1>1 DEF DeleteAccount, AccountTypeOK, Addresses
<1>3. Typed
  BY <1>0, <1>2, UserTyped DEF AccountTypeOK, table, belongings
<1>4. \A v \in Uids \ {u} : Same(v)
  BY <1>0, <1>2 DEF Same, AccountTypeOK, table, belongings, Hosts, Booked
<1>5. Sound(u) /\ (u \notin users \/ <<"overlapped", u>> \in marks)
  BY <1>0, <1>1 DEF SeesUid, Disturbed, AccountInv
<1>6. Sound(u)'
  BY <1>0, <1>2, <1>5 DEF Sound, Marked, table, belongings, Hosts, Booked
<1> HIDE DEF Typed
<1> QED
  BY <1>0, <1>1, <1>3, <1>4, <1>6, WriteEnds

LEMMA ChangeAccountKeeps ==
  ASSUME AccountInv, NEW r \in Requests, ChangeAccount(r)
  PROVE  AccountInv'
<1>0. /\ AccountTypeOK /\ Shape(req[r]) /\ req[r].uid # 0
      /\ req[r].call = "change" /\ req[r].at = "update"
      /\ ~ At(r, "change", "save")
      /\ UNCHANGED <<issued, accounts, table, belongings, calls, marks>>
  BY Known DEF ChangeAccount, At, Shape
<1>1. PICK u \in Uids, e \in Addresses :
        /\ u = req[r].uid /\ e = req[r].email
        /\ {u} \in SUBSET IdsOf(req[r])
        /\ Disturbed(u) \/ SeesUid(req[r])
  BY <1>0, UidKnown
<1>2. CASE u \in accounts /\ LoginWith(e) \subseteq {u}
  <2>1. /\ login' = [login EXCEPT ![u] = e]
        /\ had' = [had EXCEPT ![u] = @ \cup {e}]
        /\ Go(r, "save")
    BY <1>1, <1>2 DEF ChangeAccount
  <2>2. /\ login' \in [Uids -> Addresses] /\ login'[u] = e
        /\ had' \in [Uids -> SUBSET Addresses]
    BY <1>0, <2>1 DEF AccountTypeOK
  <2>3. Typed
    BY <1>0, <2>2, UserTyped DEF AccountTypeOK, table, belongings
  <2>4. \A v \in Uids \ {u} : Same(v)
    BY <1>0, <2>1 DEF Same, AccountTypeOK, table, belongings, Hosts, Booked
  <2>5. Changing(u)'
    <3>1. /\ req'[r].at = "save" /\ req'[r].call = "change" /\ req'[r].uid = u
      BY <1>0, <1>1, <2>1, Known DEF Go, AccountTypeOK, Request
    <3> QED
      BY <3>1 DEF Changing, At
  <2>6. Sound(u) /\ accounts' = accounts
    BY <1>0 DEF AccountInv
  <2>7. Sound(u)'
    BY <1>0, <2>5, <2>6 DEF Sound, Marked, table, belongings, Hosts, Booked
  <2>8. ASSUME NEW q \in Request, GoesTo(q, r, "save")
        PROVE  Shape(q) /\ Sees(q)'
    <3>1. /\ q.call = "change" /\ q.at = "save" /\ q.uid = u /\ q.uid # 0
          /\ q.other = 0 /\ q.email = e
      BY <1>0, <1>1, <2>8 DEF GoesTo, Shape
    <3> QED
      BY <2>2, <3>1 DEF Shape, Sees, SeesUid
  <2> HIDE DEF Typed
  <2> QED
    BY <1>0, <1>1, <2>1, <2>3, <2>4, <2>7, <2>8, WriteGoes DEF Awaits
<1>3. CASE ~ (u \in accounts /\ LoginWith(e) \subseteq {u})
  BY <1>0, <1>1, <1>3, NothingDone DEF ChangeAccount, firebase
<1> QED
  BY <1>2, <1>3

LEMMA ChangeSaveKeeps ==
  ASSUME AccountInv, NEW r \in Requests, ChangeSave(r)
  PROVE  AccountInv'
<1>0. /\ AccountTypeOK /\ req[r].uid # 0 /\ req[r] \in Request
      /\ req[r].call = "change" /\ req[r].at = "save" /\ End(r)
      /\ UNCHANGED <<firebase, users, belongings, calls>>
  BY Known DEF ChangeSave, At, Shape
<1>1. PICK u \in Uids, e \in Addresses :
        /\ u = req[r].uid /\ e = req[r].email
        /\ {u} \in SUBSET IdsOf(req[r])
        /\ Disturbed(u) \/ SeesUid(req[r])
  BY <1>0, UidKnown
<1>2. CASE RowWith(e) \subseteq {u} /\ u \in users
  <2>1. /\ row' = [row EXCEPT ![u] = [email |-> e, meta |-> req[r].meta]]
        /\ marks' = marks
    BY <1>1, <1>2 DEF ChangeSave
  <2>2. [email |-> e, meta |-> req[r].meta] \in Row
    BY <1>0 DEF Row, Request
  <2>3. row' \in [Uids -> Row] /\ row'[u].email = e
    BY <1>0, <2>1, <2>2 DEF AccountTypeOK
  <2>4. Typed
    BY <1>0, <2>1, <2>3, UserTyped DEF AccountTypeOK, firebase, belongings
  <2>5. \A v \in Uids \ {u} : Same(v)
    BY <1>0, <2>1 DEF Same, AccountTypeOK, firebase, belongings, Hosts, Booked
  <2>6. login[u] = e \/ <<"overlapped", u>> \in marks
    BY <1>0, <1>1 DEF SeesUid, Disturbed
  <2>7. Sound(u)
    BY DEF AccountInv
  <2>8. Sound(u)'
    BY <1>0, <2>1, <2>3, <2>6, <2>7 DEF Sound, Marked, firebase, belongings, Hosts, Booked
  <2> HIDE DEF Typed
  <2> QED
    BY <1>0, <1>1, <2>4, <2>5, <2>8, WriteEnds
<1>3. CASE RowWith(e) \subseteq {u} /\ u \notin users
  <2>1. UNCHANGED <<firebase, table, belongings, calls, marks>>
    BY <1>0, <1>1, <1>3 DEF ChangeSave, table
  <2>2. Typed
    BY <1>0, <2>1, UserTyped DEF AccountTypeOK, table, firebase, belongings
  <2>3. \A v \in Uids : Same(v)
    BY <2>1 DEF Same, firebase, table,
         belongings, Hosts, Booked
  <2>4. Sound(u)
    BY DEF AccountInv
  <2>5. Sound(u)'
    BY <1>3, <2>1, <2>4 DEF Sound, Marked, firebase, table,
         belongings, Hosts, Booked
  <2> HIDE DEF Typed
  <2> QED
    BY <1>0, <1>1, <2>2, <2>3, <2>5, WriteEnds
<1>4. CASE ~ (RowWith(e) \subseteq {u})
  <2>1. marks' = marks \cup {<<"torn", u>>} /\ UNCHANGED row
    BY <1>1, <1>4 DEF ChangeSave
  <2>2. Kept
    BY <1>0, <2>1 DEF Kept, AccountTypeOK, Causes
  <2> QED
    BY <1>0, <1>1, <2>1, <2>2, EndKeeps
<1> QED
  BY <1>2, <1>3, <1>4

\* Listings and bookings, and credit.
LEMMA BelongingsKeep ==
  ASSUME AccountInv, NEW r \in Requests,
         OwnStore(r) \/ BookStore(r) \/ MoveStore(r) \/ SignUpCredit(r)
  PROVE  AccountInv'
<1>0. /\ AccountTypeOK /\ req[r].uid # 0 /\ End(r)
      /\ \/ req[r].call \in {"own", "book", "move"}
         \/ req[r].call = "signUp" /\ req[r].at = "credit"
      /\ ~ At(r, "change", "save")
      /\ UNCHANGED <<firebase, table, calls>>
  BY Known DEF OwnStore, BookStore, MoveStore, SignUpCredit, At, Shape
<1>1. PICK u \in Uids, e \in Addresses :
        /\ u = req[r].uid /\ e = req[r].email
        /\ {u} \in SUBSET IdsOf(req[r])
        /\ Disturbed(u) \/ SeesUid(req[r])
  BY <1>0, UidKnown
<1>2. /\ credited' \in {credited, credited \cup {u}}
      /\ listings' = listings \/ \E p \in Places : listings' = [listings EXCEPT ![p] = u]
  BY <1>1, Known DEF OwnStore, BookStore, MoveStore, SignUpCredit, Shape, At
<1>8. \/ bookings' = bookings
      \/ \E b \in Booking : b.guest = u /\ bookings' = bookings \cup {b}
  <2>1. CASE BookStore(r)
    <3>1. req[r].listing \in Places /\ req[r].host \in Uids
      BY <2>1, Known DEF BookStore, At, Shape
    <3> QED
      BY <1>1, <2>1, <3>1 DEF BookStore, Booking
  <2> QED
    BY <2>1 DEF OwnStore, MoveStore, SignUpCredit
<1>9. /\ listings' \in [Places -> Uids \cup {0}] /\ bookings' \subseteq Booking
      /\ credited' \subseteq Uids
  BY <1>0, <1>2, <1>8 DEF AccountTypeOK
<1>10. marks \subseteq marks' /\ marks' \subseteq Causes \X Uids
  <2>1. CASE MoveStore(r)
    <3>1. req[r].listing \in Places
      BY <2>1, Known DEF MoveStore, At, Shape
    <3>2. listings[req[r].listing] # 0 => listings[req[r].listing] \in Uids
      BY <1>0, <3>1 DEF AccountTypeOK
    <3> QED
      BY <1>0, <2>1, <3>2 DEF MoveStore, AccountTypeOK, Causes
  <2> QED
    BY <1>0, <2>1 DEF OwnStore, BookStore, SignUpCredit, AccountTypeOK
<1>3. Typed
  BY <1>0, <1>9, <1>10, UserTyped DEF AccountTypeOK, firebase, table
<1>4. ASSUME NEW v \in Uids \ {u}
      PROVE  Same(v)
  <2>1. Hosts(v)' => Hosts(v)
    BY <1>0, <1>2 DEF Hosts, AccountTypeOK
  <2>2. Booked(v)' => Booked(v)
    BY <1>8 DEF Booked
  <2> QED
    BY <1>0, <1>2, <2>1, <2>2 DEF Same, firebase, table
<1>5. Sound(u) /\ (u \in users \/ <<"overlapped", u>> \in marks)
  BY <1>0, <1>1 DEF SeesUid, Disturbed, AccountInv
<1>6. Changing(u) => Changing(u)'
  BY <1>0, ChangingStays DEF End
<1>11. \A causes : Marked(causes, u) => Marked(causes, u)'
  BY <1>10, MarksGrow
<1>12. u \in users' \/ \A causes : "overlapped" \in causes => Marked(causes, u)'
  BY <1>0, <1>5, <1>10 DEF Marked, table
<1>7. Sound(u)'
  BY <1>0, <1>5, <1>6, <1>11, <1>12 DEF Sound, firebase, table
<1> HIDE DEF Typed
<1> QED
  BY <1>0, <1>1, <1>3, <1>4, <1>7, WriteEnds

LEMMA UnlistStoreKeeps ==
  ASSUME AccountInv, NEW r \in Requests, UnlistStore(r)
  PROVE  AccountInv'
<1>0. /\ AccountTypeOK /\ End(r) /\ req[r].listing \in Places
      /\ ~ At(r, "change", "save")
      /\ UNCHANGED <<firebase, table, bookings, credited, calls>>
  BY Known DEF UnlistStore, At, Shape
<1>1. listings' = [listings EXCEPT ![req[r].listing] = 0]
  BY DEF UnlistStore
<1>2. marks \subseteq marks' /\ marks' \subseteq Causes \X Uids
  <2>1. listings[req[r].listing] # 0 => listings[req[r].listing] \in Uids
    BY <1>0 DEF AccountTypeOK
  <2> QED
    BY <1>0, <2>1 DEF UnlistStore, AccountTypeOK, Causes
<1>3. Typed
  BY <1>0, <1>1, <1>2, UserTyped DEF AccountTypeOK, firebase, table
<1>4. \A v \in Uids : Same(v)
  BY <1>0, <1>1, UidType DEF Same, AccountTypeOK, Hosts, Booked, firebase, table
<1>5. {} \in SUBSET IdsOf(req[r])
  OBVIOUS
<1> HIDE DEF Typed
<1> QED
  BY <1>0, <1>3, <1>4, <1>5, WriteEnds

LEMMA CrashKeeps ==
  ASSUME AccountInv, NEW r \in Requests, Crash(r)
  PROVE  AccountInv'
<1>0. /\ AccountTypeOK /\ Shape(req[r]) /\ req[r] \in Request /\ End(r)
      /\ UNCHANGED <<firebase, table, belongings, calls>>
      /\ marks' = IF HalfDone(r) THEN marks \cup {<<"torn", req[r].uid>>} ELSE marks
  BY Known DEF Crash
<1>1. HalfDone(r) => req[r].uid \in Uids
  BY <1>0 DEF HalfDone, At, Shape, Request
<1>2. marks \subseteq marks' /\ marks' \subseteq Causes \X Uids
  BY <1>0, <1>1 DEF AccountTypeOK, Causes
<1>3. Kept
  BY <1>0, <1>2 DEF Kept, table, AccountTypeOK
<1> QED
  BY <1>0, <1>3, EndKeeps DEF HalfDone

-----------------------------------------------------------------------------
LEMMA AccountInitInv == AccountInit => AccountInv
<1> SUFFICES ASSUME AccountInit
             PROVE  AccountInv
  OBVIOUS
<1>1. AccountTypeOK
  BY IdleType, AccountsAssumption DEF AccountInit, AccountTypeOK, Addresses
<1>4. \A v \in Uids : ~ Hosts(v) /\ ~ Booked(v)
  BY UidType DEF AccountInit, Hosts, Booked
<1>2. Numbered /\ Met /\ Undisturbed /\ \A r \in Requests : Shape(req[r])
  BY <1>4, IdleType DEF AccountInit, Numbered, Met, Undisturbed, Sees
<1>3. \A v \in Uids : Sound(v)
  BY <1>4 DEF AccountInit, Sound
<1> QED
  BY <1>1, <1>2, <1>3 DEF AccountInv

LEMMA AccountNextInv ==
  ASSUME AccountInv, AccountNext
  PROVE  AccountInv'
<1>1. CASE \E e \in Addresses : ClientSignUp(e)
  BY <1>1, ClientSignUpKeeps
<1>2. ASSUME NEW r \in Requests, AccountCall(r)
      PROVE  AccountInv'
  BY <1>2, SignUpKeeps, AdminCreateHostKeeps, CallsKeep, ListingCallKeeps, UnlistKeeps
     DEF AccountCall
<1>3. ASSUME NEW r \in Requests, AccountStep(r)
      PROVE  AccountInv'
  BY <1>3, ReadsKeep, SignUpAccountKeeps, SignUpSaveKeeps, BelongingsKeep, UnlistStoreKeeps,
     ContextCreateKeeps, CreatesKeep, AdminLookupKeeps, AdminAccountKeeps,
     AdminRenameKeeps, DeleteRowKeeps, DeleteAccountKeeps, ChangeAccountKeeps,
     ChangeSaveKeeps
     DEF AccountStep
<1>4. ASSUME NEW r \in Requests, Crash(r)
      PROVE  AccountInv'
  BY <1>4, CrashKeeps
<1> QED
  BY <1>1, <1>2, <1>3, <1>4 DEF AccountNext

(***************************************************************************)
(* A booking names the host its listing has, unless the listing was given  *)
(* away, or was removed while it was booked.                               *)
(***************************************************************************)
HostOf(p, u) == listings[p] = u \/ Marked({"moved", "overlapped"}, u)

\* ... after the step.
WillHost(p, u) == listings'[p] = u \/ \E c \in {"moved", "overlapped"} : <<c, u>> \in marks'

BookingsKnow ==
  /\ \A b \in bookings : HostOf(b.listing, b.host)
  /\ \A r \in Requests : req[r].call = "book" => HostOf(req[r].listing, req[r].host)

\* A step of request r that is about no listing and no booking.
LEMMA AsideKeeps ==
  ASSUME AccountTypeOK, BookingsKnow, NEW r \in Requests, NEW q,
         req' = [req EXCEPT ![r] = q], UNCHANGED <<listings, bookings>>,
         q.call # "book", marks \subseteq marks'
  PROVE  BookingsKnow'
<1>1. \A p, u : HostOf(p, u) => WillHost(p, u)
  BY DEF HostOf, WillHost, Marked
<1>2. \A s \in Requests : req'[s].call = "book" => req'[s] = req[s]
  BY DEF AccountTypeOK
<1>3. ASSUME NEW s \in Requests, req'[s].call = "book"
      PROVE  WillHost(req[s].listing, req[s].host)
  BY <1>1, <1>2, <1>3 DEF BookingsKnow
<1>4. \A b \in bookings : WillHost(b.listing, b.host)
  BY <1>1 DEF BookingsKnow
<1> QED
  BY <1>2, <1>3, <1>4 DEF BookingsKnow, HostOf, WillHost, Marked

\* The invariant has the properties.
LEMMA AccountInvImplies ==
  AccountInv => AccountTypeOK /\ RowHasLogin /\ EmailsAgree
<1> SUFFICES ASSUME AccountInv
             PROVE  AccountTypeOK /\ RowHasLogin /\ EmailsAgree
  OBVIOUS
<1>1. /\ users \subseteq Uids /\ accounts \subseteq Uids
      /\ \A v \in Uids : Sound(v)
  BY DEF AccountInv, AccountTypeOK
<1> QED
  BY <1>1 DEF AccountInv, Sound, Changing, RowHasLogin, EmailsAgree

LEMMA OwnersImplied ==
  ASSUME AccountInv, BookingsKnow
  PROVE  OwnersExist
<1>1. /\ users \subseteq Uids /\ credited \subseteq Uids /\ bookings \subseteq Booking
      /\ \A v \in Uids : Sound(v)
  BY DEF AccountInv, AccountTypeOK
<1>2. ASSUME NEW b \in bookings
      PROVE  b.host \in users \/ Marked({"overlapped", "renamed", "moved"}, b.host)
  <2>1. b.listing \in Places /\ b.host \in Uids
    BY <1>1 DEF Booking
  <2>2. CASE listings[b.listing] = b.host
    <3>1. Hosts(b.host)
      BY <2>1, <2>2 DEF Hosts
    <3> QED
      BY <1>1, <2>1, <3>1 DEF Sound, Marked
  <2>3. CASE Marked({"moved", "overlapped"}, b.host)
    BY <2>3 DEF Marked
  <2> QED
    BY <2>2, <2>3 DEF BookingsKnow, HostOf
<1> QED
  BY <1>1, <1>2 DEF Sound, OwnersExist

-----------------------------------------------------------------------------
(* Customers and cards.                                                     *)

(***************************************************************************)
(* What a request has read of the customer and of the cards of its user    *)
(* stays true until it is used, unless the user is marked.                 *)
(***************************************************************************)
Has(q) == q.uid \in users /\ row[q.uid].meta.customer = q.meta.customer

New(u, f) == \A d \in listed : card[d].user = u => card[d].fingerprint # f

SeesCards(q) ==
  /\ q.call \in {"change", "connect", "wallet"} => Has(q)
  /\ q.call = "addCard" /\ q.at \in {"check", "customer", "source", "create"} => Has(q)
  /\ q.call = "addCard" /\ q.at = "note" =>
       q.uid \in users /\ row[q.uid].meta.customer = 0
  /\ q.call = "addCard" /\ q.at \in {"customer", "note", "source"} => New(q.uid, q.card)
  /\ q.call = "addCard" /\ q.at = "create" => New(q.uid, card[q.card].fingerprint)

\* What is certain of the card of a request.
Works(q) ==
  /\ q.call \notin {"change", "addCard", "removeCard", "updateCard", "connect", "wallet"}
       => q.meta = NoMeta
  /\ q.call = "addCard" /\ q.at \in {"note", "source", "create"} => q.meta.customer # 0
  /\ q.call = "addCard" /\ q.at = "create" =>
       /\ q.card \in Sources /\ q.card <= sources
       /\ q.card \in held /\ q.card \notin listed
       /\ card[q.card].customer = q.meta.customer /\ card[q.card].user = q.uid
  /\ q.call = "removeCard" =>
       /\ q.card \in Sources /\ q.card <= sources
       /\ card[q.card].user = q.uid \/ Marked({"renamed"}, card[q.card].user)
  /\ q.call = "updateCard" =>
       /\ q.card \in Sources /\ q.card <= sources /\ q.meta.customer # 0
       /\ q.at = "save" => card[q.card].customer = q.meta.customer

Creating(q) == q.call = "addCard" /\ q.at = "create"

Holding(q) == Creating(q) \/ q.call \in {"removeCard", "updateCard"}

\* Nobody else knows a card that has no row yet.
Apart ==
  \A r, s \in Requests :
    r # s /\ Creating(req[r]) /\ Holding(req[s]) => req[r].card # req[s].card

(***************************************************************************)
(* A customer is in several places: rows, cards, requests.  Those of two   *)
(* users have the same customer only if the row changed its id.            *)
(***************************************************************************)
Renamed(v) == <<"renamed", v>> \in marks

Place(k, u) ==
  \/ row[u].meta.customer = k
  \/ \E r \in Requests : req[r].uid = u /\ req[r].meta.customer = k
  \/ \E c \in Sources : card[c].user = u /\ card[c].customer = k

Lineage ==
  \A u, v \in Uids : \A k \in Nat \ {0} :
    u # v /\ Place(k, u) /\ Place(k, v) => Renamed(u) /\ Renamed(v)

Bounded ==
  /\ \A u \in Uids : row[u].meta.customer <= customers
  /\ \A r \in Requests : req[r].meta.customer <= customers
  /\ \A c \in Sources : card[c].customer <= customers
  /\ \A c \in listed \cup held : c <= sources

Made == \A c \in Sources : c <= sources => card[c].user # 0 /\ card[c].customer # 0

OfItsCustomer(c) ==
  LET u == card[c].user
  IN \/ u \in users /\ row[u].meta.customer = card[c].customer
     \/ Marked({"overlapped", "destroyed", "renamed"}, u)

CardInv ==
  /\ TypeOK /\ AccountInv
  /\ Bounded /\ Made /\ Lineage /\ Apart
  /\ \A r \in Requests : Works(req[r])
  /\ \A r \in Requests : Disturbed(req[r].uid) \/ SeesCards(req[r])
  /\ \A c \in listed : OfItsCustomer(c)
  /\ OneCardOnce /\ CardsAreReal

-----------------------------------------------------------------------------
(***************************************************************************)
(* Where the customers of a step come from.                                *)
(***************************************************************************)
From(k, v) ==
  \/ Place(k, v)
  \/ Renamed(v)' /\ \E w \in Uids : Place(k, w) /\ Renamed(w)'

LEMMA PlaceBounded ==
  ASSUME Bounded, NEW k \in Nat, NEW u \in Uids, Place(k, u)
  PROVE  k <= customers
  BY DEF Bounded, Place

LEMMA LineageKeeps ==
  ASSUME Bounded, Lineage, marks \subseteq marks', customers \in Nat, NEW x,
         \A v \in Uids : \A k \in Nat \ {0} :
           Place(k, v)' => From(k, v) \/ (k > customers /\ v = x)
  PROVE  Lineage'
<1> SUFFICES ASSUME NEW u \in Uids, NEW v \in Uids, NEW k \in Nat \ {0},
                    u # v, Place(k, u)', Place(k, v)'
             PROVE  Renamed(u)' /\ Renamed(v)'
  BY DEF Lineage, Renamed, Place
<1>0. \A w : Renamed(w) => Renamed(w)'
  BY DEF Renamed
<1>1. (\E w \in Uids : Place(k, w)) => k <= customers
  BY PlaceBounded
<1>2. From(k, u) /\ From(k, v)
  <2>1. From(k, u) \/ (k > customers /\ u = x)
    OBVIOUS
  <2>2. From(k, v) \/ (k > customers /\ v = x)
    OBVIOUS
  <2>3. From(k, u) \/ From(k, v) => k <= customers
    BY <1>1 DEF From
  <2> QED
    BY <2>1, <2>2, <2>3
<1>3. PICK a \in Uids : Place(k, a) /\ (a = u \/ (Renamed(u)' /\ Renamed(a)'))
  BY <1>2 DEF From
<1>4. PICK b \in Uids : Place(k, b) /\ (b = v \/ (Renamed(v)' /\ Renamed(b)'))
  BY <1>2 DEF From
<1>5. a # b => Renamed(a)' /\ Renamed(b)'
  BY <1>0, <1>3, <1>4 DEF Lineage
<1> QED
  BY <1>3, <1>4, <1>5

(***************************************************************************)
(* What the other requests see of the step of request r.                   *)
(***************************************************************************)
SameRow(v) == (v \in users)' = (v \in users) /\ row'[v] = row[v]

NoNewCard(v) ==
  \A d \in listed' : card'[d].user = v =>
    /\ d \in listed /\ card[d].user = v
    /\ card'[d].fingerprint = card[d].fingerprint

LEMMA OtherSees ==
  ASSUME CardInv, marks \subseteq marks', NEW q, q.uid \in Uids,
         Disturbed(q.uid) \/ SeesCards(q), Works(q),
         (SameRow(q.uid) /\ NoNewCard(q.uid)) \/ Disturbed(q.uid)',
         \A c \in Sources : c <= sources => card'[c].fingerprint = card[c].fingerprint
  PROVE  Disturbed(q.uid)' \/ SeesCards(q)'
<1> SUFFICES ASSUME SeesCards(q), SameRow(q.uid), NoNewCard(q.uid)
             PROVE  SeesCards(q)'
  BY DEF Disturbed
<1>1. Has(q) => Has(q)'
  BY DEF Has, SameRow
<1>2. \A f : New(q.uid, f) => New(q.uid, f)'
  BY DEF New, NoNewCard
<1>3. Creating(q) => card'[q.card].fingerprint = card[q.card].fingerprint
  BY DEF Works, Creating
<1> QED
  BY <1>1, <1>2, <1>3 DEF SeesCards, Creating, SameRow

LEMMA OthersSee ==
  ASSUME CardInv, marks \subseteq marks', NEW r \in Requests, NEW q,
         req' = [req EXCEPT ![r] = q],
         \A v \in Uids : v \in IdsOf(req[r]) \/ (SameRow(v) /\ NoNewCard(v)),
         \A c \in Sources : c <= sources => card'[c].fingerprint = card[c].fingerprint
  PROVE  \A s \in Requests \ {r} : (Disturbed(req[s].uid) \/ SeesCards(req[s]))'
<1> SUFFICES ASSUME NEW s \in Requests \ {r}
             PROVE  (Disturbed(req[s].uid) \/ SeesCards(req[s]))'
  OBVIOUS
<1>0. AccountInv
  BY DEF CardInv
<1>1. PICK p \in Request : p = req[s] /\ p = req'[s]
  BY <1>0 DEF AccountInv, AccountTypeOK
<1>2. /\ Disturbed(p.uid) \/ SeesCards(p)
      /\ Works(p) /\ Shape(p)
  BY <1>0, <1>1 DEF CardInv, AccountInv
<1>3. CASE p.uid = 0
  BY <1>1, <1>2, <1>3 DEF Shape, SeesCards, Disturbed
<1>4. CASE p.uid # 0
  <2>1. p.uid \in Uids /\ p.uid \in IdsOf(req[s])
    BY <1>1, <1>4 DEF Request, IdsOf
  <2>2. CASE p.uid \in IdsOf(req[r])
    <3>1. Disturbed(p.uid)
      BY <1>0, <2>1, <2>2 DEF AccountInv, Met
    <3> QED
      BY <1>1, <3>1 DEF Disturbed
  <2>3. CASE p.uid \notin IdsOf(req[r])
    <3>1. SameRow(p.uid) /\ NoNewCard(p.uid)
      BY <2>1, <2>3
    <3>2. Disturbed(p.uid)' \/ SeesCards(p)'
      BY <1>2, <2>1, <3>1, OtherSees
    <3> QED
      BY <1>1, <3>2 DEF Disturbed, SeesCards, Has, New
  <2> QED
    BY <2>2, <2>3
<1> QED
  BY <1>3, <1>4

-----------------------------------------------------------------------------
(***************************************************************************)
(* Steps that leave the cards alone.                                       *)
(***************************************************************************)
KeepsCustomer(v) ==
  v \in users /\ row[v].meta.customer # 0 =>
    \/ v \in users' /\ row'[v].meta.customer = row[v].meta.customer
    \/ Marked({"overlapped", "destroyed", "renamed"}, v)'

\* What a step of request r does to the rows.
TableStep(r) ==
  /\ \A v \in Uids : v \in IdsOf(req[r]) \/ SameRow(v)
  /\ \A v \in Uids : KeepsCustomer(v)
  /\ \A v \in Uids : row'[v].meta.customer # 0 => From(row'[v].meta.customer, v)

LEMMA SameTable ==
  ASSUME CardInv, UNCHANGED table, NEW r
  PROVE  TableStep(r)
  BY DEF TableStep, table, SameRow, KeepsCustomer, From, Place

LEMMA TableKeeps ==
  ASSUME CardInv, AccountInv', marks \subseteq marks',
         UNCHANGED <<sources, held, listed, card>>,
         customers' \in 0..MaxCustomers, customers <= customers',
         NEW r \in Requests, NEW q \in Request, req' = [req EXCEPT ![r] = q],
         TableStep(r),
         Works(q)', Disturbed(q.uid)' \/ SeesCards(q)',
         q.meta.customer <= customers',
         q.meta.customer \in {0} \/ q.meta.customer > customers
           \/ Place(q.meta.customer, q.uid),
         ~ Creating(q),
         Holding(q) => q.card \in listed \/ (Holding(req[r]) /\ q.card = req[r].card),
         At(r, "removeCard", "destroy") => <<"torn", req[r].uid>> \in marks'
  PROVE  CardInv'
<1>0. TypeOK /\ AccountInv
  BY DEF CardInv
<1>1. TypeOK'
  BY <1>0 DEF TypeOK, AccountInv
<1>2. customers \in Nat /\ customers' \in Nat
  BY <1>0, CardsAssumption DEF TypeOK
<1>3. /\ req'[r] = q /\ \A s \in Requests : req[s] \in Request /\ req'[s] \in Request
      /\ \A s \in Requests \ {r} : req'[s] = req[s]
  BY <1>0 DEF AccountInv, AccountTypeOK
<1>4. \A causes, v : Marked(causes, v) => Marked(causes, v)'
  BY MarksGrow
<1>5. \A c \in listed \cup held : /\ c \in Sources /\ c <= sources
                                  /\ card[c].user \in Uids /\ card[c].user # 0
                                  /\ card[c].customer # 0
  BY <1>0 DEF CardInv, Bounded, Made, TypeOK, Card
<1>6. Bounded'
  <2>1. ASSUME NEW u \in Uids
        PROVE  row'[u].meta.customer <= customers'
    <3>1. PICK k \in Nat : k = row'[u].meta.customer
      BY <1>1 DEF TypeOK, AccountTypeOK, Row, Meta
    <3>2. CASE k = 0
      BY <1>2, <3>1, <3>2
    <3>3. CASE k # 0
      <4>1. \E w \in Uids : Place(k, w)
        BY <3>1, <3>3 DEF TableStep, From
      <4>2. k <= customers
        BY <4>1, PlaceBounded DEF CardInv
      <4> QED
        BY <1>2, <3>1, <4>2
    <3> QED
      BY <3>2, <3>3
  <2>2. ASSUME NEW s \in Requests
        PROVE  req'[s].meta.customer <= customers'
    <3>1. CASE s = r
      BY <1>3, <3>1
    <3>2. CASE s # r
      <4>1. PICK k \in Nat : k = req[s].meta.customer /\ k <= customers
        BY <1>3 DEF Request, Meta, CardInv, Bounded
      <4> QED
        BY <1>2, <1>3, <3>2, <4>1
    <3> QED
      BY <3>1, <3>2
  <2>3. ASSUME NEW c \in Sources
        PROVE  card'[c].customer <= customers'
    <3>1. PICK k \in Nat : k = card[c].customer /\ k <= customers
      BY <1>0 DEF TypeOK, Card, CardInv, Bounded
    <3> QED
      BY <1>2, <3>1
  <2> QED
    BY <2>1, <2>2, <2>3 DEF CardInv, Bounded
<1>7. Made'
  BY DEF CardInv, Made
<1>8. Lineage'
  <2>1. ASSUME NEW v \in Uids, NEW k \in Nat \ {0}, Place(k, v)'
        PROVE  From(k, v) \/ (k > customers /\ v = q.uid)
    <3>1. CASE row'[v].meta.customer = k
      BY <3>1 DEF TableStep
    <3>2. ASSUME NEW s \in Requests, req'[s].uid = v, req'[s].meta.customer = k
          PROVE  From(k, v) \/ (k > customers /\ v = q.uid)
      <4>1. CASE s = r
        BY <1>3, <3>2, <4>1 DEF From
      <4>2. CASE s # r
        BY <1>3, <3>2, <4>2 DEF From, Place
      <4> QED
        BY <4>1, <4>2
    <3>3. CASE \E c \in Sources : card'[c].user = v /\ card'[c].customer = k
      BY <3>3 DEF From, Place
    <3> QED
      BY <2>1, <3>1, <3>2, <3>3 DEF Place
  <2> QED
    BY <1>2, <2>1, LineageKeeps DEF CardInv
<1>9. Apart'
  <2> SUFFICES ASSUME NEW a \in Requests, NEW b \in Requests, a # b,
                      Creating(req'[a]), Holding(req'[b])
               PROVE  req'[a].card # req'[b].card
    BY DEF Apart, Creating, Holding
  <2>1. a # r /\ req'[a] = req[a]
    BY <1>3
  <2>2. req[a].card \notin listed
    BY <2>1 DEF CardInv, Works, Creating
  <2>3. CASE b = r
    BY <1>3, <2>1, <2>2, <2>3 DEF CardInv, Apart
  <2>4. CASE b # r
    BY <1>3, <2>1, <2>4 DEF CardInv, Apart
  <2> QED
    BY <2>3, <2>4
<1>10. ASSUME NEW s \in Requests
       PROVE  Works(req[s])'
  <2>1. CASE s = r
    BY <1>3, <2>1 DEF Works, Marked
  <2>2. CASE s # r
    BY <1>3, <1>4, <2>2 DEF Works, CardInv
  <2> QED
    BY <2>1, <2>2
<1>11. ASSUME NEW s \in Requests
       PROVE  (Disturbed(req[s].uid) \/ SeesCards(req[s]))'
  <2>1. CASE s = r
    BY <1>3, <2>1 DEF SeesCards, Has, New, Disturbed
  <2>2. CASE s # r
    <3>1. \A v \in Uids : v \in IdsOf(req[r]) \/ (SameRow(v) /\ NoNewCard(v))
      BY DEF TableStep, NoNewCard
    <3>2. \A c \in Sources : c <= sources => card'[c].fingerprint = card[c].fingerprint
      OBVIOUS
    <3> QED
      BY <2>2, <3>1, <3>2, OthersSee
  <2> QED
    BY <2>1, <2>2
<1>12. ASSUME NEW c \in listed
       PROVE  OfItsCustomer(c)'
  <2>1. PICK u \in Uids : u = card[c].user /\ u = card'[c].user
    BY <1>5
  <2>2. OfItsCustomer(c) /\ KeepsCustomer(u) /\ card[c].customer # 0
        /\ card'[c].customer = card[c].customer
    BY <1>5 DEF CardInv, TableStep
  <2> QED
    BY <1>4, <2>1, <2>2 DEF OfItsCustomer, KeepsCustomer
<1>13. OneCardOnce'
  BY <1>4 DEF CardInv, OneCardOnce
<1>14. ASSUME NEW c \in listed
       PROVE  \/ c \in held
              \/ \E s \in Requests : At(s, "removeCard", "destroy")' /\ req'[s].card = c
              \/ Marked({"torn", "renamed"}, card[c].user)'
  <2>1. CASE c \in held \/ Marked({"torn", "renamed"}, card[c].user)
    BY <1>4, <2>1
  <2>2. ASSUME NEW s \in Requests, At(s, "removeCard", "destroy"), req[s].card = c
        PROVE  \/ \E t \in Requests : At(t, "removeCard", "destroy")' /\ req'[t].card = c
               \/ Marked({"torn", "renamed"}, card[c].user)'
    <3>1. CASE s # r
      BY <1>3, <2>2, <3>1 DEF At
    <3>2. CASE s = r
      <4>1. card[c].user = req[r].uid \/ <<"renamed", card[c].user>> \in marks
        BY <2>2, <3>2 DEF CardInv, Works, At, Marked
      <4> QED
        BY <2>2, <3>2, <4>1 DEF Marked
    <3> QED
      BY <3>1, <3>2
  <2> QED
    BY <2>1, <2>2 DEF CardInv, CardsAreReal
<1>15. CardsAreReal'
  BY <1>14 DEF CardsAreReal
<1> QED
  BY <1>1, <1>6, <1>7, <1>8, <1>9, <1>10, <1>11, <1>12, <1>13, <1>15 DEF CardInv

-----------------------------------------------------------------------------
(***************************************************************************)
(* Steps that change cards and leave the rest alone.                       *)
(***************************************************************************)
OnlyCards == UNCHANGED <<firebase, table, belongings, calls, marks, customers>>

CardCalls == {"addCard", "removeCard", "updateCard", "connect", "wallet"}

\* They are steps of Accounts that change nothing there.
LEMMA CardAccount ==
  ASSUME AccountInv, NEW r \in Requests, NEW q \in Request,
         UNCHANGED <<firebase, users, belongings, calls, marks>>,
         row' \in [Uids -> Row], \A v \in Uids : row'[v].email = row[v].email,
         req' = [req EXCEPT ![r] = q], req[r].call \in CardCalls,
         q = Idle \/ (q.call = req[r].call /\ q.uid = req[r].uid /\ q.other = req[r].other)
  PROVE  AccountInv'
<1>1. Kept
  BY DEF Kept, AccountInv, AccountTypeOK
<1>2. Shape(req[r]) /\ req[r] \in Request /\ ~ At(r, "change", "save")
  BY Known DEF CardCalls, At
<1>3. IdsOf(q) \subseteq IdsOf(req[r]) /\ Shape(q)
  BY <1>2, IdleType DEF IdsOf, Shape, CardCalls
<1>4. Sees(q)'
  BY <1>2, IdleType DEF Sees, SeesUid, SeesOther, CardCalls
<1>5. IdsOf(q) \subseteq 1..issued
  BY <1>3, GoKeeps
<1>6. \A v \in IdsOf(q) \ IdsOf(req[r]) : MetHere(r, v)'
  BY <1>3
<1> QED
  BY <1>1, <1>2, <1>3, <1>4, <1>5, <1>6, KeptStep

\* A card that changes hands: the user it comes to has its customer.
Moved(r, c) ==
  /\ c \in listed /\ Place(card[c].customer, req[r].uid)
  /\ Marked({"renamed"}, req[r].uid)
  /\ card'[c] = [card[c] EXCEPT !.user = req[r].uid]

Created(r, c) ==
  /\ c = sources + 1 /\ c <= sources'
  /\ card'[c].user = req[r].uid /\ card'[c].user # 0
  /\ card'[c].customer = req[r].meta.customer /\ card'[c].customer # 0

LEMMA CardKeeps ==
  ASSUME CardInv, AccountInv', OnlyCards,
         sources' \in 0..MaxSources, sources <= sources',
         held' \subseteq Sources, listed' \subseteq Sources, card' \in [Sources -> Card],
         NEW r \in Requests, NEW q \in Request, req' = [req EXCEPT ![r] = q],
         q = Idle \/ (q.uid = req[r].uid /\ q.meta = req[r].meta),
         \A c \in listed' \cup held' : c <= sources',
         \A c \in Sources : c <= sources => card'[c] = card[c] \/ Moved(r, c),
         \A c \in Sources : c > sources =>
           (card'[c] = card[c] /\ c > sources') \/ Created(r, c),
         \A v \in Uids : v \in IdsOf(req[r]) \/ NoNewCard(v),
         \A s \in Requests \ {r} : Creating(req[s]) =>
           req[s].card \in held' /\ req[s].card \notin listed',
         Works(q)', Disturbed(q.uid)' \/ SeesCards(q)',
         Apart', \A c \in listed' : OfItsCustomer(c)', OneCardOnce', CardsAreReal'
  PROVE  CardInv'
<1>0. TypeOK /\ AccountInv
  BY DEF CardInv
<1>1. TypeOK'
  BY <1>0 DEF TypeOK, AccountInv, OnlyCards
<1>2. /\ customers \in Nat /\ customers' = customers /\ marks' = marks
      /\ sources \in Nat /\ sources' \in Nat
      /\ users' = users /\ row' = row
      /\ \A c \in Sources : c \in Nat
  BY <1>0, CardsAssumption DEF TypeOK, OnlyCards, Sources, table
<1>3. /\ req'[r] = q /\ \A s \in Requests : req[s] \in Request /\ req'[s] \in Request
      /\ \A s \in Requests \ {r} : req'[s] = req[s]
  BY <1>0 DEF AccountInv, AccountTypeOK
<1>4. ASSUME NEW c \in Sources
      PROVE  /\ card'[c].customer = card[c].customer
                \/ card'[c].customer = req[r].meta.customer
             /\ c <= sources => card'[c].customer = card[c].customer
                                /\ card'[c].fingerprint = card[c].fingerprint
  <2>1. card[c] \in Card
    BY <1>0 DEF TypeOK
  <2> QED
    BY <1>2, <2>1 DEF Moved, Created, Card
<1>5. Bounded'
  <2>1. ASSUME NEW s \in Requests
        PROVE  req'[s].meta.customer <= customers
    <3>1. Idle.meta.customer <= customers
      BY <1>2 DEF Idle, NoMeta
    <3> QED
      BY <1>3, <3>1 DEF CardInv, Bounded
  <2> QED
    BY <1>2, <1>4, <2>1 DEF CardInv, Bounded
<1>6. Made'
  <2> SUFFICES ASSUME NEW c \in Sources, c <= sources'
               PROVE  card'[c].user # 0 /\ card'[c].customer # 0
    BY DEF Made
  <2>1. CASE c <= sources
    <3>1. card[c].user # 0 /\ card[c].customer # 0
      BY <2>1 DEF CardInv, Made
    <3>2. Marked({"renamed"}, req[r].uid) => req[r].uid # 0
      BY <1>0, UidType DEF Marked, AccountInv, AccountTypeOK
    <3>3. card[c] \in Card
      BY <1>0 DEF TypeOK
    <3> QED
      BY <2>1, <3>1, <3>2, <3>3 DEF Moved, Card
  <2>2. CASE c > sources
    BY <1>2, <2>2 DEF Created
  <2> QED
    BY <1>2, <2>1, <2>2
<1>7. Lineage'
  <2>1. ASSUME NEW v \in Uids, NEW k \in Nat \ {0}, Place(k, v)'
        PROVE  Place(k, v)
    <3>1. CASE row'[v].meta.customer = k
      BY <1>2, <3>1 DEF Place
    <3>2. ASSUME NEW s \in Requests, req'[s].uid = v, req'[s].meta.customer = k
          PROVE  Place(k, v)
      <4>1. Idle.meta.customer = 0
        BY DEF Idle, NoMeta
      <4> QED
        BY <1>3, <3>2, <4>1 DEF Place
    <3>3. ASSUME NEW c \in Sources, card'[c].user = v, card'[c].customer = k
          PROVE  Place(k, v)
      <4>1. card[c] \in Card
        BY <1>0 DEF TypeOK
      <4>2. CASE card'[c] = card[c]
        BY <3>3, <4>2 DEF Place
      <4>3. CASE Moved(r, c)
        BY <3>3, <4>1, <4>3 DEF Moved, Card
      <4>4. CASE Created(r, c)
        BY <3>3, <4>4 DEF Created, Place
      <4> QED
        BY <1>2, <4>2, <4>3, <4>4
    <3> QED
      BY <2>1, <3>1, <3>2, <3>3 DEF Place
  <2> QED
    BY <1>2, <2>1, LineageKeeps DEF CardInv, From
<1>8. ASSUME NEW s \in Requests
      PROVE  Works(req[s])'
  <2>1. CASE s = r
    BY <1>3, <2>1 DEF Works, Marked
  <2>2. CASE s # r
    <3>1. PICK p \in Request : p = req[s] /\ p = req'[s]
      BY <1>3, <2>2
    <3>2. Works(p) /\ (Creating(p) => p.card \in held' /\ p.card \notin listed')
      BY <2>2, <3>1 DEF CardInv
    <3>3. p.card \in Sources /\ p.card <= sources => p.card <= sources'
      BY <1>2
    <3>4. Creating(p) => card'[p.card] = card[p.card]
      BY <3>2 DEF Works, Creating, Moved
    <3>5. p.card \in Sources /\ p.card <= sources =>
            /\ card'[p.card].customer = card[p.card].customer
            /\ \/ card'[p.card].user = card[p.card].user
               \/ Marked({"renamed"}, card'[p.card].user)
      <4>1. ASSUME p.card \in Sources, Moved(r, p.card)
            PROVE  card'[p.card].user = req[r].uid
        BY <1>0, <4>1 DEF Moved, TypeOK, Card
      <4> QED
        BY <1>4, <4>1 DEF Moved
    <3>6. Works(p)'
      BY <1>2, <3>2, <3>3, <3>4, <3>5 DEF Works, Creating, Marked
    <3> QED
      BY <3>1, <3>6 DEF Works, Marked
  <2> QED
    BY <2>1, <2>2
<1>9. ASSUME NEW s \in Requests
      PROVE  (Disturbed(req[s].uid) \/ SeesCards(req[s]))'
  <2>1. CASE s = r
    BY <1>3, <2>1 DEF SeesCards, Has, New, Disturbed
  <2>2. CASE s # r
    <3>1. \A v \in Uids : v \in IdsOf(req[r]) \/ (SameRow(v) /\ NoNewCard(v))
      BY <1>2 DEF SameRow
    <3> QED
      BY <1>2, <1>4, <2>2, <3>1, OthersSee
  <2> QED
    BY <2>1, <2>2
<1> QED
  BY <1>1, <1>5, <1>6, <1>7, <1>8, <1>9 DEF CardInv

\* What a step about cards can rely on.
LEMMA CardKnown ==
  ASSUME CardInv, NEW r \in Requests, req[r].call \in CardCalls
  PROVE  /\ TypeOK /\ AccountInv /\ AccountTypeOK
         /\ req[r] \in Request /\ Works(req[r])
         /\ req[r].uid \in Uids /\ req[r].uid # 0 /\ req[r].other = 0
         /\ req[r].uid \in IdsOf(req[r])
         /\ Disturbed(req[r].uid) \/ SeesCards(req[r])
         /\ customers \in Nat /\ sources \in Nat
         /\ \A c \in Sources : c \in Nat
         /\ \A c \in Sources : card[c] \in Card
<1>1. AccountInv /\ TypeOK
  BY DEF CardInv
<1>2. req[r] \in Request /\ Shape(req[r]) /\ AccountTypeOK
  BY <1>1, Known
<1>3. req[r].uid \in Uids /\ req[r].uid # 0 /\ req[r].other = 0
  BY <1>2 DEF Shape, CardCalls, Request
<1> QED
  BY <1>1, <1>2, <1>3, CardsAssumption DEF CardInv, IdsOf, TypeOK, Sources

LEMMA CreateSourceKeeps ==
  ASSUME CardInv, NEW r \in Requests, CreateSource(r)
  PROVE  CardInv'
<1>0. /\ req[r].call = "addCard" /\ req[r].at = "source" /\ req[r].call \in CardCalls
      /\ sources < MaxSources /\ sources' = sources + 1
      /\ held' = held \cup {sources + 1} /\ listed' = listed
      /\ OnlyCards
  BY DEF CreateSource, At, OnlyCards, CardCalls
<1>1. /\ TypeOK /\ AccountInv /\ AccountTypeOK
      /\ req[r] \in Request /\ Works(req[r])
      /\ req[r].uid \in Uids /\ req[r].uid # 0 /\ req[r].other = 0
      /\ Disturbed(req[r].uid) \/ SeesCards(req[r])
      /\ sources \in Nat
      /\ \A c \in Sources : c \in Nat
      /\ \A c \in Sources : card[c] \in Card
  BY <1>0, CardKnown
<1>2. PICK n \in Sources : n = sources + 1
  BY <1>0, <1>1, CardsAssumption DEF Sources
<1>3. PICK q : q = [req[r] EXCEPT !.at = "create", !.card = n]
  OBVIOUS
<1>4. /\ q \in Request /\ q.call = "addCard" /\ q.at = "create" /\ q.uid = req[r].uid
      /\ q.other = req[r].other /\ q.meta = req[r].meta /\ q.card = n
  BY <1>0, <1>1, <1>2, <1>3 DEF Request, Awaits
<1>5. req' = [req EXCEPT ![r] = q]
  BY <1>1, <1>2, <1>3 DEF CreateSource, AccountTypeOK, Request
<1>6. /\ card' = [card EXCEPT ![n] =
           [fingerprint |-> req[r].card, customer |-> req[r].meta.customer,
            user |-> req[r].uid]]
      /\ card'[n].user = req[r].uid /\ card'[n].fingerprint = req[r].card
      /\ card'[n].customer = req[r].meta.customer
      /\ \A c \in Sources : c # n => card'[c] = card[c]
  BY <1>1, <1>2 DEF CreateSource, TypeOK
<1>7. card' \in [Sources -> Card]
  BY <1>1, <1>6 DEF TypeOK, Card, Request, Meta
<1>8. AccountInv'
  <2>1. /\ UNCHANGED <<firebase, users, belongings, calls, marks>>
        /\ row' \in [Uids -> Row] /\ \A v \in Uids : row'[v].email = row[v].email
    BY <1>0, <1>1 DEF OnlyCards, table, AccountTypeOK
  <2>2. AccountInv /\ q \in Request /\ req[r].call \in CardCalls
    BY <1>0, <1>1, <1>4
  <2>3. q.call = req[r].call /\ q.uid = req[r].uid /\ q.other = req[r].other
    BY <1>0, <1>4
  <2> QED
    BY <1>5, <2>1, <2>2, <2>3, CardAccount
<1>9. n \notin listed /\ n \notin held /\ \A c \in listed : c # n /\ c \in Sources
  <2>1. \A c \in listed \cup held : c \in Sources /\ c <= sources
    BY <1>1 DEF CardInv, Bounded, TypeOK
  <2>2. ~ (n <= sources)
    BY <1>1, <1>2
  <2> QED
    BY <2>1, <2>2
<1>10. Works(q)'
  BY <1>0, <1>1, <1>2, <1>4, <1>6, <1>9 DEF Works
<1>11. Disturbed(q.uid)' \/ SeesCards(q)'
  <2>1. CASE Disturbed(req[r].uid)
    BY <1>0, <1>4, <2>1 DEF Disturbed, OnlyCards
  <2>2. CASE SeesCards(req[r])
    <3>1. Has(q)'
      BY <1>0, <1>4, <2>2 DEF SeesCards, Has, OnlyCards, table
    <3>2. New(q.uid, card[q.card].fingerprint)'
      BY <1>0, <1>4, <1>6, <1>9, <2>2 DEF SeesCards, New
    <3> QED
      BY <1>4, <3>1, <3>2 DEF SeesCards
  <2> QED
    BY <1>1, <2>1, <2>2
<1>12. Apart'
  <2> SUFFICES ASSUME NEW a \in Requests, NEW b \in Requests, a # b,
                      Creating(req'[a]), Holding(req'[b])
               PROVE  req'[a].card # req'[b].card
    BY DEF Apart, Creating, Holding
  <2>1. \A s \in Requests : s # r /\ Holding(req'[s]) =>
          req'[s] = req[s] /\ req[s].card # n
    BY <1>1, <1>2, <1>5 DEF CardInv, Works, Holding, Creating, AccountTypeOK
  <2>2. req'[r] = q /\ Holding(req'[a])
    BY <1>1, <1>5 DEF AccountTypeOK, Holding
  <2>3. CASE a = r
    BY <1>4, <2>1, <2>2, <2>3
  <2>4. CASE b = r
    BY <1>4, <2>1, <2>2, <2>4
  <2>5. CASE a # r /\ b # r
    BY <2>1, <2>2, <2>5 DEF CardInv, Apart
  <2> QED
    BY <2>3, <2>4, <2>5
<1>13. \A c \in listed' : OfItsCustomer(c)'
  BY <1>0, <1>6, <1>9 DEF CardInv, OfItsCustomer, Marked, OnlyCards, table
<1>14. OneCardOnce'
  BY <1>0, <1>6, <1>9 DEF CardInv, OneCardOnce, Marked, OnlyCards
<1>15. CardsAreReal'
  <2> SUFFICES ASSUME NEW c \in listed
               PROVE  \/ c \in held
                      \/ \E s \in Requests : At(s, "removeCard", "destroy")'
                                             /\ req'[s].card = c
                      \/ Marked({"torn", "renamed"}, card[c].user)
    BY <1>0, <1>6, <1>9 DEF CardsAreReal, Marked, OnlyCards
  <2>1. ASSUME NEW s \in Requests, At(s, "removeCard", "destroy"), req[s].card = c
        PROVE  At(s, "removeCard", "destroy")' /\ req'[s].card = c
    BY <1>0, <1>1, <1>5, <2>1 DEF At, AccountTypeOK
  <2> QED
    BY <2>1 DEF CardInv, CardsAreReal
<1>16. \A v \in Uids : v \in IdsOf(req[r]) \/ NoNewCard(v)
  BY <1>0, <1>6, <1>9 DEF NoNewCard
<1>17. \A s \in Requests \ {r} : Creating(req[s]) =>
         req[s].card \in held' /\ req[s].card \notin listed'
  BY <1>0 DEF CardInv, Works, Creating
<1>18. /\ \A c \in listed' \cup held' : c <= sources'
       /\ \A c \in Sources : c <= sources => card'[c] = card[c] \/ Moved(r, c)
       /\ \A c \in Sources : c > sources =>
            (card'[c] = card[c] /\ c > sources') \/ Created(r, c)
  <2>1. Created(r, n)
    BY <1>0, <1>1, <1>2, <1>6 DEF Created, Works
  <2>2. \A c \in listed \cup held : c \in Sources /\ c <= sources
    BY <1>1 DEF CardInv, Bounded, TypeOK
  <2>3. \A c \in Sources : (c <= sources => c <= sources') /\ (c <= sources => c # n)
                            /\ (c > sources /\ c # n => c > sources') /\ n <= sources'
    <3>1. sources \in Nat /\ sources' = sources + 1 /\ n = sources + 1
      BY <1>0, <1>1, <1>2
    <3>2. TAKE c \in Sources
    <3>3. c \in Nat
      BY <1>1
    <3> QED
      BY <3>1, <3>3
  <2> QED
    BY <1>0, <1>6, <2>1, <2>2, <2>3, <1>2
<1>19. sources' \in 0..MaxSources /\ sources <= sources' /\ held' \subseteq Sources
       /\ listed' \subseteq Sources
  BY <1>0, <1>1, <1>2, CardsAssumption DEF TypeOK
<1>20. q \in Request /\ (q = Idle \/ (q.uid = req[r].uid /\ q.meta = req[r].meta))
  BY <1>4
<1>21. OnlyCards
  BY <1>0
<1> QED
  BY <1>5, <1>20, <1>21, <1>7, <1>8, <1>10, <1>11, <1>12, <1>13, <1>14, <1>15,
     <1>16, <1>17, <1>18, <1>19, CardKeeps

\* The end of a request about cards, with Stripe's sources as they were.
LEMMA CardEnds ==
  ASSUME CardInv, OnlyCards, UNCHANGED sources, NEW r \in Requests,
         req[r].call \in CardCalls, End(r),
         held' \subseteq held, listed' \subseteq listed \cup {req[r].card},
         Creating(req[r]) \/ listed' \subseteq listed,
         card' \in [Sources -> Card],
         \A c \in Sources : card'[c] = card[c] \/ Moved(r, c),
         held \subseteq held' \/ (Holding(req[r]) /\ held \subseteq held' \cup {req[r].card}),
         \A c \in listed' : OfItsCustomer(c)', OneCardOnce', CardsAreReal'
  PROVE  CardInv'
<1>0. /\ TypeOK /\ AccountInv /\ AccountTypeOK
      /\ req[r] \in Request /\ Works(req[r])
      /\ req[r].uid \in Uids /\ req[r].uid # 0 /\ req[r].other = 0
      /\ req[r].uid \in IdsOf(req[r])
      /\ sources \in Nat
      /\ \A c \in Sources : c \in Nat
      /\ \A c \in Sources : card[c] \in Card
  BY CardKnown
<1>1. PICK q \in Request : q = Idle
  BY IdleType
<1>2. req' = [req EXCEPT ![r] = q] /\ req'[r] = q
      /\ \A s \in Requests \ {r} : req'[s] = req[s]
  BY <1>0, <1>1 DEF End, AccountTypeOK
<1>3. AccountInv'
  <2>1. /\ UNCHANGED <<firebase, users, belongings, calls, marks>>
        /\ row' \in [Uids -> Row] /\ \A v \in Uids : row'[v].email = row[v].email
    BY <1>0 DEF OnlyCards, table, AccountTypeOK
  <2> QED
    BY <1>0, <1>1, <1>2, <2>1, CardAccount
<1>4. Works(q)' /\ SeesCards(q)' /\ ~ Holding(q)
  BY <1>1 DEF Idle, Works, SeesCards, Creating, Holding
<1>5. \A c \in listed' \cup held' : c \in Sources /\ c <= sources'
  BY <1>0 DEF CardInv, Bounded, TypeOK, Works, Creating
<1>6. Apart'
  <2> SUFFICES ASSUME NEW a \in Requests, NEW b \in Requests, a # b,
                      Creating(req'[a]), Holding(req'[b])
               PROVE  req'[a].card # req'[b].card
    BY DEF Apart, Creating, Holding
  <2>1. a # r /\ b # r
    BY <1>2, <1>4 DEF Holding
  <2> QED
    BY <1>2, <2>1 DEF CardInv, Apart
<1>7. \A v \in Uids : v \in IdsOf(req[r]) \/ NoNewCard(v)
  <2> SUFFICES ASSUME NEW v \in Uids, v \notin IdsOf(req[r]), NEW d \in listed',
                      card'[d].user = v
               PROVE  d \in listed /\ card'[d] = card[d]
    BY DEF NoNewCard
  <2>1. v # req[r].uid /\ d \in Sources
    BY <1>0, <1>5
  <2>2. card'[d] = card[d]
    BY <1>0, <2>1 DEF Moved, Card
  <2>3. d \in listed
    BY <2>1, <2>2 DEF Works, Creating, CardInv
  <2> QED
    BY <2>2, <2>3
<1>8. ASSUME NEW s \in Requests \ {r}, Creating(req[s])
      PROVE  req[s].card \in held' /\ req[s].card \notin listed'
  <2>1. req[s].card \in held /\ req[s].card \notin listed
    BY <1>8 DEF CardInv, Works, Creating
  <2>2. Holding(req[r]) => req[s].card # req[r].card
    BY <1>8 DEF CardInv, Apart
  <2> QED
    BY <2>1, <2>2 DEF Holding
<1>9. \A c \in Sources : c > sources =>
        (card'[c] = card[c] /\ c > sources') \/ Created(r, c)
  <2>1. \A c \in Sources : c > sources => c \notin listed
    BY <1>0 DEF CardInv, Bounded
  <2> QED
    BY <2>1 DEF Moved
<1>10. sources' \in 0..MaxSources /\ sources <= sources' /\ held' \subseteq Sources
       /\ listed' \subseteq Sources
  BY <1>0, <1>5 DEF TypeOK
<1> QED
  BY <1>1, <1>2, <1>3, <1>4, <1>5, <1>6, <1>7, <1>8, <1>9, <1>10, CardKeeps

LEMMA CreateRowKeeps ==
  ASSUME CardInv, NEW r \in Requests, CreateRow(r)
  PROVE  CardInv'
<1>0. /\ req[r].call = "addCard" /\ req[r].at = "create" /\ req[r].call \in CardCalls
      /\ listed' = listed \cup {req[r].card} /\ End(r)
      /\ OnlyCards /\ UNCHANGED <<sources, held, card>>
      /\ Creating(req[r])
  BY DEF CreateRow, At, OnlyCards, CardCalls, stripe, Creating
<1>1. PICK x : x = req[r].card
  OBVIOUS
<1>2. /\ TypeOK /\ AccountTypeOK /\ x \in Sources /\ x \in held
      /\ card[x].customer = req[r].meta.customer /\ card[x].user = req[r].uid
      /\ Disturbed(req[r].uid) \/ SeesCards(req[r])
  BY <1>0, <1>1, CardKnown DEF Works
<1>3. ASSUME NEW c \in listed'
      PROVE  OfItsCustomer(c)'
  <2>1. CASE c \in listed
    BY <1>0, <2>1 DEF CardInv, OfItsCustomer, Marked, OnlyCards, table
  <2>2. CASE c = x
    BY <1>0, <1>2, <2>2 DEF OfItsCustomer, Marked, Disturbed, SeesCards, Has,
                            OnlyCards, table
  <2> QED
    BY <1>0, <1>1, <2>1, <2>2
<1>4. ASSUME NEW d \in listed, card[d].user = card[x].user,
             card[d].fingerprint = card[x].fingerprint
      PROVE  Marked({"overlapped", "renamed"}, card[x].user)
  BY <1>0, <1>1, <1>2, <1>4 DEF Marked, Disturbed, SeesCards, New
<1>5. OneCardOnce'
  BY <1>0, <1>1, <1>4 DEF CardInv, OneCardOnce, Marked, OnlyCards
<1>6. CardsAreReal'
  <2> SUFFICES ASSUME NEW c \in listed
               PROVE  \/ c \in held
                      \/ \E s \in Requests : At(s, "removeCard", "destroy")'
                                             /\ req'[s].card = c
                      \/ Marked({"torn", "renamed"}, card[c].user)
    BY <1>0, <1>1, <1>2 DEF CardsAreReal, Marked, OnlyCards
  <2>1. ASSUME NEW s \in Requests, At(s, "removeCard", "destroy"), req[s].card = c
        PROVE  At(s, "removeCard", "destroy")' /\ req'[s].card = c
    BY <1>0, <1>2, <2>1 DEF At, End, AccountTypeOK
  <2> QED
    BY <2>1 DEF CardInv, CardsAreReal
<1> QED
  BY <1>0, <1>2, <1>3, <1>5, <1>6, CardEnds DEF TypeOK

\* A step that shortens the lists of cards, and changes none.
LEMMA FewerCards ==
  ASSUME CardInv, OnlyCards, UNCHANGED card, listed' \subseteq listed
  PROVE  (\A c \in listed' : OfItsCustomer(c)') /\ OneCardOnce'
  BY DEF CardInv, OfItsCustomer, OneCardOnce, Marked, OnlyCards, table

LEMMA DestroyRowKeeps ==
  ASSUME CardInv, NEW r \in Requests, DestroyRow(r)
  PROVE  CardInv'
<1>0. /\ req[r].call = "removeCard" /\ req[r].at = "destroy" /\ req[r].call \in CardCalls
      /\ listed' = listed \ {req[r].card} /\ End(r)
      /\ OnlyCards /\ UNCHANGED <<sources, held, card>>
  BY DEF DestroyRow, At, OnlyCards, CardCalls, stripe
<1>1. TypeOK /\ AccountTypeOK
  BY <1>0, CardKnown
<1>2. CardsAreReal'
  <2> SUFFICES ASSUME NEW c \in listed, c # req[r].card
               PROVE  \/ c \in held
                      \/ \E s \in Requests : At(s, "removeCard", "destroy")'
                                             /\ req'[s].card = c
                      \/ Marked({"torn", "renamed"}, card[c].user)
    BY <1>0 DEF CardsAreReal, Marked, OnlyCards
  <2>1. ASSUME NEW s \in Requests, At(s, "removeCard", "destroy"), req[s].card = c
        PROVE  At(s, "removeCard", "destroy")' /\ req'[s].card = c
    BY <1>0, <1>1, <2>1 DEF At, End, AccountTypeOK
  <2> QED
    BY <2>1 DEF CardInv, CardsAreReal
<1> QED
  BY <1>0, <1>1, <1>2, FewerCards, CardEnds DEF TypeOK

LEMMA UpdateRowKeeps ==
  ASSUME CardInv, NEW r \in Requests, UpdateRow(r)
  PROVE  CardInv'
<1>0. /\ req[r].call = "updateCard" /\ req[r].at = "save" /\ req[r].call \in CardCalls
      /\ End(r) /\ OnlyCards /\ UNCHANGED <<sources, held, listed>>
  BY DEF UpdateRow, At, OnlyCards, CardCalls, stripe
<1>1. PICK x, u : x = req[r].card /\ u = req[r].uid
  OBVIOUS
<1>2. /\ TypeOK /\ AccountTypeOK /\ x \in Sources /\ u \in Uids /\ u # 0
      /\ card[x].customer = req[r].meta.customer /\ req[r].meta.customer # 0
      /\ \A c \in Sources : card[c] \in Card
      /\ card \in [Sources -> Card]
  BY <1>0, <1>1, CardKnown DEF Works, TypeOK
<1>3. card' = IF x \in listed THEN [card EXCEPT ![x].user = u] ELSE card
  BY <1>1 DEF UpdateRow
<1>4. /\ card' \in [Sources -> Card]
      /\ \A c \in Sources : c # x => card'[c] = card[c]
  BY <1>2, <1>3 DEF Card
<1>5. card'[x] # card[x] =>
        /\ x \in listed /\ card'[x] = [card[x] EXCEPT !.user = u]
        /\ card[x].user # u
  BY <1>2, <1>3 DEF Card
<1>6. card'[x] # card[x] => <<"renamed", u>> \in marks /\ Moved(r, x)
  <2> SUFFICES ASSUME card'[x] # card[x]
               PROVE  <<"renamed", u>> \in marks /\ Moved(r, x)
    OBVIOUS
  <2>1. Place(card[x].customer, u) /\ Place(card[x].customer, card[x].user)
    BY <1>1, <1>2 DEF Place
  <2>2. card[x].user \in Uids /\ card[x].customer \in Nat \ {0}
    BY <1>2, <1>5 DEF CardInv, Bounded, Made, Card
  <2>3. <<"renamed", u>> \in marks
    BY <1>2, <1>5, <2>1, <2>2 DEF CardInv, Lineage, Renamed
  <2> QED
    BY <1>1, <1>5, <2>1, <2>3 DEF Moved, Marked
<1>7. ASSUME NEW c \in listed
      PROVE  card'[c] = card[c] \/ (<<"renamed", u>> \in marks /\ card'[c].user = u)
  <2>1. c \in Sources /\ card[c] \in Card
    BY <1>2 DEF TypeOK
  <2>2. CASE c = x
    BY <1>5, <1>6, <2>1, <2>2 DEF Card
  <2>3. CASE c # x
    BY <1>4, <2>1, <2>3
  <2> QED
    BY <2>2, <2>3
<1>8. \A c \in listed' : OfItsCustomer(c)'
  BY <1>0, <1>7 DEF CardInv, OfItsCustomer, Marked, OnlyCards, table
<1>9. OneCardOnce'
  BY <1>0, <1>7 DEF CardInv, OneCardOnce, Marked, OnlyCards
<1>10. CardsAreReal'
  <2> SUFFICES ASSUME NEW c \in listed, card'[c] = card[c]
               PROVE  \/ c \in held
                      \/ \E s \in Requests : At(s, "removeCard", "destroy")'
                                             /\ req'[s].card = c
                      \/ Marked({"torn", "renamed"}, card[c].user)
    BY <1>0, <1>7 DEF CardsAreReal, Marked, OnlyCards
  <2>1. ASSUME NEW s \in Requests, At(s, "removeCard", "destroy"), req[s].card = c
        PROVE  At(s, "removeCard", "destroy")' /\ req'[s].card = c
    BY <1>0, <1>2, <2>1 DEF At, End, AccountTypeOK
  <2> QED
    BY <2>1 DEF CardInv, CardsAreReal
<1>11. \A c \in Sources : card'[c] = card[c] \/ Moved(r, c)
  BY <1>4, <1>6
<1> QED
  BY <1>0, <1>4, <1>8, <1>9, <1>10, <1>11, CardEnds

\* A request that goes on with what it has.
LEMMA CardGoes ==
  ASSUME CardInv, NEW r \in Requests, req[r].call \in CardCalls, NEW at \in Awaits
  PROVE  \E q \in Request :
           /\ [req EXCEPT ![r].at = at] = [req EXCEPT ![r] = q]
           /\ q.at = at /\ q.call = req[r].call /\ q.uid = req[r].uid
           /\ q.other = req[r].other /\ q.meta = req[r].meta /\ q.card = req[r].card
<1>1. req[r] \in Request /\ AccountTypeOK
  BY CardKnown
<1>2. PICK q : q = [req[r] EXCEPT !.at = at]
  OBVIOUS
<1>3. /\ q \in Request
      /\ q.at = at /\ q.call = req[r].call /\ q.uid = req[r].uid
      /\ q.other = req[r].other /\ q.meta = req[r].meta /\ q.card = req[r].card
  BY <1>1, <1>2 DEF Request
<1>4. [req EXCEPT ![r].at = at] = [req EXCEPT ![r] = q]
  BY <1>1, <1>2, GoType
<1> QED
  BY <1>3, <1>4

LEMMA DeleteCardKeeps ==
  ASSUME CardInv, NEW r \in Requests, DeleteCard(r)
  PROVE  CardInv'
<1>0. /\ req[r].call = "removeCard" /\ req[r].at = "delete" /\ req[r].call \in CardCalls
      /\ held' = held \ {req[r].card}
      /\ OnlyCards /\ UNCHANGED <<sources, listed, card>>
  BY DEF DeleteCard, At, OnlyCards, CardCalls
<1>1. /\ TypeOK /\ AccountInv /\ AccountTypeOK /\ Works(req[r]) /\ sources \in Nat
      /\ req[r] \in Request /\ req[r].uid \in Uids
  BY <1>0, CardKnown
<1>2. (\A c \in listed' : OfItsCustomer(c)') /\ OneCardOnce'
  BY <1>0, FewerCards
<1>3. ASSUME NEW c \in listed, NEW s \in Requests \ {r}, At(s, "removeCard", "destroy"),
             req[s].card = c, NEW q, req' = [req EXCEPT ![r] = q]
      PROVE  At(s, "removeCard", "destroy")' /\ req'[s].card = c
  BY <1>0, <1>1, <1>3 DEF At, AccountTypeOK
<1>4. CASE req[r].card \notin held
  <2>1. End(r) /\ held' = held
    BY <1>0, <1>4 DEF DeleteCard
  <2>2. CardsAreReal'
    <3> SUFFICES ASSUME NEW c \in listed
                 PROVE  \/ c \in held
                        \/ \E s \in Requests : At(s, "removeCard", "destroy")'
                                               /\ req'[s].card = c
                        \/ Marked({"torn", "renamed"}, card[c].user)
      BY <1>0, <2>1 DEF CardsAreReal, Marked, OnlyCards
    <3>1. PICK q : q = Idle
      OBVIOUS
    <3>2. ASSUME NEW s \in Requests, At(s, "removeCard", "destroy"), req[s].card = c
          PROVE  At(s, "removeCard", "destroy")' /\ req'[s].card = c
      <4>1. s # r
        BY <1>0, <3>2 DEF At
      <4> QED
        BY <1>3, <2>1, <3>1, <3>2, <4>1 DEF End
    <3> QED
      BY <3>2 DEF CardInv, CardsAreReal
  <2> QED
    BY <1>0, <1>1, <1>2, <2>1, <2>2, CardEnds DEF TypeOK
<1>5. CASE req[r].card \in held
  <2>0. "destroy" \in Awaits
    BY DEF Awaits
  <2>1. PICK q \in Request :
          /\ [req EXCEPT ![r].at = "destroy"] = [req EXCEPT ![r] = q]
          /\ q.at = "destroy" /\ q.call = req[r].call /\ q.uid = req[r].uid
          /\ q.other = req[r].other /\ q.meta = req[r].meta /\ q.card = req[r].card
    BY <1>0, <2>0, CardGoes
  <2>2. /\ req' = [req EXCEPT ![r] = q] /\ req'[r] = q
        /\ \A s \in Requests \ {r} : req'[s] = req[s]
    BY <1>0, <1>1, <1>5, <2>1 DEF DeleteCard, Go, AccountTypeOK
  <2>3. AccountInv'
    <3>1. /\ UNCHANGED <<firebase, users, belongings, calls, marks>>
          /\ row' \in [Uids -> Row] /\ \A v \in Uids : row'[v].email = row[v].email
      BY <1>0, <1>1 DEF OnlyCards, table, AccountTypeOK
    <3> QED
      BY <1>0, <1>1, <2>1, <2>2, <3>1, CardAccount
  <2>4. Works(q)' /\ SeesCards(q)' /\ ~ Creating(q) /\ Holding(q) /\ Holding(req[r])
    BY <1>0, <1>1, <2>1 DEF Works, SeesCards, Creating, Holding, Marked, OnlyCards
  <2>5. CardsAreReal'
    <3> SUFFICES ASSUME NEW c \in listed
                 PROVE  \/ c \in held'
                        \/ \E s \in Requests : At(s, "removeCard", "destroy")'
                                               /\ req'[s].card = c
                        \/ Marked({"torn", "renamed"}, card[c].user)
      BY <1>0 DEF CardsAreReal, Marked, OnlyCards
    <3>1. CASE c = req[r].card
      BY <1>0, <2>1, <2>2, <3>1 DEF At
    <3>2. CASE c # req[r].card
      <4>1. ASSUME NEW s \in Requests, At(s, "removeCard", "destroy"), req[s].card = c
            PROVE  At(s, "removeCard", "destroy")' /\ req'[s].card = c
        BY <1>3, <2>2, <3>2, <4>1
      <4> QED
        BY <1>0, <3>2, <4>1 DEF CardInv, CardsAreReal
    <3> QED
      BY <3>1, <3>2
  <2>6. Apart'
    <3> SUFFICES ASSUME NEW a \in Requests, NEW b \in Requests, a # b,
                        Creating(req'[a]), Holding(req'[b])
                 PROVE  req'[a].card # req'[b].card
      BY DEF Apart, Creating, Holding
    <3>1. a # r
      BY <2>2, <2>4
    <3> QED
      BY <2>1, <2>2, <2>4, <3>1 DEF CardInv, Apart
  <2>7. \A v \in Uids : NoNewCard(v)
    BY <1>0 DEF NoNewCard
  <2>8. \A s \in Requests \ {r} : Creating(req[s]) =>
          req[s].card \in held' /\ req[s].card \notin listed'
    BY <1>0, <2>4 DEF CardInv, Works, Apart, Creating
  <2>9. \A c \in listed' \cup held' : c \in Sources /\ c <= sources'
    BY <1>0, <1>1 DEF CardInv, Bounded, TypeOK
  <2>10. sources' \in 0..MaxSources /\ sources <= sources' /\ held' \subseteq Sources
         /\ listed' \subseteq Sources /\ card' \in [Sources -> Card]
         /\ \A c \in Sources : c > sources => c > sources'
    BY <1>0, <1>1 DEF TypeOK
  <2> QED
    BY <1>0, <1>2, <2>1, <2>2, <2>3, <2>4, <2>5, <2>6, <2>7, <2>8, <2>9, <2>10, CardKeeps
<1> QED
  BY <1>4, <1>5

-----------------------------------------------------------------------------
(***************************************************************************)
(* Steps about cards that read, or write the row of the user.              *)
(***************************************************************************)
RowOf(u) ==
  /\ row' \in [Uids -> Row]
  /\ \A v \in Uids : row'[v].email = row[v].email /\ (v # u => row'[v] = row[v])
  /\ KeepsCustomer(u)
  /\ row'[u].meta.customer # 0 => Place(row'[u].meta.customer, u)

LEMMA CardRowStep ==
  ASSUME CardInv, NEW r \in Requests, req[r].call \in CardCalls,
         ~ At(r, "removeCard", "destroy"), ~ Creating(req[r]),
         UNCHANGED <<firebase, users, belongings, calls, marks,
                     sources, held, listed, card>>,
         customers' \in 0..MaxCustomers, customers <= customers',
         NEW u \in Uids, u = req[r].uid, RowOf(u),
         NEW q \in Request, req' = [req EXCEPT ![r] = q],
         \/ q = Idle
         \/ /\ q.call = req[r].call /\ q.uid = req[r].uid /\ q.other = req[r].other
            /\ q.card = req[r].card
            /\ \/ q.meta = req[r].meta
               \/ q.meta.customer = customers' /\ customers' > customers
            /\ ~ Creating(q)
            /\ Works(q)' /\ (Disturbed(q.uid)' \/ SeesCards(q)')
  PROVE  CardInv'
<1>0. /\ TypeOK /\ AccountInv /\ AccountTypeOK
      /\ req[r] \in Request /\ Works(req[r])
      /\ req[r].uid \in Uids /\ req[r].uid # 0
      /\ req[r].uid \in IdsOf(req[r])
      /\ customers \in Nat
  BY CardKnown
<1>1. AccountInv'
  BY <1>0, CardAccount DEF RowOf
<1>2. TableStep(r)
  <2>1. \A v \in Uids : v \in IdsOf(req[r]) \/ SameRow(v)
    BY <1>0 DEF RowOf, SameRow
  <2>2. \A v \in Uids : KeepsCustomer(v)
    BY DEF RowOf, KeepsCustomer
  <2>3. \A v \in Uids : row'[v].meta.customer # 0 => From(row'[v].meta.customer, v)
    BY DEF RowOf, From, Place
  <2> QED
    BY <2>1, <2>2, <2>3 DEF TableStep
<1>3. Works(q)' /\ (Disturbed(q.uid)' \/ SeesCards(q)') /\ ~ Creating(q)
  BY DEF Idle, Works, SeesCards, Creating
<1>4. Holding(q) => Holding(req[r]) /\ q.card = req[r].card
  BY <1>3 DEF Holding, Creating, Idle
<1>5. /\ q.meta.customer <= customers'
      /\ q.meta.customer \in {0} \/ q.meta.customer > customers
           \/ Place(q.meta.customer, q.uid)
  <2>0. customers' \in Nat
    BY CardsAssumption
  <2>1. CASE q = Idle
    BY <1>0, <2>0, <2>1 DEF Idle, NoMeta
  <2>2. CASE q.uid = req[r].uid /\ q.meta = req[r].meta
    <3>1. req[r].meta.customer \in Nat /\ req[r].meta.customer <= customers
      BY <1>0 DEF CardInv, Bounded, Request, Meta
    <3> QED
      BY <1>0, <2>0, <2>2, <3>1 DEF Place
  <2>3. CASE q.meta.customer = customers' /\ customers' > customers
    BY <2>0, <2>3
  <2> QED
    BY <2>1, <2>2, <2>3
<1>6. marks \subseteq marks' /\ UNCHANGED <<sources, held, listed, card>>
  OBVIOUS
<1>7. ~ At(r, "removeCard", "destroy")
  OBVIOUS
<1> QED
  BY <1>1, <1>2, <1>3, <1>4, <1>5, <1>6, <1>7, TableKeeps

LEMMA SameRowOf ==
  ASSUME CardInv, UNCHANGED table, NEW u \in Uids
  PROVE  RowOf(u)
<1>1. AccountTypeOK
  BY DEF CardInv, TypeOK
<1> QED
  BY <1>1 DEF RowOf, table, AccountTypeOK, KeepsCustomer, Place

LEMMA CardReadsKeep ==
  ASSUME CardInv, NEW r \in Requests, CheckCard(r) \/ UpdateSource(r)
  PROVE  CardInv'
<1>0. /\ req[r].call \in CardCalls /\ ~ At(r, "removeCard", "destroy")
      /\ ~ Creating(req[r])
      /\ UNCHANGED <<firebase, table, belongings, calls, marks, cardVars>>
  BY DEF CheckCard, UpdateSource, At, CardCalls, Creating
<1>1. /\ TypeOK /\ AccountTypeOK /\ req[r].uid \in Uids /\ customers \in Nat
      /\ Works(req[r]) /\ (Disturbed(req[r].uid) \/ SeesCards(req[r]))
  BY <1>0, CardKnown
<1>2. PICK u \in Uids : u = req[r].uid /\ RowOf(u)
  BY <1>0, <1>1, SameRowOf
<1>3. /\ UNCHANGED <<firebase, users, belongings, calls, marks, sources, held, listed, card>>
      /\ customers' \in 0..MaxCustomers /\ customers <= customers'
  BY <1>0, <1>1 DEF cardVars, stripe, table, TypeOK
<1>4. CASE End(r)
  BY <1>0, <1>2, <1>3, <1>4, CardRowStep, IdleType DEF End
<1>5. ASSUME NEW at \in Awaits, Go(r, at),
             \/ /\ At(r, "addCard", "check") /\ at = "customer"
                /\ \A c \in listed : card[c].user = req[r].uid =>
                                     card[c].fingerprint # req[r].card
             \/ /\ At(r, "updateCard", "update") /\ at = "save"
                /\ card[req[r].card].customer = req[r].meta.customer
      PROVE  CardInv'
  <2>1. PICK q \in Request :
          /\ [req EXCEPT ![r].at = at] = [req EXCEPT ![r] = q]
          /\ q.at = at /\ q.call = req[r].call /\ q.uid = req[r].uid
          /\ q.other = req[r].other /\ q.meta = req[r].meta /\ q.card = req[r].card
    BY <1>0, CardGoes
  <2>2. ~ Creating(q) /\ Works(q)'
    BY <1>0, <1>1, <1>3, <1>5, <2>1 DEF Creating, Works, At
  <2>3. Disturbed(q.uid)' \/ SeesCards(q)'
    BY <1>0, <1>1, <1>3, <1>5, <2>1 DEF SeesCards, At, Has, New, Disturbed, table
  <2>4. req' = [req EXCEPT ![r] = q]
    BY <1>5, <2>1 DEF Go
  <2> QED
    BY <1>0, <1>2, <1>3, <2>1, <2>2, <2>3, <2>4, CardRowStep
<1> QED
  BY <1>4, <1>5 DEF CheckCard, UpdateSource, Awaits

LEMMA FindOrCreateCustomerKeeps ==
  ASSUME CardInv, NEW r \in Requests, FindOrCreateCustomer(r)
  PROVE  CardInv'
<1>0. /\ req[r].call = "addCard" /\ req[r].at = "customer"
      /\ req[r].call \in CardCalls /\ ~ At(r, "removeCard", "destroy")
      /\ ~ Creating(req[r])
      /\ UNCHANGED <<firebase, table, belongings, calls, marks, sources, held, listed, card>>
  BY DEF FindOrCreateCustomer, At, CardCalls, Creating
<1>1. /\ TypeOK /\ AccountTypeOK /\ req[r].uid \in Uids /\ customers \in Nat
      /\ req[r] \in Request
      /\ Works(req[r]) /\ (Disturbed(req[r].uid) \/ SeesCards(req[r]))
  BY <1>0, CardKnown
<1>2. PICK u \in Uids : u = req[r].uid /\ RowOf(u)
  BY <1>0, <1>1, SameRowOf
<1>3. UNCHANGED <<firebase, users, belongings, calls, marks, sources, held, listed, card>>
  BY <1>0 DEF table
<1>4. CASE req[r].meta.customer # 0
  <2>0. "source" \in Awaits /\ Go(r, "source") /\ customers' = customers
    BY <1>4 DEF Awaits, FindOrCreateCustomer
  <2>1. PICK q \in Request :
          /\ [req EXCEPT ![r].at = "source"] = [req EXCEPT ![r] = q]
          /\ q.at = "source" /\ q.call = req[r].call /\ q.uid = req[r].uid
          /\ q.other = req[r].other /\ q.meta = req[r].meta /\ q.card = req[r].card
    BY <1>0, <2>0, CardGoes
  <2>2. ~ Creating(q) /\ Works(q)'
    BY <1>0, <1>4, <2>1 DEF Creating, Works
  <2>3. Disturbed(q.uid)' \/ SeesCards(q)'
    BY <1>0, <1>1, <1>3, <2>1 DEF SeesCards, Has, New, Disturbed, table
  <2>4. req' = [req EXCEPT ![r] = q]
    BY <2>0, <2>1 DEF Go
  <2>5. customers' \in 0..MaxCustomers /\ customers <= customers'
    BY <1>1, <2>0 DEF TypeOK
  <2> QED
    BY <1>0, <1>2, <1>3, <2>1, <2>2, <2>3, <2>4, <2>5, CardRowStep
<1>5. CASE req[r].meta.customer = 0
  <2>1. /\ customers < MaxCustomers /\ customers' = customers + 1
        /\ req' = [req EXCEPT ![r].at = "note", ![r].meta.customer = customers + 1]
    BY <1>5 DEF FindOrCreateCustomer
  <2>2. PICK q : q = [req[r] EXCEPT !.at = "note", !.meta.customer = customers + 1]
    OBVIOUS
  <2>3. /\ q \in Request /\ q.at = "note" /\ q.call = "addCard" /\ q.uid = req[r].uid
        /\ q.other = req[r].other /\ q.card = req[r].card
        /\ q.meta.customer = customers + 1
    <3>1. req[r].meta \in Meta /\ customers + 1 \in Nat
      BY <1>1 DEF Request
    <3>2. PICK m \in Meta : m = [req[r].meta EXCEPT !.customer = customers + 1]
      BY <3>1 DEF Meta
    <3>3. m.customer = customers + 1
      BY <3>1, <3>2 DEF Meta
    <3>4. q = [req[r] EXCEPT !.at = "note", !.meta = m]
      BY <1>1, <2>2, <3>2 DEF Request
    <3> QED
      BY <1>0, <1>1, <3>3, <3>4 DEF Request, Awaits
  <2>4. req' = [req EXCEPT ![r] = q]
    BY <1>1, <2>1, <2>2 DEF AccountTypeOK, Request, Meta
  <2>5. /\ customers' \in 0..MaxCustomers /\ customers <= customers'
        /\ customers' > customers /\ q.meta.customer = customers' /\ q.meta.customer # 0
    BY <1>1, <2>1, <2>3, CardsAssumption
  <2>6. ~ Creating(q) /\ Works(q)'
    BY <2>3, <2>5 DEF Creating, Works
  <2>7. Disturbed(q.uid)' \/ SeesCards(q)'
    BY <1>0, <1>1, <1>3, <1>5, <2>3 DEF SeesCards, Has, New, Disturbed, table
  <2> QED
    BY <1>0, <1>2, <1>3, <2>3, <2>4, <2>5, <2>6, <2>7, CardRowStep
<1> QED
  BY <1>4, <1>5

\* A row that gets a meta with the customer it has, or with its first one.
LEMMA SavedMeta ==
  ASSUME CardInv, NEW r \in Requests, NEW u \in Uids, u = req[r].uid,
         UNCHANGED <<users, marks>>, NEW meta \in Meta, SaveMeta(u, meta),
         meta.customer = req[r].meta.customer,
         \/ Disturbed(u)
         \/ u \in users /\ row[u].meta.customer \in {0, req[r].meta.customer}
  PROVE  /\ RowOf(u)
         /\ u \in users => row'[u].meta = meta
<1>1. AccountTypeOK /\ row[u] \in Row
  BY DEF CardInv, TypeOK, AccountTypeOK
<1>2. CASE u \in users
  <2>1. row' = [row EXCEPT ![u].meta = meta]
    BY <1>2 DEF SaveMeta
  <2>2. /\ [row[u] EXCEPT !.meta = meta] \in Row
        /\ row' \in [Uids -> Row]
        /\ row'[u].meta = meta /\ row'[u].email = row[u].email
        /\ \A v \in Uids : v # u => row'[v] = row[v]
    BY <1>1, <2>1 DEF AccountTypeOK, Row
  <2>3. KeepsCustomer(u)
    BY <1>2, <2>2 DEF KeepsCustomer, Marked, Disturbed
  <2>4. Place(row'[u].meta.customer, u)
    BY <2>2 DEF Place
  <2> QED
    BY <2>2, <2>3, <2>4 DEF RowOf
<1>3. CASE u \notin users
  BY <1>1, <1>3 DEF SaveMeta, RowOf, KeepsCustomer, AccountTypeOK, Place
<1> QED
  BY <1>2, <1>3

LEMMA NoteCustomerKeeps ==
  ASSUME CardInv, NEW r \in Requests, NoteCustomer(r)
  PROVE  CardInv'
<1>0. /\ req[r].call = "addCard" /\ req[r].at = "note"
      /\ req[r].call \in CardCalls /\ ~ At(r, "removeCard", "destroy")
      /\ ~ Creating(req[r])
      /\ UNCHANGED <<firebase, users, belongings, calls, marks, cardVars>>
      /\ SaveMeta(req[r].uid, req[r].meta) /\ Go(r, "source") /\ "source" \in Awaits
  BY DEF NoteCustomer, At, CardCalls, Creating, Awaits
<1>1. /\ TypeOK /\ AccountTypeOK /\ req[r].uid \in Uids /\ customers \in Nat
      /\ req[r] \in Request
      /\ Works(req[r]) /\ (Disturbed(req[r].uid) \/ SeesCards(req[r]))
  BY <1>0, CardKnown
<1>2. PICK u \in Uids, meta \in Meta : u = req[r].uid /\ meta = req[r].meta
  BY <1>1 DEF Request
<1>3. Disturbed(u) \/ (u \in users /\ row[u].meta.customer = 0 /\ New(u, req[r].card))
  BY <1>0, <1>1, <1>2 DEF SeesCards
<1>4. RowOf(u) /\ (u \in users => row'[u].meta = meta)
  BY <1>0, <1>2, <1>3, SavedMeta
<1>5. PICK q \in Request :
        /\ [req EXCEPT ![r].at = "source"] = [req EXCEPT ![r] = q]
        /\ q.at = "source" /\ q.call = req[r].call /\ q.uid = req[r].uid
        /\ q.other = req[r].other /\ q.meta = req[r].meta /\ q.card = req[r].card
  BY <1>0, CardGoes
<1>6. req' = [req EXCEPT ![r] = q]
  BY <1>0, <1>5 DEF Go
<1>7. ~ Creating(q) /\ Works(q)'
  BY <1>0, <1>1, <1>5 DEF Creating, Works
<1>8. /\ UNCHANGED <<firebase, users, belongings, calls, marks, sources, held, listed, card>>
      /\ customers' \in 0..MaxCustomers /\ customers <= customers'
  BY <1>0, <1>1 DEF cardVars, stripe, TypeOK
<1>9. Disturbed(q.uid)' \/ SeesCards(q)'
  BY <1>0, <1>2, <1>3, <1>4, <1>5, <1>8 DEF SeesCards, Has, New, Disturbed
<1> QED
  BY <1>0, <1>2, <1>4, <1>5, <1>6, <1>7, <1>8, <1>9, CardRowStep

LEMMA MetaSavesKeep ==
  ASSUME CardInv, NEW r \in Requests, ConnectSave(r) \/ WalletSave(r)
  PROVE  CardInv'
<1>0. /\ req[r].call \in {"connect", "wallet"}
      /\ req[r].call \in CardCalls /\ ~ At(r, "removeCard", "destroy")
      /\ ~ Creating(req[r])
      /\ UNCHANGED <<firebase, users, belongings, calls, marks, cardVars>>
      /\ End(r)
  BY DEF ConnectSave, WalletSave, At, CardCalls, Creating
<1>1. /\ TypeOK /\ AccountTypeOK /\ req[r].uid \in Uids /\ customers \in Nat
      /\ req[r] \in Request
      /\ Disturbed(req[r].uid) \/ SeesCards(req[r])
  BY <1>0, CardKnown
<1>2. PICK u \in Uids, meta \in Meta :
        /\ u = req[r].uid /\ meta.customer = req[r].meta.customer
        /\ SaveMeta(u, meta)
  <2>1. req[r].meta \in Meta
    BY <1>1 DEF Request
  <2>2. /\ [req[r].meta EXCEPT !.connected = TRUE] \in Meta
        /\ [req[r].meta EXCEPT !.connected = TRUE].customer = req[r].meta.customer
    BY <2>1 DEF Meta
  <2> QED
    BY <1>1, <2>1, <2>2 DEF ConnectSave, WalletSave
<1>3. Disturbed(u) \/ (u \in users /\ row[u].meta.customer = req[r].meta.customer)
  BY <1>0, <1>1, <1>2 DEF SeesCards, Has
<1>4. RowOf(u)
  BY <1>0, <1>2, <1>3, SavedMeta
<1>5. /\ UNCHANGED <<firebase, users, belongings, calls, marks, sources, held, listed, card>>
      /\ customers' \in 0..MaxCustomers /\ customers <= customers'
  BY <1>0, <1>1 DEF cardVars, stripe, TypeOK
<1>6. PICK q \in Request : q = Idle
  BY IdleType
<1> QED
  BY <1>0, <1>2, <1>4, <1>5, <1>6, CardRowStep DEF End

-----------------------------------------------------------------------------
(***************************************************************************)
(* Calls about cards.                                                      *)
(***************************************************************************)
LEMMA LoadUserKeeps ==
  ASSUME CardInv, NEW r \in Requests, NEW u \in Uids, NEW call \in CardCalls,
         NEW at, NEW c \in Nat, LoadUser(r, u, call, at, c),
         \/ call = "addCard" /\ at = "check"
         \/ call = "removeCard" /\ at = "delete" /\ c \in listed /\ card[c].user = u
         \/ call = "updateCard" /\ at = "update" /\ c \in listed
            /\ row[u].meta.customer # 0
         \/ call \in {"connect", "wallet"} /\ at = "save"
  PROVE  CardInv'
<1>0. /\ req[r] = Idle /\ u \in users
      /\ UNCHANGED <<firebase, table, belongings, calls, cardVars>>
      /\ UNCHANGED <<customers, sources, held, listed, card>>
      /\ AccountInv /\ AccountTypeOK /\ TypeOK
  BY DEF LoadUser, May, CardInv, TypeOK, cardVars, stripe
<1>1. PICK q : q = [Idle EXCEPT !.call = call, !.at = at, !.uid = u,
                                !.meta = row[u].meta, !.card = c]
  OBVIOUS
<1>2. row[u] \in Row /\ row[u].meta \in Meta /\ u # 0
  BY <1>0, UidType DEF AccountTypeOK, Row
<1>3. at \in Awaits /\ call \in Handlers
  BY DEF Awaits, Handlers, CardCalls
<1>4. /\ q \in Request /\ q.call = call /\ q.at = at /\ q.uid = u /\ q.other = 0
      /\ q.meta = row[u].meta /\ q.card = c
  BY <1>1, <1>2, <1>3, IdleType DEF Idle, Request
<1>5. Become(r, q)
  BY <1>1 DEF LoadUser
<1>6. u <= issued
  BY <1>0 DEF AccountInv, Numbered
<1>7. AccountInv'
  BY <1>0, <1>4, <1>5, <1>6, UserCallKeeps DEF SeesUid, CardCalls
<1>8. marks \subseteq marks' /\ req' = [req EXCEPT ![r] = q]
  BY <1>0, <1>4, <1>5, BecomeMeets
<1>9. TableStep(r)
  BY <1>0, SameTable
<1>10. c \in listed => c \in Sources /\ c <= sources
  BY <1>0 DEF CardInv, Bounded, TypeOK
<1>11. Works(q)'
  BY <1>0, <1>4, <1>10 DEF Works, CardCalls
<1>12. Disturbed(q.uid)' \/ SeesCards(q)'
  BY <1>0, <1>4 DEF SeesCards, Has, table
<1>13. ~ Creating(q) /\ (Holding(q) => q.card \in listed)
  BY <1>4 DEF Creating, Holding
<1>14. /\ q.meta.customer <= customers' /\ Place(q.meta.customer, q.uid)
  BY <1>0, <1>4 DEF CardInv, Bounded, Place
<1>15. ~ At(r, "removeCard", "destroy")
  BY <1>0 DEF At, Idle
<1>16. customers' \in 0..MaxCustomers /\ customers <= customers'
  BY <1>0, CardsAssumption DEF TypeOK
<1> QED
  BY <1>0, <1>4, <1>7, <1>8, <1>9, <1>11, <1>12, <1>13, <1>14, <1>15, <1>16, TableKeeps

LEMMA CardCallsKeep ==
  ASSUME CardInv, NEW r \in Requests, CardCall(r)
  PROVE  CardInv'
<1>0. /\ \A c \in Sources : c \in Nat /\ card[c] \in Card
      /\ \A c \in listed : c \in Sources /\ c <= sources
      /\ \A f \in Fingerprints : f \in Nat
  <2>1. \A c \in Sources : c \in Nat
    BY CardsAssumption DEF Sources
  <2>2. \A f \in Fingerprints : f \in Nat
    BY CardsAssumption DEF Fingerprints
  <2> QED
    BY <2>1, <2>2 DEF CardInv, TypeOK, Bounded
<1>1. ASSUME NEW u \in Uids, NEW f \in Fingerprints, AddCard(r, u, f)
      PROVE  CardInv'
  BY <1>0, <1>1, LoadUserKeeps DEF AddCard, CardCalls
<1>2. ASSUME NEW u \in Uids, NEW c \in Sources, UpdateCard(r, u, c)
      PROVE  CardInv'
  BY <1>0, <1>2, LoadUserKeeps DEF UpdateCard, CardCalls
<1>3. ASSUME NEW u \in Uids, Connect(r, u) \/ Wallet(r, u)
      PROVE  CardInv'
  BY <1>3, LoadUserKeeps DEF Connect, Wallet, CardCalls
<1>4. ASSUME NEW c \in Sources, RemoveCard(r, c)
      PROVE  CardInv'
  <2>1. PICK u \in Uids : u = card[c].user /\ c \in listed
    BY <1>0, <1>4 DEF RemoveCard, CardInv, Made, Card
  <2> QED
    BY <1>0, <1>4, <2>1, LoadUserKeeps DEF RemoveCard, CardCalls
<1> QED
  BY <1>1, <1>2, <1>3, <1>4 DEF CardCall

-----------------------------------------------------------------------------
(***************************************************************************)
(* Steps of Accounts, with the cards there.                                *)
(***************************************************************************)
LEMMA MoveKeeps ==
  ASSUME CardInv, AccountInv', UNCHANGED cardVars,
         marks \subseteq marks', NEW r \in Requests, NEW q \in Request,
         req' = [req EXCEPT ![r] = q], TableStep(r),
         At(r, "removeCard", "destroy") => <<"torn", req[r].uid>> \in marks',
         q.call \notin CardCalls,
         \/ q.call # "change" /\ q.meta = NoMeta
         \/ /\ q.call = "change" /\ (Disturbed(q.uid)' \/ Has(q)')
            /\ q.meta.customer <= customers /\ Place(q.meta.customer, q.uid)
  PROVE  CardInv'
<1>0. /\ UNCHANGED <<customers, sources, held, listed, card>>
      /\ customers \in Nat /\ customers' \in 0..MaxCustomers /\ customers <= customers'
  BY CardsAssumption DEF cardVars, stripe, CardInv, TypeOK
<1>1. q.meta = NoMeta => q.meta.customer = 0
  BY DEF NoMeta
<1>2. Works(q)'
  BY <1>1 DEF Works, CardCalls
<1>3. Disturbed(q.uid)' \/ SeesCards(q)'
  BY DEF SeesCards, CardCalls
<1>4. ~ Creating(q) /\ ~ Holding(q)
  BY DEF Creating, Holding, CardCalls
<1>5. /\ q.meta.customer <= customers'
      /\ q.meta.customer \in {0} \/ q.meta.customer > customers
           \/ Place(q.meta.customer, q.uid)
  BY <1>0, <1>1
<1> QED
  BY <1>0, <1>2, <1>3, <1>4, <1>5, TableKeeps

\* A request that goes on or ends, while the rows stay as they are.
LEMMA GoesOn ==
  ASSUME CardInv, AccountInv', UNCHANGED cardVars, UNCHANGED table,
         marks \subseteq marks', NEW r \in Requests, NEW q \in Request,
         req' = [req EXCEPT ![r] = q],
         At(r, "removeCard", "destroy") => <<"torn", req[r].uid>> \in marks',
         \/ q = Idle
         \/ /\ req[r].call \notin CardCalls
            /\ q.call = req[r].call /\ q.meta = req[r].meta
            /\ q.call = "change" => q.uid = req[r].uid
  PROVE  CardInv'
<1>0. TableStep(r) /\ Works(req[r]) /\ customers \in Nat
  BY SameTable, CardsAssumption DEF CardInv, TypeOK
<1>1. CASE q = Idle
  BY <1>0, <1>1, MoveKeeps DEF Idle, CardCalls
<1>2. CASE req[r].call # "change" /\ q # Idle
  BY <1>0, <1>2, MoveKeeps DEF Works, CardCalls
<1>3. CASE req[r].call = "change" /\ q # Idle
  <2>1. Disturbed(req[r].uid) \/ Has(req[r])
    BY <1>3 DEF CardInv, SeesCards
  <2>2. Disturbed(q.uid)' \/ Has(q)'
    BY <1>3, <2>1 DEF Disturbed, Has, table
  <2>3. q.meta.customer <= customers /\ Place(q.meta.customer, q.uid)
    BY <1>3 DEF CardInv, Bounded, Place
  <2> QED
    BY <1>0, <1>3, <2>2, <2>3, MoveKeeps
<1> QED
  BY <1>1, <1>2, <1>3

LEMMA BeginsQuietly ==
  ASSUME CardInv, AccountInv', UNCHANGED cardVars, UNCHANGED table,
         NEW r \in Requests, req[r] = Idle, NEW q \in Request, Become(r, q),
         q.call \notin CardCalls \cup {"change"}, q.meta = NoMeta
  PROVE  CardInv'
<1>1. req' = [req EXCEPT ![r] = q] /\ marks \subseteq marks'
  BY BecomeMeets DEF CardInv
<1>2. TableStep(r) /\ ~ At(r, "removeCard", "destroy")
  BY SameTable DEF At, Idle
<1> QED
  BY <1>1, <1>2, MoveKeeps

LEMMA AccountCallKeeps ==
  ASSUME CardInv, AccountInv', UNCHANGED cardVars, NEW r \in Requests, AccountCall(r)
  PROVE  CardInv'
<1>0. /\ req[r] = Idle /\ UNCHANGED table /\ AccountTypeOK
  BY DEF AccountCall, SignUp, AdminCreateHost, Context, Fetch, Login, Delete, Own,
         Book, Move, Unlist, Change, May, CardInv, TypeOK
<1>1. /\ \A u \in accounts : u \in Uids /\ login[u] \in Addresses
      /\ \A u \in users : u \in Uids /\ row[u] \in Row /\ row[u].meta \in Meta
      /\ Emails \subseteq Addresses /\ NoEmail \in Addresses /\ NoMeta \in Meta
  BY <1>0, IdleType DEF AccountTypeOK, Addresses, Row
<1>4. ASSUME NEW e \in Emails, SignUp(r, e)
      PROVE  CardInv'
  <2>1. PICK q : q = [Idle EXCEPT !.call = "signUp", !.at = "lookup", !.email = e]
    OBVIOUS
  <2>2. q \in Request /\ q.call \notin CardCalls \cup {"change"} /\ q.meta = NoMeta
    BY <1>1, <1>4, <2>1 DEF SignUp, Idle, Request, Handlers, Awaits, CardCalls
  <2>3. Become(r, q)
    BY <1>4, <2>1 DEF SignUp
  <2> QED
    BY <1>0, <2>2, <2>3, BeginsQuietly
<1>5. ASSUME NEW u \in Uids, NEW e \in Addresses, Context(r, u, e)
      PROVE  CardInv'
  <2>1. PICK q : q = [Idle EXCEPT !.call = "context", !.at = "create", !.uid = u,
                                  !.email = e]
    OBVIOUS
  <2>2. q \in Request /\ q.call \notin CardCalls \cup {"change"} /\ q.meta = NoMeta
    BY <1>1, <1>5, <2>1 DEF Context, Idle, Request, Handlers, Awaits, CardCalls
  <2>3. Become(r, q)
    BY <1>5, <2>1 DEF Context
  <2> QED
    BY <1>0, <2>2, <2>3, BeginsQuietly
<1>6. ASSUME NEW u \in Uids, Fetch(r, u)
      PROVE  CardInv'
  <2>1. PICK q : q = [Idle EXCEPT !.call = "fetch", !.at = "find", !.uid = u,
                                  !.email = login[u]]
    OBVIOUS
  <2>2. q \in Request /\ q.call \notin CardCalls \cup {"change"} /\ q.meta = NoMeta
    BY <1>1, <1>6, <2>1 DEF Fetch, Idle, Request, Handlers, Awaits, CardCalls
  <2>3. Become(r, q)
    BY <1>6, <2>1 DEF Fetch
  <2> QED
    BY <1>0, <2>2, <2>3, BeginsQuietly
<1>7. ASSUME NEW u \in Uids, Login(r, u)
      PROVE  CardInv'
  <2>1. PICK q : q = [Idle EXCEPT !.call = "login", !.at = "find", !.uid = u,
                                  !.email = login[u]]
    OBVIOUS
  <2>2. q \in Request /\ q.call \notin CardCalls \cup {"change"} /\ q.meta = NoMeta
    BY <1>1, <1>7, <2>1 DEF Login, Idle, Request, Handlers, Awaits, CardCalls
  <2>3. Become(r, q)
    BY <1>7, <2>1 DEF Login
  <2> QED
    BY <1>0, <2>2, <2>3, BeginsQuietly
<1>8. ASSUME NEW u \in Uids, Delete(r, u)
      PROVE  CardInv'
  <2>1. PICK q : q = [Idle EXCEPT !.call = "delete", !.at = "lookup", !.uid = u]
    OBVIOUS
  <2>2. q \in Request /\ q.call \notin CardCalls \cup {"change"} /\ q.meta = NoMeta
    BY <1>1, <1>8, <2>1 DEF Delete, Idle, Request, Handlers, Awaits, CardCalls
  <2>3. Become(r, q)
    BY <1>8, <2>1 DEF Delete
  <2> QED
    BY <1>0, <2>2, <2>3, BeginsQuietly
<1>9. ASSUME NEW u \in Uids, Own(r, u)
      PROVE  CardInv'
  <2>1. PICK q : q = [Idle EXCEPT !.call = "own", !.at = "store", !.uid = u]
    OBVIOUS
  <2>2. q \in Request /\ q.call \notin CardCalls \cup {"change"} /\ q.meta = NoMeta
    BY <1>1, <1>9, <2>1 DEF Own, Idle, Request, Handlers, Awaits, CardCalls
  <2>3. Become(r, q)
    BY <1>9, <2>1 DEF Own
  <2> QED
    BY <1>0, <2>2, <2>3, BeginsQuietly
<1>10. ASSUME NEW e \in Emails, AdminCreateHost(r, e)
       PROVE  CardInv'
  <2>1. PICK old \in (IF RowWith(e) = {} THEN {0} ELSE RowWith(e)) :
          Become(r, [Idle EXCEPT !.call = "admin", !.at = "lookup", !.other = old,
                                 !.email = e])
    BY <1>10 DEF AdminCreateHost
  <2>2. old \in Uids \cup {0}
    BY <1>1 DEF RowWith
  <2>3. PICK q : q = [Idle EXCEPT !.call = "admin", !.at = "lookup", !.other = old,
                                  !.email = e]
    OBVIOUS
  <2>4. q \in Request /\ q.call \notin CardCalls \cup {"change"} /\ q.meta = NoMeta
    BY <1>1, <2>2, <2>3 DEF Idle, Request, Handlers, Awaits, CardCalls
  <2> QED
    BY <1>0, <2>1, <2>3, <2>4, BeginsQuietly
<1>3. ASSUME NEW u \in Uids, NEW e \in Emails, Change(r, u, e)
      PROVE  CardInv'
  <2>1. PICK q : q = [Idle EXCEPT !.call = "change", !.at = "lookup", !.uid = u,
                                  !.email = e, !.meta = row[u].meta]
    OBVIOUS
  <2>2. Become(r, q) /\ u \in users
    BY <1>3, <2>1 DEF Change
  <2>3. /\ q \in Request /\ q.call = "change" /\ q.uid = u /\ q.meta = row[u].meta
    BY <1>1, <2>1, <2>2 DEF Idle, Request, Handlers, Awaits
  <2>4. req' = [req EXCEPT ![r] = q] /\ marks \subseteq marks'
    BY <2>2, <2>3, BecomeMeets DEF CardInv
  <2>5. Has(q)'
    BY <1>0, <2>2, <2>3 DEF Has, table
  <2>6. q.meta.customer <= customers /\ Place(q.meta.customer, q.uid)
    BY <2>3 DEF CardInv, Bounded, Place
  <2>7. TableStep(r) /\ ~ At(r, "removeCard", "destroy")
    BY <1>0, SameTable DEF At, Idle
  <2> QED
    BY <2>3, <2>4, <2>5, <2>6, <2>7, MoveKeeps DEF CardCalls
<1>12. ASSUME NEW u \in Uids, NEW p \in Places, Book(r, u, p) \/ Move(r, u, p)
       PROVE  CardInv'
  <2>1. PICK q : /\ Become(r, q)
                 /\ \/ q = [Idle EXCEPT !.call = "book", !.at = "store", !.uid = u,
                                        !.listing = p, !.host = listings[p]]
                    \/ q = [Idle EXCEPT !.call = "move", !.at = "store", !.uid = u,
                                        !.listing = p]
    BY <1>12 DEF Book, Move
  <2>2. listings[p] \in Uids \cup {0}
    BY <1>0 DEF AccountTypeOK
  <2>3. q \in Request /\ q.call \notin CardCalls \cup {"change"} /\ q.meta = NoMeta
    <3>1. Idle \in Request /\ Idle.meta = NoMeta
      BY IdleType DEF Idle
    <3>2. q \in Request /\ q.meta = NoMeta /\ q.call \in {"book", "move"}
      BY <2>1, <2>2, <3>1 DEF Request, Handlers, Awaits
    <3> QED
      BY <3>2 DEF CardCalls
  <2> QED
    BY <1>0, <2>1, <2>3, BeginsQuietly
<1>13. ASSUME NEW p \in Places, Unlist(r, p)
       PROVE  CardInv'
  <2>1. PICK q : q = [Idle EXCEPT !.call = "unlist", !.at = "store", !.listing = p]
    OBVIOUS
  <2>2. q \in Request /\ q.call \notin CardCalls \cup {"change"} /\ q.meta = NoMeta
    BY <1>1, <2>1 DEF Idle, Request, Handlers, Awaits, Addresses, CardCalls
  <2>3. Become(r, q)
    BY <1>13, <2>1 DEF Unlist
  <2> QED
    BY <1>0, <2>2, <2>3, BeginsQuietly
<1> QED
  BY <1>3, <1>4, <1>5, <1>6, <1>7, <1>8, <1>9, <1>10, <1>12, <1>13 DEF AccountCall

\* What writing a row means for the customers.
LEMMA TableOf ==
  ASSUME NEW r, NEW S \in SUBSET IdsOf(req[r]),
         \A v \in Uids \ S : SameRow(v),
         \A v \in S : KeepsCustomer(v),
         \A v \in S : row'[v].meta.customer # 0 => From(row'[v].meta.customer, v)
  PROVE  TableStep(r)
<1>1. \A v \in Uids \ S : KeepsCustomer(v)
  BY DEF SameRow, KeepsCustomer
<1>2. \A v \in Uids \ S : From(row'[v].meta.customer, v)
  BY DEF SameRow, From, Place
<1>3. \A v \in Uids : v \in IdsOf(req[r]) \/ SameRow(v)
  OBVIOUS
<1> QED
  BY <1>1, <1>2, <1>3 DEF TableStep

LEMMA InsertTable ==
  ASSUME CardInv, NEW r \in Requests, NEW u \in Uids, u \in IdsOf(req[r]),
         NEW e, u \notin users, InsertRow(u, e)
  PROVE  TableStep(r)
<1>1. AccountTypeOK
  BY DEF CardInv, TypeOK
<1>2. /\ users' = users \cup {u} /\ row'[u].meta.customer = 0
      /\ \A v \in Uids : v # u => row'[v] = row[v]
  BY <1>1 DEF InsertRow, AccountTypeOK, NoMeta
<1> QED
  BY <1>2 DEF TableStep, SameRow, KeepsCustomer, From, Place

LEMMA RemoveTable ==
  ASSUME CardInv, NEW r \in Requests, NEW u \in Uids, u \in IdsOf(req[r]),
         RemoveRow(u), <<"destroyed", u>> \in marks'
  PROVE  TableStep(r)
<1>1. AccountTypeOK
  BY DEF CardInv, TypeOK
<1>2. /\ users' = users \ {u} /\ row'[u].meta.customer = 0
      /\ \A v \in Uids : v # u => row'[v] = row[v]
  BY <1>1 DEF RemoveRow, AccountTypeOK, NoRow, NoMeta
<1>3. KeepsCustomer(u)
  BY DEF KeepsCustomer, Marked
<1> QED
  BY <1>2, <1>3 DEF TableStep, SameRow, KeepsCustomer, From, Place

LEMMA RenameTable ==
  ASSUME CardInv, NEW r \in Requests, NEW u \in Uids, NEW old \in Uids,
         u \in IdsOf(req[r]), old \in IdsOf(req[r]), u # old,
         users' = (users \ {old}) \cup {u},
         row' = [row EXCEPT ![u] = row[old], ![old] = NoRow],
         <<"renamed", old>> \in marks', <<"renamed", u>> \in marks'
  PROVE  TableStep(r)
<1>1. AccountTypeOK
  BY DEF CardInv, TypeOK
<1>2. /\ row'[u] = row[old] /\ row'[old].meta.customer = 0
      /\ \A v \in Uids : v \notin {u, old} => row'[v] = row[v]
  BY <1>1 DEF AccountTypeOK, NoRow, NoMeta
<1>3. KeepsCustomer(u) /\ KeepsCustomer(old)
  BY DEF KeepsCustomer, Marked
<1>4. From(row'[u].meta.customer, u)
  BY <1>2 DEF From, Place, Renamed
<1>5. \A v \in Uids \ {u, old} : SameRow(v)
  <2>1. TAKE v \in Uids \ {u, old}
  <2>2. (v \in users') <=> (v \in users)
    OBVIOUS
  <2>3. row'[v] = row[v]
    BY <1>2
  <2> QED
    BY <2>2, <2>3 DEF SameRow
<1>6. {u, old} \in SUBSET IdsOf(req[r])
  OBVIOUS
<1> QED
  BY <1>2, <1>3, <1>4, <1>5, <1>6, TableOf

LEMMA SaveTable ==
  ASSUME CardInv, NEW r \in Requests, NEW u \in Uids, u = req[r].uid,
         u \in IdsOf(req[r]), req[r].call = "change", marks \subseteq marks',
         NEW e, users' = users,
         row' = [row EXCEPT ![u] = [email |-> e, meta |-> req[r].meta]]
  PROVE  TableStep(r)
<1>1. AccountTypeOK /\ (Disturbed(u) \/ row[u].meta.customer = req[r].meta.customer)
  BY DEF CardInv, TypeOK, SeesCards, Has
<1>2. /\ row'[u].meta = req[r].meta
      /\ \A v \in Uids : v # u => row'[v] = row[v]
  BY <1>1 DEF AccountTypeOK
<1>3. KeepsCustomer(u)
  BY <1>1, <1>2 DEF KeepsCustomer, Marked, Disturbed
<1>4. From(row'[u].meta.customer, u)
  BY <1>2 DEF From, Place
<1>5. \A v \in Uids \ {u} : SameRow(v)
  BY <1>2 DEF SameRow
<1>6. {u} \in SUBSET IdsOf(req[r])
  OBVIOUS
<1> QED
  BY <1>3, <1>4, <1>5, <1>6, TableOf

\* Steps of Accounts that write no row.
LEMMA RowlessKeep ==
  ASSUME CardInv, AccountInv', UNCHANGED cardVars, UNCHANGED table,
         marks \subseteq marks', NEW r \in Requests,
         At(r, "removeCard", "destroy") => <<"torn", req[r].uid>> \in marks',
         \/ End(r)
         \/ req[r].call \notin CardCalls /\ \E at \in Awaits : Go(r, at)
  PROVE  CardInv'
<1>0. req[r] \in Request /\ AccountTypeOK
  BY Known DEF CardInv
<1>1. CASE End(r)
  <2>1. PICK q \in Request : q = Idle
    BY IdleType
  <2> QED
    BY <1>1, <2>1, GoesOn DEF End
<1>2. ASSUME NEW at \in Awaits, Go(r, at), req[r].call \notin CardCalls
      PROVE  CardInv'
  <2>1. PICK q \in Request :
          /\ q = [req[r] EXCEPT !.at = at]
          /\ [req EXCEPT ![r].at = at] = [req EXCEPT ![r] = q]
          /\ GoesTo(q, r, at)
    BY <1>0, GoIs
  <2>2. q.meta = req[r].meta
    BY <1>0, <2>1 DEF Request
  <2>3. req' = [req EXCEPT ![r] = q]
    BY <1>2, <2>1 DEF Go
  <2> QED
    BY <1>2, <2>1, <2>2, <2>3, GoesOn DEF GoesTo
<1> QED
  BY <1>1, <1>2

\* ... and those that write one and end, or go on with another step.
LEMMA RowKeeps ==
  ASSUME CardInv, AccountInv', UNCHANGED cardVars,
         marks \subseteq marks', NEW r \in Requests,
         req[r].call \notin CardCalls, TableStep(r),
         End(r) \/ (req[r].call # "change" /\ \E at \in Awaits : Go(r, at))
  PROVE  CardInv'
<1>0. req[r] \in Request /\ AccountTypeOK /\ ~ At(r, "removeCard", "destroy")
  BY Known DEF CardInv, At, CardCalls
<1>1. CASE End(r)
  <2>1. PICK q \in Request : q = Idle
    BY IdleType
  <2>2. q.call \notin CardCalls /\ q.call # "change" /\ q.meta = NoMeta
    BY <2>1 DEF Idle, CardCalls
  <2> QED
    BY <1>0, <1>1, <2>1, <2>2, MoveKeeps DEF End
<1>2. ASSUME NEW at \in Awaits, Go(r, at), req[r].call # "change"
      PROVE  CardInv'
  <2>1. PICK q \in Request :
          /\ q = [req[r] EXCEPT !.at = at]
          /\ [req EXCEPT ![r].at = at] = [req EXCEPT ![r] = q]
          /\ GoesTo(q, r, at)
    BY <1>0, GoIs
  <2>2. q.meta = NoMeta
    BY <1>0, <1>2, <2>1 DEF Request, CardInv, Works, CardCalls
  <2>3. req' = [req EXCEPT ![r] = q]
    BY <1>2, <2>1 DEF Go
  <2> QED
    BY <1>0, <1>2, <2>1, <2>2, <2>3, MoveKeeps DEF GoesTo
<1> QED
  BY <1>1, <1>2

LEMMA AccountStepKeeps ==
  ASSUME CardInv, AccountInv', UNCHANGED cardVars, NEW r \in Requests, AccountStep(r)
  PROVE  CardInv'
<1>0. /\ AccountInv /\ AccountTypeOK /\ req[r] \in Request /\ Shape(req[r])
      /\ req[r].uid # 0 => req[r].uid \in Uids /\ req[r].uid \in IdsOf(req[r])
      /\ req[r].other # 0 => req[r].other \in Uids /\ req[r].other \in IdsOf(req[r])
  BY Known DEF CardInv, Request, IdsOf
<1>1. req[r].call \notin CardCalls /\ ~ At(r, "removeCard", "destroy")
  BY DEF AccountStep, SignUpLookup, SignUpAccount, SignUpSave, SignUpCredit,
         ContextCreate, FetchFind, FetchCreate, LoginFind, LoginVerify, LoginCreate,
         AdminLookup, AdminAccount, AdminRename, AdminCreate, DeleteLookup,
         DeleteCheck, DeleteCheckBookings, DeleteRow, DeleteAccount, ChangeLookup,
         ChangeAccount, ChangeSave, OwnStore, BookStore, MoveStore, UnlistStore, At,
         CardCalls
<1>2. CASE \/ SignUpLookup(r) \/ FetchFind(r) \/ LoginFind(r) \/ LoginVerify(r)
           \/ DeleteLookup(r) \/ DeleteCheck(r) \/ DeleteCheckBookings(r)
           \/ ChangeLookup(r) \/ ChangeAccount(r) \/ DeleteAccount(r) \/ SignUpCredit(r)
           \/ OwnStore(r) \/ BookStore(r) \/ MoveStore(r) \/ UnlistStore(r)
  <2>1. UNCHANGED table /\ marks \subseteq marks' /\ (End(r) \/ \E at \in Awaits : Go(r, at))
    BY <1>2 DEF SignUpLookup, FetchFind, LoginFind, LoginVerify, DeleteLookup,
                DeleteCheck, DeleteCheckBookings, ChangeLookup, ChangeAccount,
                DeleteAccount, SignUpCredit, OwnStore, BookStore, MoveStore,
                UnlistStore, Awaits
  <2> QED
    BY <1>1, <2>1, RowlessKeep
<1>3. CASE SignUpSave(r) \/ FetchCreate(r) \/ LoginCreate(r) \/ AdminCreate(r)
           \/ ContextCreate(r)
  <2>1. marks \subseteq marks' /\ req[r].uid # 0 /\ req[r].call # "change"
    BY <1>0, <1>3 DEF SignUpSave, FetchCreate, LoginCreate, AdminCreate, ContextCreate,
                      At, Shape
  <2>2. PICK u \in Uids : u = req[r].uid /\ u \in IdsOf(req[r])
    BY <1>0, <2>1
  <2> DEFINE e == req[r].email
  <2>3. /\ UNCHANGED table \/ (InsertRow(u, e) /\ u \notin users)
        /\ End(r) \/ \E at \in Awaits : Go(r, at)
    BY <1>3, <2>2 DEF SignUpSave, FetchCreate, LoginCreate, AdminCreate, ContextCreate,
                      CanInsert, Awaits
  <2>4. TableStep(r)
    BY <2>2, <2>3, InsertTable, SameTable
  <2> QED
    BY <1>1, <2>1, <2>3, <2>4, RowKeeps
<1>4. ASSUME NEW u \in Uids, req[r].call = "admin", AdminFound(r, u), UNCHANGED table
      PROVE  CardInv'
  <2>1. CASE req[r].other = u
    BY <1>1, <1>4, <2>1, RowlessKeep DEF AdminFound
  <2>2. CASE req[r].other # u
    <3>1. PICK q : q = [req[r] EXCEPT !.uid = u,
                          !.at = IF req[r].other = 0 THEN "create" ELSE "rename"]
      OBVIOUS
    <3>2. q \in Request /\ q.call = "admin" /\ q.meta = req[r].meta
      BY <1>0, <1>4, <3>1 DEF Request, Awaits
    <3>3. Become(r, q)
      BY <1>4, <2>2, <3>1 DEF AdminFound
    <3>4. req' = [req EXCEPT ![r] = q] /\ marks \subseteq marks'
      BY <1>0, <3>2, <3>3, BecomeMeets
    <3> QED
      BY <1>1, <1>4, <3>2, <3>4, GoesOn
  <2> QED
    BY <2>1, <2>2
<1>5. CASE AdminLookup(r)
  <2>1. CASE Go(r, "account") /\ UNCHANGED marks
    BY <1>1, <1>5, <2>1, RowlessKeep DEF AdminLookup, Awaits
  <2>2. ASSUME NEW u \in LoginWith(req[r].email), AdminFound(r, u)
        PROVE  CardInv'
    BY <1>0, <1>4, <1>5, <2>2 DEF AdminLookup, At, LoginWith, AccountTypeOK
  <2> QED
    BY <1>5, <2>1, <2>2 DEF AdminLookup
<1>6. CASE AdminAccount(r)
  <2>1. CASE CanIssue(req[r].email)
    <3>1. PICK u \in Uids : u = issued + 1
      BY <1>0, <2>1, AccountsAssumption DEF CanIssue, AccountTypeOK, Uids
    <3> QED
      BY <1>4, <1>6, <2>1, <3>1 DEF AdminAccount, At
  <2>2. CASE ~ CanIssue(req[r].email)
    BY <1>1, <1>6, <2>2, RowlessKeep DEF AdminAccount
  <2> QED
    BY <2>1, <2>2
<1>7. CASE SignUpAccount(r)
  <2>1. CASE CanIssue(req[r].email)
    <3>1. PICK u \in Uids : u = issued + 1
      BY <1>0, <2>1, AccountsAssumption DEF CanIssue, AccountTypeOK, Uids
    <3>2. PICK q : q = [req[r] EXCEPT !.at = "save", !.uid = u]
      OBVIOUS
    <3>3. q \in Request /\ q.call = "signUp" /\ q.meta = req[r].meta
          /\ req[r].call = "signUp"
      BY <1>0, <1>7, <3>2 DEF Request, Awaits, SignUpAccount, At
    <3>4. req' = [req EXCEPT ![r] = q]
      BY <1>0, <1>7, <2>1, <3>1, <3>2 DEF SignUpAccount, AccountTypeOK, Request
    <3> QED
      BY <1>1, <1>7, <3>3, <3>4, GoesOn DEF SignUpAccount
  <2>2. CASE ~ CanIssue(req[r].email)
    BY <1>1, <1>7, <2>2, RowlessKeep DEF SignUpAccount
  <2> QED
    BY <2>1, <2>2
<1>8. CASE AdminRename(r)
  <2>1. /\ req[r].uid # 0 /\ req[r].other # 0 /\ End(r)
    BY <1>0, <1>8 DEF AdminRename, At, Shape
  <2>2. PICK u \in Uids, old \in Uids :
          /\ u = req[r].uid /\ old = req[r].other
          /\ u \in IdsOf(req[r]) /\ old \in IdsOf(req[r])
    BY <1>0, <2>1
  <2>3. CASE old \in users /\ u \notin users
    <3>1. /\ users' = (users \ {old}) \cup {u} /\ u # old
          /\ row' = [row EXCEPT ![u] = row[old], ![old] = NoRow]
          /\ <<"renamed", old>> \in marks' /\ <<"renamed", u>> \in marks'
          /\ marks \subseteq marks'
      BY <1>8, <2>2, <2>3 DEF AdminRename
    <3>2. TableStep(r)
      BY <2>2, <3>1, RenameTable
    <3> QED
      BY <1>1, <2>1, <3>1, <3>2, RowKeeps
  <2>4. CASE ~ (old \in users /\ u \notin users)
    BY <1>1, <1>8, <2>1, <2>2, <2>4, RowlessKeep DEF AdminRename
  <2> QED
    BY <2>3, <2>4
<1>9. CASE DeleteRow(r)
  <2>1. req[r].uid # 0 /\ req[r].call = "delete"
    BY <1>0, <1>9 DEF DeleteRow, At, Shape
  <2>2. PICK u \in Uids : u = req[r].uid /\ u \in IdsOf(req[r])
    BY <1>0, <2>1
  <2>3. CASE u \in users
    <3>1. /\ RemoveRow(u) /\ Go(r, "account") /\ <<"destroyed", u>> \in marks'
          /\ marks \subseteq marks'
      BY <1>9, <2>2, <2>3 DEF DeleteRow
    <3>2. TableStep(r)
      BY <2>2, <3>1, RemoveTable
    <3> QED
      BY <1>1, <2>1, <3>1, <3>2, RowKeeps DEF Awaits
  <2>4. CASE u \notin users
    BY <1>1, <1>9, <2>2, <2>4, RowlessKeep DEF DeleteRow
  <2> QED
    BY <2>3, <2>4
<1>10. CASE ChangeSave(r)
  <2>1. /\ req[r].uid # 0 /\ req[r].call = "change" /\ users' = users /\ End(r)
        /\ marks \subseteq marks'
    BY <1>0, <1>10 DEF ChangeSave, At, Shape
  <2>2. PICK u \in Uids : u = req[r].uid /\ u \in IdsOf(req[r])
    BY <1>0, <2>1
  <2> DEFINE e == req[r].email
  <2>3. \/ UNCHANGED table
        \/ row' = [row EXCEPT ![u] = [email |-> e, meta |-> req[r].meta]]
    BY <1>10, <2>2 DEF ChangeSave, table
  <2>4. TableStep(r)
    BY <2>1, <2>2, <2>3, SaveTable, SameTable
  <2> QED
    BY <1>1, <2>1, <2>4, RowKeeps
<1> QED
  BY <1>2, <1>3, <1>5, <1>6, <1>7, <1>8, <1>9, <1>10 DEF AccountStep

-----------------------------------------------------------------------------
LEMMA InitInv == Init => CardInv
<1> SUFFICES ASSUME Init
             PROVE  CardInv
  OBVIOUS
<1>1. AccountInv
  BY AccountInitInv DEF Init
<1>2. TypeOK
  BY <1>1, CardsAssumption DEF Init, TypeOK, AccountInv, NoCard, Card
<1>3. /\ \A r \in Requests : req[r] = Idle
      /\ \A u \in Uids : row[u].meta.customer = 0
      /\ \A c \in Sources : card[c].customer = 0 /\ card[c].user = 0 /\ c \in Nat \ {0}
  BY CardsAssumption DEF Init, AccountInit, NoRow, NoMeta, NoCard, Sources
<1>4. Idle.meta.customer = 0 /\ Idle.call = "none" /\ Idle.meta = NoMeta
  BY DEF Idle, NoMeta
<1>5. Bounded /\ Made /\ Lineage /\ Apart
  BY <1>3, <1>4 DEF Init, Bounded, Made, Lineage, Place, Apart, Creating
<1>6. \A r \in Requests : Works(req[r]) /\ SeesCards(req[r])
  BY <1>3, <1>4 DEF Works, SeesCards
<1>7. (\A c \in listed : OfItsCustomer(c)) /\ OneCardOnce /\ CardsAreReal
  BY DEF Init, OneCardOnce, CardsAreReal
<1> QED
  BY <1>1, <1>2, <1>5, <1>6, <1>7 DEF CardInv

LEMMA ClientKeeps ==
  ASSUME CardInv, AccountInv', UNCHANGED cardVars, UNCHANGED <<table, req, marks>>
  PROVE  CardInv'
<1>1. TypeOK'
  BY DEF TypeOK, CardInv, AccountInv, cardVars, stripe
<1> QED
  BY <1>1 DEF CardInv, cardVars, stripe, table, Bounded, Made, Lineage, Place, Renamed,
              Apart, Creating, Holding, Works, Marked, Disturbed, SeesCards, Has, New,
              OfItsCustomer, OneCardOnce, CardsAreReal, At

LEMMA NextInv ==
  ASSUME CardInv, [Next]_vars
  PROVE  CardInv'
<1>0. AccountInv
  BY DEF CardInv
<1>1. CASE AccountNext /\ UNCHANGED cardVars
  <2>1. AccountInv'
    BY <1>0, <1>1, AccountNextInv
  <2>2. CASE \E e \in Addresses : ClientSignUp(e)
    BY <1>1, <2>1, <2>2, ClientKeeps DEF ClientSignUp
  <2>3. ASSUME NEW r \in Requests, AccountCall(r)
        PROVE  CardInv'
    BY <1>1, <2>1, <2>3, AccountCallKeeps
  <2>4. ASSUME NEW r \in Requests, AccountStep(r)
        PROVE  CardInv'
    BY <1>1, <2>1, <2>4, AccountStepKeeps
  <2>5. ASSUME NEW r \in Requests, Crash(r)
        PROVE  CardInv'
    <3>1. /\ UNCHANGED table /\ marks \subseteq marks' /\ End(r)
          /\ At(r, "removeCard", "destroy") => <<"torn", req[r].uid>> \in marks'
      BY <2>5 DEF Crash, HalfDone
    <3> QED
      BY <1>1, <2>1, <3>1, RowlessKeep
  <2> QED
    BY <1>1, <2>2, <2>3, <2>4, <2>5 DEF AccountNext
<1>2. ASSUME NEW r \in Requests, CardCall(r)
      PROVE  CardInv'
  BY <1>2, CardCallsKeep
<1>3. ASSUME NEW r \in Requests, CardStep(r)
      PROVE  CardInv'
  BY <1>3, CardReadsKeep, FindOrCreateCustomerKeeps, NoteCustomerKeeps,
     CreateSourceKeeps, CreateRowKeeps, DeleteCardKeeps, DestroyRowKeeps,
     UpdateRowKeeps, MetaSavesKeep
     DEF CardStep
<1>4. CASE UNCHANGED vars
  <2>1. AccountInv'
    BY <1>0, <1>4 DEF vars, accountVars, firebase, table, belongings, Hosts, Booked, AccountInv,
       AccountTypeOK, Numbered, Met, Undisturbed, Sees, SeesUid, SeesOther, Knows,
       Disturbed, Sound, Changing, Marked, At
  <2> QED
    BY <1>4, <2>1, ClientKeeps DEF vars, accountVars
<1> QED
  BY <1>1, <1>2, <1>3, <1>4 DEF Next

LEMMA SpecInv == Spec => []CardInv
<1> QED
  BY InitInv, NextInv, PTL DEF Spec

\* Every variable has its type.
THEOREM TypeCorrect == Spec => []TypeOK
<1>1. CardInv => TypeOK
  BY DEF CardInv
<1> QED
  BY <1>1, SpecInv, PTL

\* A user's row has a login at Firebase, unless requests about the user
\* overlapped or the row was made from a token that outlived the account.
THEOREM RowsHaveLogins == Spec => []RowHasLogin
<1>1. CardInv => RowHasLogin
  BY AccountInvImplies DEF CardInv
<1> QED
  BY <1>1, SpecInv, PTL

\* The row and the login have the same email: whatever crashes where, only a
\* change torn between the two stores, overlapping requests about the user, or
\* an old token can make them differ.
THEOREM EmailsStayTheSame == Spec => []EmailsAgree
<1>1. CardInv => EmailsAgree
  BY AccountInvImplies DEF CardInv
<1> QED
  BY <1>1, SpecInv, PTL

\* A step of request r that is about no listing and no booking.
Aside(r) ==
  /\ UNCHANGED <<listings, bookings>> /\ marks \subseteq marks'
  /\ \/ End(r)
     \/ req[r].call # "book" /\ \E at : Go(r, at)
     \/ \E q : q.call # "book" /\ req' = [req EXCEPT ![r] = q]

LEMMA AsideStep ==
  ASSUME AccountTypeOK, BookingsKnow, NEW r \in Requests, Aside(r)
  PROVE  BookingsKnow'
<1>1. ASSUME NEW q, q.call # "book", req' = [req EXCEPT ![r] = q]
      PROVE  BookingsKnow'
  BY <1>1, AsideKeeps DEF Aside
<1>2. CASE End(r)
  BY <1>1, <1>2, IdleType DEF End
<1>3. ASSUME req[r].call # "book", NEW at, Go(r, at)
      PROVE  BookingsKnow'
  <2>1. PICK q : q = [req[r] EXCEPT !.at = at]
    OBVIOUS
  <2>2. q.call # "book"
    BY <1>3, <2>1 DEF AccountTypeOK, Request
  <2>3. req' = [req EXCEPT ![r] = q]
    BY <1>3, <2>1 DEF Go, AccountTypeOK
  <2> QED
    BY <1>1, <2>2, <2>3
<1> QED
  BY <1>1, <1>2, <1>3 DEF Aside

LEMMA BeginAside ==
  ASSUME AccountTypeOK, NEW r \in Requests, NEW q, Become(r, q), q.call # "book",
         UNCHANGED <<listings, bookings>>
  PROVE  Aside(r)
  BY DEF Become, Aside

LEMMA CallsAside ==
  ASSUME AccountTypeOK, BookingsKnow, NEW r \in Requests, AccountCall(r)
  PROVE  BookingsKnow'
<1>1. ASSUME NEW e \in Emails, SignUp(r, e)
      PROVE  BookingsKnow'
  <2>1. PICK q : q = [Idle EXCEPT !.call = "signUp", !.at = "lookup", !.email = e]
    OBVIOUS
  <2>2. q.call # "book" /\ Become(r, q) /\ UNCHANGED <<listings, bookings>>
    BY <1>1, <2>1 DEF SignUp, Idle, belongings
  <2> QED
    BY <2>2, BeginAside, AsideStep
<1>2. ASSUME NEW e \in Emails, AdminCreateHost(r, e)
      PROVE  BookingsKnow'
  <2>1. PICK old : Become(r, [Idle EXCEPT !.call = "admin", !.at = "lookup",
                                          !.other = old, !.email = e])
    BY <1>2 DEF AdminCreateHost
  <2>2. PICK q : q = [Idle EXCEPT !.call = "admin", !.at = "lookup", !.other = old,
                                  !.email = e]
    OBVIOUS
  <2>3. q.call # "book" /\ Become(r, q) /\ UNCHANGED <<listings, bookings>>
    BY <1>2, <2>1, <2>2 DEF AdminCreateHost, Idle, belongings
  <2> QED
    BY <2>3, BeginAside, AsideStep
<1>3. ASSUME NEW u \in Uids,
             \/ \E e \in Addresses : Context(r, u, e)
             \/ Fetch(r, u) \/ Login(r, u) \/ Delete(r, u) \/ Own(r, u)
             \/ \E e \in Emails : Change(r, u, e)
      PROVE  BookingsKnow'
  <2>1. UNCHANGED <<listings, bookings>>
    BY <1>3 DEF Context, Fetch, Login, Delete, Own, Change, belongings
  <2>2. PICK q : Become(r, q) /\ q.call # "book"
    <3>1. ASSUME NEW e \in Addresses, Context(r, u, e)
          PROVE  \E q : Become(r, q) /\ q.call # "book"
      <4>1. PICK q : q = [Idle EXCEPT !.call = "context", !.at = "create", !.uid = u,
                                     !.email = e]
        OBVIOUS
      <4>2. Become(r, q) /\ q.call # "book"
        BY <3>1, <4>1 DEF Context, Idle
      <4> QED
        BY <4>2
    <3>2. ASSUME Fetch(r, u)
          PROVE  \E q : Become(r, q) /\ q.call # "book"
      <4>1. PICK q : q = [Idle EXCEPT !.call = "fetch", !.at = "find", !.uid = u,
                                     !.email = login[u]]
        OBVIOUS
      <4>2. Become(r, q) /\ q.call # "book"
        BY <3>2, <4>1 DEF Fetch, Idle
      <4> QED
        BY <4>2
    <3>3. ASSUME Login(r, u)
          PROVE  \E q : Become(r, q) /\ q.call # "book"
      <4>1. PICK q : q = [Idle EXCEPT !.call = "login", !.at = "find", !.uid = u,
                                     !.email = login[u]]
        OBVIOUS
      <4>2. Become(r, q) /\ q.call # "book"
        BY <3>3, <4>1 DEF Login, Idle
      <4> QED
        BY <4>2
    <3>4. ASSUME Delete(r, u)
          PROVE  \E q : Become(r, q) /\ q.call # "book"
      <4>1. PICK q : q = [Idle EXCEPT !.call = "delete", !.at = "lookup", !.uid = u]
        OBVIOUS
      <4>2. Become(r, q) /\ q.call # "book"
        BY <3>4, <4>1 DEF Delete, Idle
      <4> QED
        BY <4>2
    <3>5. ASSUME Own(r, u)
          PROVE  \E q : Become(r, q) /\ q.call # "book"
      <4>1. PICK q : q = [Idle EXCEPT !.call = "own", !.at = "store", !.uid = u]
        OBVIOUS
      <4>2. Become(r, q) /\ q.call # "book"
        BY <3>5, <4>1 DEF Own, Idle
      <4> QED
        BY <4>2
    <3>6. ASSUME NEW e \in Emails, Change(r, u, e)
          PROVE  \E q : Become(r, q) /\ q.call # "book"
      <4>1. PICK q : q = [Idle EXCEPT !.call = "change", !.at = "lookup", !.uid = u,
                                     !.email = e, !.meta = row[u].meta]
        OBVIOUS
      <4>2. Become(r, q) /\ q.call # "book"
        BY <3>6, <4>1 DEF Change, Idle
      <4> QED
        BY <4>2
    <3> QED
      BY <1>3, <3>1, <3>2, <3>3, <3>4, <3>5, <3>6
  <2> QED
    BY <2>1, <2>2, BeginAside, AsideStep
<1>4. ASSUME NEW u \in Uids, NEW p \in Places, Book(r, u, p)
      PROVE  BookingsKnow'
  <2>1. PICK q : q = [Idle EXCEPT !.call = "book", !.at = "store", !.uid = u,
                                  !.listing = p, !.host = listings[p]]
    OBVIOUS
  <2>2. q.listing = p /\ q.host = listings[p]
    BY <2>1 DEF Idle
  <2>3. /\ req' = [req EXCEPT ![r] = q] /\ marks \subseteq marks'
        /\ UNCHANGED <<listings, bookings>>
    BY <1>4, <2>1 DEF Book, Become, belongings
  <2>4. /\ req'[r] = q /\ \A s \in Requests \ {r} : req'[s] = req[s]
    BY <2>3 DEF AccountTypeOK
  <2>5. \A x, v : HostOf(x, v) => WillHost(x, v)
    BY <2>3 DEF HostOf, WillHost, Marked
  <2>6. WillHost(q.listing, q.host)
    BY <2>2, <2>3 DEF WillHost
  <2>7. \A b \in bookings : WillHost(b.listing, b.host)
    BY <2>5 DEF BookingsKnow
  <2>8. ASSUME NEW s \in Requests, req'[s].call = "book"
        PROVE  WillHost(req'[s].listing, req'[s].host)
    <3>1. CASE s = r
      BY <2>4, <2>6, <3>1
    <3>2. CASE s # r
      <4>1. req'[s] = req[s] /\ HostOf(req[s].listing, req[s].host)
        BY <2>4, <2>8, <3>2 DEF BookingsKnow
      <4> QED
        BY <2>5, <4>1
    <3> QED
      BY <3>1, <3>2
  <2> QED
    BY <2>3, <2>7, <2>8 DEF BookingsKnow, HostOf, WillHost, Marked
<1>5. ASSUME NEW u \in Uids, NEW p \in Places, Move(r, u, p)
      PROVE  BookingsKnow'
  <2>1. PICK q : q = [Idle EXCEPT !.call = "move", !.at = "store", !.uid = u,
                                  !.listing = p]
    OBVIOUS
  <2>2. q.call # "book" /\ Become(r, q) /\ UNCHANGED <<listings, bookings>>
    BY <1>5, <2>1 DEF Move, Idle, belongings
  <2> QED
    BY <2>2, BeginAside, AsideStep
<1>6. ASSUME NEW p \in Places, Unlist(r, p)
      PROVE  BookingsKnow'
  <2>1. PICK q : q = [Idle EXCEPT !.call = "unlist", !.at = "store", !.listing = p]
    OBVIOUS
  <2>2. q.call # "book" /\ Become(r, q) /\ UNCHANGED <<listings, bookings>>
    BY <1>6, <2>1 DEF Unlist, Idle, belongings
  <2> QED
    BY <2>2, BeginAside, AsideStep
<1> QED
  BY <1>1, <1>2, <1>3, <1>4, <1>5, <1>6 DEF AccountCall

\* A store of a listing or a booking: nothing changes the listing of another
\* booking but with a mark for its host.
LEMMA StoreKnows ==
  ASSUME AccountTypeOK, BookingsKnow, NEW r \in Requests, End(r),
         marks \subseteq marks',
         \A b \in bookings : WillHost(b.listing, b.host),
         \A b \in bookings' \ bookings : WillHost(b.listing, b.host),
         \A s \in Requests \ {r} :
           req[s].call = "book" => WillHost(req[s].listing, req[s].host)
  PROVE  BookingsKnow'
<1>1. /\ req'[r].call = "none" /\ \A s \in Requests \ {r} : req'[s] = req[s]
  BY IdleType DEF End, AccountTypeOK
<1>2. ASSUME NEW s \in Requests, req'[s].call = "book"
      PROVE  WillHost(req'[s].listing, req'[s].host)
  <2>1. s # r /\ req'[s] = req[s]
    BY <1>1, <1>2
  <2>2. WillHost(req[s].listing, req[s].host)
    BY <1>2, <2>1
  <2> QED
    BY <2>1, <2>2
<1> QED
  BY <1>2 DEF BookingsKnow, HostOf, WillHost, Marked

LEMMA StoresKnow ==
  ASSUME AccountInv, BookingsKnow, NEW r \in Requests,
         OwnStore(r) \/ BookStore(r) \/ MoveStore(r) \/ UnlistStore(r)
  PROVE  BookingsKnow'
<1>0. AccountTypeOK /\ End(r) /\ Shape(req[r])
  BY Known DEF OwnStore, BookStore, MoveStore, UnlistStore
<1>1. marks \subseteq marks'
  BY DEF OwnStore, BookStore, MoveStore, UnlistStore
<1>2. \A p, u : HostOf(p, u) => listings[p] = u \/ WillHost(p, u)
  BY <1>1 DEF HostOf, WillHost, Marked
<1>3. CASE OwnStore(r)
  <2>1. PICK p \in Places : Unused(p) /\ listings' = [listings EXCEPT ![p] = req[r].uid]
    BY <1>3 DEF OwnStore
  <2>2. bookings' = bookings
    BY <1>3 DEF OwnStore
  <2>3. \A x, v : x # p /\ HostOf(x, v) => WillHost(x, v)
    BY <1>0, <1>2, <2>1 DEF WillHost, AccountTypeOK
  <2>4. \A b \in bookings : WillHost(b.listing, b.host)
    BY <2>1, <2>3 DEF Unused, BookingsKnow
  <2>5. \A s \in Requests : req[s].call = "book" => WillHost(req[s].listing, req[s].host)
    BY <2>1, <2>3 DEF Unused, BookingsKnow
  <2> QED
    BY <1>0, <1>1, <2>2, <2>4, <2>5, StoreKnows
<1>4. CASE BookStore(r)
  <2>1. UNCHANGED listings
    BY <1>4 DEF BookStore
  <2>2. \A x, v : HostOf(x, v) => WillHost(x, v)
    BY <1>2, <2>1 DEF WillHost
  <2>3. HostOf(req[r].listing, req[r].host)
    BY <1>4 DEF BookStore, At, BookingsKnow
  <2>4. \A b \in bookings' \ bookings : WillHost(b.listing, b.host)
    BY <1>4, <2>2, <2>3 DEF BookStore
  <2>5. \A b \in bookings : WillHost(b.listing, b.host)
    BY <2>2 DEF BookingsKnow
  <2>6. \A s \in Requests : req[s].call = "book" => WillHost(req[s].listing, req[s].host)
    BY <2>2 DEF BookingsKnow
  <2> QED
    BY <1>0, <1>1, <2>4, <2>5, <2>6, StoreKnows
<1>5. CASE MoveStore(r)
  <2>1. PICK p : p = req[r].listing
    OBVIOUS
  <2>2. bookings' = bookings /\ p \in Places
    BY <1>0, <1>5, <2>1 DEF MoveStore, At, Shape
  <2>3. \/ listings' = listings
        \/ /\ listings' = [listings EXCEPT ![p] = req[r].uid]
           /\ listings[p] = req[r].uid \/ <<"moved", listings[p]>> \in marks'
    BY <1>5, <2>1 DEF MoveStore
  <2>4. <<"moved", listings[p]>> \in marks' =>
          (\E c \in {"moved", "overlapped"} : <<c, listings[p]>> \in marks')
    BY DEF Marked
  <2>5. ASSUME NEW x \in Places, NEW v, HostOf(x, v)
        PROVE  WillHost(x, v)
    <3>1. CASE listings[x] = v /\ x # p
      BY <1>0, <2>2, <2>3, <3>1 DEF WillHost, AccountTypeOK
    <3>2. CASE listings[x] = v /\ x = p
      BY <1>0, <2>2, <2>3, <2>4, <3>2 DEF WillHost, AccountTypeOK
    <3> QED
      BY <1>2, <2>5, <3>1, <3>2
  <2>6. /\ \A b \in bookings : b.listing \in Places
        /\ \A s \in Requests : req[s].call = "book" => req[s].listing \in Places
    BY <1>0 DEF AccountInv, AccountTypeOK, Booking, Shape
  <2> QED
    BY <1>0, <1>1, <2>2, <2>5, <2>6, StoreKnows DEF BookingsKnow
<1>6. CASE UnlistStore(r)
  <2>1. PICK p : p = req[r].listing
    OBVIOUS
  <2>2. bookings' = bookings /\ p \in Places
    BY <1>0, <1>6, <2>1 DEF UnlistStore, At, Shape
  <2>3. /\ listings' = [listings EXCEPT ![p] = 0]
        /\ BookedMeanwhile(p) => listings[p] = 0 \/ <<"overlapped", listings[p]>> \in marks'
    BY <1>6, <2>1 DEF UnlistStore
  <2>4. <<"overlapped", listings[p]>> \in marks' =>
          (\E c \in {"moved", "overlapped"} : <<c, listings[p]>> \in marks')
    BY DEF Marked
  <2>5. \A x, v : (x = p => BookedMeanwhile(p)) /\ HostOf(x, v) => WillHost(x, v)
    BY <1>0, <1>2, <2>2, <2>3, <2>4 DEF WillHost, AccountTypeOK
  <2>6. \A b \in bookings : WillHost(b.listing, b.host)
    BY <2>5 DEF BookingsKnow, BookedMeanwhile
  <2>7. \A s \in Requests : req[s].call = "book" => WillHost(req[s].listing, req[s].host)
    BY <2>5 DEF BookingsKnow, BookedMeanwhile
  <2> QED
    BY <1>0, <1>1, <2>2, <2>6, <2>7, StoreKnows
<1> QED
  BY <1>3, <1>4, <1>5, <1>6

LEMMA StepsAside ==
  ASSUME AccountTypeOK, BookingsKnow, NEW r \in Requests, AccountStep(r),
         ~ (OwnStore(r) \/ BookStore(r) \/ MoveStore(r) \/ UnlistStore(r))
  PROVE  BookingsKnow'
<1>1. UNCHANGED <<listings, bookings>>
  BY DEF AccountStep, SignUpLookup, SignUpAccount, SignUpSave, SignUpCredit,
         ContextCreate, FetchFind, FetchCreate, LoginFind, LoginVerify, LoginCreate,
         AdminLookup, AdminAccount, AdminRename, AdminCreate, DeleteLookup,
         DeleteCheck, DeleteCheckBookings, DeleteRow, DeleteAccount, ChangeLookup,
         ChangeAccount, ChangeSave, belongings
<1>2. CASE SignUpAccount(r)
  <2>1. CASE End(r)
    BY <1>1, <1>2, <2>1, AsideStep DEF Aside, SignUpAccount
  <2>2. CASE req' = [req EXCEPT ![r].at = "save", ![r].uid = issued + 1]
    <3>1. PICK q : q = [req[r] EXCEPT !.at = "save", !.uid = issued + 1]
      OBVIOUS
    <3>2. q.call # "book"
      BY <1>2, <3>1 DEF SignUpAccount, At, AccountTypeOK, Request
    <3>3. req' = [req EXCEPT ![r] = q]
      BY <2>2, <3>1 DEF AccountTypeOK
    <3> QED
      BY <1>1, <1>2, <3>2, <3>3, AsideStep DEF Aside, SignUpAccount
  <2> QED
    BY <1>2, <2>1, <2>2 DEF SignUpAccount
<1>3. ASSUME AdminLookup(r) \/ AdminAccount(r), NEW u, AdminFound(r, u)
      PROVE  BookingsKnow'
  <2>1. req[r].call = "admin" /\ req[r] \in Request
    BY <1>3 DEF AdminLookup, AdminAccount, At, AccountTypeOK
  <2>2. CASE End(r) /\ UNCHANGED marks
    BY <1>1, <2>2, AsideStep DEF Aside
  <2>3. CASE ~ (End(r) /\ UNCHANGED marks)
    <3>1. PICK q : /\ q = [req[r] EXCEPT !.uid = u,
                             !.at = IF req[r].other = 0 THEN "create" ELSE "rename"]
                   /\ Become(r, q)
      BY <1>3, <2>3 DEF AdminFound
    <3>2. q.call # "book"
      BY <2>1, <3>1 DEF Request
    <3> QED
      BY <1>1, <3>1, <3>2, BeginAside, AsideStep
  <2> QED
    BY <2>2, <2>3
<1>4. CASE AdminLookup(r) \/ AdminAccount(r)
  <2>1. CASE \E u : AdminFound(r, u)
    BY <1>3, <1>4, <2>1
  <2>2. CASE ~ \E u : AdminFound(r, u)
    <3>1. marks' = marks /\ (End(r) \/ Go(r, "account")) /\ req[r].call = "admin"
      BY <1>4, <2>2 DEF AdminLookup, AdminAccount, At
    <3> QED
      BY <1>1, <3>1, AsideStep DEF Aside
  <2> QED
    BY <2>1, <2>2
<1>5. CASE ~ (SignUpAccount(r) \/ AdminLookup(r) \/ AdminAccount(r))
  <2>1. /\ marks \subseteq marks' /\ req[r].call # "book"
        /\ End(r) \/ \E at : Go(r, at)
    BY <1>5 DEF AccountStep, SignUpLookup, SignUpSave, SignUpCredit,
         ContextCreate, FetchFind, FetchCreate, LoginFind, LoginVerify, LoginCreate,
         AdminRename, AdminCreate, DeleteLookup, DeleteCheck, DeleteCheckBookings,
         DeleteRow, DeleteAccount, ChangeLookup, ChangeAccount, ChangeSave, At
  <2> QED
    BY <1>1, <2>1, AsideStep DEF Aside
<1> QED
  BY <1>2, <1>4, <1>5

LEMMA CardsAside ==
  ASSUME AccountTypeOK, BookingsKnow, NEW r \in Requests, CardCall(r) \/ CardStep(r)
  PROVE  BookingsKnow'
<1>1. CASE CardCall(r)
  <2>1. UNCHANGED <<listings, bookings>>
    BY <1>1 DEF CardCall, AddCard, UpdateCard, RemoveCard, Connect, Wallet, LoadUser,
                belongings
  <2>2. PICK q : Become(r, q) /\ q.call # "book"
    <3>1. PICK u, call, at, c : LoadUser(r, u, call, at, c) /\ call # "book"
      BY <1>1 DEF CardCall, AddCard, UpdateCard, RemoveCard, Connect, Wallet
    <3>2. PICK q : q = [Idle EXCEPT !.call = call, !.at = at, !.uid = u,
                                    !.meta = row[u].meta, !.card = c]
      OBVIOUS
    <3>3. Become(r, q) /\ q.call # "book"
      BY <3>1, <3>2 DEF LoadUser, Idle
    <3> QED
      BY <3>3
  <2> QED
    BY <2>1, <2>2, BeginAside, AsideStep
<1>2. CASE CardStep(r)
  <2>1. UNCHANGED <<listings, bookings, marks>> /\ req[r].call # "book"
    BY <1>2 DEF CardStep, CheckCard, FindOrCreateCustomer, NoteCustomer, CreateSource,
                CreateRow, DeleteCard, DestroyRow, UpdateSource, UpdateRow, ConnectSave,
                WalletSave, At, belongings
  <2>2. req[r] \in Request
    BY DEF AccountTypeOK
  <2>3. CASE req' = [req EXCEPT ![r].at = "note", ![r].meta.customer = customers + 1]
    <3>1. PICK q : q = [req[r] EXCEPT !.at = "note", !.meta.customer = customers + 1]
      OBVIOUS
    <3>2. q.call # "book"
      BY <2>1, <2>2, <3>1 DEF Request
    <3>3. req' = [req EXCEPT ![r] = q]
      BY <2>3, <3>1 DEF AccountTypeOK
    <3> QED
      BY <2>1, <3>2, <3>3, AsideStep DEF Aside
  <2>4. CASE req' = [req EXCEPT ![r].at = "create", ![r].card = sources + 1]
    <3>1. PICK q : q = [req[r] EXCEPT !.at = "create", !.card = sources + 1]
      OBVIOUS
    <3>2. q.call # "book"
      BY <2>1, <2>2, <3>1 DEF Request
    <3>3. req' = [req EXCEPT ![r] = q]
      BY <2>4, <3>1 DEF AccountTypeOK
    <3> QED
      BY <2>1, <3>2, <3>3, AsideStep DEF Aside
  <2>5. CASE End(r) \/ \E at : Go(r, at)
    BY <2>1, <2>5, AsideStep DEF Aside
  <2> QED
    BY <1>2, <2>3, <2>4, <2>5
       DEF CardStep, CheckCard, FindOrCreateCustomer, NoteCustomer, CreateSource,
           CreateRow, DeleteCard, DestroyRow, UpdateSource, UpdateRow, ConnectSave,
           WalletSave
<1> QED
  BY <1>1, <1>2

LEMMA BookingsKnowNext ==
  ASSUME CardInv, BookingsKnow, [Next]_vars
  PROVE  BookingsKnow'
<1>0. AccountTypeOK /\ AccountInv
  BY DEF CardInv, TypeOK
<1>1. CASE UNCHANGED <<listings, bookings, req, marks>>
  BY <1>1 DEF BookingsKnow, HostOf, Marked
<1>2. ASSUME NEW r \in Requests, Crash(r)
      PROVE  BookingsKnow'
  BY <1>0, <1>2, AsideStep DEF Crash, Aside, belongings
<1>3. ASSUME NEW r \in Requests, AccountStep(r)
      PROVE  BookingsKnow'
  BY <1>0, <1>3, StepsAside, StoresKnow
<1> QED
  BY <1>0, <1>1, <1>2, <1>3, CallsAside, CardsAside
     DEF Next, AccountNext, ClientSignUp, vars, accountVars, belongings

\* Listings, bookings and credit refer to users who are there, unless the row
\* changed its id, requests overlapped, the listing of a booking was given to
\* another host, or (credit alone) the user was deleted.
THEOREM OwnersStay == Spec => []OwnersExist
<1>1. Init => BookingsKnow
  BY IdleType DEF Init, AccountInit, BookingsKnow
<1>2. CardInv /\ BookingsKnow /\ [Next]_vars => BookingsKnow'
  BY BookingsKnowNext
<1>3. CardInv /\ BookingsKnow => OwnersExist
  BY OwnersImplied DEF CardInv
<1> QED
  BY <1>1, <1>2, <1>3, SpecInv, PTL DEF Spec

\* No sequence of calls, and no crash, makes a user's cards belong to another
\* customer than the one the user's row names, unless requests about the user
\* overlapped, or the row was deleted or changed its id.
THEOREM CustomerKept == Spec => []CardsOfOneCustomer
<1>1. CardInv => CardsOfOneCustomer
  BY DEF CardInv, CardsOfOneCustomer, OfItsCustomer
<1> QED
  BY <1>1, SpecInv, PTL

\* No user has a card twice, unless requests overlapped or ids were overwritten.
THEOREM NoCardTwice == Spec => []OneCardOnce
<1>1. CardInv => OneCardOnce
  BY DEF CardInv
<1> QED
  BY <1>1, SpecInv, PTL

\* A row of payment_sources outlives its card at Stripe only while it is being
\* removed, or after a removal that stopped half-way, or when it changed hands.
THEOREM CardsStayReal == Spec => []CardsAreReal
<1>1. CardInv => CardsAreReal
  BY DEF CardInv
<1> QED
  BY <1>1, SpecInv, PTL
=============================================================================

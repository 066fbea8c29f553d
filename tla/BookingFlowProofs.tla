------------------------- MODULE BookingFlowProofs -------------------------
(***************************************************************************)
(* For any number of bookings, guests and concurrent requests, and         *)
(* wherever one of them is cut off: the variables of BookingFlow keep      *)
(* their types; the credit of a guest is never overdrawn; a USD booking    *)
(* counts as paid to the host only when it was charged, free, or recorded  *)
(* as paid out by hand; a booking that has left the status started never   *)
(* returns to it; and a charged one is past the statuses from which a      *)
(* guest cancels for nothing, unless a confirmation overwrote its status.  *)
(***************************************************************************)
EXTENDS BookingFlow, SequenceTheorems, TLAPS

(***************************************************************************)
(* A handler may write "host_paid" because the total of its own, possibly  *)
(* outdated instance is 0.  That this says anything about the row is due   *)
(* to what the saves of two handlers never change about it, its deal: the  *)
(* credit deducted in the quotes, and, without quotes, the total.          *)
(***************************************************************************)
Deal(m) == <<m.quote, IF m.quote = Undefined THEN m.total ELSE 0>>

NothingDue(b, m) ==
  IF m.quote = Undefined THEN m.total = 0 ELSE Price[b] = m.quote

GoodMeta(b, m) ==
  /\ m \in Meta
  /\ m.quote # Undefined =>
       m.quote <= Price[b] /\ (m.currency = "USD" => m.total = Price[b] - m.quote)

GoodRow(b, rw, ch, paid) ==
  /\ GoodMeta(b, rw[b].meta)
  /\ rw[b].status = "host_paid" => ch[b] # << >> \/ paid[b] \/ NothingDue(b, rw[b].meta)

Busy(q) == q.pc # "idle" \/ q.todo # {}

Selecting == {"select_address", "select_save"}
Charging == {"approve_usd", "charge", "charge_status", "charge_id"}

\* What a save makes of a booking's status.
Ending == {"host_cancelled", "guest_cancelled", "guest_rejected", "host_rejected"}

\* What holds of a request q when rw are the rows and ch the charges.
GoodReq(q, rw, ch) ==
  /\ q \in Request
  /\ GoodMeta(q.b, q.inst.meta)
  /\ Busy(q) => rw[q.b].status # "none" /\ Deal(q.inst.meta) = Deal(rw[q.b].meta)
  /\ q.pc \in Selecting => q.inst.meta.quote # Undefined
  /\ q.pc \in Charging => q.inst.meta.currency = "USD"
  /\ q.pc = "charge_status" => ch[q.b] # << >>
  /\ q.dirty => q.inst.status \in {"host_cancelled", "guest_cancelled"}
  /\ q.dirty => q.pc = "idle"

\* TypeOK without the rows and the requests.
RestOK ==
  /\ balance \in [Guests -> Int]
  /\ charges \in [Bookings -> Seq([amount : Nat, refunded : Nat])]
  /\ onchain \in [Bookings -> SUBSET ContractEvents]
  /\ late \in [Bookings -> BOOLEAN]
  /\ aged \in [Bookings -> BOOLEAN]
  /\ order \in Seq(Bookings)
  /\ cardGone \in [Bookings -> BOOLEAN]
  /\ applied \in [Bookings -> Nat]
  /\ debited \in [Bookings -> Nat]
  /\ credited \in [Bookings -> Nat]
  /\ paidOut \in [Bookings -> BOOLEAN]
  /\ reconfirmed \in [Bookings -> BOOLEAN]
  /\ unsent \in [Bookings -> BOOLEAN]

\* Only a booking that was made has a currency or an invoice.
Known ==
  \A b \in Bookings : row[b].meta.currency # "none" \/ onchain[b] # {} => Exists(b)

RowInv ==
  /\ row \in [Bookings -> Row]
  /\ \A b \in Bookings : GoodRow(b, row, charges, paidOut)
  /\ Known

ReqInv ==
  /\ req \in [Requests -> Request]
  /\ \A r \in Requests : GoodReq(req[r], row, charges)

Inv == RestOK /\ NeverOverdrawn /\ RowInv /\ ReqInv

-----------------------------------------------------------------------------
(* The vocabulary.                                                          *)

LEMMA LabelSet ==
  /\ DOMAIN LastWrite = {"approve_status", "refund_initiated", "guest_cancel_initiated",
                         "reject_payment", "payout", "expire"}
  /\ Labels = { "idle", "confirm_status", "confirm_details", "select_address",
                "select_save", "approve_by", "approve_usd", "charge", "charge_status",
                "charge_id", "host_refund", "host_refund_id", "host_cancel",
                "guest_refund", "guest_refund_id", "guest_cancel", "reject_save",
                "reject_credit", "approve_status", "refund_initiated", "guest_cancel_initiated",
                "reject_payment", "payout", "expire",
                "Invoice", "Payout", "Cancel", "Refund", "Dispute" }
  BY DEF LastWrite, Labels, ContractEvents

LEMMA NoRowType == NoRow \in Row /\ NoRow.status = "none" /\ \A b \in Bookings : GoodMeta(b, NoRow.meta)
  BY DEF NoRow, Row, Meta, GoodMeta, Undefined, Statuses

LEMMA IdleType ==
  /\ Idle \in Request
  /\ Idle.pc = "idle" /\ Idle.todo = {} /\ Idle.dirty = FALSE /\ Idle.inst = NoRow
  BY BookingAssumption, NoRowType, LabelSet DEF Idle, Request, Parts

LEMMA IdleGood == ASSUME NEW rw, NEW ch PROVE GoodReq(Idle, rw, ch)
  BY IdleType, NoRowType DEF GoodReq, Busy, Selecting, Charging, Request

LEMMA SettleGood ==
  ASSUME NEW q, NEW rw, NEW ch, GoodReq(q, rw, ch)
  PROVE  GoodReq(Settle(q), rw, ch) /\ Settle(q) \in Request
  BY IdleGood DEF Settle, GoodReq

LEMMA AmountTypes ==
  ASSUME NEW status, NEW isLate, NEW amount \in Nat
  PROVE  /\ NineTenths(amount) \in Nat
         /\ CancelRefundForGuest(status, isLate, amount) \in Nat
         /\ CancelRefundForHost(status, amount) \in Nat
         /\ CreditRefundForGuest(status, isLate, amount) \in Nat
<1>1. NineTenths(amount) \in Nat
  BY DEF NineTenths
<1> QED
  BY <1>1 DEF CancelRefundForGuest, CancelRefundForHost, CreditRefundForGuest

-----------------------------------------------------------------------------
(* How the steps change requests and rows.                                  *)

\* What every step keeps for the requests that do not take it.
Kept ==
  /\ \A b \in Bookings : row[b].status # "none" =>
       row'[b].status # "none" /\ Deal(row'[b].meta) = Deal(row[b].meta)
  /\ \A b \in Bookings : charges[b] # << >> => charges'[b] # << >>

LEMMA OthersKept ==
  ASSUME NEW q, GoodReq(q, row, charges), Kept
  PROVE  GoodReq(q, row', charges')
  BY DEF GoodReq, Kept, Request

LEMMA RequestStep ==
  ASSUME NEW r \in Requests, NEW q, ReqInv, Kept,
         GoodReq(q, row', charges'), Become(r, q)
  PROVE  ReqInv'
<1>1. req' = [req EXCEPT ![r] = Settle(q)]
  BY DEF Become
<1>2. GoodReq(Settle(q), row', charges') /\ Settle(q) \in Request
  BY SettleGood
<1>3. \A s \in Requests : GoodReq(req[s], row', charges')
  BY OthersKept DEF ReqInv
<1>4. \A s \in Requests : req'[s] = IF s = r THEN Settle(q) ELSE req[s]
  BY <1>1 DEF ReqInv
<1>5. req' \in [Requests -> Request]
  BY <1>1, <1>2 DEF ReqInv
<1>6. \A s \in Requests : GoodReq(req'[s], row', charges')
  BY <1>2, <1>3, <1>4
<1> QED
  BY <1>5, <1>6 DEF ReqInv

\* One row is written.
LEMMA RowStep ==
  ASSUME RowInv, NEW b \in Bookings, NEW new \in Row,
         row' = [row EXCEPT ![b] = new], UNCHANGED onchain,
         Exists(b), new.status # "none",
         GoodMeta(b, new.meta), Deal(new.meta) = Deal(row[b].meta),
         \A c \in Bookings : charges[c] # << >> => charges'[c] # << >>,
         \A c \in Bookings : paidOut[c] => paidOut'[c],
         new.status = "host_paid" =>
           charges'[b] # << >> \/ paidOut'[b] \/ NothingDue(b, new.meta)
  PROVE  RowInv' /\ Kept
<1>1. row' \in [Bookings -> Row] /\ row'[b] = new
      /\ \A c \in Bookings : c # b => row'[c] = row[c]
  BY DEF RowInv
<1>2. \A c \in Bookings : GoodRow(c, row', charges', paidOut')
  BY <1>1 DEF GoodRow, RowInv
<1>3. Kept
  BY <1>1 DEF Kept
<1>4. Known'
  BY <1>1 DEF Known, Exists, RowInv
<1> QED
  BY <1>1, <1>2, <1>3, <1>4 DEF RowInv

\* No row is written.
LEMMA RowsSame ==
  ASSUME RowInv, UNCHANGED <<row, onchain>>,
         \A c \in Bookings : charges[c] # << >> => charges'[c] # << >>,
         \A c \in Bookings : paidOut[c] => paidOut'[c]
  PROVE  RowInv' /\ Kept
<1>1. \A c \in Bookings : GoodRow(c, row', charges', paidOut')
  BY DEF GoodRow, RowInv
<1> QED
  BY <1>1 DEF RowInv, Kept, Known, Exists

LEMMA RestSame ==
  ASSUME RestOK, UNCHANGED <<balance, charges, world, history>>
  PROVE  RestOK'
  BY DEF RestOK, world, history

\* A request that is at work is typed, and so is what it has loaded.
LEMMA AtWork ==
  ASSUME NEW r \in Requests, ReqInv
  PROVE  /\ req[r] \in Request /\ GoodReq(req[r], row, charges)
         /\ req[r].b \in Bookings
         /\ req[r].inst \in Row /\ req[r].inst.meta \in Meta
         /\ GoodMeta(req[r].b, req[r].inst.meta)
         /\ Busy(req[r]) => /\ Exists(req[r].b)
                            /\ Deal(req[r].inst.meta) = Deal(row[req[r].b].meta)
<1>1. req[r] \in Request /\ GoodReq(req[r], row, charges)
  BY DEF ReqInv
<1>2. req[r].b \in Bookings /\ req[r].inst \in Row
  BY <1>1 DEF Request
<1> QED
  BY <1>1, <1>2 DEF GoodReq, Row, Exists

LEMMA AtBusy ==
  ASSUME NEW r \in Requests, NEW label, label # "idle", At(r, label), ReqInv
  PROVE  /\ Busy(req[r]) /\ req[r].todo = {} /\ req[r].pc = label
         /\ ~req[r].dirty
  BY DEF At, Busy, ReqInv, GoodReq

\* A handler begins: it holds the row as it is.
LEMMA LoadStep ==
  ASSUME Inv, NEW r \in Requests, NEW b \in Bookings, NEW q \in Request,
         Exists(b), q.b = b, q.inst.meta = row[b].meta,
         q.pc \notin Charging,
         q.pc \in Selecting => row[b].meta.quote # Undefined,
         ~q.dirty,
         Become(r, q), UNCHANGED <<row, balance, charges, world, history>>
  PROVE  Inv'
<1>1. RowInv' /\ Kept
  BY RowsSame DEF Inv, history, world
<1>2. GoodReq(q, row', charges')
  BY DEF GoodReq, Inv, RowInv, GoodRow, Exists, Charging
<1>3. ReqInv'
  BY <1>1, <1>2, RequestStep DEF Inv
<1>4. RestOK' /\ NeverOverdrawn'
  BY RestSame DEF Inv, NeverOverdrawn
<1> QED
  BY <1>1, <1>3, <1>4 DEF Inv

Plain == Labels \ (Selecting \cup Charging)

LEMMA GoToGood ==
  ASSUME NEW q, NEW rw, NEW ch, GoodReq(q, rw, ch), Busy(q), NEW label \in Plain,
         q.dirty => label = "idle"
  PROVE  GoodReq([q EXCEPT !.pc = label], rw, ch)
<1>1. q \in Request /\ label \in Labels
  BY DEF GoodReq, Plain
<1> DEFINE p == [q EXCEPT !.pc = label]
<1>2. p \in Request /\ p.pc = label /\ p.b = q.b /\ p.inst = q.inst
      /\ p.todo = q.todo /\ p.dirty = q.dirty
  BY <1>1 DEF Request
<1> HIDE DEF p
<1>3. label \notin Selecting /\ label \notin Charging /\ label # "charge_status"
  BY DEF Plain, Charging
<1>4. GoodReq(p, rw, ch)
  BY <1>2, <1>3 DEF GoodReq
<1> QED
  BY <1>4 DEF p

\* The status of the row is written.
LEMMA StatusStep ==
  ASSUME RowInv, ReqInv, NEW r \in Requests, Busy(req[r]), NEW status \in Statuses,
         WriteStatus(r, status), UNCHANGED <<charges, onchain>>,
         \A c \in Bookings : paidOut[c] => paidOut'[c],
         status = "host_paid" =>
           charges[req[r].b] # << >> \/ paidOut'[req[r].b] \/ NothingDue(req[r].b, row[req[r].b].meta)
  PROVE  RowInv' /\ Kept
<1> DEFINE b == req[r].b
           new == [row[b] EXCEPT !.status = status]
<1>1. b \in Bookings /\ Exists(b) /\ row[b] \in Row /\ GoodRow(b, row, charges, paidOut)
  BY AtWork DEF RowInv
<1>2. new \in Row /\ new.status = status /\ new.meta = row[b].meta
  BY <1>1 DEF Row
<1>3. status # "none"
  BY DEF Statuses
<1>4. CASE UNCHANGED row
  BY <1>1, <1>4, RowStep DEF GoodRow, Exists, Row, RowInv
<1>5. CASE row' = [row EXCEPT ![b] = new]
  <2> HIDE DEF new
  <2> QED
    BY <1>1, <1>2, <1>3, <1>5, RowStep DEF GoodRow
<1> QED
  BY <1>4, <1>5 DEF WriteStatus

\* A handler saves meta, perhaps with its status, and goes on.
LEMMA SaveStep ==
  ASSUME RowInv, ReqInv, NEW r \in Requests, Busy(req[r]),
         NEW inst \in Row, NEW next \in Labels,
         Save(r, inst, next), UNCHANGED <<charges, onchain, paidOut>>,
         GoodMeta(req[r].b, inst.meta), Deal(inst.meta) = Deal(req[r].inst.meta),
         inst.status # req[r].inst.status =>
           inst.status \in Ending,
         req[r].todo = {}, ~req[r].dirty,
         next # "charge_status",
         next \in Charging => inst.meta.currency = "USD",
         next \in Selecting => inst.meta.quote # Undefined
  PROVE  RowInv' /\ ReqInv'
<1> DEFINE b == req[r].b
           q == req[r]
<1>1. /\ b \in Bookings /\ Exists(b) /\ row[b] \in Row /\ GoodRow(b, row, charges, paidOut)
      /\ q \in Request /\ GoodReq(q, row, charges)
      /\ Deal(inst.meta) = Deal(row[b].meta)
  BY AtWork DEF RowInv
<1>2. CASE inst.meta.bad
  <2>1. UNCHANGED row /\ Become(r, [q EXCEPT !.pc = "idle"])
    BY <1>2 DEF Save, GoTo
  <2>2. RowInv' /\ Kept
    BY <2>1, RowsSame
  <2>3. "idle" \in Plain
    BY LabelSet DEF Plain, Selecting, Charging
  <2>4. GoodReq([q EXCEPT !.pc = "idle"], row', charges')
    BY <1>1, <2>1, <2>3, GoToGood
  <2> QED
    BY <2>1, <2>2, <2>4, RequestStep
<1>3. CASE ~inst.meta.bad
  <2> DEFINE new == [ status |-> IF inst.status # q.inst.status THEN inst.status ELSE row[b].status,
                      meta |-> inst.meta ]
             p == [q EXCEPT !.pc = next, !.inst = inst]
  <2>1. row' = [row EXCEPT ![b] = new] /\ Become(r, p)
    BY <1>3 DEF Save, Saved
  <2>2. /\ new \in Row /\ new.meta = inst.meta /\ new.status # "none"
        /\ new.status = "host_paid" => row[b].status = "host_paid"
    BY <1>1 DEF Row, Exists, Ending
  <2>3. NothingDue(b, row[b].meta) => NothingDue(b, inst.meta)
    BY <1>1 DEF NothingDue, Deal
  <2> HIDE DEF new
  <2>4. RowInv' /\ Kept
    BY <1>1, <2>1, <2>2, <2>3, RowStep DEF GoodRow
  <2>5. p \in Request /\ p.pc = next /\ p.inst = inst /\ p.b = b
        /\ p.todo = q.todo /\ p.dirty = q.dirty
    BY <1>1 DEF Request
  <2>6. row'[b].status # "none" /\ Deal(inst.meta) = Deal(row'[b].meta)
    BY <1>1, <2>4 DEF Kept, Exists
  <2> HIDE DEF p
  <2>7. GoodReq(p, row', charges')
    BY <1>1, <2>5, <2>6 DEF GoodReq
  <2> QED
    BY <2>1, <2>4, <2>7, RequestStep
<1> QED
  BY <1>2, <1>3

\* A request at work becomes p, which is about the same booking and deal.
LEMMA ChangeGood ==
  ASSUME ReqInv, Kept, NEW r \in Requests, Busy(req[r]), NEW p \in Request,
         p.b = req[r].b, GoodMeta(p.b, p.inst.meta),
         Deal(p.inst.meta) = Deal(req[r].inst.meta),
         p.pc \in Selecting => p.inst.meta.quote # Undefined,
         p.pc \in Charging => p.inst.meta.currency = "USD",
         p.pc = "charge_status" => charges'[p.b] # << >>,
         p.dirty => p.inst.status \in {"host_cancelled", "guest_cancelled"},
         p.dirty => p.pc = "idle",
         Become(r, p)
  PROVE  ReqInv'
<1>1. GoodReq(req[r], row, charges) /\ req[r].b \in Bookings
  BY AtWork
<1>2. row'[p.b].status # "none" /\ Deal(p.inst.meta) = Deal(row'[p.b].meta)
  BY <1>1 DEF GoodReq, Kept
<1>3. GoodReq(p, row', charges')
  BY <1>2 DEF GoodReq
<1> QED
  BY <1>3, RequestStep

LEMMA LoadType ==
  ASSUME RowInv, NEW r, NEW b \in Bookings, NEW label \in Labels
  PROVE  /\ Load(r, b, label) \in Request
         /\ Load(r, b, label).pc = label /\ Load(r, b, label).b = b
         /\ Load(r, b, label).inst = row[b] /\ Load(r, b, label).todo = {}
         /\ ~Load(r, b, label).dirty
         /\ row[b] \in Row /\ row[b].meta \in Meta /\ GoodRow(b, row, charges, paidOut)
<1>1. row[b] \in Row
  BY DEF RowInv
<1> QED
  BY <1>1, IdleType DEF Load, Request, Row, RowInv

-----------------------------------------------------------------------------
(* The beginning.                                                           *)

LEMMA InitInv == Init => Inv
<1> SUFFICES ASSUME Init PROVE Inv
  OBVIOUS
<1>1. RestOK
  BY BookingAssumption DEF Init, RestOK, ContractEvents
<1>2. NeverOverdrawn
  BY BookingAssumption DEF Init, NeverOverdrawn
<1>3. \A b \in Bookings : row[b] = NoRow
  BY DEF Init
<1>4. NoRow.meta.currency = "none"
  BY DEF NoRow
<1>5. RowInv
  BY <1>3, <1>4, NoRowType DEF Init, RowInv, GoodRow, Known
<1>6. ReqInv
  BY IdleType, IdleGood DEF Init, ReqInv
<1> QED
  BY <1>1, <1>2, <1>5, <1>6 DEF Inv

-----------------------------------------------------------------------------
(* Bookings are made.                                                       *)

LEMMA DiscountType ==
  ASSUME Inv, NEW b \in Bookings
  PROVE  Discount(b) \in Nat /\ Discount(b) <= Price[b] /\ Price[b] \in Nat
<1>1. GuestOf[b] \in Guests /\ Price[b] \in Nat
  BY BookingAssumption
<1>2. balance[GuestOf[b]] \in Int /\ balance[GuestOf[b]] >= 0
  BY <1>1 DEF Inv, RestOK, NeverOverdrawn
<1> QED
  BY <1>1, <1>2 DEF Discount, Smaller

LEMMA InsertStep ==
  ASSUME Inv, NEW b \in Bookings, NEW meta, GoodMeta(b, meta), Insert(b, meta),
         applied' \in [Bookings -> Nat]
  PROVE  Inv'
<1> DEFINE new == [status |-> "started", meta |-> meta]
<1>1. new \in Row /\ new.status = "started" /\ new.meta = meta
  BY DEF GoodMeta, Row, Statuses
<1>2. row[b].status = "none" /\ row' = [row EXCEPT ![b] = new]
  BY DEF Insert, Exists
<1> HIDE DEF new
<1>3. row' \in [Bookings -> Row] /\ row'[b] = new
      /\ \A c \in Bookings : c # b => row'[c] = row[c]
  BY <1>1, <1>2 DEF Inv, RowInv
<1>4. UNCHANGED <<charges, paidOut, onchain, req, balance>>
  BY DEF Insert
<1>5. \A c \in Bookings : GoodRow(c, row', charges', paidOut')
  BY <1>1, <1>3, <1>4 DEF GoodRow, Inv, RowInv
<1>6. Known'
  BY <1>1, <1>3, <1>4 DEF Known, Exists, Inv, RowInv
<1>7. Kept
  BY <1>2, <1>3, <1>4 DEF Kept
<1>8. ReqInv'
  BY <1>4, <1>7, OthersKept DEF Inv, ReqInv
<1>9. order' \in Seq(Bookings)
  BY AppendProperties DEF Insert, Inv, RestOK
<1>10. RestOK' /\ NeverOverdrawn'
  BY <1>9 DEF Inv, RestOK, NeverOverdrawn, Insert
<1> QED
  BY <1>3, <1>5, <1>6, <1>8, <1>10 DEF Inv, RowInv

LEMMA CreateBookingStep ==
  ASSUME Inv, NEW b \in Bookings, NEW currency \in Chosen, CreateBooking(b, currency)
  PROVE  Inv'
<1> DEFINE meta == [NoRow.meta EXCEPT !.currency = currency, !.credit = Discount(b),
                                      !.total = Price[b] - Discount(b)]
<1>1. Discount(b) \in Nat /\ Price[b] - Discount(b) \in Nat
  BY DiscountType
<1>2. currency \in Currencies
  BY BookingAssumption
<1>3. NoRow.meta \in Meta /\ NoRow.meta.quote = Undefined
  BY NoRowType DEF NoRow, Row
<1>4. GoodMeta(b, meta)
  BY <1>1, <1>2, <1>3 DEF GoodMeta, Meta
<1>5. Insert(b, meta) /\ applied' = [applied EXCEPT ![b] = Discount(b)]
  BY DEF CreateBooking
<1>6. applied' \in [Bookings -> Nat]
  BY <1>1, <1>5 DEF Inv, RestOK
<1> QED
  BY <1>4, <1>5, <1>6, InsertStep

LEMMA CreateBookingWithQuotesStep ==
  ASSUME Inv, NEW b \in Bookings, CreateBookingWithQuotes(b)
  PROVE  Inv'
<1> DEFINE meta == [NoRow.meta EXCEPT !.quote = Discount(b)]
<1>1. Discount(b) \in Nat /\ Discount(b) <= Price[b]
  BY DiscountType
<1>2. NoRow.meta \in Meta /\ NoRow.meta.currency = "none"
  BY NoRowType DEF NoRow, Row
<1>3. GoodMeta(b, meta)
  BY <1>1, <1>2 DEF GoodMeta, Meta
<1>4. Insert(b, meta) /\ applied' \in [Bookings -> Nat]
  BY DEF CreateBookingWithQuotes, Inv, RestOK
<1> QED
  BY <1>3, <1>4, InsertStep

-----------------------------------------------------------------------------
(* A handler loads its booking.                                             *)

LEMMA PlainLoadStep ==
  ASSUME Inv, NEW r \in Requests, NEW b \in Bookings, Exists(b), NEW label \in Plain,
         Become(r, Load(r, b, label)), UNCHANGED <<row, balance, charges, world, history>>
  PROVE  Inv'
<1>0. RowInv
  BY DEF Inv
<1>1. label \in Labels /\ label \notin Selecting /\ label \notin Charging
  BY DEF Plain
<1> DEFINE q == Load(r, b, label)
<1>2. /\ q \in Request /\ q.pc = label /\ q.b = b /\ q.inst = row[b]
      /\ q.todo = {} /\ ~q.dirty
  BY <1>0, <1>1, LoadType
<1> HIDE DEF q
<1>3. Become(r, q)
  BY DEF q
<1> QED
  BY <1>1, <1>2, <1>3, LoadStep

LEMMA PlainLabels ==
  { "reject_payment", "approve_by", "payout", "reject_save", "reject_credit", "expire",
    "confirm_status", "idle", "refund_initiated", "guest_cancel_initiated", "host_refund", "host_cancel",
    "guest_refund", "guest_cancel" } \cup ContractEvents \subseteq Plain
  BY LabelSet DEF Plain, Selecting, Charging, ContractEvents

LEMMA SelectStep ==
  ASSUME Inv, NEW r \in Requests, NEW b \in Bookings, NEW currency \in Chosen,
         NEW card \in BOOLEAN, GuestSelectPayment(r, b, currency, card)
  PROVE  Inv'
<1>0. RowInv
  BY DEF Inv
<1> DEFINE label == IF currency = "BTC" THEN "select_address" ELSE "select_save"
           q0 == Load(r, b, label)
           q == [q0 EXCEPT !.pick = [currency |-> currency, card |-> card]]
<1>1. label \in Labels /\ label \in Selecting
  BY LabelSet DEF Selecting
<1>2. /\ q0 \in Request /\ q0.pc = label /\ q0.b = b /\ q0.inst = row[b]
      /\ q0.todo = {} /\ ~q0.dirty
  BY <1>0, <1>1, LoadType
<1>3. Exists(b) /\ row[b].meta.quote # Undefined /\ Become(r, q)
      /\ UNCHANGED <<row, balance, charges, world, history>>
  BY DEF GuestSelectPayment, Exists
<1>4. currency \in Currencies
  BY BookingAssumption
<1> HIDE DEF q0, label
<1>5. q \in Request /\ q.pc = label /\ q.b = b /\ q.inst = row[b]
      /\ q.todo = {} /\ ~q.dirty
  BY <1>2, <1>4 DEF Request
<1>6. label \notin Charging
  BY <1>1 DEF Selecting, Charging
<1> HIDE DEF q
<1> QED
  BY <1>3, <1>5, <1>6, LoadStep

LEMMA CreditType ==
  ASSUME Inv, NEW b \in Bookings
  PROVE  /\ row[b].meta.credit \in Nat \cup {Undefined}
         /\ (IF row[b].meta.credit > 0 THEN row[b].meta.credit ELSE 0) \in Nat
<1>1. row[b].meta.credit \in Nat \cup {Undefined}
  BY DEF Inv, RowInv, Row, Meta
<1> QED
  BY <1>1 DEF Undefined

LEMMA ConfirmStep ==
  ASSUME Inv, NEW r \in Requests, NEW b \in Bookings, GuestConfirm(r, b)
  PROVE  Inv'
<1> DEFINE have == balance[GuestOf[b]]
           credit == row[b].meta.credit
           q == Load(r, b, "confirm_status")
<1>0. RowInv /\ "confirm_status" \in Labels /\ "idle" \in Labels
  BY LabelSet DEF Inv
<1>1. /\ Exists(b) /\ UNCHANGED <<row, balance, charges, world, history>>
      /\ "confirm_status" \in Plain /\ "idle" \in Plain
      /\ {"idle", "confirm_status"} \cap (Selecting \cup Charging) = {}
  BY PlainLabels DEF GuestConfirm, Exists, Selecting, Charging
<1>2. credit \in Nat \cup {Undefined}
  BY CreditType
<1>3. /\ q \in Request /\ q.b = b /\ q.inst = row[b] /\ ~q.dirty
  BY <1>0, LoadType
<1>4. CASE have = 0 /\ Become(r, q)
  BY <1>1, <1>4, PlainLoadStep
<1>5. CASE /\ have > 0 /\ credit > 0 /\ have >= credit
           /\ Become(r, [q EXCEPT !.todo = {"meta", "money"}, !.put = credit, !.amt = -credit])
  <2> DEFINE p == [q EXCEPT !.todo = {"meta", "money"}, !.put = credit, !.amt = -credit]
  <2>1. -credit \in Int /\ {"meta", "money"} \in SUBSET Parts
    BY <1>2 DEF Undefined, Parts
  <2>2. q.pc = "confirm_status"
    BY <1>0, LoadType
  <2> HIDE DEF q, credit
  <2>3. /\ p \in Request /\ p.b = b /\ p.inst = row[b] /\ ~p.dirty
        /\ p.pc = "confirm_status"
    BY <1>2, <1>3, <2>1, <2>2 DEF Request
  <2>4. Become(r, p)
    BY <1>5
  <2> HIDE DEF p
  <2> QED
    BY <1>1, <2>3, <2>4, LoadStep
<1>6. CASE /\ have > 0 /\ credit <= 0
           /\ Become(r, [q EXCEPT !.pc = "idle", !.todo = {"meta"}, !.put = credit])
  <2> DEFINE p == [q EXCEPT !.pc = "idle", !.todo = {"meta"}, !.put = credit]
  <2>1. {"meta"} \in SUBSET Parts
    BY DEF Parts
  <2> HIDE DEF q, credit
  <2>2. /\ p \in Request /\ p.b = b /\ p.inst = row[b] /\ ~p.dirty
        /\ p.pc = "idle"
    BY <1>0, <1>2, <1>3, <2>1 DEF Request
  <2>3. Become(r, p)
    BY <1>6
  <2> HIDE DEF p
  <2> QED
    BY <1>1, <2>2, <2>3, LoadStep
<1> QED
  BY <1>4, <1>5, <1>6 DEF GuestConfirm

\* A cancellation, with the parts that run beside it.
LEMMA CancelStep ==
  ASSUME Inv, NEW r \in Requests, NEW b \in Bookings, row[b].meta.currency # "none",
         NEW q \in Request, q.b = b, q.inst = row[b], ~q.dirty,
         NEW label \in Plain,
         \/ Become(r, [q EXCEPT !.pc = label, !.todo = @ \cup {"save"}])
         \/ Become(r, [q EXCEPT !.pc = label]),
         UNCHANGED <<row, balance, charges, world, history>>
  PROVE  Inv'
<1>1. Exists(b)
  BY DEF Inv, RowInv, Known
<1>2. label \in Labels /\ label \notin Selecting /\ label \notin Charging
  BY DEF Plain
<1>3. ASSUME NEW todo \in SUBSET Parts, Become(r, [q EXCEPT !.pc = label, !.todo = todo])
      PROVE  Inv'
  <2> DEFINE p == [q EXCEPT !.pc = label, !.todo = todo]
  <2>1. p \in Request /\ p.b = b /\ p.inst = row[b] /\ ~p.dirty /\ p.pc = label
    BY <1>2 DEF Request
  <2>2. Become(r, p)
    BY <1>3
  <2> HIDE DEF p
  <2> QED
    BY <1>1, <1>2, <2>1, <2>2, LoadStep
<1>4. q.todo \in SUBSET Parts /\ q.todo \cup {"save"} \in SUBSET Parts
  BY DEF Request, Parts
<1>5. [q EXCEPT !.pc = label] = [q EXCEPT !.pc = label, !.todo = q.todo]
  BY DEF Request
<1> QED
  BY <1>3, <1>4, <1>5

LEMMA HostCancelStep ==
  ASSUME Inv, NEW r \in Requests, NEW b \in Bookings, HostCancel(r, b)
  PROVE  Inv'
<1> DEFINE credit == row[b].meta.credit
           todo == IF credit > 0 THEN {"meta", "money"} ELSE {}
           amt == IF credit > 0 THEN credit ELSE 0
           q0 == Load(r, b, "idle")
           q == [q0 EXCEPT !.todo = todo, !.amt = amt]
           usd == IF HasCard(b) THEN "host_refund" ELSE "host_cancel"
<1>1. /\ UNCHANGED <<row, balance, charges, world, history>>
      /\ "refund_initiated" \in Plain /\ usd \in Plain
      /\ row[b].meta.currency # "none"
  BY PlainLabels DEF HostCancel, Crypto
<1>2. \/ Become(r, [q EXCEPT !.pc = "refund_initiated", !.todo = @ \cup {"save"}])
      \/ Become(r, [q EXCEPT !.pc = usd])
  BY DEF HostCancel
<1>3. amt \in Int /\ todo \in SUBSET Parts
  BY CreditType DEF Parts
<1>4. RowInv /\ "idle" \in Labels
  BY LabelSet DEF Inv
<1>5. q0 \in Request /\ q0.b = b /\ q0.inst = row[b] /\ ~q0.dirty
  BY <1>4, LoadType
<1> HIDE DEF q0, amt, todo, usd
<1>6. q \in Request /\ q.b = b /\ q.inst = row[b] /\ ~q.dirty
  BY <1>3, <1>5 DEF Request
<1> HIDE DEF q
<1> QED
  BY <1>1, <1>2, <1>6, CancelStep

LEMMA GuestCancelStep ==
  ASSUME Inv, NEW r \in Requests, NEW b \in Bookings, GuestCancel(r, b)
  PROVE  Inv'
<1> DEFINE crypto == row[b].meta.currency \in Crypto
           status == IF crypto THEN "guest_cancelled" ELSE row[b].status
           credit == IF row[b].meta.credit > 0 THEN row[b].meta.credit ELSE 0
           amount == CreditRefundForGuest(status, late[b], credit)
           todo == IF amount > 0 THEN {"meta", "money"} ELSE {"meta"}
           free == CancelStatus(row[b].status, late[b]) = "without_penalty"
           q0 == Load(r, b, "idle")
           q == [q0 EXCEPT !.todo = todo, !.amt = amount, !.free = free]
           usd == IF HasCard(b) /\ row[b].meta.charge # 0 THEN "guest_refund" ELSE "guest_cancel"
<1>1. /\ UNCHANGED <<row, balance, charges, world, history>>
      /\ "guest_cancel_initiated" \in Plain /\ usd \in Plain
      /\ row[b].meta.currency # "none"
  BY PlainLabels DEF GuestCancel, Crypto
<1>2. \/ Become(r, [q EXCEPT !.pc = "guest_cancel_initiated", !.todo = @ \cup {"save"}])
      \/ Become(r, [q EXCEPT !.pc = usd])
  BY DEF GuestCancel
<1>3. credit \in Nat
  BY CreditType
<1>4. amount \in Int
  BY <1>3, AmountTypes
<1>5. todo \in SUBSET Parts /\ free \in BOOLEAN
  BY DEF Parts
<1>6. RowInv /\ "idle" \in Labels
  BY LabelSet DEF Inv
<1>7. q0 \in Request /\ q0.b = b /\ q0.inst = row[b] /\ ~q0.dirty
  BY <1>6, LoadType
<1> HIDE DEF q0, amount, todo, usd, free
<1>8. q \in Request /\ q.b = b /\ q.inst = row[b] /\ ~q.dirty
  BY <1>4, <1>5, <1>7 DEF Request
<1> HIDE DEF q
<1> QED
  BY <1>1, <1>2, <1>8, CancelStep

LEMMA BeginStep ==
  ASSUME Inv, NEW r \in Requests, NEW b \in Bookings, Begin(r, b)
  PROVE  Inv'
<1>1. ASSUME NEW currency \in Chosen, NEW card \in BOOLEAN,
             GuestSelectPayment(r, b, currency, card)
      PROVE  Inv'
  BY <1>1, SelectStep
<1>2. CASE GuestConfirm(r, b)
  BY <1>2, ConfirmStep
<1>3. CASE GuestRejectPayment(r, b)
  BY <1>3, PlainLabels, PlainLoadStep DEF GuestRejectPayment
<1>4. CASE ApproveBooking(r, b)
  BY <1>4, PlainLabels, PlainLoadStep DEF ApproveBooking
<1>5. CASE PayoutBooking(r, b)
  BY <1>5, PlainLabels, PlainLoadStep DEF PayoutBooking
<1>6. CASE HostCancel(r, b)
  BY <1>6, HostCancelStep
<1>7. CASE GuestCancel(r, b)
  BY <1>7, GuestCancelStep
<1>8. CASE RejectBooking(r, b)
  <2>1. row[b].meta.currency # "none"
    BY <1>8 DEF RejectBooking, Crypto
  <2>2. Exists(b)
    BY <2>1 DEF Inv, RowInv, Known
  <2> QED
    BY <1>8, <2>2, PlainLabels, PlainLoadStep DEF RejectBooking
<1>9. CASE ExpireBooking(r, b)
  <2>1. Exists(b)
    BY <1>9 DEF ExpireBooking, Exists
  <2> QED
    BY <1>9, <2>1, PlainLabels, PlainLoadStep DEF ExpireBooking
<1>10. ASSUME NEW event \in Emitted, ReportEvent(r, b, event)
       PROVE  Inv'
  <2>1. Exists(b)
    BY <1>10 DEF ReportEvent, Inv, RowInv, Known
  <2>2. event \in Plain
    BY PlainLabels, BookingAssumption
  <2> QED
    BY <1>10, <2>1, <2>2, PlainLoadStep DEF ReportEvent
<1> QED
  BY <1>1, <1>2, <1>3, <1>4, <1>5, <1>6, <1>7, <1>8, <1>9, <1>10 DEF Begin

-----------------------------------------------------------------------------
(* The parts of a Promise.all.                                              *)

LEMMA SavePartStep ==
  ASSUME Inv, NEW r \in Requests, SavePart(r)
  PROVE  Inv'
<1> DEFINE q == req[r]
           rest == q.todo \ {"save"}
           status == IF q.pc = "refund_initiated" THEN "host_cancelled" ELSE "guest_cancelled"
           inst == [q.inst EXCEPT !.status = status]
<1>1. /\ RestOK' /\ NeverOverdrawn' /\ UNCHANGED <<charges, onchain, paidOut>>
      /\ RowInv /\ ReqInv
  BY RestSame DEF SavePart, Inv, NeverOverdrawn, world, history
<1>2. /\ q \in Request /\ GoodReq(q, row, charges) /\ Busy(q) /\ q.b \in Bookings
      /\ q.inst \in Row /\ GoodMeta(q.b, q.inst.meta) /\ Exists(q.b)
      /\ Deal(q.inst.meta) = Deal(row[q.b].meta)
      /\ row[q.b] \in Row /\ GoodRow(q.b, row, charges, paidOut)
  BY <1>1, AtWork DEF SavePart, Busy, GoodReq, RowInv
<1>6. /\ inst \in Row /\ inst.meta = q.inst.meta
      /\ inst.status \in {"host_cancelled", "guest_cancelled"}
  BY <1>2 DEF Row, Statuses
<1>3. rest \in SUBSET Parts
  BY <1>2 DEF Request
<1>4. CASE q.inst.meta.bad
  <2> DEFINE p == [q EXCEPT !.todo = rest, !.pc = "idle", !.inst = inst,
                            !.dirty = inst.status # q.inst.status]
  <2>1. Become(r, p) /\ UNCHANGED row
    BY <1>4 DEF SavePart
  <2> HIDE DEF inst
  <2>2. p \in Request /\ p.pc = "idle" /\ p.b = q.b /\ p.inst = inst
    BY <1>2, <1>3, <1>6, LabelSet DEF Request
  <2>3. RowInv' /\ Kept
    BY <1>1, <2>1, RowsSame
  <2> HIDE DEF p
  <2>4. ReqInv'
    BY <1>1, <1>2, <1>6, <2>1, <2>2, <2>3, ChangeGood DEF Selecting, Charging
  <2> QED
    BY <1>1, <2>3, <2>4 DEF Inv
<1>5. CASE ~q.inst.meta.bad
  <2> DEFINE p == [q EXCEPT !.todo = rest, !.inst = inst]
             new == [ status |-> IF inst.status # q.inst.status THEN inst.status
                                 ELSE row[q.b].status,
                      meta |-> inst.meta ]
  <2>1. Become(r, p) /\ row' = [row EXCEPT ![q.b] = new]
    BY <1>5 DEF SavePart, Saved
  <2> HIDE DEF inst
  <2>2. /\ p \in Request /\ p.pc = q.pc /\ p.b = q.b /\ p.inst = inst
        /\ p.dirty = q.dirty
    BY <1>2, <1>3, <1>6 DEF Request
  <2>5. /\ new \in Row /\ new.meta = q.inst.meta /\ new.status # "none"
        /\ new.status = "host_paid" => row[q.b].status = "host_paid"
    BY <1>2, <1>6 DEF Row, Exists
  <2>6. NothingDue(q.b, row[q.b].meta) => NothingDue(q.b, new.meta)
    BY <1>2, <2>5 DEF NothingDue, Deal
  <2> HIDE DEF new
  <2>3. RowInv' /\ Kept
    BY <1>1, <1>2, <2>1, <2>5, <2>6, RowStep DEF GoodRow
  <2> HIDE DEF p
  <2>4. ReqInv'
    BY <1>1, <1>2, <1>6, <2>1, <2>2, <2>3, ChangeGood DEF GoodReq
  <2> QED
    BY <1>1, <2>3, <2>4 DEF Inv
<1> QED
  BY <1>4, <1>5

LEMMA MetaPartStep ==
  ASSUME Inv, NEW r \in Requests, MetaPart(r)
  PROVE  Inv'
<1> DEFINE q == req[r]
           b == q.b
           bad == q.put = Undefined
           meta == [q.inst.meta EXCEPT !.credit = q.put, !.bad = bad]
           inst == [q.inst EXCEPT !.meta = meta]
           rest == q.todo \ {"meta"}
           new == [status |-> IF q.dirty THEN q.inst.status ELSE row[b].status, meta |-> meta]
           p == [q EXCEPT !.todo = rest, !.inst = inst]
<1>1. /\ RestOK' /\ NeverOverdrawn' /\ UNCHANGED <<charges, onchain, paidOut>>
      /\ RowInv /\ ReqInv
  BY RestSame DEF MetaPart, Inv, NeverOverdrawn, world, history
<1>2. /\ q \in Request /\ GoodReq(q, row, charges) /\ Busy(q) /\ b \in Bookings
      /\ q.inst \in Row /\ q.inst.meta \in Meta /\ GoodMeta(b, q.inst.meta) /\ Exists(b)
      /\ Deal(q.inst.meta) = Deal(row[b].meta)
      /\ row[b] \in Row /\ GoodRow(b, row, charges, paidOut)
      /\ q.dirty => q.inst.status \in {"host_cancelled", "guest_cancelled"}
  BY <1>1, AtWork DEF MetaPart, Busy, GoodReq, RowInv
<1>3. rest \in SUBSET Parts /\ q.put \in Nat \cup {Undefined} /\ bad \in BOOLEAN
  BY <1>2 DEF Request
<1>4. /\ row' = [row EXCEPT ![b] = new] /\ Become(r, p)
     
  BY DEF MetaPart
<1> HIDE DEF bad
<1>5. /\ meta \in Meta /\ meta.quote = q.inst.meta.quote /\ meta.total = q.inst.meta.total
      /\ meta.currency = q.inst.meta.currency
  <2>1. q.inst.meta \in Meta /\ q.put \in Nat \cup {Undefined} /\ bad \in BOOLEAN
    BY <1>2, <1>3
  <2> HIDE DEF q
  <2> QED
    BY <2>1 DEF Meta
<1> HIDE DEF meta
<1>6. GoodMeta(b, meta) /\ Deal(meta) = Deal(q.inst.meta) /\ Deal(meta) = Deal(row[b].meta)
  BY <1>2, <1>5 DEF GoodMeta, Deal
<1>7. inst \in Row /\ inst.meta = meta /\ inst.status = q.inst.status
  BY <1>2, <1>5 DEF Row
<1>8. /\ new \in Row /\ new.meta = meta /\ new.status # "none"
      /\ new.status = "host_paid" => row[b].status = "host_paid"
  BY <1>2, <1>5 DEF Row, Exists
<1>9. NothingDue(b, row[b].meta) => NothingDue(b, meta)
  BY <1>6 DEF NothingDue, Deal
<1> HIDE DEF inst, new
<1>10. RowInv' /\ Kept
  BY <1>1, <1>2, <1>4, <1>6, <1>8, <1>9, RowStep DEF GoodRow
<1>11. /\ p \in Request /\ p.pc = q.pc /\ p.b = b /\ p.inst = inst /\ p.dirty = q.dirty
  BY <1>2, <1>3, <1>4, <1>7 DEF Request
<1> HIDE DEF p
<1>12. ReqInv'
  BY <1>1, <1>2, <1>4, <1>5, <1>6, <1>7, <1>10, <1>11, ChangeGood DEF GoodReq
<1> QED
  BY <1>1, <1>10, <1>12 DEF Inv

LEMMA MoneyPartStep ==
  ASSUME Inv, NEW r \in Requests, MoneyPart(r)
  PROVE  Inv'
<1> DEFINE q == req[r]
           g == GuestOf[q.b]
           rest == q.todo \ {"money"}
<1>1. UNCHANGED <<row, charges, world, applied, paidOut, reconfirmed, unsent>>
      /\ RowInv /\ ReqInv
  BY DEF MoneyPart, Inv
<1>2. RowInv' /\ Kept
  BY <1>1, RowsSame DEF world
<1>3. /\ q \in Request /\ GoodReq(q, row, charges) /\ Busy(q) /\ q.b \in Bookings
  BY <1>1, AtWork DEF MoneyPart, Busy
<1>4. rest \in SUBSET Parts /\ q.amt \in Int /\ g \in Guests
  BY <1>3, BookingAssumption DEF Request
<1>5. CASE balance[g] + q.amt < 0
  <2> DEFINE p == [q EXCEPT !.todo = rest, !.pc = "idle"]
  <2>1. Become(r, p) /\ UNCHANGED <<balance, debited, credited>>
    BY <1>5 DEF MoneyPart
  <2>2. /\ p \in Request /\ p.pc = "idle" /\ p.b = q.b /\ p.inst = q.inst
        /\ p.dirty = q.dirty /\ p.todo = rest
    BY <1>3, <1>4, LabelSet DEF Request
  <2> HIDE DEF p
  <2>3. ReqInv'
    BY <1>1, <1>2, <1>3, <2>1, <2>2, ChangeGood DEF GoodReq, Selecting, Charging
  <2>4. RestOK' /\ NeverOverdrawn'
    BY <1>1, <2>1, RestSame DEF Inv, NeverOverdrawn, history
  <2> QED
    BY <1>2, <2>3, <2>4 DEF Inv
<1>6. CASE balance[g] + q.amt >= 0
  <2> DEFINE p == [q EXCEPT !.todo = rest]
             out == IF q.amt < 0 THEN -q.amt ELSE 0
             in == IF q.amt > 0 THEN q.amt ELSE 0
  <2>1. balance[g] \in Int
    BY <1>4 DEF Inv, RestOK
  <2>2. ~(balance[g] + q.amt < 0)
    BY <1>4, <1>6, <2>1
  <2>3. /\ Become(r, p)
        /\ balance' = [balance EXCEPT ![g] = @ + q.amt]
        /\ debited' = [debited EXCEPT ![q.b] = @ + out]
        /\ credited' = [credited EXCEPT ![q.b] = @ + in]
    BY <2>2 DEF MoneyPart
  <2>4. /\ p \in Request /\ p.pc = q.pc /\ p.b = q.b /\ p.inst = q.inst
        /\ p.dirty = q.dirty /\ p.todo = rest
    BY <1>3, <1>4 DEF Request
  <2> HIDE DEF p
  <2>5. ReqInv'
    BY <1>1, <1>2, <1>3, <2>3, <2>4, ChangeGood DEF GoodReq
  <2>6. out \in Nat /\ in \in Nat
    BY <1>4
  <2> HIDE DEF out, in
  <2>7. NeverOverdrawn' /\ balance' \in [Guests -> Int]
    BY <1>4, <1>6, <2>1, <2>3 DEF Inv, RestOK, NeverOverdrawn
  <2>8. debited' \in [Bookings -> Nat] /\ credited' \in [Bookings -> Nat]
    <3>1. debited \in [Bookings -> Nat] /\ credited \in [Bookings -> Nat]
      BY DEF Inv, RestOK
    <3>2. debited[q.b] \in Nat /\ credited[q.b] \in Nat
      BY <1>3, <3>1
    <3>3. debited[q.b] + out \in Nat /\ credited[q.b] + in \in Nat
      BY <2>6, <3>2
    <3> QED
      BY <2>3, <3>1, <3>3
  <2>9. RestOK'
    BY <1>1, <2>7, <2>8 DEF Inv, RestOK, world
  <2> QED
    BY <1>2, <2>5, <2>7, <2>9 DEF Inv
<1>7. balance[g] + q.amt < 0 \/ balance[g] + q.amt >= 0
  BY <1>4 DEF Inv, RestOK
<1> QED
  BY <1>5, <1>6, <1>7

-----------------------------------------------------------------------------
(* Writes of the status.                                                    *)

LEMMA GoToStep ==
  ASSUME ReqInv, Kept, NEW r \in Requests, Busy(req[r]), NEW label \in Plain, GoTo(r, label),
         req[r].dirty => label = "idle"
  PROVE  ReqInv'
<1>1. GoodReq(req[r], row', charges')
  BY AtWork, OthersKept
<1>2. GoodReq([req[r] EXCEPT !.pc = label], row', charges')
  BY <1>1, GoToGood
<1> QED
  BY <1>2, RequestStep DEF GoTo

\* The status is written in the row and in the instance, and the handler
\* goes on.
LEMMA StatusGoesOn ==
  ASSUME RowInv, ReqInv, NEW r \in Requests, req[r].todo = {}, Busy(req[r]), ~req[r].dirty,
         RowInv', Kept, NEW status \in Statuses, NEW label \in Labels,
         label \notin Selecting,
         label \in Charging => req[r].inst.meta.currency = "USD",
         label # "charge_status",
         Become(r, [req[r] EXCEPT !.inst.status = status, !.pc = label])
  PROVE  ReqInv'
<1> DEFINE q == req[r]
           inst == [q.inst EXCEPT !.status = status]
           p == [q EXCEPT !.inst = inst, !.pc = label]
<1>1. q \in Request /\ q.inst \in Row /\ GoodMeta(q.b, q.inst.meta)
  BY AtWork
<1>2. inst \in Row /\ inst.meta = q.inst.meta
  BY <1>1 DEF Row
<1>3. Become(r, p)
  OBVIOUS
<1> HIDE DEF inst
<1>4. /\ p \in Request /\ p.pc = label /\ p.b = q.b /\ p.inst = inst
      /\ p.dirty = q.dirty /\ p.todo = q.todo
  BY <1>1, <1>2 DEF Request
<1> HIDE DEF p
<1> QED
  BY <1>1, <1>2, <1>3, <1>4, ChangeGood DEF At

LEMMA StatusWriteStep ==
  ASSUME Inv, NEW r \in Requests, StatusWrite(r)
  PROVE  Inv'
<1> DEFINE b == req[r].b
<1>1. PICK label \in DOMAIN LastWrite : At(r, label) /\ WriteStatus(r, LastWrite[label])
  BY DEF StatusWrite
<1>2. /\ UNCHANGED <<balance, charges, world, applied, debited, credited, reconfirmed, unsent>>
      /\ paidOut' = [paidOut EXCEPT ![b] = @ \/ req[r].pc = "payout"]
      /\ GoTo(r, "idle")
  BY DEF StatusWrite
<1>3. label # "idle" /\ "idle" \in Plain
  BY LabelSet, PlainLabels
<1>4. Busy(req[r]) /\ b \in Bookings /\ req[r].pc = label
  BY <1>1, <1>3, AtBusy, AtWork DEF Inv
<1>5. /\ paidOut' \in [Bookings -> BOOLEAN]
      /\ \A c \in Bookings : paidOut[c] => paidOut'[c]
      /\ label = "payout" => paidOut'[b]
  BY <1>2, <1>4, Zenon DEF Inv, RestOK
<1>6. LastWrite[label] \in Statuses /\ (LastWrite[label] = "host_paid" => label = "payout")
  BY LabelSet DEF LastWrite, Statuses
<1>7. RowInv' /\ Kept
  BY <1>1, <1>2, <1>4, <1>5, <1>6, StatusStep DEF Inv, world
<1>8. ReqInv'
  BY <1>2, <1>3, <1>4, <1>7, GoToStep DEF Inv
<1>9. RestOK' /\ NeverOverdrawn'
  BY <1>2, <1>5 DEF Inv, RestOK, NeverOverdrawn, world
<1> QED
  BY <1>7, <1>8, <1>9 DEF Inv

LEMMA AdvanceStep ==
  ASSUME Inv, NEW r \in Requests, AdvanceStatus(r)
  PROVE  Inv'
<1>1. PICK event \in ContractEvents : At(r, event) /\ WriteStatus(r, EventTarget[event])
  BY DEF AdvanceStatus
<1>2. UNCHANGED <<balance, charges, world, history>> /\ GoTo(r, "idle") /\ "idle" \in Plain
  BY PlainLabels DEF AdvanceStatus
<1>3. EventTarget[event] \in Statuses /\ EventTarget[event] # "host_paid" /\ event # "idle"
  BY DEF EventTarget, ContractEvents, Statuses
<1>4. Busy(req[r])
  BY <1>1, <1>3, AtBusy DEF Inv
<1>5. RowInv' /\ Kept
  BY <1>1, <1>2, <1>3, <1>4, StatusStep DEF Inv, world, history
<1>6. ReqInv'
  BY <1>2, <1>4, <1>5, GoToStep DEF Inv
<1>7. RestOK' /\ NeverOverdrawn'
  BY <1>2, RestSame DEF Inv, NeverOverdrawn
<1> QED
  BY <1>5, <1>6, <1>7 DEF Inv

LEMMA ConfirmStatusStep ==
  ASSUME Inv, NEW r \in Requests, ConfirmStatus(r)
  PROVE  Inv'
<1> DEFINE label == IF req[r].inst.meta.currency \in Crypto \cup {"USD"}
                    THEN "confirm_details" ELSE "idle"
<1>1. /\ UNCHANGED <<balance, charges, world, applied, debited, credited, paidOut, unsent>>
      /\ At(r, "confirm_status")
      /\ WriteStatus(r, "guest_confirmed")
      /\ Become(r, [req[r] EXCEPT !.inst.status = "guest_confirmed", !.pc = label])
      /\ reconfirmed' = [reconfirmed EXCEPT ![req[r].b] = @ \/ row[req[r].b].status # "started"]
  BY DEF ConfirmStatus
<1>2. label \in Labels \ (Selecting \cup Charging)
  BY LabelSet DEF Selecting, Charging
<1>3. "guest_confirmed" \in Statuses
  BY DEF Statuses
<1>4. Busy(req[r]) /\ req[r].todo = {} /\ ~req[r].dirty
  BY <1>1, AtBusy DEF Inv
<1>5. RowInv' /\ Kept
  BY <1>1, <1>3, <1>4, StatusStep DEF Inv, world, history
<1>6. req[r].b \in Bookings
  BY AtWork DEF Inv
<1>7. reconfirmed' \in [Bookings -> BOOLEAN]
  BY <1>1, <1>6, Zenon DEF Inv, RestOK
<1>8. RestOK' /\ NeverOverdrawn'
  BY <1>1, <1>7 DEF Inv, RestOK, NeverOverdrawn, world
<1> QED
  BY <1>1, <1>2, <1>3, <1>4, <1>5, <1>8, StatusGoesOn DEF Inv

-----------------------------------------------------------------------------
(* Saves.                                                                   *)

LEMMA SaveInv ==
  ASSUME Inv, NEW r \in Requests, NEW label \in Labels, label # "idle", At(r, label),
         NEW inst \in Row, NEW next \in Labels,
         Save(r, inst, next), UNCHANGED <<balance, charges, world, history>>,
         GoodMeta(req[r].b, inst.meta), Deal(inst.meta) = Deal(req[r].inst.meta),
         inst.status # req[r].inst.status =>
           inst.status \in Ending,
         next # "charge_status",
         next \in Charging => inst.meta.currency = "USD",
         next \in Selecting => inst.meta.quote # Undefined
  PROVE  Inv'
<1>1. Busy(req[r]) /\ req[r].todo = {} /\ ~req[r].dirty
  BY AtBusy DEF Inv
<1>2. RowInv' /\ ReqInv'
  BY <1>1, SaveStep DEF Inv, world, history
<1>3. RestOK' /\ NeverOverdrawn'
  BY RestSame DEF Inv, NeverOverdrawn
<1> QED
  BY <1>2, <1>3 DEF Inv

\* The instance is saved as it is.
LEMMA ResaveInv ==
  ASSUME Inv, NEW r \in Requests, NEW label \in Labels, label # "idle", At(r, label),
         NEW next \in Labels,
         Save(r, req[r].inst, next), UNCHANGED <<balance, charges, world, history>>,
         next # "charge_status",
         next \in Charging => req[r].inst.meta.currency = "USD",
         next \in Selecting => req[r].inst.meta.quote # Undefined
  PROVE  Inv'
<1>1. req[r].inst \in Row /\ GoodMeta(req[r].b, req[r].inst.meta)
  BY AtWork DEF Inv
<1> QED
  BY <1>1, SaveInv

\* A handler fails, or goes on without a write.
LEMMA GoToInv ==
  ASSUME Inv, NEW r \in Requests, NEW label \in Labels, label # "idle", At(r, label),
         NEW next \in Plain, GoTo(r, next), UNCHANGED <<row, balance, charges, world, history>>
  PROVE  Inv'
<1>1. Busy(req[r]) /\ ~req[r].dirty
  BY AtBusy DEF Inv
<1>2. RowInv' /\ Kept
  BY RowsSame DEF Inv, world, history
<1>3. ReqInv'
  BY <1>1, <1>2, GoToStep DEF Inv
<1>4. RestOK' /\ NeverOverdrawn'
  BY RestSame DEF Inv, NeverOverdrawn
<1> QED
  BY <1>2, <1>3, <1>4 DEF Inv

LEMMA SelectAddressStep ==
  ASSUME Inv, NEW r \in Requests, SelectAddress(r)
  PROVE  Inv'
<1>1. req[r].inst.meta.quote # Undefined
  BY AtWork DEF SelectAddress, At, GoodReq, Selecting, Inv
<1>2. "select_address" \in Labels /\ "select_save" \in Labels /\ "select_save" \notin Charging
  BY LabelSet DEF Charging
<1> QED
  BY <1>1, <1>2, ResaveInv DEF SelectAddress

LEMMA SelectSaveStep ==
  ASSUME Inv, NEW r \in Requests, SelectSave(r)
  PROVE  Inv'
<1> DEFINE q == req[r]
           m == q.inst.meta
           total == Price[q.b] - m.quote
           meta == [m EXCEPT !.currency = q.pick.currency, !.total = total,
                             !.card = q.pick.card /\ q.pick.currency = "USD"]
           inst == [q.inst EXCEPT !.meta = meta]
<1>1. /\ q \in Request /\ q.b \in Bookings /\ q.inst \in Row /\ m \in Meta
      /\ GoodMeta(q.b, m) /\ m.quote # Undefined
  BY AtWork DEF SelectSave, At, GoodReq, Selecting, Inv
<1>2. /\ q.pick.currency \in Currencies \cup {"none"} /\ q.pick.card \in BOOLEAN
  BY <1>1 DEF Request
<1>3. m.quote \in Nat /\ m.quote <= Price[q.b] /\ Price[q.b] \in Nat
  BY <1>1, BookingAssumption DEF GoodMeta, Meta
<1>4. total \in Nat
  BY <1>3
<1>5. /\ Save(r, inst, "idle") /\ At(r, "select_save")
      /\ UNCHANGED <<balance, charges, world, history>>
  BY DEF SelectSave
<1> HIDE DEF q, m, total
<1>6. meta \in Meta /\ meta.quote = m.quote /\ meta.total = total
  BY <1>1, <1>2, <1>4 DEF Meta
<1> HIDE DEF meta
<1>7. GoodMeta(q.b, meta) /\ Deal(meta) = Deal(m)
  BY <1>1, <1>3, <1>6 DEF GoodMeta, Deal, total
<1>8. inst \in Row /\ inst.meta = meta /\ inst.status = q.inst.status
  BY <1>1, <1>6 DEF Row
<1> HIDE DEF inst
<1>9. "select_save" \in Labels /\ "idle" \in Labels /\ "idle" \notin Charging /\ "idle" \notin Selecting
  BY LabelSet DEF Charging, Selecting
<1> QED
  BY <1>5, <1>7, <1>8, <1>9, SaveInv DEF q, m

LEMMA ConfirmDetailsStep ==
  ASSUME Inv, NEW r \in Requests, ConfirmDetails(r)
  PROVE  Inv'
<1>1. /\ "confirm_details" \in Labels /\ "idle" \in Labels /\ "idle" \in Plain
      /\ "idle" \notin Charging /\ "idle" \notin Selecting
  BY LabelSet, PlainLabels DEF Charging, Selecting
<1>2. CASE Save(r, req[r].inst, "idle")
  BY <1>1, <1>2, ResaveInv DEF ConfirmDetails
<1>3. CASE GoTo(r, "idle") /\ UNCHANGED row
  BY <1>1, <1>3, GoToInv DEF ConfirmDetails
<1> QED
  BY <1>2, <1>3 DEF ConfirmDetails

LEMMA RefundIdStep ==
  ASSUME Inv, NEW r \in Requests, RefundId(r)
  PROVE  Inv'
<1>1. /\ {"host_refund_id", "guest_refund_id", "host_cancel", "guest_cancel"} \subseteq Labels
      /\ {"host_cancel", "guest_cancel"} \cap (Charging \cup Selecting) = {}
  BY LabelSet DEF Charging, Selecting
<1>2. CASE At(r, "host_refund_id") /\ Save(r, req[r].inst, "host_cancel")
  BY <1>1, <1>2, ResaveInv DEF RefundId, Charging
<1>3. CASE At(r, "guest_refund_id") /\ Save(r, req[r].inst, "guest_cancel")
  BY <1>1, <1>3, ResaveInv DEF RefundId, Charging
<1> QED
  BY <1>2, <1>3 DEF RefundId

\* A cancellation or a rejection saves its status.
LEMMA CancelSave ==
  ASSUME Inv, NEW r \in Requests, NEW label \in {"host_cancel", "guest_cancel", "reject_save"},
         At(r, label),
         NEW status \in Ending,
         NEW next \in {"idle", "reject_credit"},
         Save(r, [req[r].inst EXCEPT !.status = status], next),
         UNCHANGED <<balance, charges, world, history>>
  PROVE  Inv'
<1> DEFINE inst == [req[r].inst EXCEPT !.status = status]
<1>1. req[r].inst \in Row /\ GoodMeta(req[r].b, req[r].inst.meta)
  BY AtWork DEF Inv
<1>2. inst \in Row /\ inst.meta = req[r].inst.meta /\ inst.status = status
  BY <1>1 DEF Row, Statuses, Ending
<1>3. Save(r, inst, next)
  OBVIOUS
<1>4. /\ label \in Labels /\ label # "idle" /\ next \in Labels
      /\ next \notin Charging /\ next \notin Selecting
  BY LabelSet DEF Charging, Selecting
<1> HIDE DEF inst
<1> QED
  BY <1>1, <1>2, <1>3, <1>4, SaveInv

LEMMA HostCancelSaveStep ==
  ASSUME Inv, NEW r \in Requests, HostCancelSave(r)
  PROVE  Inv'
  BY CancelSave DEF HostCancelSave, Ending

LEMMA GuestCancelSaveStep ==
  ASSUME Inv, NEW r \in Requests, GuestCancelSave(r)
  PROVE  Inv'
  BY CancelSave DEF GuestCancelSave, Ending

-----------------------------------------------------------------------------
(* The approval and the charge.                                             *)

LEMMA ApproveByStep ==
  ASSUME Inv, NEW r \in Requests, ApproveBy(r)
  PROVE  Inv'
<1> DEFINE currency == req[r].inst.meta.currency
           next == CASE currency \in Crypto \cup {"BTC"} -> "approve_status"
                     [] currency = "USD" -> "approve_usd"
                     [] OTHER -> "idle"
<1>1. /\ At(r, "approve_by") /\ Save(r, req[r].inst, next)
      /\ UNCHANGED <<balance, charges, world, history>>
  BY DEF ApproveBy
<1>2. /\ "approve_by" \in Labels /\ next \in {"approve_status", "approve_usd", "idle"}
      /\ {"approve_status", "approve_usd", "idle"} \subseteq Labels
      /\ {"approve_status", "idle"} \cap Charging = {}
      /\ {"approve_status", "approve_usd", "idle"} \cap Selecting = {}
  BY LabelSet DEF Charging, Selecting, Crypto
<1>3. next = "approve_usd" => currency = "USD"
  BY DEF Crypto
<1> HIDE DEF next
<1> QED
  BY <1>1, <1>2, <1>3, ResaveInv

LEMMA ApproveUsdStep ==
  ASSUME Inv, NEW r \in Requests, ApproveUsd(r)
  PROVE  Inv'
<1>1. /\ {"approve_usd", "charge"} \subseteq Labels /\ "idle" \in Plain
      /\ "charge" \notin Selecting /\ "host_approved" \in Statuses
  BY LabelSet, PlainLabels DEF Selecting, Statuses
<1>2. CASE GoTo(r, "idle") /\ UNCHANGED row
  BY <1>1, <1>2, GoToInv DEF ApproveUsd
<1>3. CASE /\ WriteStatus(r, "host_approved")
           /\ Become(r, [req[r] EXCEPT !.inst.status = "host_approved", !.pc = "charge"])
  <2>1. At(r, "approve_usd") /\ UNCHANGED <<balance, charges, world, history>>
    BY DEF ApproveUsd
  <2>2. Busy(req[r]) /\ req[r].todo = {} /\ ~req[r].dirty /\ req[r].pc = "approve_usd"
    BY <2>1, AtBusy DEF Inv
  <2>3. RowInv' /\ Kept
    BY <1>1, <1>3, <2>1, <2>2, StatusStep DEF Inv, world, history
  <2>4. req[r].inst.meta.currency = "USD"
    BY <2>2, AtWork DEF GoodReq, Charging, Inv
  <2>5. ReqInv'
    BY <1>1, <1>3, <2>2, <2>3, <2>4, StatusGoesOn DEF Inv
  <2>6. RestOK' /\ NeverOverdrawn'
    BY <2>1, RestSame DEF Inv, NeverOverdrawn
  <2> QED
    BY <2>3, <2>5, <2>6 DEF Inv
<1> QED
  BY <1>2, <1>3 DEF ApproveUsd

LEMMA ChargeStatusStep ==
  ASSUME Inv, NEW r \in Requests, ChargeStatus(r)
  PROVE  Inv'
<1>1. /\ At(r, "charge_status") /\ WriteStatus(r, "host_paid")
      /\ Become(r, [req[r] EXCEPT !.inst.status = "host_paid", !.pc = "charge_id"])
      /\ UNCHANGED <<balance, charges, world, history>>
  BY DEF ChargeStatus
<1>2. /\ {"charge_status", "charge_id"} \subseteq Labels
      /\ "charge_id" \notin Selecting /\ "host_paid" \in Statuses
  BY LabelSet DEF Selecting, Statuses
<1>3. Busy(req[r]) /\ req[r].todo = {} /\ ~req[r].dirty /\ req[r].pc = "charge_status"
  BY <1>1, AtBusy DEF Inv
<1>4. req[r].inst.meta.currency = "USD" /\ charges[req[r].b] # << >>
  BY <1>3, AtWork DEF GoodReq, Charging, Inv
<1>5. RowInv' /\ Kept
  BY <1>1, <1>2, <1>3, <1>4, StatusStep DEF Inv, world, history
<1>6. ReqInv'
  BY <1>1, <1>2, <1>3, <1>4, <1>5, StatusGoesOn DEF Inv
<1>7. RestOK' /\ NeverOverdrawn'
  BY <1>1, RestSame DEF Inv, NeverOverdrawn
<1> QED
  BY <1>5, <1>6, <1>7 DEF Inv

LEMMA ChargeIdStep ==
  ASSUME Inv, NEW r \in Requests, ChargeId(r)
  PROVE  Inv'
<1>1. /\ "charge_id" \in Labels /\ "idle" \in Labels
      /\ "idle" \notin Charging /\ "idle" \notin Selecting
  BY LabelSet DEF Charging, Selecting
<1> QED
  BY <1>1, ResaveInv DEF ChargeId

\* Stripe's record of a booking changes, and the instance notes something
\* that is not part of the deal.
LEMMA StripeStep ==
  ASSUME Inv, NEW r \in Requests, Busy(req[r]), req[r].todo = {}, ~req[r].dirty,
         NEW new \in Seq([amount : Nat, refunded : Nat]), new # << >>,
         charges' = [charges EXCEPT ![req[r].b] = new],
         UNCHANGED <<row, balance, world, history>>,
         NEW meta \in Meta, meta.quote = req[r].inst.meta.quote,
         meta.total = req[r].inst.meta.total, meta.currency = req[r].inst.meta.currency,
         NEW next \in Labels, next \notin Selecting, next \in Charging => meta.currency = "USD",
         Become(r, [req[r] EXCEPT !.pc = next, !.inst.meta = meta])
  PROVE  Inv'
<1> DEFINE q == req[r]
           inst == [q.inst EXCEPT !.meta = meta]
           p == [q EXCEPT !.pc = next, !.inst = inst]
<1>1. /\ q \in Request /\ q.b \in Bookings /\ q.inst \in Row /\ GoodMeta(q.b, q.inst.meta)
  BY AtWork DEF Inv
<1>2. /\ charges' \in [Bookings -> Seq([amount : Nat, refunded : Nat])]
      /\ charges'[q.b] = new
      /\ \A c \in Bookings : c # q.b => charges'[c] = charges[c]
  BY <1>1 DEF Inv, RestOK
<1>3. RowInv' /\ Kept
  BY <1>2, RowsSame DEF Inv, world, history
<1>4. RestOK' /\ NeverOverdrawn'
  BY <1>2 DEF Inv, RestOK, NeverOverdrawn, world, history
<1>5. inst \in Row /\ inst.meta = meta
  BY <1>1 DEF Row
<1>6. GoodMeta(q.b, meta) /\ Deal(meta) = Deal(q.inst.meta)
  BY <1>1 DEF GoodMeta, Deal
<1>7. Become(r, p)
  OBVIOUS
<1> HIDE DEF inst
<1>8. /\ p \in Request /\ p.pc = next /\ p.b = q.b /\ p.inst = inst
      /\ p.dirty = q.dirty /\ p.todo = q.todo
  BY <1>1, <1>5 DEF Request
<1> HIDE DEF p
<1>9. ReqInv'
  BY <1>2, <1>3, <1>5, <1>6, <1>7, <1>8, ChangeGood DEF Inv
<1> QED
  BY <1>3, <1>4, <1>9 DEF Inv

LEMMA ChargeBookingStep ==
  ASSUME Inv, NEW r \in Requests, ChargeBooking(r)
  PROVE  Inv'
<1> DEFINE q == req[r]
           b == q.b
           total == q.inst.meta.total
<1>1. At(r, "charge") /\ UNCHANGED <<balance, world, history>>
  BY DEF ChargeBooking
<1>2. Busy(q) /\ q.todo = {} /\ ~q.dirty /\ q.pc = "charge"
  BY <1>1, AtBusy DEF Inv
<1>3. /\ q \in Request /\ b \in Bookings /\ q.inst.meta \in Meta /\ GoodMeta(b, q.inst.meta)
      /\ q.inst.meta.currency = "USD" /\ Deal(q.inst.meta) = Deal(row[b].meta)
  BY <1>2, AtWork DEF GoodReq, Charging, Inv
<1>4. /\ {"charge", "charge_status"} \subseteq Labels /\ "idle" \in Plain
      /\ "charge_status" \notin Selecting
  BY LabelSet, PlainLabels DEF Selecting
<1>5. CASE GoTo(r, "idle") /\ UNCHANGED <<row, charges>>
  BY <1>1, <1>4, <1>5, GoToInv
<1>6. CASE total = 0 /\ WriteStatus(r, "host_paid") /\ GoTo(r, "idle") /\ UNCHANGED charges
  <2>1. NothingDue(b, q.inst.meta)
    BY <1>3, <1>6, BookingAssumption DEF NothingDue, GoodMeta, Meta
  <2>2. NothingDue(b, row[b].meta)
    BY <1>3, <2>1 DEF NothingDue, Deal
  <2>3. "host_paid" \in Statuses
    BY DEF Statuses
  <2>4. RowInv' /\ Kept
    BY <1>1, <1>2, <1>6, <2>2, <2>3, StatusStep DEF Inv, world, history
  <2>5. ReqInv'
    BY <1>2, <1>4, <1>6, <2>4, GoToStep DEF Inv
  <2>6. RestOK' /\ NeverOverdrawn'
    BY <1>1, <1>6, RestSame DEF Inv, NeverOverdrawn
  <2> QED
    BY <2>4, <2>5, <2>6 DEF Inv
<1>7. CASE /\ charges' = [charges EXCEPT ![b] = Append(@, [amount |-> total, refunded |-> 0])]
           /\ Become(r, [q EXCEPT !.pc = "charge_status",
                                  !.inst.meta.charge = Len(charges[b]) + 1])
           /\ UNCHANGED row
  <2> DEFINE new == Append(charges[b], [amount |-> total, refunded |-> 0])
             meta == [q.inst.meta EXCEPT !.charge = Len(charges[b]) + 1]
  <2>1. charges[b] \in Seq([amount : Nat, refunded : Nat]) /\ total \in Nat
    BY <1>3 DEF Inv, RestOK, Meta
  <2>2. new \in Seq([amount : Nat, refunded : Nat]) /\ new # << >>
    BY <2>1, AppendProperties
  <2>3. Len(charges[b]) + 1 \in Nat
    BY <2>1, LenProperties
  <2>4. /\ meta \in Meta /\ meta.quote = q.inst.meta.quote
        /\ meta.total = q.inst.meta.total /\ meta.currency = q.inst.meta.currency
    BY <1>3, <2>3 DEF Meta
  <2>5. charges' = [charges EXCEPT ![b] = new]
    BY <1>7
  <2>6. Become(r, [q EXCEPT !.pc = "charge_status", !.inst.meta = meta])
    BY <1>7
  <2> HIDE DEF new, meta
  <2> QED
    BY <1>1, <1>2, <1>3, <1>4, <1>7, <2>2, <2>4, <2>5, <2>6, StripeStep
<1> QED
  BY <1>5, <1>6, <1>7 DEF ChargeBooking

LEMMA RefundStep ==
  ASSUME Inv, NEW r \in Requests, NEW label \in {"host_refund", "guest_refund"}, At(r, label),
         NEW amount \in Nat,
         NEW noted \in {"host_refund_id", "guest_refund_id"},
         NEW next \in {"host_cancel", "guest_cancel"},
         StripeRefund(r, amount, noted, next), UNCHANGED <<row, balance, world, history>>
  PROVE  Inv'
<1> DEFINE q == req[r]
           b == q.b
           id == q.inst.meta.charge
<1>1. label # "idle" /\ label \in Labels /\ next \in Plain /\ "idle" \in Plain
      /\ noted \in Labels /\ noted \notin Selecting /\ noted \notin Charging
  BY LabelSet, PlainLabels DEF Selecting, Charging
<1>2. Busy(q) /\ q.todo = {} /\ ~q.dirty
  BY <1>1, AtBusy DEF Inv
<1>3. q \in Request /\ b \in Bookings /\ q.inst.meta \in Meta
  BY AtWork DEF Inv
<1>4. CASE amount = 0 /\ GoTo(r, next) /\ UNCHANGED charges
  BY <1>1, <1>4, GoToInv
<1>5. CASE amount > 0 /\ GoTo(r, "idle") /\ UNCHANGED charges
  BY <1>1, <1>5, GoToInv
<1>6. CASE /\ id \in DOMAIN charges[b]
           /\ charges' = [charges EXCEPT ![b][id].refunded = @ + amount]
           /\ Become(r, [q EXCEPT !.pc = noted, !.inst.meta.refund = amount])
  <2> DEFINE s == charges[b]
             charge == [s[id] EXCEPT !.refunded = @ + amount]
             new == [s EXCEPT ![id] = charge]
             meta == [q.inst.meta EXCEPT !.refund = amount]
  <2>1. s \in Seq([amount : Nat, refunded : Nat])
    BY <1>3 DEF Inv, RestOK
  <2>2. id \in DOMAIN s
    BY <1>6
  <2>3. charges' = [charges EXCEPT ![b] = new]
    BY <1>6
  <2> HIDE DEF s, id
  <2>4. id \in 1 .. Len(s) /\ s[id] \in [amount : Nat, refunded : Nat]
    <3>1. s \in [1 .. Len(s) -> [amount : Nat, refunded : Nat]] /\ DOMAIN s = 1 .. Len(s)
      BY ONLY <2>1, LenProperties, Zenon
    <3>2. id \in 1 .. Len(s)
      BY <2>2, <3>1
    <3> QED
      BY <3>1, <3>2, Zenon
  <2>5. charge \in [amount : Nat, refunded : Nat]
    BY <2>4
  <2> HIDE DEF charge
  <2>6. new \in Seq([amount : Nat, refunded : Nat]) /\ Len(new) = Len(s)
    BY <2>1, <2>4, <2>5, ExceptSeq
  <2>7. new # << >>
    BY <2>1, <2>4, <2>6, LenProperties, EmptySeq
  <2>8. /\ meta \in Meta /\ meta.quote = q.inst.meta.quote
        /\ meta.total = q.inst.meta.total /\ meta.currency = q.inst.meta.currency
    BY <1>3 DEF Meta
  <2>9. Become(r, [q EXCEPT !.pc = noted, !.inst.meta = meta])
    BY <1>6
  <2> HIDE DEF new, meta
  <2> QED
    BY <1>1, <1>2, <2>3, <2>6, <2>7, <2>8, <2>9, StripeStep
<1> QED
  BY <1>4, <1>5, <1>6 DEF StripeRefund

LEMMA HostRefundStep ==
  ASSUME Inv, NEW r \in Requests, HostRefund(r)
  PROVE  Inv'
<1>1. req[r].inst.meta.total \in Nat
  BY AtWork DEF Inv, Meta
<1>2. CancelRefundForHost(req[r].inst.status, req[r].inst.meta.total) \in Nat
  BY <1>1, AmountTypes
<1> QED
  BY <1>2, RefundStep DEF HostRefund

LEMMA GuestRefundStep ==
  ASSUME Inv, NEW r \in Requests, GuestRefund(r)
  PROVE  Inv'
<1>1. req[r].inst.meta.total \in Nat
  BY AtWork DEF Inv, Meta
<1>2. CancelRefundForGuest(req[r].inst.status, late[req[r].b], req[r].inst.meta.total) \in Nat
  BY <1>1, AmountTypes
<1> QED
  BY <1>2, RefundStep DEF GuestRefund

LEMMA RejectSaveStep ==
  ASSUME Inv, NEW r \in Requests, RejectSave(r)
  PROVE  Inv'
  BY CancelSave DEF RejectSave, Ending

LEMMA RejectCreditStep ==
  ASSUME Inv, NEW r \in Requests, RejectCredit(r)
  PROVE  Inv'
<1> DEFINE q == req[r]
           credit == q.inst.meta.credit
           todo == IF credit > 0 THEN {"meta", "money"} ELSE {}
           amt == IF credit > 0 THEN credit ELSE 0
           p == [q EXCEPT !.pc = "idle", !.todo = todo, !.amt = amt]
<1>1. /\ At(r, "reject_credit") /\ Become(r, p)
      /\ unsent' = [unsent EXCEPT ![q.b] = FALSE]
      /\ UNCHANGED <<row, balance, charges, world, applied, debited, credited, paidOut, reconfirmed>>
  BY DEF RejectCredit
<1>2. Busy(q) /\ q.todo = {} /\ ~q.dirty
  BY <1>1, AtBusy DEF Inv
<1>3. /\ q \in Request /\ q.b \in Bookings /\ q.inst.meta \in Meta
      /\ GoodMeta(q.b, q.inst.meta)
  BY <1>2, AtWork DEF Inv
<1>4. amt \in Int /\ todo \in SUBSET Parts
  BY <1>3 DEF Meta, Undefined, Parts
<1> HIDE DEF amt, todo
<1>5. /\ p \in Request /\ p.pc = "idle" /\ p.b = q.b /\ p.inst = q.inst
      /\ p.dirty = q.dirty
  BY <1>3, <1>4, LabelSet DEF Request
<1> HIDE DEF p
<1>6. RowInv' /\ Kept
  BY <1>1, RowsSame DEF Inv, world
<1>7. ReqInv'
  BY <1>1, <1>2, <1>3, <1>5, <1>6, ChangeGood DEF Inv, Selecting, Charging
<1>8. unsent' \in [Bookings -> BOOLEAN]
  BY <1>1, <1>3, Zenon DEF Inv, RestOK
<1>9. RestOK' /\ NeverOverdrawn'
  BY <1>1, <1>8 DEF Inv, RestOK, NeverOverdrawn, world
<1> QED
  BY <1>6, <1>7, <1>9 DEF Inv

LEMMA NoticeFailsStep ==
  ASSUME Inv, NEW r \in Requests, NoticeFails(r)
  PROVE  Inv'
<1>1. PICK label \in {"reject_credit", "refund_initiated", "guest_cancel_initiated"} :
        At(r, label)
  BY DEF NoticeFails
<1>2. /\ GoTo(r, "idle") /\ "idle" \in Plain
      /\ unsent' = [unsent EXCEPT ![req[r].b] = @ \/ req[r].pc = "reject_credit"]
      /\ UNCHANGED <<row, balance, charges, world, applied, debited, credited, paidOut, reconfirmed>>
  BY PlainLabels DEF NoticeFails
<1>3. Busy(req[r]) /\ req[r].b \in Bookings
  BY <1>1, AtBusy, AtWork DEF Inv
<1>4. RowInv' /\ Kept
  BY <1>2, RowsSame DEF Inv, world
<1>5. ReqInv'
  BY <1>2, <1>3, <1>4, GoToStep DEF Inv
<1>6. unsent' \in [Bookings -> BOOLEAN]
  BY <1>2, <1>3, Zenon DEF Inv, RestOK
<1>7. RestOK' /\ NeverOverdrawn'
  BY <1>2, <1>6 DEF Inv, RestOK, NeverOverdrawn, world
<1> QED
  BY <1>4, <1>5, <1>7 DEF Inv

-----------------------------------------------------------------------------
(* The environment.                                                         *)

LEMMA EnvironmentStep ==
  ASSUME Inv, NEW b \in Bookings, Environment(b)
  PROVE  Inv'
<1>1. ASSUME NEW currency \in Chosen, CreateBooking(b, currency)
      PROVE  Inv'
  BY <1>1, CreateBookingStep
<1>2. CASE CreateBookingWithQuotes(b)
  BY <1>2, CreateBookingWithQuotesStep
<1>3. ASSUME NEW event \in Emitted, Emit(b, event)
      PROVE  Inv'
  <2>1. UNCHANGED <<row, balance, charges, late, aged, order, cardGone, req, history>>
        /\ onchain' = [onchain EXCEPT ![b] = @ \cup {event}]
        /\ row[b].meta.currency # "none"
    BY <1>3 DEF Emit, Crypto
  <2>2. onchain' \in [Bookings -> SUBSET ContractEvents]
    BY <2>1, BookingAssumption DEF Inv, RestOK
  <2>3. Known'
    BY <2>1 DEF Inv, RestOK, RowInv, Known, Exists
  <2>4. RowInv' /\ ReqInv'
    BY <2>1, <2>3 DEF Inv, RowInv, ReqInv, GoodRow, GoodReq, history
  <2>5. RestOK' /\ NeverOverdrawn'
    BY <2>1, <2>2 DEF Inv, RestOK, NeverOverdrawn, history
  <2> QED
    BY <2>4, <2>5 DEF Inv
<1>4. ASSUME UNCHANGED <<row, balance, charges, onchain, order, req, history>>,
             late' \in [Bookings -> BOOLEAN], aged' \in [Bookings -> BOOLEAN],
             cardGone' \in [Bookings -> BOOLEAN]
      PROVE  Inv'
  <2>1. RowInv' /\ ReqInv'
    BY <1>4 DEF Inv, RowInv, ReqInv, GoodRow, GoodReq, Known, Exists, history
  <2>2. RestOK' /\ NeverOverdrawn'
    BY <1>4 DEF Inv, RestOK, NeverOverdrawn, history
  <2> QED
    BY <2>1, <2>2 DEF Inv
<1>5. CASE DeadlinePasses(b)
  BY <1>4, <1>5 DEF DeadlinePasses, Inv, RestOK
<1>6. CASE BookingAges(b)
  BY <1>4, <1>6 DEF BookingAges, Inv, RestOK
<1>7. CASE RemoveCard(b)
  BY <1>4, <1>7 DEF RemoveCard, Inv, RestOK
<1> QED
  BY <1>1, <1>2, <1>3, <1>5, <1>6, <1>7 DEF Environment

LEMMA CrashStep ==
  ASSUME Inv, NEW r \in Requests, Crash(r)
  PROVE  Inv'
<1>1. /\ req' = [req EXCEPT ![r] = Idle]
      /\ UNCHANGED <<row, balance, charges, world, history>>
  BY DEF Crash
<1>2. RowInv' /\ Kept
  BY <1>1, RowsSame DEF Inv, world, history
<1>3. Settle(Idle) = Idle
  BY DEF Settle
<1>4. ReqInv'
  BY <1>1, <1>2, <1>3, IdleGood, RequestStep DEF Inv, Become
<1>5. RestOK' /\ NeverOverdrawn'
  BY <1>1, RestSame DEF Inv, NeverOverdrawn
<1> QED
  BY <1>2, <1>4, <1>5 DEF Inv

-----------------------------------------------------------------------------
(* Every step keeps the invariant.                                          *)

LEMMA WorkStep ==
  ASSUME Inv, NEW r \in Requests, Step(r)
  PROVE  Inv'
<1>1. CASE SavePart(r) \/ MetaPart(r) \/ MoneyPart(r)
  BY <1>1, SavePartStep, MetaPartStep, MoneyPartStep
<1>2. CASE StatusWrite(r) \/ AdvanceStatus(r)
  BY <1>2, StatusWriteStep, AdvanceStep
<1>3. CASE SelectAddress(r) \/ SelectSave(r)
  BY <1>3, SelectAddressStep, SelectSaveStep
<1>4. CASE ConfirmStatus(r) \/ ConfirmDetails(r)
  BY <1>4, ConfirmStatusStep, ConfirmDetailsStep
<1>5. CASE ApproveBy(r) \/ ApproveUsd(r) \/ ChargeBooking(r)
  BY <1>5, ApproveByStep, ApproveUsdStep, ChargeBookingStep
<1>6. CASE ChargeStatus(r) \/ ChargeId(r)
  BY <1>6, ChargeStatusStep, ChargeIdStep
<1>7. CASE HostRefund(r) \/ GuestRefund(r) \/ RefundId(r)
  BY <1>7, HostRefundStep, GuestRefundStep, RefundIdStep
<1>8. CASE HostCancelSave(r) \/ GuestCancelSave(r) \/ RejectSave(r)
  BY <1>8, HostCancelSaveStep, GuestCancelSaveStep, RejectSaveStep
<1>9. CASE RejectCredit(r) \/ NoticeFails(r)
  BY <1>9, RejectCreditStep, NoticeFailsStep
<1> QED
  BY <1>1, <1>2, <1>3, <1>4, <1>5, <1>6, <1>7, <1>8, <1>9 DEF Step

LEMMA NextInv == Inv /\ [Next]_vars => Inv'
<1> SUFFICES ASSUME Inv, [Next]_vars
             PROVE  Inv'
  OBVIOUS
<1>1. ASSUME NEW r \in Requests, NEW b \in Bookings, Begin(r, b)
      PROVE  Inv'
  BY <1>1, BeginStep
<1>2. ASSUME NEW r \in Requests, Step(r)
      PROVE  Inv'
  BY <1>2, WorkStep
<1>3. ASSUME NEW r \in Requests, Crash(r)
      PROVE  Inv'
  BY <1>3, CrashStep
<1>4. ASSUME NEW b \in Bookings, Environment(b)
      PROVE  Inv'
  BY <1>4, EnvironmentStep
<1>5. CASE UNCHANGED vars
  BY <1>5 DEF vars, world, history, Inv, RestOK, NeverOverdrawn, RowInv, ReqInv,
              GoodRow, GoodReq, Known, Exists
<1> QED
  BY <1>1, <1>2, <1>3, <1>4, <1>5 DEF Next

-----------------------------------------------------------------------------
(* The theorems.                                                            *)

LEMMA InvImplies == Inv => TypeOK /\ NeverOverdrawn /\ PaidMeansCharged
<1> SUFFICES ASSUME Inv
             PROVE  TypeOK /\ NeverOverdrawn /\ PaidMeansCharged
  OBVIOUS
<1>1. TypeOK
  BY DEF Inv, RestOK, RowInv, ReqInv, TypeOK
<1>2. ASSUME NEW b \in Bookings, row[b].status = "host_paid",
             row[b].meta.currency = "USD"
      PROVE  charges[b] # << >> \/ row[b].meta.total = 0 \/ paidOut[b]
  <2>1. GoodRow(b, row, charges, paidOut) /\ GoodMeta(b, row[b].meta) /\ row[b].meta \in Meta
    BY DEF Inv, RowInv, GoodRow, GoodMeta
  <2>2. NothingDue(b, row[b].meta) => row[b].meta.total = 0
    BY <1>2, <2>1, BookingAssumption DEF NothingDue, GoodMeta, Meta
  <2> QED
    BY <1>2, <2>1, <2>2 DEF GoodRow
<1> QED
  BY <1>1, <1>2 DEF Inv, PaidMeansCharged

\* Every variable of the booking flow keeps its type: in particular every
\* status a handler or an event writes is one the column accepts, and no
\* amount on a row is negative.
THEOREM FlowTypeCorrect == Spec => []TypeOK
<1>1. Spec => []Inv
  BY InitInv, NextInv, PTL DEF Spec
<1> QED
  BY <1>1, InvImplies, PTL

\* However many confirmations, cancellations and rejections of a guest's
\* bookings interleave, the guest's credit is never overdrawn.
THEOREM FlowNeverOverdrawn == Spec => []NeverOverdrawn
<1>1. Spec => []Inv
  BY InitInv, NextInv, PTL DEF Spec
<1> QED
  BY <1>1, InvImplies, PTL

\* A USD booking whose row says host_paid was charged, or nothing was left to
\* charge, or an administrator recorded the payout, although chargeBooking
\* decides on an instance that other requests may have overtaken, and
\* although the server may stop between any two awaits.
THEOREM PaidIsCharged == Spec => []PaidMeansCharged
<1>1. Spec => []Inv
  BY InitInv, NextInv, PTL DEF Spec
<1> QED
  BY <1>1, InvImplies, PTL

-----------------------------------------------------------------------------
(* What the steps of a request do to it and to its booking, in the terms    *)
(* the rest of this module needs.                                           *)

\* Nothing about another booking changes.
Elsewhere(b) ==
  \A c \in Bookings \ {b} :
    /\ row'[c] = row[c] /\ charges'[c] = charges[c] /\ applied'[c] = applied[c]
    /\ debited'[c] = debited[c] /\ credited'[c] = credited[c]
    /\ reconfirmed'[c] = reconfirmed[c] /\ unsent'[c] = unsent[c]

\* p is q but for where it stands and what it holds.
Onward(q, p) ==
  /\ p \in Request /\ p.b = q.b /\ p.todo = q.todo /\ p.put = q.put /\ p.amt = q.amt
  /\ p.dirty = q.dirty /\ p.free = q.free

LEMMA DidGo ==
  ASSUME Inv, NEW r \in Requests, NEW label \in Labels, GoTo(r, label)
  PROVE  \E p : Onward(req[r], p) /\ p.pc = label /\ p.inst = req[r].inst /\ Become(r, p)
<1> DEFINE p == [req[r] EXCEPT !.pc = label]
<1>1. req[r] \in Request
  BY AtWork DEF Inv
<1>2. Onward(req[r], p) /\ p.pc = label /\ p.inst = req[r].inst
  BY <1>1 DEF Request, Onward
<1> QED
  BY <1>2 DEF GoTo

\* The request r when it holds another status and goes on at `label'.
Holding(r, status, label) == [req[r] EXCEPT !.inst.status = status, !.pc = label]

LEMMA DidHoldStatus ==
  ASSUME Inv, NEW r \in Requests, NEW label \in Labels, NEW status \in Statuses,
         Become(r, Holding(r, status, label))
  PROVE  \E p : /\ Onward(req[r], p) /\ p.pc = label /\ Become(r, p)
                /\ p.inst.status = status /\ p.inst.meta = req[r].inst.meta
<1> DEFINE inst == [req[r].inst EXCEPT !.status = status]
           p == [req[r] EXCEPT !.pc = label, !.inst = inst]
<1>1. req[r] \in Request /\ req[r].inst \in Row
  BY AtWork DEF Inv
<1>2. inst \in Row /\ inst.status = status /\ inst.meta = req[r].inst.meta
  BY <1>1 DEF Row
<1>3. Become(r, p)
  BY <1>1 DEF Request, Holding
<1> HIDE DEF inst
<1>4. Onward(req[r], p) /\ p.pc = label /\ p.inst = inst
  BY <1>1, <1>2 DEF Request, Onward
<1> HIDE DEF p
<1> QED
  BY <1>2, <1>3, <1>4

LEMMA DidWriteStatus ==
  ASSUME Inv, NEW r \in Requests, NEW status, WriteStatus(r, status)
  PROVE  /\ \A c \in Bookings : c # req[r].b => row'[c] = row[c]
         /\ row'[req[r].b].meta = row[req[r].b].meta
         /\ row'[req[r].b].status =
              IF req[r].inst.status = status THEN row[req[r].b].status ELSE status
<1> DEFINE b == req[r].b
<1>1. b \in Bookings /\ row \in [Bookings -> Row] /\ row[b] \in Row
  BY AtWork DEF Inv, RowInv
<1> QED
  BY <1>1 DEF WriteStatus, Row

LEMMA DidSave ==
  ASSUME Inv, NEW r \in Requests, NEW inst \in Row, NEW next \in Labels, Save(r, inst, next)
  PROVE  \E p :
    /\ Onward(req[r], p) /\ Become(r, p)
    /\ \A c \in Bookings : c # req[r].b => row'[c] = row[c]
    /\ \/ inst.meta.bad /\ row' = row /\ p.pc = "idle" /\ p.inst = req[r].inst
       \/ /\ ~inst.meta.bad /\ p.pc = next /\ p.inst = inst
          /\ row'[req[r].b].meta = inst.meta
          /\ row'[req[r].b].status =
               IF inst.status # req[r].inst.status THEN inst.status ELSE row[req[r].b].status
<1>1. /\ req[r] \in Request /\ req[r].b \in Bookings /\ row \in [Bookings -> Row]
      /\ "idle" \in Labels
  BY AtWork, LabelSet DEF Inv, RowInv
<1>2. CASE inst.meta.bad
  <2>1. row' = row /\ GoTo(r, "idle")
    BY <1>2 DEF Save
  <2>2. \E p : Onward(req[r], p) /\ p.pc = "idle" /\ p.inst = req[r].inst /\ Become(r, p)
    BY <1>1, <2>1, DidGo
  <2> QED
    BY <1>2, <2>1, <2>2
<1>3. CASE ~inst.meta.bad
  <2> DEFINE p == [req[r] EXCEPT !.pc = next, !.inst = inst]
  <2>1. row' = Saved(r, inst) /\ Become(r, p)
    BY <1>3 DEF Save
  <2>2. Onward(req[r], p) /\ p.pc = next /\ p.inst = inst
    BY <1>1 DEF Request, Onward
  <2>3. /\ \A c \in Bookings : c # req[r].b => row'[c] = row[c]
        /\ row'[req[r].b].meta = inst.meta
        /\ row'[req[r].b].status =
             IF inst.status # req[r].inst.status THEN inst.status ELSE row[req[r].b].status
    BY <1>1, <2>1 DEF Saved
  <2> HIDE DEF p
  <2> QED
    BY <1>3, <2>1, <2>2, <2>3
<1> QED
  BY <1>2, <1>3

LEMMA DidSavePart ==
  ASSUME Inv, NEW r \in Requests, SavePart(r)
  PROVE  \E p \in Request, status \in {"host_cancelled", "guest_cancelled"} :
    /\ p.b = req[r].b /\ p.put = req[r].put /\ p.amt = req[r].amt /\ p.free = req[r].free
    /\ p.todo = req[r].todo \ {"save"} /\ Become(r, p)
    /\ p.inst.meta = req[r].inst.meta /\ p.inst.status = status
    /\ status = "host_cancelled" <=> req[r].pc = "refund_initiated"
    /\ \A c \in Bookings : c # req[r].b => row'[c] = row[c]
    /\ \/ /\ req[r].inst.meta.bad /\ row' = row /\ p.pc = "idle"
          /\ p.dirty <=> status # req[r].inst.status
       \/ /\ ~req[r].inst.meta.bad /\ p.pc = req[r].pc /\ p.dirty = req[r].dirty
          /\ row'[req[r].b].meta = req[r].inst.meta
          /\ row'[req[r].b].status =
               IF status # req[r].inst.status THEN status ELSE row[req[r].b].status
<1> DEFINE q == req[r]
           rest == q.todo \ {"save"}
           status == IF q.pc = "refund_initiated" THEN "host_cancelled" ELSE "guest_cancelled"
           inst == [q.inst EXCEPT !.status = status]
           p1 == [q EXCEPT !.todo = rest, !.pc = "idle", !.inst = inst,
                           !.dirty = inst.status # q.inst.status]
           p2 == [q EXCEPT !.todo = rest, !.inst = inst]
<1>1. q \in Request /\ q.b \in Bookings /\ q.inst \in Row /\ row \in [Bookings -> Row]
  BY AtWork DEF Inv, RowInv
<1>2. inst \in Row /\ inst.meta = q.inst.meta /\ inst.status = status
  BY <1>1 DEF Row, Statuses
<1>3. rest \in SUBSET Parts /\ "idle" \in Labels
  BY <1>1, LabelSet DEF Request
<1>4. status \in {"host_cancelled", "guest_cancelled"}
      /\ (status = "host_cancelled" <=> q.pc = "refund_initiated")
  OBVIOUS
<1>5. CASE q.inst.meta.bad
  <2>1. Become(r, p1) /\ UNCHANGED row
    BY <1>5 DEF SavePart
  <2> HIDE DEF inst, status, rest
  <2>2. /\ p1 \in Request /\ p1.pc = "idle" /\ p1.b = q.b /\ p1.inst = inst /\ p1.put = q.put
        /\ p1.amt = q.amt /\ p1.free = q.free /\ p1.todo = rest
        /\ p1.dirty <=> inst.status # q.inst.status
    BY <1>1, <1>2, <1>3 DEF Request
  <2> HIDE DEF p1
  <2> QED
    BY <1>2, <1>4, <1>5, <2>1, <2>2 DEF rest
<1>6. CASE ~q.inst.meta.bad
  <2>1. Become(r, p2) /\ row' = Saved(r, inst)
    BY <1>6 DEF SavePart
  <2> HIDE DEF inst, status, rest
  <2>2. /\ p2 \in Request /\ p2.pc = q.pc /\ p2.b = q.b /\ p2.inst = inst /\ p2.put = q.put
        /\ p2.amt = q.amt /\ p2.free = q.free /\ p2.todo = rest
        /\ p2.dirty = q.dirty
    BY <1>1, <1>2, <1>3 DEF Request
  <2>3. /\ \A c \in Bookings : c # q.b => row'[c] = row[c]
        /\ row'[q.b].meta = q.inst.meta
        /\ row'[q.b].status = IF status # q.inst.status THEN status ELSE row[q.b].status
    BY <1>1, <1>2, <2>1 DEF Saved
  <2> HIDE DEF p2
  <2> QED
    BY <1>2, <1>4, <1>6, <2>1, <2>2, <2>3 DEF rest
<1> QED
  BY <1>5, <1>6

LEMMA DidMetaPart ==
  ASSUME Inv, NEW r \in Requests, MetaPart(r)
  PROVE  \E p \in Request :
    /\ p.b = req[r].b /\ p.put = req[r].put /\ p.amt = req[r].amt /\ p.free = req[r].free
    /\ p.pc = req[r].pc /\ p.dirty = req[r].dirty
    /\ p.todo = req[r].todo \ {"meta"} /\ Become(r, p)
    /\ p.inst.status = req[r].inst.status
    /\ p.inst.meta = [req[r].inst.meta EXCEPT !.credit = req[r].put,
                                              !.bad = (req[r].put = Undefined)]
    /\ \A c \in Bookings : c # req[r].b => row'[c] = row[c]
    /\ row'[req[r].b].meta = p.inst.meta
    /\ row'[req[r].b].status = IF req[r].dirty THEN req[r].inst.status ELSE row[req[r].b].status
<1> DEFINE q == req[r]
           b == q.b
           bad == q.put = Undefined
           meta == [q.inst.meta EXCEPT !.credit = q.put, !.bad = bad]
           inst == [q.inst EXCEPT !.meta = meta]
           rest == q.todo \ {"meta"}
           p == [q EXCEPT !.todo = rest, !.inst = inst]
<1>1. /\ q \in Request /\ b \in Bookings /\ q.inst \in Row /\ q.inst.meta \in Meta
      /\ row \in [Bookings -> Row]
  BY AtWork DEF Inv, RowInv
<1>3. rest \in SUBSET Parts /\ q.put \in Nat \cup {Undefined} /\ bad \in BOOLEAN
  BY <1>1 DEF Request
<1>4. /\ row' = [row EXCEPT ![b] =
           [status |-> IF q.dirty THEN q.inst.status ELSE row[b].status, meta |-> meta]]
      /\ Become(r, p)
  BY DEF MetaPart
<1> HIDE DEF bad
<1>5. meta \in Meta
  BY <1>1, <1>3 DEF Meta
<1> HIDE DEF meta
<1>6. inst \in Row /\ inst.meta = meta /\ inst.status = q.inst.status
  BY <1>1, <1>5 DEF Row
<1>7. /\ \A c \in Bookings : c # b => row'[c] = row[c]
      /\ row'[b].meta = meta
      /\ row'[b].status = IF q.dirty THEN q.inst.status ELSE row[b].status
  BY <1>1, <1>4
<1> HIDE DEF inst, rest
<1>8. /\ p \in Request /\ p.pc = q.pc /\ p.b = b /\ p.inst = inst /\ p.dirty = q.dirty
      /\ p.put = q.put /\ p.amt = q.amt /\ p.free = q.free /\ p.todo = rest
  BY <1>1, <1>3, <1>6 DEF Request
<1> HIDE DEF p
<1>9. meta = [q.inst.meta EXCEPT !.credit = q.put, !.bad = (q.put = Undefined)]
  BY DEF meta, bad
<1> QED
  BY <1>4, <1>6, <1>7, <1>8, <1>9 DEF rest

LEMMA DidMoneyPart ==
  ASSUME Inv, NEW r \in Requests, MoneyPart(r)
  PROVE  \E p \in Request :
    /\ p.b = req[r].b /\ p.put = req[r].put /\ p.amt = req[r].amt /\ p.free = req[r].free
    /\ p.dirty = req[r].dirty /\ p.inst = req[r].inst
    /\ p.todo = req[r].todo \ {"money"} /\ Become(r, p)
    /\ \/ p.pc = "idle" /\ UNCHANGED <<debited, credited>> /\ req[r].amt < 0
       \/ /\ p.pc = req[r].pc
          /\ \A c \in Bookings : c # req[r].b =>
               debited'[c] = debited[c] /\ credited'[c] = credited[c]
          /\ debited'[req[r].b] =
               debited[req[r].b] + IF req[r].amt < 0 THEN -req[r].amt ELSE 0
          /\ credited'[req[r].b] =
               credited[req[r].b] + IF req[r].amt > 0 THEN req[r].amt ELSE 0
<1> DEFINE q == req[r]
           g == GuestOf[q.b]
           rest == q.todo \ {"money"}
<1>1. q \in Request /\ q.b \in Bookings
  BY AtWork DEF Inv
<1>2. rest \in SUBSET Parts /\ q.amt \in Int /\ g \in Guests /\ "idle" \in Labels
  BY <1>1, LabelSet, BookingAssumption DEF Request
<1>3. balance[g] \in Int /\ balance[g] >= 0
  BY <1>2 DEF Inv, RestOK, NeverOverdrawn
<1>4. CASE balance[g] + q.amt < 0
  <2> DEFINE p == [q EXCEPT !.todo = rest, !.pc = "idle"]
  <2>1. Become(r, p) /\ UNCHANGED <<debited, credited>>
    BY <1>4 DEF MoneyPart
  <2>2. q.amt < 0
    BY <1>2, <1>3, <1>4
  <2>3. /\ p \in Request /\ p.pc = "idle" /\ p.b = q.b /\ p.inst = q.inst /\ p.put = q.put
        /\ p.amt = q.amt /\ p.free = q.free /\ p.todo = rest /\ p.dirty = q.dirty
    BY <1>1, <1>2 DEF Request
  <2> HIDE DEF p
  <2> QED
    BY <2>1, <2>2, <2>3
<1>5. CASE ~(balance[g] + q.amt < 0)
  <2> DEFINE p == [q EXCEPT !.todo = rest]
  <2>1. /\ Become(r, p)
        /\ debited' = [debited EXCEPT ![q.b] = @ + IF q.amt < 0 THEN -q.amt ELSE 0]
        /\ credited' = [credited EXCEPT ![q.b] = @ + IF q.amt > 0 THEN q.amt ELSE 0]
    BY <1>5 DEF MoneyPart
  <2>2. /\ p \in Request /\ p.pc = q.pc /\ p.b = q.b /\ p.inst = q.inst /\ p.put = q.put
        /\ p.amt = q.amt /\ p.free = q.free /\ p.todo = rest /\ p.dirty = q.dirty
    BY <1>1, <1>2 DEF Request
  <2>3. debited \in [Bookings -> Nat] /\ credited \in [Bookings -> Nat]
    BY DEF Inv, RestOK
  <2> HIDE DEF p
  <2> QED
    BY <1>1, <2>1, <2>2, <2>3
<1> QED
  BY <1>4, <1>5

\* p has just loaded the booking b.
Began(r, b, p) ==
  /\ p \in Request /\ p.b = b /\ p.inst = row[b] /\ ~p.dirty
  /\ Become(r, p)

LEMMA LoadFields ==
  ASSUME Inv, NEW r, NEW b \in Bookings, NEW label \in Labels
  PROVE  /\ Load(r, b, label) \in Request
         /\ Load(r, b, label).pc = label /\ Load(r, b, label).b = b
         /\ Load(r, b, label).inst = row[b] /\ Load(r, b, label).todo = {}
         /\ Load(r, b, label).put = 0 /\ Load(r, b, label).amt = 0
         /\ ~Load(r, b, label).dirty /\ ~Load(r, b, label).free
<1>1. row[b] \in Row /\ RowInv
  BY DEF Inv, RowInv
<1>2. Load(r, b, label) \in Request
  BY <1>1, LoadType
<1> QED
  BY <1>1, <1>2 DEF Load, Idle, Request

LEMMA DidLoad ==
  ASSUME Inv, NEW r \in Requests, NEW b \in Bookings, NEW label \in Labels,
         Become(r, Load(r, b, label))
  PROVE  \E p : Began(r, b, p) /\ p.pc = label /\ p.todo = {} /\ p.put = 0
<1> QED
  BY LoadFields DEF Began

LEMMA DidSelect ==
  ASSUME Inv, NEW r \in Requests, NEW b \in Bookings, NEW currency \in Chosen,
         NEW card \in BOOLEAN, GuestSelectPayment(r, b, currency, card)
  PROVE  \E p : Began(r, b, p) /\ p.pc \in Selecting /\ p.todo = {} /\ p.put = 0
<1> DEFINE label == IF currency = "BTC" THEN "select_address" ELSE "select_save"
           q == Load(r, b, label)
           p == [q EXCEPT !.pick = [currency |-> currency, card |-> card]]
<1>1. label \in Labels /\ label \in Selecting
  BY LabelSet DEF Selecting
<1>2. /\ q \in Request /\ q.pc = label /\ q.b = b /\ q.inst = row[b] /\ q.todo = {} /\ ~q.dirty
      /\ q.put = 0
  BY <1>1, LoadFields
<1>3. Become(r, p) /\ currency \in Currencies
  BY BookingAssumption DEF GuestSelectPayment
<1> HIDE DEF q, label
<1>4. /\ p \in Request /\ p.pc = label /\ p.b = b /\ p.inst = row[b] /\ p.todo = {} /\ ~p.dirty
      /\ p.put = 0
  BY <1>2, <1>3 DEF Request
<1> HIDE DEF p
<1> QED
  BY <1>1, <1>3, <1>4 DEF Began

LEMMA DidConfirm ==
  ASSUME Inv, NEW r \in Requests, NEW b \in Bookings, GuestConfirm(r, b)
  PROVE  \E p : Began(r, b, p) /\
    \/ p.pc = "confirm_status" /\ p.todo = {}
    \/ /\ p.pc = "confirm_status" /\ p.todo = {"meta", "money"}
       /\ p.put = row[b].meta.credit /\ p.amt = -row[b].meta.credit /\ row[b].meta.credit > 0
    \/ /\ p.pc = "idle" /\ p.todo = {"meta"} /\ p.put = row[b].meta.credit
       /\ row[b].meta.credit <= 0
<1> DEFINE have == balance[GuestOf[b]]
           credit == row[b].meta.credit
           q == Load(r, b, "confirm_status")
<1>1. "confirm_status" \in Labels /\ "idle" \in Labels
  BY LabelSet
<1>2. /\ q \in Request /\ q.b = b /\ q.inst = row[b] /\ ~q.dirty /\ q.todo = {}
      /\ q.pc = "confirm_status"
  BY <1>1, LoadFields
<1>3. credit \in Nat \cup {Undefined}
  BY CreditType
<1>4. CASE have = 0 /\ Become(r, q)
  BY <1>2, <1>4 DEF Began
<1>5. CASE /\ have > 0 /\ credit > 0 /\ have >= credit
           /\ Become(r, [q EXCEPT !.todo = {"meta", "money"}, !.put = credit, !.amt = -credit])
  <2> DEFINE p == [q EXCEPT !.todo = {"meta", "money"}, !.put = credit, !.amt = -credit]
  <2>1. -credit \in Int /\ {"meta", "money"} \in SUBSET Parts
    BY <1>3 DEF Undefined, Parts
  <2> HIDE DEF q
  <2>2. /\ p \in Request /\ p.b = b /\ p.inst = row[b] /\ ~p.dirty
        /\ p.pc = "confirm_status" /\ p.todo = {"meta", "money"}
        /\ p.put = credit /\ p.amt = -credit
    BY <1>2, <1>3, <2>1 DEF Request
  <2>3. Become(r, p)
    BY <1>5
  <2> HIDE DEF p
  <2> QED
    BY <1>5, <2>2, <2>3 DEF Began
<1>6. CASE /\ have > 0 /\ credit <= 0
           /\ Become(r, [q EXCEPT !.pc = "idle", !.todo = {"meta"}, !.put = credit])
  <2> DEFINE p == [q EXCEPT !.pc = "idle", !.todo = {"meta"}, !.put = credit]
  <2>1. {"meta"} \in SUBSET Parts
    BY DEF Parts
  <2> HIDE DEF q
  <2>2. /\ p \in Request /\ p.b = b /\ p.inst = row[b] /\ ~p.dirty
        /\ p.pc = "idle" /\ p.todo = {"meta"} /\ p.put = credit
    BY <1>1, <1>2, <1>3, <2>1 DEF Request
  <2>3. Become(r, p)
    BY <1>6
  <2> HIDE DEF p
  <2> QED
    BY <1>6, <2>2, <2>3 DEF Began
<1> QED
  BY <1>4, <1>5, <1>6 DEF GuestConfirm

Pos(c) == IF c > 0 THEN c ELSE 0

LEMMA DidHostCancel ==
  ASSUME Inv, NEW r \in Requests, NEW b \in Bookings, HostCancel(r, b)
  PROVE  \E p :
    /\ Began(r, b, p) /\ ~p.free /\ p.put = 0 /\ p.amt = Pos(row[b].meta.credit)
    /\ "money" \in p.todo <=> row[b].meta.credit > 0
    /\ "meta" \in p.todo <=> row[b].meta.credit > 0
    /\ "save" \in p.todo <=> p.pc = "refund_initiated"
    /\ \/ p.pc = "refund_initiated" /\ row[b].meta.currency \in Crypto
       \/ p.pc = "host_refund" /\ row[b].meta.currency = "USD"
       \/ p.pc = "host_cancel" /\ row[b].meta.currency = "USD" /\ ~HasCard(b)
<1> DEFINE credit == row[b].meta.credit
           todo == IF credit > 0 THEN {"meta", "money"} ELSE {}
           amt == IF credit > 0 THEN credit ELSE 0
           q0 == Load(r, b, "idle")
           q == [q0 EXCEPT !.todo = todo, !.amt = amt]
           usd == IF HasCard(b) THEN "host_refund" ELSE "host_cancel"
           p1 == [q EXCEPT !.pc = "refund_initiated", !.todo = @ \cup {"save"}]
           p2 == [q EXCEPT !.pc = usd]
<1>1. {"idle", "refund_initiated", "host_refund", "host_cancel"} \subseteq Labels
  BY LabelSet
<1>2. \/ Become(r, p1) /\ row[b].meta.currency \in Crypto
      \/ Become(r, p2) /\ row[b].meta.currency = "USD"
  BY DEF HostCancel
<1>3. amt \in Int /\ todo \in SUBSET Parts /\ amt = Pos(credit)
  BY CreditType DEF Parts, Pos
<1>4. /\ "money" \in todo <=> credit > 0
      /\ "meta" \in todo <=> credit > 0
      /\ "save" \notin todo
  OBVIOUS
<1>5. q0 \in Request /\ q0.b = b /\ q0.inst = row[b] /\ ~q0.dirty /\ ~q0.free /\ q0.put = 0
  BY <1>1, LoadFields
<1>6. /\ usd \in Labels /\ usd \in {"host_refund", "host_cancel"}
      /\ usd = "host_cancel" => ~HasCard(b)
  BY <1>1
<1> HIDE DEF q0, amt, todo, usd
<1>7. /\ q \in Request /\ q.b = b /\ q.inst = row[b] /\ ~q.dirty /\ ~q.free /\ q.put = 0
      /\ q.amt = amt /\ q.todo = todo
  BY <1>3, <1>5 DEF Request
<1> HIDE DEF q
<1>8. todo \cup {"save"} \in SUBSET Parts
  BY <1>3 DEF Parts
<1>9. CASE Become(r, p1) /\ row[b].meta.currency \in Crypto
  <2>1. /\ p1 \in Request /\ p1.b = b /\ p1.inst = row[b] /\ ~p1.dirty /\ ~p1.free
        /\ p1.put = 0 /\ p1.amt = amt /\ p1.todo = todo \cup {"save"} /\ p1.pc = "refund_initiated"
    BY <1>1, <1>7, <1>8 DEF Request
  <2> HIDE DEF p1
  <2> QED
    BY <1>3, <1>4, <1>9, <2>1 DEF Began
<1>10. CASE Become(r, p2) /\ row[b].meta.currency = "USD"
  <2>1. /\ p2 \in Request /\ p2.b = b /\ p2.inst = row[b] /\ ~p2.dirty /\ ~p2.free
        /\ p2.put = 0 /\ p2.amt = amt /\ p2.todo = todo /\ p2.pc = usd
    BY <1>6, <1>7 DEF Request
  <2> HIDE DEF p2
  <2> QED
    BY <1>3, <1>4, <1>6, <1>10, <2>1 DEF Began
<1> QED
  BY <1>2, <1>9, <1>10

LEMMA DidGuestCancel ==
  ASSUME Inv, NEW r \in Requests, NEW b \in Bookings, GuestCancel(r, b)
  PROVE  \E p, status :
    /\ Began(r, b, p) /\ p.put = 0
    /\ p.amt = CreditRefundForGuest(status, late[b], Pos(row[b].meta.credit))
    /\ p.free <=> CancelStatus(row[b].status, late[b]) = "without_penalty"
    /\ "money" \in p.todo <=> p.amt > 0
    /\ "meta" \in p.todo
    /\ "save" \in p.todo <=> p.pc = "guest_cancel_initiated"
    /\ \/ /\ p.pc = "guest_cancel_initiated" /\ row[b].meta.currency \in Crypto
          /\ status = "guest_cancelled"
       \/ /\ p.pc \in {"guest_refund", "guest_cancel"} /\ row[b].meta.currency = "USD"
          /\ status = row[b].status
<1> DEFINE crypto == row[b].meta.currency \in Crypto
           status == IF crypto THEN "guest_cancelled" ELSE row[b].status
           credit == IF row[b].meta.credit > 0 THEN row[b].meta.credit ELSE 0
           amount == CreditRefundForGuest(status, late[b], credit)
           todo == IF amount > 0 THEN {"meta", "money"} ELSE {"meta"}
           free == CancelStatus(row[b].status, late[b]) = "without_penalty"
           q0 == Load(r, b, "idle")
           q == [q0 EXCEPT !.todo = todo, !.amt = amount, !.free = free]
           usd == IF HasCard(b) /\ row[b].meta.charge # 0 THEN "guest_refund" ELSE "guest_cancel"
           p1 == [q EXCEPT !.pc = "guest_cancel_initiated", !.todo = @ \cup {"save"}]
           p2 == [q EXCEPT !.pc = usd]
<1>1. {"idle", "guest_cancel_initiated", "guest_refund", "guest_cancel"} \subseteq Labels
  BY LabelSet
<1>2. \/ Become(r, p1) /\ row[b].meta.currency \in Crypto /\ status = "guest_cancelled"
      \/ Become(r, p2) /\ row[b].meta.currency = "USD" /\ status = row[b].status
  BY DEF GuestCancel, Crypto
<1>3. credit \in Nat /\ credit = Pos(row[b].meta.credit)
  BY CreditType DEF Pos
<1>4. amount \in Int
  BY <1>3, AmountTypes
<1>5. todo \in SUBSET Parts /\ free \in BOOLEAN
  BY DEF Parts
<1>6. /\ "money" \in todo <=> amount > 0
      /\ "meta" \in todo /\ "save" \notin todo
  OBVIOUS
<1>7. /\ q0 \in Request /\ q0.b = b /\ q0.inst = row[b] /\ ~q0.dirty /\ q0.put = 0
  BY <1>1, LoadFields
<1>8. usd \in Labels /\ usd \in {"guest_refund", "guest_cancel"}
  BY <1>1
<1> HIDE DEF q0, todo, usd, free, status, credit, amount
<1>9. /\ q \in Request /\ q.b = b /\ q.inst = row[b] /\ ~q.dirty /\ q.put = 0
      /\ q.amt = amount /\ q.todo = todo /\ q.free = free
  BY <1>4, <1>5, <1>7 DEF Request
<1> HIDE DEF q
<1>10. todo \cup {"save"} \in SUBSET Parts
  BY <1>5 DEF Parts
<1>11. amount = CreditRefundForGuest(status, late[b], Pos(row[b].meta.credit))
  BY <1>3 DEF amount
<1>12. free <=> CancelStatus(row[b].status, late[b]) = "without_penalty"
  BY DEF free
<1>13. CASE Become(r, p1) /\ row[b].meta.currency \in Crypto /\ status = "guest_cancelled"
  <2>1. /\ p1 \in Request /\ p1.b = b /\ p1.inst = row[b] /\ ~p1.dirty /\ p1.free = free
        /\ p1.put = 0 /\ p1.amt = amount /\ p1.todo = todo \cup {"save"}
        /\ p1.pc = "guest_cancel_initiated"
    BY <1>1, <1>9, <1>10 DEF Request
  <2> HIDE DEF p1
  <2>2. \/ p1.pc = "guest_cancel_initiated" /\ row[b].meta.currency \in Crypto
           /\ status = "guest_cancelled"
    BY <1>13, <2>1
  <2> QED
    BY <1>6, <1>11, <1>12, <1>13, <2>1, <2>2 DEF Began
<1>14. CASE Become(r, p2) /\ row[b].meta.currency = "USD" /\ status = row[b].status
  <2>1. /\ p2 \in Request /\ p2.b = b /\ p2.inst = row[b] /\ ~p2.dirty /\ p2.free = free
        /\ p2.put = 0 /\ p2.amt = amount /\ p2.todo = todo /\ p2.pc = usd
    BY <1>8, <1>9 DEF Request
  <2> HIDE DEF p2
  <2> QED
    BY <1>6, <1>8, <1>11, <1>12, <1>14, <2>1 DEF Began
<1> QED
  BY <1>2, <1>13, <1>14

LEMMA DidCharge ==
  ASSUME Inv, NEW r \in Requests, ChargeBooking(r)
  PROVE  \E p :
    /\ Onward(req[r], p) /\ Become(r, p) /\ p.inst.status = req[r].inst.status
    /\ \/ p.pc = "idle" /\ p.inst = req[r].inst /\ UNCHANGED <<row, charges>>
       \/ /\ p.pc = "idle" /\ p.inst = req[r].inst /\ UNCHANGED charges
          /\ req[r].inst.meta.total = 0 /\ WriteStatus(r, "host_paid")
       \/ /\ p.pc = "charge_status" /\ UNCHANGED row /\ req[r].inst.meta.total > 0
          /\ p.inst.meta = [req[r].inst.meta EXCEPT !.charge = Len(charges[req[r].b]) + 1]
          /\ \A c \in Bookings : c # req[r].b => charges'[c] = charges[c]
          /\ charges'[req[r].b] =
               Append(charges[req[r].b], [amount |-> req[r].inst.meta.total, refunded |-> 0])
<1> DEFINE q == req[r]
           b == q.b
           total == q.inst.meta.total
           new == Append(charges[b], [amount |-> total, refunded |-> 0])
           meta == [q.inst.meta EXCEPT !.charge = Len(charges[b]) + 1]
           inst == [q.inst EXCEPT !.meta = meta]
           p == [q EXCEPT !.pc = "charge_status", !.inst = inst]
<1>1. /\ q \in Request /\ b \in Bookings /\ q.inst \in Row /\ q.inst.meta \in Meta
      /\ charges \in [Bookings -> Seq([amount : Nat, refunded : Nat])]
      /\ {"idle", "charge_status"} \subseteq Labels
  BY AtWork, LabelSet DEF Inv, RestOK
<1>2. CASE GoTo(r, "idle") /\ UNCHANGED <<row, charges>>
  BY <1>1, <1>2, DidGo
<1>3. CASE total = 0 /\ WriteStatus(r, "host_paid") /\ GoTo(r, "idle") /\ UNCHANGED charges
  BY <1>1, <1>3, DidGo
<1>4. CASE /\ total > 0 /\ charges' = [charges EXCEPT ![b] = new]
           /\ Become(r, [q EXCEPT !.pc = "charge_status",
                                  !.inst.meta.charge = Len(charges[b]) + 1])
           /\ UNCHANGED row
  <2>1. Len(charges[b]) + 1 \in Nat
    BY <1>1, LenProperties
  <2>2. meta \in Meta
    BY <1>1, <2>1 DEF Meta
  <2>3. Become(r, p)
    BY <1>1, <1>4 DEF Request, Row
  <2>4. meta = [q.inst.meta EXCEPT !.charge = Len(charges[b]) + 1]
    OBVIOUS
  <2>5. charges'[b] = new /\ \A c \in Bookings : c # b => charges'[c] = charges[c]
    BY <1>1, <1>4
  <2> HIDE DEF meta, new
  <2>6. inst \in Row /\ inst.meta = meta /\ inst.status = q.inst.status
    BY <1>1, <2>2 DEF Row
  <2> HIDE DEF inst
  <2>7. Onward(q, p) /\ p.pc = "charge_status" /\ p.inst = inst
    BY <1>1, <2>6 DEF Request, Onward
  <2> HIDE DEF p
  <2> QED
    BY <1>4, <2>3, <2>4, <2>5, <2>6, <2>7 DEF new
<1> QED
  BY <1>2, <1>3, <1>4 DEF ChargeBooking

Refunded(ch, id, amount) == [ch EXCEPT ![id] = [ch[id] EXCEPT !.refunded = @ + amount]]

Refunds(r, p, amount) ==
  LET id == req[r].inst.meta.charge
      s == charges[req[r].b]
  IN /\ amount > 0
     /\ p.inst.meta = [req[r].inst.meta EXCEPT !.refund = amount]
     /\ id \in DOMAIN s /\ s[id].refunded + amount <= s[id].amount
     /\ \A c \in Bookings : c # req[r].b => charges'[c] = charges[c]
     /\ charges'[req[r].b] = Refunded(s, id, amount)

LEMMA DidRefund ==
  ASSUME Inv, NEW r \in Requests, NEW amount \in Nat, NEW noted \in Labels,
         NEW next \in Labels, StripeRefund(r, amount, noted, next)
  PROVE  \E p :
    /\ Onward(req[r], p) /\ Become(r, p) /\ p.inst.status = req[r].inst.status
    /\ \/ amount = 0 /\ p.pc = next /\ p.inst = req[r].inst /\ UNCHANGED charges
       \/ amount > 0 /\ p.pc = "idle" /\ p.inst = req[r].inst /\ UNCHANGED charges
       \/ p.pc = noted /\ Refunds(r, p, amount)
<1> DEFINE q == req[r]
           b == q.b
           id == q.inst.meta.charge
           s == charges[b]
           new == [s EXCEPT ![id] = [s[id] EXCEPT !.refunded = @ + amount]]
           meta == [q.inst.meta EXCEPT !.refund = amount]
           inst == [q.inst EXCEPT !.meta = meta]
           p == [q EXCEPT !.pc = noted, !.inst = inst]
<1>1. /\ q \in Request /\ b \in Bookings /\ q.inst \in Row /\ q.inst.meta \in Meta
      /\ charges \in [Bookings -> Seq([amount : Nat, refunded : Nat])]
      /\ "idle" \in Labels
  BY AtWork, LabelSet DEF Inv, RestOK
<1>2. CASE amount = 0 /\ GoTo(r, next) /\ UNCHANGED charges
  BY <1>1, <1>2, DidGo
<1>3. CASE amount > 0 /\ GoTo(r, "idle") /\ UNCHANGED charges
  <2>1. PICK o : Onward(q, o) /\ o.pc = "idle" /\ o.inst = q.inst /\ Become(r, o)
    BY <1>1, <1>3, DidGo
  <2> QED
    BY <1>3, <2>1
<1>4. CASE /\ amount > 0 /\ id \in DOMAIN s /\ s[id].refunded + amount <= s[id].amount
           /\ charges' = [charges EXCEPT ![b][id].refunded = @ + amount]
           /\ Become(r, [q EXCEPT !.pc = noted, !.inst.meta.refund = amount])
  <2>1. meta \in Meta
    BY <1>1 DEF Meta
  <2>2. Become(r, p)
    BY <1>1, <1>4 DEF Request, Row
  <2>3. meta = [q.inst.meta EXCEPT !.refund = amount]
    OBVIOUS
  <2>4. charges'[b] = new /\ \A c \in Bookings : c # b => charges'[c] = charges[c]
    BY <1>1, <1>4
  <2> HIDE DEF meta, new
  <2>5. inst \in Row /\ inst.meta = meta /\ inst.status = q.inst.status
    BY <1>1, <2>1 DEF Row
  <2> HIDE DEF inst
  <2>6. Onward(q, p) /\ p.pc = noted /\ p.inst = inst
    BY <1>1, <2>5 DEF Request, Onward
  <2> HIDE DEF p
  <2> QED
    BY <1>4, <2>2, <2>3, <2>4, <2>5, <2>6 DEF new, Refunded, Refunds
<1> QED
  BY <1>2, <1>3, <1>4 DEF StripeRefund

\* The credit that was applied, if any, is given back.
LEMMA DidRejectCredit ==
  ASSUME Inv, NEW r \in Requests, RejectCredit(r)
  PROVE  \E p \in Request :
    /\ Become(r, p) /\ p.b = req[r].b /\ p.pc = "idle" /\ p.put = req[r].put
    /\ p.dirty = req[r].dirty /\ p.free = req[r].free /\ p.inst = req[r].inst
    /\ "save" \notin p.todo /\ p.amt = Pos(req[r].inst.meta.credit)
    /\ "money" \in p.todo <=> req[r].inst.meta.credit > 0
    /\ "meta" \in p.todo <=> req[r].inst.meta.credit > 0
<1> DEFINE q == req[r]
           credit == q.inst.meta.credit
           todo == IF credit > 0 THEN {"meta", "money"} ELSE {}
           amt == IF credit > 0 THEN credit ELSE 0
           p == [q EXCEPT !.pc = "idle", !.todo = todo, !.amt = amt]
<1>1. q \in Request /\ q.inst.meta \in Meta /\ "idle" \in Labels
  BY AtWork, LabelSet DEF Inv
<1>2. Become(r, p)
  BY DEF RejectCredit
<1>3. /\ amt \in Int /\ todo \in SUBSET Parts /\ "save" \notin todo
      /\ amt = Pos(credit)
      /\ "money" \in todo <=> credit > 0
      /\ "meta" \in todo <=> credit > 0
  BY <1>1 DEF Meta, Undefined, Parts, Pos
<1> HIDE DEF amt, todo
<1>4. /\ p \in Request /\ p.pc = "idle" /\ p.b = q.b /\ p.inst = q.inst /\ p.put = q.put
      /\ p.dirty = q.dirty /\ p.todo = todo /\ p.amt = amt /\ p.free = q.free
  BY <1>1, <1>3 DEF Request
<1> HIDE DEF p
<1> QED
  BY <1>2, <1>3, <1>4

LEMMA DidSelectSave ==
  ASSUME Inv, NEW r \in Requests, SelectSave(r)
  PROVE  \E inst \in Row :
    /\ Save(r, inst, "idle") /\ inst.status = req[r].inst.status
    /\ inst.meta.credit = req[r].inst.meta.credit /\ inst.meta.bad = req[r].inst.meta.bad
    /\ inst.meta.charge = req[r].inst.meta.charge
<1> DEFINE q == req[r]
           m == q.inst.meta
           total == Price[q.b] - m.quote
           meta == [m EXCEPT !.currency = q.pick.currency, !.total = total,
                             !.card = q.pick.card /\ q.pick.currency = "USD"]
           inst == [q.inst EXCEPT !.meta = meta]
<1>1. /\ q \in Request /\ q.b \in Bookings /\ q.inst \in Row /\ m \in Meta
      /\ GoodMeta(q.b, m) /\ m.quote # Undefined
  BY AtWork DEF SelectSave, At, GoodReq, Selecting, Inv
<1>2. /\ q.pick.currency \in Currencies \cup {"none"} /\ q.pick.card \in BOOLEAN
  BY <1>1 DEF Request
<1>3. total \in Nat
  BY <1>1, BookingAssumption DEF GoodMeta, Meta
<1>4. Save(r, inst, "idle")
  BY DEF SelectSave
<1> HIDE DEF total
<1>5. /\ meta \in Meta /\ meta.credit = m.credit /\ meta.bad = m.bad
      /\ meta.charge = m.charge
  BY <1>1, <1>2, <1>3 DEF Meta
<1> HIDE DEF meta
<1>6. inst \in Row /\ inst.meta = meta /\ inst.status = q.inst.status
  BY <1>1, <1>5 DEF Row
<1> HIDE DEF inst
<1> QED
  BY <1>4, <1>5, <1>6

\* Every handler but the confirmation and the cancellations begins by loading
\* its booking and nothing more.
SimpleStarts ==
  Selecting \cup {"reject_payment", "approve_by", "payout", "reject_save", "expire"}
            \cup ContractEvents

LEMMA DidBegin ==
  ASSUME Inv, NEW r \in Requests, NEW b \in Bookings, Begin(r, b)
  PROVE  /\ req[r] = Idle /\ Exists(b) /\ UNCHANGED <<row, balance, charges, world, history>>
         /\ \/ \E p : /\ Began(r, b, p) /\ p.pc \in SimpleStarts /\ p.todo = {} /\ p.put = 0
                      /\ p.pc \in Selecting => row[b].status = "started"
            \/ GuestConfirm(r, b) /\ row[b].status = "started"
            \/ HostCancel(r, b) \/ GuestCancel(r, b)
<1>1. \A l \in SimpleStarts : l \in Labels
  BY LabelSet DEF SimpleStarts, Selecting, ContractEvents
<1>2. ASSUME NEW l \in SimpleStarts \ Selecting, Become(r, Load(r, b, l))
      PROVE  \E p : /\ Began(r, b, p) /\ p.pc \in SimpleStarts /\ p.todo = {} /\ p.put = 0
                    /\ p.pc \in Selecting => row[b].status = "started"
  BY <1>1, <1>2, DidLoad
<1>3. row[b].meta.currency # "none" \/ onchain[b] # {} => Exists(b)
  BY DEF Inv, RowInv, Known
<1>4. ASSUME NEW currency \in Chosen, NEW card \in BOOLEAN,
             GuestSelectPayment(r, b, currency, card)
      PROVE  \E p : /\ Began(r, b, p) /\ p.pc \in SimpleStarts /\ p.todo = {} /\ p.put = 0
                    /\ p.pc \in Selecting => row[b].status = "started"
  <2>1. row[b].status = "started"
    BY <1>4 DEF GuestSelectPayment
  <2> QED
    BY <1>4, <2>1, DidSelect DEF SimpleStarts
<1>5. /\ {"reject_payment", "approve_by", "payout", "reject_save", "expire"} \cup ContractEvents
           \subseteq SimpleStarts \ Selecting
      /\ Emitted \subseteq ContractEvents
  BY BookingAssumption DEF SimpleStarts, Selecting, ContractEvents
<1>6. CASE \E currency \in Chosen, card \in BOOLEAN : GuestSelectPayment(r, b, currency, card)
  <2>1. Exists(b) /\ UNCHANGED <<row, balance, charges, world, history>>
    BY <1>6 DEF GuestSelectPayment, Exists
  <2> QED
    BY <1>4, <1>6, <2>1 DEF Begin
<1>7. CASE GuestConfirm(r, b)
  BY <1>7 DEF GuestConfirm, Exists, Begin
<1>8. CASE GuestRejectPayment(r, b)
  BY <1>2, <1>5, <1>8 DEF GuestRejectPayment, Begin
<1>9. CASE ApproveBooking(r, b)
  BY <1>2, <1>5, <1>9 DEF ApproveBooking, Begin
<1>10. CASE PayoutBooking(r, b)
  BY <1>2, <1>5, <1>10 DEF PayoutBooking, Begin
<1>11. CASE HostCancel(r, b)
  BY <1>3, <1>11 DEF HostCancel, Begin, Crypto
<1>12. CASE GuestCancel(r, b)
  BY <1>3, <1>12 DEF GuestCancel, Begin, Crypto
<1>13. CASE RejectBooking(r, b)
  BY <1>2, <1>3, <1>5, <1>13 DEF RejectBooking, Begin, Crypto
<1>14. CASE ExpireBooking(r, b)
  BY <1>2, <1>5, <1>14 DEF ExpireBooking, Begin, Exists
<1>15. CASE \E event \in Emitted : ReportEvent(r, b, event)
  <2>1. PICK event \in Emitted : ReportEvent(r, b, event)
    BY <1>15
  <2>2. onchain[b] # {} /\ Become(r, Load(r, b, event))
        /\ UNCHANGED <<row, balance, charges, world, history>>
    BY <2>1 DEF ReportEvent
  <2>3. event \in SimpleStarts \ Selecting
    BY <1>5
  <2> QED
    BY <1>2, <1>3, <2>2, <2>3 DEF Begin
<1> QED
  BY <1>6, <1>7, <1>8, <1>9, <1>10, <1>11, <1>12, <1>13, <1>14, <1>15 DEF Begin

-----------------------------------------------------------------------------
(* Where a booking's status may go.  A status that was written is one of    *)
(* those past the approval, or guest_confirmed, in the place of started or  *)
(* with reconfirmed saying so.                                              *)

Early == {"started", "guest_confirmed"}

Past(rw, again) == rw.status # "none" /\ (rw.status \notin Early \/ again)

StatusesMove ==
  \A b \in Bookings :
    /\ reconfirmed[b] => reconfirmed'[b]
    /\ row'[b].status # row[b].status =>
         \/ row[b].status = "none"
         \/ row'[b].status \notin Early \cup {"none"}
         \/ /\ row'[b].status = "guest_confirmed"
            /\ row[b].status = "started" \/ reconfirmed'[b]

ChargeSteps == {"charge", "charge_status", "charge_id"}

\* A request that holds a later status than guest_confirmed found it in the
\* row or wrote it there, unless its save of it was refused.
MovedReq(q, rw, again) ==
  /\ Busy(q) /\ ~q.dirty /\ q.inst.status \notin Early => Past(rw[q.b], again[q.b])
  /\ q.pc \in ChargeSteps => q.inst.status \notin Early
  /\ "save" \in q.todo => ~q.dirty

MovedInv ==
  /\ \A b \in Bookings : charges[b] # << >> => Past(row[b], reconfirmed[b])
  /\ \A r \in Requests : MovedReq(req[r], row, reconfirmed)

LEMMA PastKept ==
  ASSUME StatusesMove, NEW b \in Bookings, Past(row[b], reconfirmed[b])
  PROVE  Past(row'[b], reconfirmed'[b])
  BY DEF StatusesMove, Past, Early

LEMMA MovedStep ==
  ASSUME Inv, MovedInv, StatusesMove, NEW r \in Requests, NEW p, Become(r, p),
         MovedReq(p, row', reconfirmed'),
         \A b \in Bookings : charges'[b] # << >> /\ charges[b] = << >> =>
           Past(row'[b], reconfirmed'[b])
  PROVE  MovedInv'
<1>1. \A b \in Bookings : charges'[b] # << >> => Past(row'[b], reconfirmed'[b])
  BY PastKept DEF MovedInv
<1>2. req' = [req EXCEPT ![r] = Settle(p)] /\ req \in [Requests -> Request]
  BY DEF Become, Inv, ReqInv
<1>3. MovedReq(Settle(p), row', reconfirmed')
  BY IdleType DEF Settle, MovedReq, Busy, ChargeSteps
<1>4. \A s \in Requests : MovedReq(req[s], row', reconfirmed')
  <2> SUFFICES ASSUME NEW s \in Requests PROVE MovedReq(req[s], row', reconfirmed')
    OBVIOUS
  <2>1. req[s].b \in Bookings
    BY <1>2 DEF Request
  <2> QED
    BY <2>1, PastKept DEF MovedInv, MovedReq
<1>5. \A s \in Requests : MovedReq(req'[s], row', reconfirmed')
  BY <1>2, <1>3, <1>4
<1> QED
  BY <1>1, <1>5 DEF MovedInv

LEMMA NothingMoves == ASSUME UNCHANGED <<row, reconfirmed>> PROVE StatusesMove
  BY DEF StatusesMove

\* A handler begins.
LEMMA MovedBegan ==
  ASSUME Inv, MovedInv, NEW r \in Requests, NEW b \in Bookings, NEW p, Began(r, b, p),
         row[b].status # "none", p.pc \notin ChargeSteps,
         UNCHANGED <<row, charges, reconfirmed>>
  PROVE  StatusesMove /\ MovedInv'
<1>1. StatusesMove
  BY NothingMoves
<1>2. MovedReq(p, row', reconfirmed')
  BY DEF Began, MovedReq, Past
<1> QED
  BY <1>1, <1>2, MovedStep DEF Began

\* A request goes on with what it holds.
LEMMA MovedOn ==
  ASSUME Inv, MovedInv, NEW r \in Requests, NEW p, Become(r, p), Busy(req[r]),
         p.b = req[r].b, p.inst.status = req[r].inst.status, p.dirty = req[r].dirty,
         p.todo \subseteq req[r].todo,
         p.pc \in ChargeSteps => req[r].pc \in ChargeSteps,
         StatusesMove,
         \A b \in Bookings : charges'[b] # << >> /\ charges[b] = << >> =>
           Past(row'[b], reconfirmed'[b])
  PROVE  MovedInv'
<1>1. req[r].b \in Bookings /\ MovedReq(req[r], row, reconfirmed)
  BY AtWork DEF Inv, MovedInv
<1>2. MovedReq(p, row', reconfirmed')
  BY <1>1, PastKept DEF MovedReq
<1> QED
  BY <1>2, MovedStep

LEMMA MovedGo ==
  ASSUME Inv, MovedInv, NEW r \in Requests, Busy(req[r]), NEW label \in Labels, GoTo(r, label),
         label \notin ChargeSteps, StatusesMove, UNCHANGED charges
  PROVE  MovedInv'
<1>1. PICK p : Onward(req[r], p) /\ p.pc = label /\ p.inst = req[r].inst /\ Become(r, p)
  BY DidGo
<1> QED
  BY <1>1, MovedOn DEF Onward

\* A status past the approval is written, if it is not what the request holds.
LEMMA MovedWrite ==
  ASSUME Inv, MovedInv, NEW r \in Requests, Busy(req[r]), ~req[r].dirty,
         NEW status \in Statuses, status \notin Early,
         row'[req[r].b].status =
           IF req[r].inst.status = status THEN row[req[r].b].status ELSE status,
         \A c \in Bookings : c # req[r].b => row'[c] = row[c],
         UNCHANGED reconfirmed
  PROVE  StatusesMove /\ Past(row'[req[r].b], reconfirmed'[req[r].b])
<1>1. req[r].b \in Bookings /\ Exists(req[r].b) /\ MovedReq(req[r], row, reconfirmed)
  BY AtWork DEF Inv, MovedInv
<1>2. status # "none"
  BY DEF Statuses
<1>3. StatusesMove
  BY <1>1, <1>2 DEF StatusesMove
<1> QED
  BY <1>1, <1>2, <1>3 DEF MovedReq, Past

LEMMA MovedSave ==
  ASSUME Inv, MovedInv, NEW r \in Requests, Busy(req[r]), ~req[r].dirty,
         NEW inst \in Row, NEW next \in Labels, Save(r, inst, next), next \notin ChargeSteps,
         inst.status # req[r].inst.status =>
           inst.status \in Ending,
         UNCHANGED <<charges, reconfirmed>>
  PROVE  StatusesMove /\ MovedInv'
<1> DEFINE q == req[r]
<1>1. PICK p :
    /\ Onward(q, p) /\ Become(r, p)
    /\ \A c \in Bookings : c # q.b => row'[c] = row[c]
    /\ \/ inst.meta.bad /\ row' = row /\ p.pc = "idle" /\ p.inst = q.inst
       \/ /\ ~inst.meta.bad /\ p.pc = next /\ p.inst = inst
          /\ row'[q.b].meta = inst.meta
          /\ row'[q.b].status = IF inst.status # q.inst.status THEN inst.status ELSE row[q.b].status
  BY DidSave
<1>2. "idle" \notin ChargeSteps
  BY DEF ChargeSteps
<1>3. CASE row' = row /\ p.pc = "idle" /\ p.inst = q.inst
  BY <1>1, <1>2, <1>3, NothingMoves, MovedOn DEF Onward
<1>4. CASE p.pc = next /\ inst.status = q.inst.status /\ p.inst = inst
           /\ row'[q.b].status = row[q.b].status
  <2>1. StatusesMove
    BY <1>1, <1>4 DEF StatusesMove
  <2> QED
    BY <1>1, <1>4, <2>1, MovedOn DEF Onward
<1>5. CASE /\ p.pc = next /\ inst.status # q.inst.status /\ p.inst = inst
           /\ row'[q.b].status = inst.status
  <2>1. inst.status \in Statuses /\ inst.status \notin Early
    BY <1>5 DEF Statuses, Early, Ending
  <2>2. StatusesMove /\ Past(row'[q.b], reconfirmed'[q.b])
    BY <1>1, <1>5, <2>1, MovedWrite
  <2>3. MovedReq(p, row', reconfirmed')
    BY <1>1, <1>5, <2>2 DEF MovedReq, Onward
  <2> QED
    BY <1>1, <2>2, <2>3, MovedStep
<1> QED
  BY <1>1, <1>3, <1>4, <1>5

LEMMA MovedSavePart ==
  ASSUME Inv, MovedInv, NEW r \in Requests, SavePart(r)
  PROVE  StatusesMove /\ MovedInv'
<1> DEFINE q == req[r]
<1>1. PICK p \in Request, status \in {"host_cancelled", "guest_cancelled"} :
    /\ p.b = q.b /\ Become(r, p) /\ p.inst.status = status /\ p.todo = q.todo \ {"save"}
    /\ \A c \in Bookings : c # q.b => row'[c] = row[c]
    /\ \/ /\ row' = row /\ p.pc = "idle"
          /\ p.dirty <=> status # q.inst.status
       \/ /\ p.pc = q.pc /\ p.dirty = q.dirty
          /\ row'[q.b].status = IF status # q.inst.status THEN status ELSE row[q.b].status
  BY DidSavePart
<1>2. /\ Busy(q) /\ UNCHANGED <<charges, reconfirmed>> /\ "save" \in q.todo
      /\ status \in Statuses /\ status \notin Early
  BY DEF SavePart, Busy, history, Statuses, Early
<1>3. q.b \in Bookings /\ MovedReq(q, row, reconfirmed) /\ ~q.dirty
  BY <1>2, AtWork DEF Inv, MovedInv, MovedReq
<1>4. CASE row' = row /\ p.pc = "idle" /\ (p.dirty <=> status # q.inst.status)
  <2>1. MovedReq(p, row', reconfirmed')
    BY <1>1, <1>2, <1>3, <1>4 DEF MovedReq, ChargeSteps
  <2> QED
    BY <1>1, <1>2, <1>4, <2>1, NothingMoves, MovedStep
<1>5. CASE /\ p.pc = q.pc /\ p.dirty = q.dirty
           /\ row'[q.b].status = IF status # q.inst.status THEN status ELSE row[q.b].status
  <2>1. StatusesMove /\ Past(row'[q.b], reconfirmed'[q.b])
    BY <1>1, <1>2, <1>3, <1>5, MovedWrite
  <2>2. MovedReq(p, row', reconfirmed')
    BY <1>1, <1>2, <1>3, <1>5, <2>1 DEF MovedReq
  <2> QED
    BY <1>1, <1>2, <2>1, <2>2, MovedStep
<1> QED
  BY <1>1, <1>4, <1>5

LEMMA MovedMetaPart ==
  ASSUME Inv, MovedInv, NEW r \in Requests, MetaPart(r)
  PROVE  StatusesMove /\ MovedInv'
<1> DEFINE q == req[r]
<1>1. PICK p \in Request :
    /\ p.b = q.b /\ p.pc = q.pc /\ p.dirty = q.dirty /\ p.todo = q.todo \ {"meta"}
    /\ Become(r, p) /\ p.inst.status = q.inst.status
    /\ \A c \in Bookings : c # q.b => row'[c] = row[c]
    /\ row'[q.b].status = IF q.dirty THEN q.inst.status ELSE row[q.b].status
  BY DidMetaPart
<1>2. Busy(q) /\ UNCHANGED <<charges, reconfirmed>>
  BY DEF MetaPart, Busy, history
<1>3. q.b \in Bookings /\ GoodReq(q, row, charges)
  BY AtWork DEF Inv
<1>4. q.dirty => q.inst.status \notin Early \cup {"none"}
  BY <1>3 DEF GoodReq, Early
<1>5. StatusesMove
  BY <1>1, <1>2, <1>3, <1>4 DEF StatusesMove
<1> QED
  BY <1>1, <1>2, <1>5, MovedOn

LEMMA MovedMoneyPart ==
  ASSUME Inv, MovedInv, NEW r \in Requests, MoneyPart(r)
  PROVE  StatusesMove /\ MovedInv'
<1> DEFINE q == req[r]
<1>1. PICK p \in Request :
    /\ p.b = q.b /\ p.dirty = q.dirty /\ p.inst = q.inst /\ p.todo = q.todo \ {"money"}
    /\ Become(r, p)
    /\ p.pc = "idle" \/ p.pc = q.pc
  BY DidMoneyPart
<1>2. Busy(q) /\ UNCHANGED <<row, charges, reconfirmed>>
  BY DEF MoneyPart, Busy
<1> QED
  BY <1>1, <1>2, NothingMoves, MovedOn DEF ChargeSteps

LEMMA MovedStatusWrite ==
  ASSUME Inv, MovedInv, NEW r \in Requests, NEW label, label # "idle", At(r, label),
         NEW status \in Statuses, status \notin Early, WriteStatus(r, status), GoTo(r, "idle"),
         UNCHANGED <<charges, reconfirmed>>
  PROVE  StatusesMove /\ MovedInv'
<1>1. Busy(req[r]) /\ ~req[r].dirty
  BY AtBusy DEF Inv
<1>2. StatusesMove
  BY <1>1, DidWriteStatus, MovedWrite
<1> QED
  BY <1>1, <1>2, LabelSet, MovedGo DEF ChargeSteps

\* A later status is written and held.
LEMMA MovedStatusHeld ==
  ASSUME Inv, MovedInv, NEW r \in Requests, NEW label, label # "idle", At(r, label),
         NEW status \in Statuses, status \notin Early, WriteStatus(r, status),
         NEW next \in Labels,
         Become(r, Holding(r, status, next)),
         UNCHANGED <<charges, reconfirmed>>
  PROVE  StatusesMove /\ MovedInv'
<1>1. Busy(req[r]) /\ ~req[r].dirty /\ req[r].todo = {}
  BY AtBusy DEF Inv
<1>2. StatusesMove /\ Past(row'[req[r].b], reconfirmed'[req[r].b])
  BY <1>1, DidWriteStatus, MovedWrite
<1>3. PICK p : /\ Onward(req[r], p) /\ p.pc = next /\ Become(r, p)
               /\ p.inst.status = status /\ p.inst.meta = req[r].inst.meta
  BY DidHoldStatus
<1>4. MovedReq(p, row', reconfirmed')
  BY <1>1, <1>2, <1>3 DEF MovedReq, Onward
<1> QED
  BY <1>2, <1>3, <1>4, MovedStep

LEMMA MovedConfirmStatus ==
  ASSUME Inv, MovedInv, NEW r \in Requests, ConfirmStatus(r)
  PROVE  StatusesMove /\ MovedInv'
<1> DEFINE q == req[r]
           next == IF q.inst.meta.currency \in Crypto \cup {"USD"} THEN "confirm_details" ELSE "idle"
<1>1. /\ At(r, "confirm_status") /\ WriteStatus(r, "guest_confirmed") /\ UNCHANGED charges
      /\ Become(r, Holding(r, "guest_confirmed", next))
      /\ reconfirmed' = [reconfirmed EXCEPT ![q.b] = @ \/ row[q.b].status # "started"]
  BY DEF ConfirmStatus, Holding
<1>2. /\ next \in Labels /\ next \notin ChargeSteps /\ "guest_confirmed" \in Statuses
      /\ "guest_confirmed" \in Early
  BY LabelSet DEF ChargeSteps, Statuses, Early
<1>3. q.todo = {} /\ ~q.dirty /\ q.b \in Bookings
  BY <1>1, AtBusy, AtWork DEF Inv
<1> HIDE DEF next
<1>4. PICK p : /\ Onward(q, p) /\ p.pc = next /\ Become(r, p)
               /\ p.inst.status = "guest_confirmed" /\ p.inst.meta = q.inst.meta
  BY <1>1, <1>2, DidHoldStatus
<1>5. /\ \A c \in Bookings : reconfirmed[c] => reconfirmed'[c]
      /\ row[q.b].status # "started" => reconfirmed'[q.b]
  <2>1. reconfirmed \in [Bookings -> BOOLEAN]
    BY DEF Inv, RestOK
  <2> QED
    BY <1>1, <1>3, <2>1, Zenon
<1>6. /\ \A c \in Bookings : c # q.b => row'[c] = row[c]
      /\ row'[q.b].status = row[q.b].status \/ row'[q.b].status = "guest_confirmed"
  BY <1>1, DidWriteStatus
<1>7. StatusesMove
  BY <1>5, <1>6 DEF StatusesMove
<1>8. MovedReq(p, row', reconfirmed')
  BY <1>2, <1>3, <1>4 DEF MovedReq, Onward
<1> QED
  BY <1>1, <1>4, <1>7, <1>8, MovedStep

LEMMA MovedCharge ==
  ASSUME Inv, MovedInv, NEW r \in Requests, ChargeBooking(r)
  PROVE  StatusesMove /\ MovedInv'
<1> DEFINE q == req[r]
<1>1. PICK p :
    /\ Onward(q, p) /\ Become(r, p) /\ p.inst.status = q.inst.status
    /\ \/ p.pc = "idle" /\ UNCHANGED <<row, charges>>
       \/ p.pc = "idle" /\ UNCHANGED charges /\ WriteStatus(r, "host_paid")
       \/ /\ p.pc = "charge_status" /\ UNCHANGED row
          /\ \A c \in Bookings : c # q.b => charges'[c] = charges[c]
  BY DidCharge
<1>2. At(r, "charge") /\ UNCHANGED reconfirmed
  BY DEF ChargeBooking, history
<1>3. Busy(q) /\ ~q.dirty /\ q.pc = "charge" /\ q.b \in Bookings
  BY <1>2, AtBusy, AtWork DEF Inv
<1>4. Past(row[q.b], reconfirmed[q.b])
  BY <1>3 DEF MovedInv, MovedReq, ChargeSteps
<1>5. "host_paid" \in Statuses /\ "host_paid" \notin Early
      /\ "charge" \in ChargeSteps /\ "idle" \notin ChargeSteps
  BY DEF Statuses, Early, ChargeSteps
<1>6. StatusesMove
  <2>1. CASE WriteStatus(r, "host_paid")
    BY <1>2, <1>3, <1>5, <2>1, DidWriteStatus, MovedWrite
  <2> QED
    BY <1>1, <1>2, <2>1, NothingMoves
<1>7. \A c \in Bookings : charges'[c] # << >> /\ charges[c] = << >> =>
        Past(row'[c], reconfirmed'[c])
  BY <1>1, <1>3, <1>4, <1>6, PastKept
<1> QED
  BY <1>1, <1>3, <1>5, <1>6, <1>7, MovedOn DEF Onward

LEMMA MovedRefund ==
  ASSUME Inv, MovedInv, NEW r \in Requests, HostRefund(r) \/ GuestRefund(r)
  PROVE  StatusesMove /\ MovedInv'
<1> DEFINE q == req[r]
<1>1. q.inst.meta.total \in Nat
  BY AtWork DEF Inv, Meta
<1>2. PICK amount \in Nat, noted \in {"host_refund_id", "guest_refund_id"},
           next \in {"host_cancel", "guest_cancel"} : StripeRefund(r, amount, noted, next)
  BY <1>1, AmountTypes DEF HostRefund, GuestRefund
<1>3. noted \in Labels /\ next \in Labels
  BY LabelSet
<1>4. \A c \in Bookings : charges'[c] # << >> /\ charges[c] = << >> => FALSE
  <2>1. Inv'
    BY HostRefundStep, GuestRefundStep
  <2> SUFFICES ASSUME NEW c \in Bookings, charges[c] = << >>, charges'[c] # << >>
               PROVE  FALSE
    OBVIOUS
  <2>2. c = q.b /\ q.inst.meta.charge \in DOMAIN charges[c]
    BY AtWork DEF StripeRefund, Inv, RestOK, HostRefund, GuestRefund
  <2> QED
    BY <2>2, EmptySeq
<1>5. PICK p : /\ Onward(q, p) /\ Become(r, p) /\ p.inst.status = q.inst.status
               /\ p.pc \in {noted, next, "idle"}
  BY <1>2, <1>3, DidRefund
<1>6. Busy(q) /\ UNCHANGED <<row, reconfirmed>>
  BY DEF HostRefund, GuestRefund, At, Busy, history
<1> QED
  BY <1>4, <1>5, <1>6, NothingMoves, MovedOn DEF Onward, ChargeSteps

LEMMA MovedRejectCredit ==
  ASSUME Inv, MovedInv, NEW r \in Requests, RejectCredit(r)
  PROVE  StatusesMove /\ MovedInv'
<1> DEFINE q == req[r]
<1>1. PICK p \in Request :
    /\ Become(r, p) /\ p.b = q.b /\ p.pc = "idle" /\ p.dirty = q.dirty /\ p.inst = q.inst
    /\ "save" \notin p.todo
  BY DidRejectCredit
<1>2. At(r, "reject_credit") /\ UNCHANGED <<row, charges, reconfirmed>>
  BY DEF RejectCredit
<1>3. Busy(q) /\ MovedReq(q, row, reconfirmed)
  BY <1>2, AtBusy DEF Inv, MovedInv
<1>4. MovedReq(p, row', reconfirmed')
  BY <1>1, <1>2, <1>3 DEF MovedReq, ChargeSteps
<1> QED
  BY <1>1, <1>2, <1>4, NothingMoves, MovedStep

LEMMA MovedNotice ==
  ASSUME Inv, MovedInv, NEW r \in Requests, NoticeFails(r)
  PROVE  StatusesMove /\ MovedInv'
<1>1. PICK label \in {"reject_credit", "refund_initiated", "guest_cancel_initiated"} :
        At(r, label)
  BY DEF NoticeFails
<1>2. GoTo(r, "idle") /\ UNCHANGED <<row, charges, reconfirmed>>
  BY DEF NoticeFails
<1>3. Busy(req[r]) /\ "idle" \in Labels /\ "idle" \notin ChargeSteps
  BY <1>1, AtBusy, LabelSet DEF Inv, ChargeSteps
<1> QED
  BY <1>2, <1>3, NothingMoves, MovedGo

LEMMA MovedBegin ==
  ASSUME Inv, MovedInv, NEW r \in Requests, NEW b \in Bookings, Begin(r, b)
  PROVE  StatusesMove /\ MovedInv'
<1>1. Exists(b) /\ UNCHANGED <<row, charges, reconfirmed>>
  BY DidBegin DEF history
<1>2. ASSUME NEW p, Began(r, b, p), p.pc \notin ChargeSteps
      PROVE  StatusesMove /\ MovedInv'
  BY <1>1, <1>2, MovedBegan DEF Exists
<1>3. CASE \E p : Began(r, b, p) /\ p.pc \in SimpleStarts
  BY <1>2, <1>3 DEF SimpleStarts, Selecting, ChargeSteps, ContractEvents
<1>4. CASE GuestConfirm(r, b)
  <2>1. PICK p : Began(r, b, p) /\ p.pc \in {"confirm_status", "idle"}
    BY <1>4, DidConfirm
  <2> QED
    BY <1>2, <2>1 DEF ChargeSteps
<1>5. CASE HostCancel(r, b)
  <2>1. PICK p : Began(r, b, p) /\ p.pc \in {"refund_initiated", "host_refund", "host_cancel"}
    BY <1>5, DidHostCancel
  <2> QED
    BY <1>2, <2>1 DEF ChargeSteps
<1>6. CASE GuestCancel(r, b)
  <2>1. PICK p : /\ Began(r, b, p)
                 /\ p.pc \in {"guest_cancel_initiated", "guest_refund", "guest_cancel"}
    BY <1>6, DidGuestCancel
  <2> QED
    BY <1>2, <2>1 DEF ChargeSteps
<1> QED
  BY <1>3, <1>4, <1>5, <1>6, DidBegin

LEMMA MovedSaves ==
  ASSUME Inv, MovedInv, NEW r \in Requests,
         \/ SelectAddress(r) \/ SelectSave(r) \/ ConfirmDetails(r) \/ ApproveBy(r)
         \/ ChargeId(r) \/ RefundId(r) \/ HostCancelSave(r) \/ GuestCancelSave(r)
         \/ RejectSave(r)
  PROVE  StatusesMove /\ MovedInv'
<1> DEFINE q == req[r]
<1>1. q.inst \in Row
  BY AtWork DEF Inv
<1>2. /\ UNCHANGED <<charges, reconfirmed>>
      /\ \E label \in Labels \ {"idle"} : At(r, label)
  BY LabelSet DEF SelectAddress, SelectSave, ConfirmDetails, ApproveBy, ChargeId, RefundId,
                  HostCancelSave, GuestCancelSave, RejectSave, history
<1>3. Busy(q) /\ ~q.dirty
  BY <1>2, AtBusy DEF Inv
<1>4. ASSUME NEW next \in Labels \ ChargeSteps, Save(r, q.inst, next)
      PROVE  StatusesMove /\ MovedInv'
  BY <1>1, <1>2, <1>3, <1>4, MovedSave
<1>5. {"idle", "select_save", "approve_status", "approve_usd", "host_cancel", "guest_cancel",
        "reject_credit"} \subseteq Labels \ ChargeSteps
  BY LabelSet DEF ChargeSteps
<1>6. CASE SelectAddress(r) \/ ChargeId(r) \/ RefundId(r)
  BY <1>4, <1>5, <1>6 DEF SelectAddress, ChargeId, RefundId
<1>7. CASE SelectSave(r)
  <2>1. PICK inst \in Row : Save(r, inst, "idle") /\ inst.status = q.inst.status
    BY <1>7, DidSelectSave
  <2> QED
    BY <1>2, <1>3, <1>5, <2>1, MovedSave
<1>8. CASE ConfirmDetails(r)
  <2>1. CASE Save(r, q.inst, "idle")
    BY <1>4, <1>5, <2>1
  <2>2. CASE GoTo(r, "idle") /\ UNCHANGED row
    BY <1>2, <1>3, <1>5, <2>2, NothingMoves, MovedGo
  <2> QED
    BY <1>8, <2>1, <2>2 DEF ConfirmDetails
<1>9. CASE ApproveBy(r)
  <2> DEFINE next == CASE q.inst.meta.currency \in Crypto \cup {"BTC"} -> "approve_status"
                       [] q.inst.meta.currency = "USD" -> "approve_usd"
                       [] OTHER -> "idle"
  <2>1. Save(r, q.inst, next) /\ next \in {"idle", "approve_status", "approve_usd"}
    BY <1>9 DEF ApproveBy, Crypto
  <2> HIDE DEF next
  <2> QED
    BY <1>4, <1>5, <2>1
<1>10. ASSUME NEW status \in Ending, NEW next \in {"idle", "reject_credit"},
              Save(r, [q.inst EXCEPT !.status = status], next)
       PROVE  StatusesMove /\ MovedInv'
  <2> DEFINE inst == [q.inst EXCEPT !.status = status]
  <2>1. inst \in Row /\ inst.status = status /\ Save(r, inst, next)
    BY <1>1, <1>10 DEF Row, Statuses, Ending
  <2> HIDE DEF inst
  <2> QED
    BY <1>2, <1>3, <1>5, <2>1, MovedSave
<1>11. CASE HostCancelSave(r) \/ GuestCancelSave(r) \/ RejectSave(r)
  BY <1>10, <1>11 DEF HostCancelSave, GuestCancelSave, RejectSave, Ending
<1> QED
  BY <1>6, <1>7, <1>8, <1>9, <1>11

LEMMA MovedStatuses ==
  ASSUME Inv, MovedInv, NEW r \in Requests,
         StatusWrite(r) \/ AdvanceStatus(r) \/ ApproveUsd(r) \/ ChargeStatus(r)
  PROVE  StatusesMove /\ MovedInv'
<1> DEFINE q == req[r]
<1>1. {"host_approved", "host_paid"} \subseteq Statuses \ Early
  BY DEF Statuses, Early
<1>2. {"idle", "charge", "charge_id"} \subseteq Labels /\ "idle" \notin ChargeSteps
  BY LabelSet DEF ChargeSteps
<1>3. CASE StatusWrite(r)
  <2>1. PICK label \in DOMAIN LastWrite : At(r, label) /\ WriteStatus(r, LastWrite[label])
    BY <1>3 DEF StatusWrite
  <2>2. label # "idle" /\ LastWrite[label] \in Statuses /\ LastWrite[label] \notin Early
    BY LabelSet DEF LastWrite, Statuses, Early
  <2>3. GoTo(r, "idle") /\ UNCHANGED <<charges, reconfirmed>>
    BY <1>3 DEF StatusWrite
  <2> QED
    BY <2>1, <2>2, <2>3, MovedStatusWrite
<1>4. CASE AdvanceStatus(r)
  <2>1. PICK event \in ContractEvents : At(r, event) /\ WriteStatus(r, EventTarget[event])
    BY <1>4 DEF AdvanceStatus
  <2>2. event # "idle" /\ EventTarget[event] \in Statuses /\ EventTarget[event] \notin Early
    BY DEF EventTarget, ContractEvents, Statuses, Early
  <2>3. GoTo(r, "idle") /\ UNCHANGED <<charges, reconfirmed>>
    BY <1>4 DEF AdvanceStatus, history
  <2> QED
    BY <2>1, <2>2, <2>3, MovedStatusWrite
<1>5. CASE ApproveUsd(r)
  <2>1. At(r, "approve_usd") /\ UNCHANGED <<charges, reconfirmed>>
    BY <1>5 DEF ApproveUsd, history
  <2>2. CASE GoTo(r, "idle") /\ UNCHANGED row
    <3>1. Busy(q)
      BY <2>1, AtBusy DEF Inv
    <3> QED
      BY <1>2, <2>1, <2>2, <3>1, NothingMoves, MovedGo
  <2>3. CASE /\ WriteStatus(r, "host_approved")
             /\ Become(r, Holding(r, "host_approved", "charge"))
    BY <1>1, <1>2, <2>1, <2>3, MovedStatusHeld
  <2> QED
    BY <1>5, <2>2, <2>3 DEF ApproveUsd, Holding
<1>6. CASE ChargeStatus(r)
  <2>1. At(r, "charge_status") /\ UNCHANGED <<charges, reconfirmed>>
        /\ WriteStatus(r, "host_paid") /\ Become(r, Holding(r, "host_paid", "charge_id"))
    BY <1>6 DEF ChargeStatus, history, Holding
  <2> QED
    BY <1>1, <1>2, <2>1, MovedStatusHeld
<1> QED
  BY <1>3, <1>4, <1>5, <1>6

LEMMA MovedWork ==
  ASSUME Inv, MovedInv, NEW r \in Requests, Step(r)
  PROVE  StatusesMove /\ MovedInv'
  BY MovedSavePart, MovedMetaPart, MovedMoneyPart, MovedStatuses, MovedSaves,
     MovedConfirmStatus, MovedCharge, MovedRefund, MovedRejectCredit, MovedNotice DEF Step

LEMMA MovedElse ==
  ASSUME Inv, MovedInv,
         \/ \E r \in Requests : Crash(r)
         \/ \E b \in Bookings : Environment(b)
         \/ UNCHANGED vars
  PROVE  StatusesMove /\ MovedInv'
<1>1. ASSUME NEW r \in Requests, Crash(r)
      PROVE  StatusesMove /\ MovedInv'
  <2>1. req' = [req EXCEPT ![r] = Idle] /\ UNCHANGED <<row, charges, reconfirmed>>
    BY <1>1 DEF Crash, history
  <2>2. Become(r, Idle) /\ MovedReq(Idle, row', reconfirmed')
    BY <2>1, IdleType DEF Become, Settle, MovedReq, Busy, ChargeSteps
  <2> QED
    BY <2>1, <2>2, NothingMoves, MovedStep
<1>2. ASSUME NEW b \in Bookings, NEW meta, Insert(b, meta)
      PROVE  StatusesMove /\ MovedInv'
  <2>1. /\ row' = [row EXCEPT ![b] = [status |-> "started", meta |-> meta]]
        /\ UNCHANGED <<charges, req, reconfirmed>> /\ row[b].status = "none"
    BY <1>2 DEF Insert, Exists
  <2>2. \A c \in Bookings : row'[c] = row[c] \/ (c = b /\ row[c].status = "none")
    BY <2>1 DEF Inv, RowInv
  <2>3. StatusesMove
    BY <2>1, <2>2 DEF StatusesMove
  <2>4. \A c \in Bookings : Past(row[c], reconfirmed[c]) => Past(row'[c], reconfirmed'[c])
    BY <2>3, PastKept
  <2>5. \A r \in Requests : req[r].b \in Bookings
    BY AtWork DEF Inv
  <2>6. MovedInv'
    BY <2>1, <2>4, <2>5 DEF MovedInv, MovedReq
  <2> QED
    BY <2>3, <2>6
<1>3. ASSUME UNCHANGED <<row, charges, reconfirmed, req>>
      PROVE  StatusesMove /\ MovedInv'
  BY <1>3, NothingMoves DEF MovedInv
<1>4. ASSUME NEW b \in Bookings, Environment(b)
      PROVE  StatusesMove /\ MovedInv'
  BY <1>2, <1>3, <1>4 DEF Environment, CreateBooking, CreateBookingWithQuotes, Emit,
                          DeadlinePasses, BookingAges, RemoveCard, history
<1> QED
  BY <1>1, <1>3, <1>4 DEF vars, history

LEMMA MovedNext == Inv /\ MovedInv /\ [Next]_vars => StatusesMove /\ MovedInv'
  BY MovedBegin, MovedWork, MovedElse DEF Next

LEMMA MovedInit == Init => MovedInv
<1> SUFFICES ASSUME Init PROVE MovedInv
  OBVIOUS
<1>1. \A r \in Requests : MovedReq(req[r], row, reconfirmed)
  BY IdleType DEF Init, MovedReq, Busy, ChargeSteps
<1> QED
  BY <1>1 DEF Init, MovedInv

\* A booking that was charged is past the statuses from which the guest
\* cancels as if nothing had been charged, or a confirmation has overwritten
\* its status, whatever requests about it overlap and wherever the server
\* stops: approveUsdBooking saves host_approved before the card is charged.
THEOREM ChargedStaysApproved == Spec => []ChargedIsApproved
<1>1. MovedInv => ChargedIsApproved
  BY DEF MovedInv, Past, Early, ChargedIsApproved
<1>2. Spec => []Inv
  BY InitInv, NextInv, PTL DEF Spec
<1>3. Spec => []MovedInv
  BY <1>2, MovedInit, MovedNext, PTL DEF Spec
<1> QED
  BY <1>1, <1>3, PTL

\* No save and no event brings a booking back to started, however old the
\* instance is that a handler saves.
THEOREM StartedOnce == Spec => NeverRestarted
<1>1. Inv /\ StatusesMove =>
        (\A b \in Bookings : Exists(b) /\ row[b].status # "started" => row'[b].status # "started")
  BY DEF StatusesMove, Exists, Early
<1>2. Spec => []Inv
  BY InitInv, NextInv, PTL DEF Spec
<1>3. Spec => []MovedInv
  BY <1>2, MovedInit, MovedNext, PTL DEF Spec
<1>4. Inv /\ MovedInv /\ [Next]_vars =>
        [\A b \in Bookings : Exists(b) /\ row[b].status # "started" => row'[b].status # "started"]_vars
  BY <1>1, MovedNext
<1> QED
  BY <1>2, <1>3, <1>4, PTL DEF Spec, NeverRestarted
=============================================================================

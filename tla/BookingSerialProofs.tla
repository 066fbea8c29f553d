------------------------ MODULE BookingSerialProofs ------------------------
(***************************************************************************)
(* What holds of BookingFlow when its requests run one after the other and *)
(* none is cut off, for any number of bookings and guests and any sequence *)
(* of calls: no credit is taken or given back twice, what is closed holds  *)
(* none, and a charge is noted, never lost, and refunded in full when the  *)
(* host cancels.  With two requests at once every one of these fails.      *)
(***************************************************************************)
EXTENDS BookingFlowProofs

-----------------------------------------------------------------------------
(* Requests one after the other.  A booking that no request is at work on   *)
(* is at rest; the one request that is at work on a booking accounts, by    *)
(* where it stands and what it still has to do, for what its booking lacks. *)

Serial == (\A r, s \in Requests : r = s) /\ "crash" \notin Calls

Closed == {"guest_rejected", "host_rejected", "host_cancelled",
           "refund_initiated", "guest_cancel_initiated"}

Repaid(ch) == ch[Len(ch)].refunded = ch[Len(ch)].amount

\* A booking with status s and meta m, the charges ch, and cr, db and ap
\* credited, debited and applied: what was charged and what its status says.
ChargesOK(s, m, ch) ==
  /\ m.charge = Len(ch)
  /\ m.bad => m.credit = Undefined
  /\ ch # << >> => /\ s \notin Early /\ ~m.bad /\ m.card /\ m.currency = "USD"
                   /\ m.total > 0 /\ ch[Len(ch)].amount = m.total

StatusOK(s, m, ch, cr, ap, gone) ==
  /\ s = "guest_rejected" => ch = << >> /\ cr = ap
  /\ s = "host_cancelled" /\ m.currency = "USD" /\ ch # << >> /\ ~gone => Repaid(ch)

Rest(rw, ch, cr, db, ap, gone, un) ==
  /\ ChargesOK(rw.status, rw.meta, ch)
  /\ StatusOK(rw.status, rw.meta, ch, cr, ap, gone)
  /\ rw.status \in Closed => rw.meta.credit <= 0 \/ (rw.status = "host_rejected" /\ un)
  /\ Pos(rw.meta.credit) + cr <= ap
  /\ rw.status \in Early => Pos(rw.meta.credit) + cr = ap
  /\ db <= ap
  /\ rw.status = "started" => db = 0
  /\ rw.status = "none" => ch = << >> /\ cr = 0 /\ db = 0 /\ ap = 0

HostCancelling == {"host_refund", "host_refund_id", "host_cancel"}
GuestCancelling == {"guest_refund", "guest_refund_id", "guest_cancel"}
CryptoCancelling == {"refund_initiated", "guest_cancel_initiated"}

Clears(q) == "meta" \in q.todo /\ q.put = 0
Due(q) == IF "money" \in q.todo THEN Pos(q.amt) ELSE 0
Stays(q) == IF Clears(q) THEN 0 ELSE Pos(q.inst.meta.credit)
Given(q, cr) == cr + Due(q) + Stays(q)

\* The instance of q is the row, but for what the request is about to save.
Agrees(q, rw) ==
  LET m == q.inst.meta
      n == rw.meta
  IN
  /\ m.currency = n.currency /\ m.total = n.total /\ m.credit = n.credit
  /\ m.card = n.card /\ m.bad = n.bad
  /\ q.pc \notin {"charge_status", "charge_id"} => m.charge = n.charge
  /\ Busy(q) /\ ~q.dirty => q.inst.status = rw.status
  /\ rw.status # "none"

\* The credit.
CreditOK(q, s, cr, db, ap) ==
  /\ Given(q, cr) <= ap
  /\ s \in Early /\ (q.inst.meta.bad \/ q.pc # "guest_cancel_initiated" ) => Given(q, cr) = ap
  /\ db <= ap
  /\ s = "started" /\ q.pc # "confirm_status" => db = 0
  /\ "money" \in q.todo /\ q.amt < 0 => db = 0 /\ q.amt >= -ap /\ q.pc = "confirm_status"

\* The parts still to be done.
PartsOK(q, s, un) ==
  /\ "meta" \in q.todo =>
       \/ q.put = 0
       \/ q.put = q.inst.meta.credit /\ s = "started" /\ q.pc \in {"confirm_status", "idle"}
  /\ "save" \in q.todo => q.put = 0 /\ q.pc \in CryptoCancelling /\ ~q.dirty
  /\ q.dirty => q.put = 0 /\ q.inst.meta.currency \in Crypto
  /\ s \in Closed =>
       \/ q.inst.meta.credit <= 0 \/ Clears(q)
       \/ s = "host_rejected" /\ (un \/ q.pc = "reject_credit")
  /\ q.pc \in HostCancelling \cup GuestCancelling \cup CryptoCancelling =>
       q.inst.meta.credit <= 0 \/ Clears(q)
  /\ q.pc \in {"reject_save", "reject_credit"} => q.put = 0

\* Where the request stands.
PlaceOK(q, s, ch, gone) ==
  /\ q.pc \in {"confirm_status"} \cup Selecting => s = "started"
  /\ q.pc \in CryptoCancelling => q.inst.meta.currency \in Crypto
  /\ q.pc = "guest_cancel_initiated" /\ "save" \notin q.todo => s \notin Early
  /\ q.pc \in Charging => ~q.inst.meta.bad
  /\ q.pc \in {"charge", "charge_status"} => s = "host_approved" /\ q.inst.meta.card
  /\ q.pc = "charge_id" => s = "host_paid"
  /\ q.pc = "reject_credit" => s = "host_rejected"
  /\ q.pc \in {"host_refund_id", "host_cancel"} /\ ch # << >> /\ ~gone => Repaid(ch)
  /\ q.free /\ q.pc \in GuestCancelling => s \in Early

Flight(q, rw, ch, cr, db, ap, gone, un) ==
  /\ Agrees(q, rw)
  /\ ChargesOK(rw.status, q.inst.meta, ch)
  /\ StatusOK(rw.status, q.inst.meta, ch, cr, ap, gone)
  /\ CreditOK(q, rw.status, cr, db, ap)
  /\ PartsOK(q, rw.status, un)
  /\ PlaceOK(q, rw.status, ch, gone)

SerialInv ==
  /\ \A b \in Bookings :
       (\A r \in Requests : Busy(req[r]) => req[r].b # b) =>
         Rest(row[b], charges[b], credited[b], debited[b], applied[b], cardGone[b], unsent[b])
  /\ \A r \in Requests : Busy(req[r]) =>
       LET b == req[r].b
       IN Flight(req[r], row[b], charges[b], credited[b], debited[b], applied[b], cardGone[b], unsent[b])

LEMMA PosType == \A c \in Nat \cup {Undefined} : Pos(c) \in Nat /\ (c <= 0 => Pos(c) = 0)
  BY DEF Pos, Undefined

\* A request with nothing left to do leaves its booking at rest.
LEMMA FlightRests ==
  ASSUME NEW q, ~Busy(q), q \in Request, NEW rw \in Row, NEW ch, NEW cr \in Nat, NEW db \in Nat,
         NEW ap \in Nat, NEW gone, NEW un, Flight(q, rw, ch, cr, db, ap, gone, un)
  PROVE  Rest(rw, ch, cr, db, ap, gone, un)
<1>1. q.pc = "idle" /\ q.todo = {}
  BY DEF Busy
<1>2. /\ q.inst.meta.credit = rw.meta.credit /\ Given(q, cr) = cr + Pos(rw.meta.credit)
      /\ ~Clears(q)
  BY <1>1 DEF Flight, Agrees, Given, Due, Stays, Clears
<1>3. rw.meta.credit \in Nat \cup {Undefined} /\ Pos(rw.meta.credit) \in Nat
  BY PosType DEF Row, Meta
<1>4. /\ rw.status \in Closed => rw.meta.credit <= 0 \/ (rw.status = "host_rejected" /\ un)
      /\ Pos(rw.meta.credit) + cr <= ap
      /\ rw.status \in Early => Pos(rw.meta.credit) + cr = ap
      /\ db <= ap
      /\ rw.status = "started" => db = 0
      /\ rw.status # "none"
  BY <1>1, <1>2, <1>3 DEF Flight, Agrees, CreditOK, PartsOK
<1>5. ChargesOK(rw.status, rw.meta, ch) /\ StatusOK(rw.status, rw.meta, ch, cr, ap, gone)
  BY <1>1 DEF Flight, Agrees, ChargesOK, StatusOK
<1> QED
  BY <1>4, <1>5 DEF Rest

RestAt(b) == Rest(row[b], charges[b], credited[b], debited[b], applied[b], cardGone[b], unsent[b])

FlightAt(q) ==
  Flight(q, row[q.b], charges[q.b], credited[q.b], debited[q.b], applied[q.b], cardGone[q.b], unsent[q.b])

\* p is as it has to be after the step.
FlightNext(p) ==
  Flight(p, row'[p.b], charges'[p.b], credited'[p.b], debited'[p.b], applied'[p.b], cardGone'[p.b], unsent'[p.b])

LEMMA FlightStep ==
  ASSUME Serial, Inv, Inv', SerialInv, NEW r \in Requests, NEW p \in Request, Become(r, p),
         Busy(req[r]) => req[r].b = p.b,
         Elsewhere(p.b), UNCHANGED cardGone, FlightNext(p)
  PROVE  SerialInv'
<1>1. /\ req' = [req EXCEPT ![r] = Settle(p)] /\ req \in [Requests -> Request]
      /\ \A s \in Requests : s = r
  BY DEF Become, Inv, ReqInv, Serial
<1>2. req'[r] = Settle(p) /\ p.b \in Bookings
  BY <1>1 DEF Request
<1>3. ASSUME Busy(req'[r])
      PROVE  LET b == req'[r].b
             IN Flight(req'[r], row'[b], charges'[b], credited'[b], debited'[b],
                       applied'[b], cardGone'[b], unsent'[b])
  <2>1. req'[r] = p
    BY <1>2, <1>3, IdleType DEF Settle, Busy
  <2> QED
    BY <2>1 DEF FlightNext
<1>4. ASSUME NEW c \in Bookings, ~(Busy(req'[r]) /\ req'[r].b = c)
      PROVE  Rest(row'[c], charges'[c], credited'[c], debited'[c], applied'[c], cardGone'[c], unsent'[c])
  <2>1. CASE c = p.b
    <3>1. ~Busy(p)
      BY <1>2, <1>4, <2>1 DEF Settle, Busy
    <3>2. row'[c] \in Row /\ credited'[c] \in Nat /\ debited'[c] \in Nat /\ applied'[c] \in Nat
      BY <1>2 DEF Inv, RowInv, RestOK
    <3> QED
      BY <2>1, <3>1, <3>2, FlightRests DEF FlightNext
  <2>2. CASE c # p.b
    <3>1. Rest(row[c], charges[c], credited[c], debited[c], applied[c], cardGone[c], unsent[c])
      BY <1>1, <2>2 DEF SerialInv
    <3> QED
      BY <2>2, <3>1 DEF Elsewhere
  <2> QED
    BY <2>1, <2>2
<1>5. \A s \in Requests : s = r
  BY <1>1
<1> QED
  BY <1>3, <1>4, <1>5 DEF SerialInv

\* What is known of a request at work.
LEMMA InFlight ==
  ASSUME Inv, SerialInv, NEW r \in Requests, Busy(req[r])
  PROVE  /\ req[r] \in Request /\ req[r].b \in Bookings /\ FlightAt(req[r])
         /\ row[req[r].b] \in Row /\ req[r].inst.meta \in Meta
         /\ charges[req[r].b] \in Seq([amount : Nat, refunded : Nat])
         /\ credited[req[r].b] \in Nat /\ debited[req[r].b] \in Nat /\ applied[req[r].b] \in Nat
         /\ (req[r].dirty => req[r].pc = "idle"
                             /\ req[r].inst.status \in {"host_cancelled", "guest_cancelled"})
         /\ (req[r].pc \in Charging => req[r].inst.meta.currency = "USD")
  BY AtWork DEF SerialInv, FlightAt, Inv, RowInv, RestOK, GoodReq

\* The values a step is about.
Values(rw, ch, cr, db, ap) ==
  /\ rw \in Row /\ ch \in Seq([amount : Nat, refunded : Nat])
  /\ cr \in Nat /\ db \in Nat /\ ap \in Nat

\* A request that gives up where nothing is half done.
LEMMA FlightEnds ==
  ASSUME NEW q \in Request, NEW p, Onward(q, p), p.pc = "idle", p.inst = q.inst,
         q.todo = {}, ~q.dirty, q.pc # "idle",
         q.pc \notin {"charge_status", "charge_id", "guest_cancel_initiated", "confirm_status",
                   "reject_credit"},
         NEW rw, NEW ch, NEW cr, NEW db, NEW ap, NEW gone, NEW un, Values(rw, ch, cr, db, ap),
         Flight(q, rw, ch, cr, db, ap, gone, un)
  PROVE  Flight(p, rw, ch, cr, db, ap, gone, un)
<1>1. Given(p, cr) = Given(q, cr) /\ Clears(p) = Clears(q)
  BY DEF Onward, Given, Due, Stays, Clears
<1>2. Agrees(p, rw)
  BY DEF Flight, Agrees, Busy, Onward
<1>3. ChargesOK(rw.status, p.inst.meta, ch) /\ StatusOK(rw.status, p.inst.meta, ch, cr, ap, gone)
  BY DEF Flight
<1>4. CreditOK(p, rw.status, cr, db, ap)
  BY <1>1 DEF Flight, CreditOK, Onward
<1>5. PartsOK(p, rw.status, un)
  BY <1>1 DEF Flight, PartsOK, Onward, HostCancelling, GuestCancelling, CryptoCancelling
<1>6. PlaceOK(p, rw.status, ch, gone)
  BY DEF Flight, PlaceOK, Onward, Selecting, Charging, CryptoCancelling, GuestCancelling
<1> QED
  BY <1>2, <1>3, <1>4, <1>5, <1>6 DEF Flight

\* A request goes on after a save of what it holds.
LEMMA FlightSaved ==
  ASSUME NEW q \in Request, NEW p, Onward(q, p), p.inst = q.inst,
         q.todo = {}, ~q.dirty, q.pc # "idle",
         q.pc \notin {"charge_status", "guest_cancel_initiated", "confirm_status", "reject_credit"},
         NEW rw, NEW new, NEW ch, NEW cr, NEW db, NEW ap, NEW gone, NEW un, Values(rw, ch, cr, db, ap),
         new.status = rw.status, new.meta = q.inst.meta,
         Flight(q, rw, ch, cr, db, ap, gone, un), PlaceOK(p, rw.status, ch, gone),
         p.pc \notin {"reject_save", "reject_credit"},
         p.pc \in HostCancelling \cup GuestCancelling \cup CryptoCancelling =>
           q.pc \in HostCancelling \cup GuestCancelling \cup CryptoCancelling
  PROVE  Flight(p, new, ch, cr, db, ap, gone, un)
<1>1. Given(p, cr) = Given(q, cr) /\ Clears(p) = Clears(q)
  BY DEF Onward, Given, Due, Stays, Clears
<1>2. Agrees(p, new)
  BY DEF Flight, Agrees, Busy, Onward
<1>3. ChargesOK(rw.status, p.inst.meta, ch) /\ StatusOK(rw.status, p.inst.meta, ch, cr, ap, gone)
  BY DEF Flight
<1>4. CreditOK(p, rw.status, cr, db, ap)
  BY <1>1 DEF Flight, CreditOK, Onward
<1>5. PartsOK(p, rw.status, un)
  BY <1>1 DEF Flight, PartsOK, Onward
<1> QED
  BY <1>2, <1>3, <1>4, <1>5 DEF Flight

LEMMA AtFlight ==
  ASSUME Inv, SerialInv, NEW r \in Requests, NEW label \in Labels, label # "idle", At(r, label)
  PROVE  /\ Busy(req[r]) /\ req[r].todo = {} /\ ~req[r].dirty /\ req[r].pc = label
         /\ req[r] \in Request /\ req[r].b \in Bookings /\ FlightAt(req[r])
         /\ Values(row[req[r].b], charges[req[r].b], credited[req[r].b], debited[req[r].b],
                   applied[req[r].b])
         /\ req[r].inst \in Row /\ req[r].inst.meta \in Meta
         /\ label \in Charging => req[r].inst.meta.currency = "USD"
<1>1. Busy(req[r]) /\ req[r].todo = {} /\ ~req[r].dirty /\ req[r].pc = label
  BY AtBusy DEF Inv
<1> QED
  BY <1>1, InFlight, AtWork DEF Values, Inv

\* A handler saves what it holds and goes on, or has to give up.
LEMMA FlightResave ==
  ASSUME Serial, Inv, Inv', SerialInv, NEW r \in Requests,
         NEW label \in Labels, label # "idle", At(r, label), NEW next \in Labels,
         Save(r, req[r].inst, next),
         UNCHANGED <<balance, charges, world, history>>,
         label \notin {"charge_status", "guest_cancel_initiated", "confirm_status", "reject_credit"},
         label # "charge_id" \/ ~req[r].inst.meta.bad,
         next \notin {"reject_save", "reject_credit"}, next \notin CryptoCancelling,
         next \in HostCancelling \cup GuestCancelling =>
           label \in HostCancelling \cup GuestCancelling,
         \A p : Onward(req[r], p) /\ p.pc = next /\ p.inst = req[r].inst /\ ~req[r].inst.meta.bad =>
           PlaceOK(p, row[req[r].b].status, charges[req[r].b], cardGone[req[r].b])
  PROVE  SerialInv'
<1> DEFINE q == req[r]
           b == q.b
<1>1. /\ Busy(q) /\ q.todo = {} /\ ~q.dirty /\ q.pc = label /\ q \in Request /\ b \in Bookings
      /\ FlightAt(q) /\ q.inst \in Row
      /\ Values(row[b], charges[b], credited[b], debited[b], applied[b])
  BY AtFlight
<1>2. PICK p :
    /\ Onward(q, p) /\ Become(r, p)
    /\ \A c \in Bookings : c # b => row'[c] = row[c]
    /\ \/ q.inst.meta.bad /\ row' = row /\ p.pc = "idle" /\ p.inst = q.inst
       \/ /\ ~q.inst.meta.bad /\ p.pc = next /\ p.inst = q.inst
          /\ row'[b].meta = q.inst.meta /\ row'[b].status = row[b].status
  BY <1>1, DidSave
<1>3. p \in Request /\ p.b = b /\ Elsewhere(p.b) /\ UNCHANGED cardGone
  BY <1>2 DEF Onward, Elsewhere, world, history
<1>4. CASE q.inst.meta.bad /\ row' = row /\ p.pc = "idle" /\ p.inst = q.inst
  <2>1. Flight(p, row[b], charges[b], credited[b], debited[b], applied[b], cardGone[b], unsent[b])
    BY <1>1, <1>2, <1>4, FlightEnds DEF FlightAt
  <2> QED
    BY <1>1, <1>2, <1>3, <1>4, <2>1, FlightStep DEF FlightNext, world, history
<1>5. CASE /\ ~q.inst.meta.bad /\ p.pc = next /\ p.inst = q.inst
           /\ row'[b].meta = q.inst.meta /\ row'[b].status = row[b].status
  <2>1. PlaceOK(p, row[b].status, charges[b], cardGone[b])
    BY <1>2, <1>5
  <2>2. Flight(p, row'[b], charges[b], credited[b], debited[b], applied[b], cardGone[b], unsent[b])
    BY <1>1, <1>2, <1>5, <2>1, FlightSaved DEF FlightAt
  <2> QED
    BY <1>1, <1>2, <1>3, <2>2, FlightStep DEF FlightNext, world, history
<1> QED
  BY <1>2, <1>4, <1>5

LEMMA FlightResaves ==
  ASSUME Serial, Inv, Inv', SerialInv, NEW r \in Requests,
         \/ SelectAddress(r) \/ ApproveBy(r) \/ ChargeId(r) \/ RefundId(r)
         \/ ConfirmDetails(r) /\ Save(r, req[r].inst, "idle")
  PROVE  SerialInv'
<1> DEFINE q == req[r]
           b == q.b
<1>1. UNCHANGED <<balance, charges, world, history>>
  BY DEF SelectAddress, ApproveBy, ChargeId, RefundId, ConfirmDetails
<1>2. {"idle", "select_address", "select_save", "approve_by", "approve_status", "approve_usd",
       "charge_id", "host_refund_id", "guest_refund_id", "host_cancel", "guest_cancel",
       "confirm_details"} \subseteq Labels
  BY LabelSet
<1>3. CASE SelectAddress(r)
  <2>1. At(r, "select_address") /\ Save(r, q.inst, "select_save")
    BY <1>3 DEF SelectAddress
  <2>2. PlaceOK(q, row[b].status, charges[b], cardGone[b]) /\ q.pc = "select_address"
    BY <1>2, <2>1, AtFlight DEF FlightAt, Flight
  <2>3. ASSUME NEW p, Onward(q, p), p.pc = "select_save", p.inst = q.inst
        PROVE  PlaceOK(p, row[b].status, charges[b], cardGone[b])
    BY <2>2, <2>3 DEF PlaceOK, Onward, Selecting, Charging, CryptoCancelling, GuestCancelling
  <2> QED
    BY <1>1, <1>2, <2>1, <2>3, FlightResave DEF HostCancelling, GuestCancelling, CryptoCancelling
<1>4. CASE ApproveBy(r)
  <2> DEFINE next == CASE q.inst.meta.currency \in Crypto \cup {"BTC"} -> "approve_status"
                       [] q.inst.meta.currency = "USD" -> "approve_usd"
                       [] OTHER -> "idle"
  <2>1. At(r, "approve_by") /\ Save(r, q.inst, next)
        /\ next \in {"idle", "approve_status", "approve_usd"}
    BY <1>4 DEF ApproveBy, Crypto
  <2> HIDE DEF next
  <2>2. PlaceOK(q, row[b].status, charges[b], cardGone[b]) /\ q.pc = "approve_by"
    BY <1>2, <2>1, AtFlight DEF FlightAt, Flight
  <2>3. ASSUME NEW p, Onward(q, p), p.pc = next, p.inst = q.inst, ~q.inst.meta.bad
        PROVE  PlaceOK(p, row[b].status, charges[b], cardGone[b])
    BY <2>1, <2>2, <2>3 DEF PlaceOK, Onward, Selecting, Charging, CryptoCancelling, GuestCancelling
  <2> QED
    BY <1>1, <1>2, <2>1, <2>3, FlightResave DEF HostCancelling, GuestCancelling, CryptoCancelling
<1>5. CASE ChargeId(r)
  <2>1. At(r, "charge_id") /\ Save(r, q.inst, "idle")
    BY <1>5 DEF ChargeId
  <2>2. PlaceOK(q, row[b].status, charges[b], cardGone[b]) /\ q.pc = "charge_id"
    BY <1>2, <2>1, AtFlight DEF FlightAt, Flight
  <2>3. ASSUME NEW p, Onward(q, p), p.pc = "idle", p.inst = q.inst
        PROVE  PlaceOK(p, row[b].status, charges[b], cardGone[b])
    BY <2>2, <2>3 DEF PlaceOK, Onward, Selecting, Charging, CryptoCancelling, GuestCancelling
  <2>4. ~q.inst.meta.bad
    BY <2>2 DEF PlaceOK, Charging
  <2> QED
    BY <1>1, <1>2, <2>1, <2>3, <2>4, FlightResave DEF HostCancelling, GuestCancelling, CryptoCancelling
<1>6. CASE RefundId(r)
  <2>1. PICK label \in {"host_refund_id", "guest_refund_id"} :
          At(r, label) /\ Save(r, q.inst, IF label = "host_refund_id" THEN "host_cancel"
                                          ELSE "guest_cancel")
    BY <1>6 DEF RefundId
  <2> DEFINE next == IF label = "host_refund_id" THEN "host_cancel" ELSE "guest_cancel"
  <2>2. PlaceOK(q, row[b].status, charges[b], cardGone[b]) /\ q.pc = label
    BY <1>2, <2>1, AtFlight DEF FlightAt, Flight
  <2>3. ASSUME NEW p, Onward(q, p), p.pc = next, p.inst = q.inst
        PROVE  PlaceOK(p, row[b].status, charges[b], cardGone[b])
    BY <2>2, <2>3 DEF PlaceOK, Onward, Selecting, Charging, CryptoCancelling, GuestCancelling
  <2>4. Save(r, q.inst, next) /\ next \in {"host_cancel", "guest_cancel"}
    BY <2>1
  <2> HIDE DEF next
  <2> QED
    BY <1>1, <1>2, <2>1, <2>3, <2>4, FlightResave DEF HostCancelling, GuestCancelling, CryptoCancelling
<1>7. CASE ConfirmDetails(r) /\ Save(r, q.inst, "idle")
  <2>1. At(r, "confirm_details") /\ Save(r, q.inst, "idle")
    BY <1>7 DEF ConfirmDetails
  <2>2. PlaceOK(q, row[b].status, charges[b], cardGone[b]) /\ q.pc = "confirm_details"
    BY <1>2, <2>1, AtFlight DEF FlightAt, Flight
  <2>3. ASSUME NEW p, Onward(q, p), p.pc = "idle", p.inst = q.inst
        PROVE  PlaceOK(p, row[b].status, charges[b], cardGone[b])
    BY <2>2, <2>3 DEF PlaceOK, Onward, Selecting, Charging, CryptoCancelling, GuestCancelling
  <2> QED
    BY <1>1, <1>2, <2>1, <2>3, FlightResave DEF HostCancelling, GuestCancelling, CryptoCancelling
<1> QED
  BY <1>3, <1>4, <1>5, <1>6, <1>7

\* A handler gives up with nothing half done.
LEMMA FlightGivesUp ==
  ASSUME Serial, Inv, Inv', SerialInv, NEW r \in Requests,
         NEW label \in Labels, label # "idle", At(r, label), GoTo(r, "idle"),
         label \notin {"charge_status", "charge_id", "guest_cancel_initiated", "confirm_status",
                   "reject_credit"},
         UNCHANGED <<row, balance, charges, world, history>>
  PROVE  SerialInv'
<1> DEFINE q == req[r]
           b == q.b
<1>1. /\ Busy(q) /\ q.todo = {} /\ ~q.dirty /\ q.pc = label /\ q \in Request /\ b \in Bookings
      /\ FlightAt(q)
      /\ Values(row[b], charges[b], credited[b], debited[b], applied[b])
  BY AtFlight
<1>2. PICK p : Onward(q, p) /\ p.pc = "idle" /\ p.inst = q.inst /\ Become(r, p)
  BY LabelSet, DidGo
<1>3. p \in Request /\ p.b = b /\ Elsewhere(p.b) /\ UNCHANGED cardGone
  BY <1>2 DEF Onward, Elsewhere, world, history
<1>4. Flight(p, row[b], charges[b], credited[b], debited[b], applied[b], cardGone[b], unsent[b])
  BY <1>1, <1>2, FlightEnds DEF FlightAt
<1> QED
  BY <1>1, <1>2, <1>3, <1>4, FlightStep DEF FlightNext, world, history

\* A handler ends by writing a status.
LEMMA FlightLastWrite ==
  ASSUME Serial, Inv, Inv', SerialInv, NEW r \in Requests,
         NEW label \in Labels, label # "idle", At(r, label), GoTo(r, "idle"),
         label \notin {"charge_status", "charge_id", "reject_credit"},
         NEW status \in Statuses, WriteStatus(r, status),
         status \notin Early \cup {"guest_rejected", "host_cancelled"},
         status \in Closed => label \in CryptoCancelling,
         UNCHANGED <<charges, cardGone, applied, debited, credited, reconfirmed, unsent>>
  PROVE  SerialInv'
<1> DEFINE q == req[r]
           b == q.b
<1>1. /\ Busy(q) /\ q.todo = {} /\ ~q.dirty /\ q.pc = label /\ q \in Request /\ b \in Bookings
      /\ FlightAt(q)
      /\ Values(row[b], charges[b], credited[b], debited[b], applied[b])
  BY AtFlight
<1>2. PICK p : Onward(q, p) /\ p.pc = "idle" /\ p.inst = q.inst /\ Become(r, p)
  BY LabelSet, DidGo
<1>3. /\ \A c \in Bookings : c # b => row'[c] = row[c]
      /\ row'[b].meta = row[b].meta
      /\ row'[b].status = IF q.inst.status = status THEN row[b].status ELSE status
  BY DidWriteStatus
<1>4. p \in Request /\ p.b = b /\ Elsewhere(p.b)
  BY <1>2, <1>3 DEF Onward, Elsewhere
<1>5. row'[b].status = status /\ status # "none"
  BY <1>1, <1>3 DEF FlightAt, Flight, Agrees, Statuses
<1> DEFINE s == row[b].status
           ch == charges[b]
           m == q.inst.meta
<1>6. Given(p, credited[b]) = Given(q, credited[b]) /\ ~Clears(p) /\ ~Clears(q) /\ p.todo = {}
  BY <1>1, <1>2 DEF Onward, Given, Due, Stays, Clears
<1>7. Agrees(p, row'[b])
  BY <1>1, <1>2, <1>3, <1>5, <1>6 DEF FlightAt, Flight, Agrees, Busy
<1>8. ChargesOK(status, p.inst.meta, ch) /\ StatusOK(status, p.inst.meta, ch, credited[b],
                                                    applied[b], cardGone[b])
  BY <1>1, <1>2 DEF FlightAt, Flight, ChargesOK, StatusOK
<1>9. CreditOK(p, status, credited[b], debited[b], applied[b])
  BY <1>1, <1>2, <1>6 DEF FlightAt, Flight, CreditOK, Early
<1>10. PartsOK(p, status, unsent[b])
  BY <1>1, <1>2, <1>6 DEF FlightAt, Flight, PartsOK, Onward, HostCancelling, GuestCancelling,
                          CryptoCancelling
<1>11. PlaceOK(p, status, ch, cardGone[b])
  BY <1>2 DEF PlaceOK, Onward, Selecting, Charging, CryptoCancelling, GuestCancelling
<1>12. Flight(p, row'[b], ch, credited[b], debited[b], applied[b], cardGone[b], unsent[b])
  BY <1>5, <1>7, <1>8, <1>9, <1>10, <1>11 DEF Flight
<1> QED
  BY <1>1, <1>2, <1>4, <1>12, FlightStep DEF FlightNext

LEMMA FlightStatuses ==
  ASSUME Serial, Inv, Inv', SerialInv, NEW r \in Requests, StatusWrite(r) \/ AdvanceStatus(r)
  PROVE  SerialInv'
<1>1. CASE StatusWrite(r)
  <2>1. PICK label \in DOMAIN LastWrite : At(r, label) /\ WriteStatus(r, LastWrite[label])
    BY <1>1 DEF StatusWrite
  <2>2. GoTo(r, "idle") /\ UNCHANGED <<charges, cardGone, applied, debited, credited, reconfirmed, unsent>>
    BY <1>1 DEF StatusWrite, world
  <2>3. /\ label \in Labels /\ label # "idle" /\ label \notin {"charge_status", "charge_id", "reject_credit"}
        /\ LastWrite[label] \in Statuses
        /\ LastWrite[label] \notin Early \cup {"guest_rejected", "host_cancelled"}
        /\ LastWrite[label] \in Closed => label \in CryptoCancelling
    BY LabelSet DEF LastWrite, Statuses, Early, Closed, CryptoCancelling
  <2> QED
    BY <2>1, <2>2, <2>3, FlightLastWrite
<1>2. CASE AdvanceStatus(r)
  <2>1. PICK event \in ContractEvents : At(r, event) /\ WriteStatus(r, EventTarget[event])
    BY <1>2 DEF AdvanceStatus
  <2>2. GoTo(r, "idle") /\ UNCHANGED <<charges, cardGone, applied, debited, credited, reconfirmed, unsent>>
    BY <1>2 DEF AdvanceStatus, world, history
  <2>3. /\ event \in Labels /\ event # "idle" /\ event \notin {"charge_status", "charge_id", "reject_credit"}
        /\ EventTarget[event] \in Statuses
        /\ EventTarget[event] \notin Early \cup {"guest_rejected", "host_cancelled"}
        /\ EventTarget[event] \notin Closed
    BY LabelSet DEF ContractEvents, EventTarget, Statuses, Early, Closed
  <2> QED
    BY <2>1, <2>2, <2>3, FlightLastWrite
<1> QED
  BY <1>1, <1>2

\* A handler writes a status and goes on with it.
LEMMA FlightHolds ==
  ASSUME Serial, Inv, Inv', SerialInv, NEW r \in Requests,
         NEW label \in Labels, label # "idle", At(r, label), NEW next \in Labels,
         NEW status \in Statuses, WriteStatus(r, status), Become(r, Holding(r, status, next)),
         label \in {"charge_status", "charge_id"} => next = "charge_id",
         status \notin Closed, status # "started",
         status \in Early => label = "confirm_status",
         next \notin HostCancelling \cup GuestCancelling \cup CryptoCancelling,
         next \notin {"reject_save", "reject_credit"},
         \A p : /\ Onward(req[r], p) /\ p.pc = next /\ p.inst.meta = req[r].inst.meta
                => PlaceOK(p, status, charges[req[r].b], cardGone[req[r].b]),
         UNCHANGED <<charges, cardGone, applied, debited, credited, unsent>>,
         \A c \in Bookings : c # req[r].b => reconfirmed'[c] = reconfirmed[c]
  PROVE  SerialInv'
<1> DEFINE q == req[r]
           b == q.b
           s == row[b].status
           ch == charges[b]
<1>1. /\ Busy(q) /\ q.todo = {} /\ ~q.dirty /\ q.pc = label /\ q \in Request /\ b \in Bookings
      /\ FlightAt(q)
      /\ Values(row[b], charges[b], credited[b], debited[b], applied[b])
  BY AtFlight
<1>2. PICK p : /\ Onward(q, p) /\ p.pc = next /\ Become(r, p)
               /\ p.inst.status = status /\ p.inst.meta = q.inst.meta
  BY DidHoldStatus
<1>3. /\ \A c \in Bookings : c # b => row'[c] = row[c]
      /\ row'[b].meta = row[b].meta
      /\ row'[b].status = IF q.inst.status = status THEN row[b].status ELSE status
  BY DidWriteStatus
<1>4. p \in Request /\ p.b = b /\ Elsewhere(p.b)
  BY <1>2, <1>3 DEF Onward, Elsewhere
<1>5. row'[b].status = status /\ status # "none"
  BY <1>1, <1>3 DEF FlightAt, Flight, Agrees, Statuses
<1>6. Given(p, credited[b]) = Given(q, credited[b]) /\ ~Clears(p) /\ ~Clears(q) /\ p.todo = {}
  BY <1>1, <1>2 DEF Onward, Given, Due, Stays, Clears
<1>7. Agrees(p, row'[b])
  BY <1>1, <1>2, <1>3, <1>5, <1>6 DEF FlightAt, Flight, Agrees, Busy
<1>8. status \in Early => s \in Early
  BY <1>1 DEF FlightAt, Flight, PlaceOK, Early
<1>9. ChargesOK(status, p.inst.meta, ch) /\ StatusOK(status, p.inst.meta, ch, credited[b],
                                                    applied[b], cardGone[b])
  BY <1>1, <1>2, <1>8 DEF FlightAt, Flight, ChargesOK, StatusOK, Closed
<1>10. CreditOK(p, status, credited[b], debited[b], applied[b])
  BY <1>1, <1>2, <1>6, <1>8 DEF FlightAt, Flight, CreditOK
<1>11. PartsOK(p, status, unsent[b])
  BY <1>1, <1>2, <1>6 DEF FlightAt, Flight, PartsOK, Onward
<1>12. PlaceOK(p, status, ch, cardGone[b])
  BY <1>2
<1>13. Flight(p, row'[b], ch, credited[b], debited[b], applied[b], cardGone[b], unsent[b])
  BY <1>5, <1>7, <1>9, <1>10, <1>11, <1>12 DEF Flight
<1> QED
  BY <1>1, <1>2, <1>4, <1>13, FlightStep DEF FlightNext

LEMMA FlightApproves ==
  ASSUME Serial, Inv, Inv', SerialInv, NEW r \in Requests,
         \/ ConfirmStatus(r) \/ ApproveUsd(r) \/ ChargeStatus(r)
  PROVE  SerialInv'
<1> DEFINE q == req[r]
           b == q.b
<1>1. {"idle", "confirm_status", "confirm_details", "approve_usd", "charge", "charge_status",
       "charge_id"} \subseteq Labels
  BY LabelSet
<1>2. \A l \in {"idle", "confirm_details", "charge", "charge_id"} :
        l \notin HostCancelling \cup GuestCancelling \cup CryptoCancelling /\ l \notin {"reject_save", "reject_credit"}
  BY DEF HostCancelling, GuestCancelling, CryptoCancelling
<1>3. /\ {"host_approved", "host_paid", "guest_confirmed"} \subseteq Statuses
      /\ {"host_approved", "host_paid", "guest_confirmed"} \cap (Closed \cup {"started"}) = {}
      /\ "host_approved" \notin Early /\ "host_paid" \notin Early
  BY DEF Statuses, Early, Closed
<1>4. CASE ConfirmStatus(r)
  <2> DEFINE next == IF q.inst.meta.currency \in Crypto \cup {"USD"} THEN "confirm_details" ELSE "idle"
  <2>1. /\ At(r, "confirm_status") /\ WriteStatus(r, "guest_confirmed")
        /\ UNCHANGED <<charges, cardGone, applied, debited, credited, unsent>>
        /\ Become(r, Holding(r, "guest_confirmed", next))
        /\ reconfirmed' = [reconfirmed EXCEPT ![q.b] = @ \/ row[q.b].status # "started"]
    BY <1>4 DEF ConfirmStatus, Holding, world
  <2>2. \A c \in Bookings : c # b => reconfirmed'[c] = reconfirmed[c]
    BY <2>1 DEF Inv, RestOK
  <2>3. next \in {"confirm_details", "idle"}
    OBVIOUS
  <2> HIDE DEF next
  <2>4. ASSUME NEW p, Onward(q, p), p.pc = next
        PROVE  PlaceOK(p, "guest_confirmed", charges[b], cardGone[b])
    BY <2>3, <2>4 DEF PlaceOK, Selecting, Charging, CryptoCancelling, GuestCancelling
  <2> QED
    BY <1>1, <1>2, <1>3, <2>1, <2>2, <2>3, <2>4, FlightHolds
<1>5. CASE ApproveUsd(r)
  <2>1. At(r, "approve_usd") /\ UNCHANGED <<balance, charges, world, history>>
    BY <1>5 DEF ApproveUsd
  <2>2. CASE GoTo(r, "idle") /\ UNCHANGED row
    BY <1>1, <2>1, <2>2, FlightGivesUp
  <2>3. CASE /\ WriteStatus(r, "host_approved") /\ q.inst.meta.card
             /\ Become(r, Holding(r, "host_approved", "charge"))
    <3>1. PlaceOK(q, row[b].status, charges[b], cardGone[b]) /\ q.pc = "approve_usd"
      BY <1>1, <2>1, AtFlight DEF FlightAt, Flight
    <3>2. ASSUME NEW p, Onward(q, p), p.pc = "charge", p.inst.meta = q.inst.meta
          PROVE  PlaceOK(p, "host_approved", charges[b], cardGone[b])
      BY <2>3, <3>1, <3>2 DEF PlaceOK, Selecting, Charging, CryptoCancelling, GuestCancelling
    <3> QED
      BY <1>1, <1>2, <1>3, <2>1, <2>3, <3>2, FlightHolds DEF world, history
  <2> QED
    BY <1>5, <2>2, <2>3 DEF ApproveUsd, Holding
<1>6. CASE ChargeStatus(r)
  <2>1. /\ At(r, "charge_status") /\ WriteStatus(r, "host_paid")
        /\ UNCHANGED <<charges, cardGone, applied, debited, credited, reconfirmed, unsent>>
        /\ Become(r, Holding(r, "host_paid", "charge_id"))
    BY <1>6 DEF ChargeStatus, Holding, world, history
  <2>2. PlaceOK(q, row[b].status, charges[b], cardGone[b]) /\ q.pc = "charge_status"
    BY <1>1, <2>1, AtFlight DEF FlightAt, Flight
  <2>3. ASSUME NEW p, Onward(q, p), p.pc = "charge_id", p.inst.meta = q.inst.meta
        PROVE  PlaceOK(p, "host_paid", charges[b], cardGone[b])
    BY <2>2, <2>3 DEF PlaceOK, Selecting, Charging, CryptoCancelling, GuestCancelling
  <2> QED
    BY <1>1, <1>2, <1>3, <2>1, <2>3, FlightHolds
<1> QED
  BY <1>4, <1>5, <1>6

\* A new charge.
LEMMA FlightCharge ==
  ASSUME Serial, Inv, Inv', SerialInv, NEW r \in Requests, ChargeBooking(r)
  PROVE  SerialInv'
<1> DEFINE q == req[r]
           b == q.b
           ch == charges[b]
           m == q.inst.meta
<1>1. /\ At(r, "charge") /\ "charge" \in Labels
      /\ UNCHANGED <<balance, world, history>>
  BY LabelSet DEF ChargeBooking
<1>2. /\ Busy(q) /\ q.todo = {} /\ ~q.dirty /\ q.pc = "charge" /\ q \in Request /\ b \in Bookings
      /\ FlightAt(q) /\ m \in Meta /\ m.currency = "USD"
      /\ Values(row[b], ch, credited[b], debited[b], applied[b])
  BY <1>1, AtFlight DEF Charging
<1>3. PICK p :
    /\ Onward(q, p) /\ Become(r, p) /\ p.inst.status = q.inst.status
    /\ \/ p.pc = "idle" /\ p.inst = q.inst /\ UNCHANGED <<row, charges>>
       \/ p.pc = "idle" /\ p.inst = q.inst /\ UNCHANGED charges /\ WriteStatus(r, "host_paid")
       \/ /\ p.pc = "charge_status" /\ UNCHANGED row /\ m.total > 0
          /\ p.inst.meta = [m EXCEPT !.charge = Len(ch) + 1]
          /\ \A c \in Bookings : c # b => charges'[c] = charges[c]
          /\ charges'[b] = Append(ch, [amount |-> m.total, refunded |-> 0])
  BY DidCharge
<1>4. p \in Request /\ p.b = b
  BY <1>3 DEF Onward
<1>5. CASE p.pc = "idle" /\ p.inst = q.inst /\ UNCHANGED <<row, charges>>
  <2>1. Flight(p, row[b], ch, credited[b], debited[b], applied[b], cardGone[b], unsent[b])
    BY <1>2, <1>3, <1>5, FlightEnds DEF FlightAt
  <2>2. Elsewhere(p.b)
    BY <1>1, <1>5 DEF Elsewhere, history
  <2> QED
    BY <1>1, <1>2, <1>3, <1>4, <1>5, <2>1, <2>2, FlightStep DEF FlightNext, world, history
<1>6. CASE p.pc = "idle" /\ p.inst = q.inst /\ UNCHANGED charges /\ WriteStatus(r, "host_paid")
  <2>1. /\ \A c \in Bookings : c # b => row'[c] = row[c]
        /\ row'[b].meta = row[b].meta
        /\ row'[b].status = IF q.inst.status = "host_paid" THEN row[b].status ELSE "host_paid"
    BY <1>6, DidWriteStatus
  <2>2. row'[b].status = "host_paid"
    BY <1>2, <2>1 DEF FlightAt, Flight, Agrees
  <2>3. Given(p, credited[b]) = Given(q, credited[b]) /\ ~Clears(p) /\ ~Clears(q) /\ p.todo = {}
    BY <1>2, <1>3, <1>6 DEF Onward, Given, Due, Stays, Clears
  <2>4. Agrees(p, row'[b])
    BY <1>2, <1>3, <1>6, <2>1, <2>2, <2>3 DEF FlightAt, Flight, Agrees, Busy
  <2>5. ChargesOK("host_paid", p.inst.meta, ch)
        /\ StatusOK("host_paid", p.inst.meta, ch, credited[b], applied[b], cardGone[b])
    BY <1>2, <1>6 DEF FlightAt, Flight, ChargesOK, StatusOK, Early
  <2>6. CreditOK(p, "host_paid", credited[b], debited[b], applied[b])
    BY <1>2, <1>6, <2>3 DEF FlightAt, Flight, CreditOK, Early
  <2>7. PartsOK(p, "host_paid", unsent[b])
    BY <1>2, <1>3, <1>6, <2>3 DEF PartsOK, Onward, Closed, HostCancelling, GuestCancelling,
                                  CryptoCancelling
  <2>8. PlaceOK(p, "host_paid", ch, cardGone[b])
    BY <1>6 DEF PlaceOK, Selecting, Charging, CryptoCancelling, GuestCancelling
  <2>9. Elsewhere(p.b)
    BY <1>1, <1>4, <1>6, <2>1 DEF Elsewhere, history
  <2>10. Flight(p, row'[b], ch, credited[b], debited[b], applied[b], cardGone[b], unsent[b])
    BY <2>2, <2>4, <2>5, <2>6, <2>7, <2>8 DEF Flight
  <2> QED
    BY <1>1, <1>2, <1>3, <1>4, <1>6, <2>9, <2>10, FlightStep DEF FlightNext, world, history
<1>7. CASE /\ p.pc = "charge_status" /\ UNCHANGED row /\ m.total > 0
           /\ p.inst.meta = [m EXCEPT !.charge = Len(ch) + 1]
           /\ \A c \in Bookings : c # b => charges'[c] = charges[c]
           /\ charges'[b] = Append(ch, [amount |-> m.total, refunded |-> 0])
  <2> DEFINE new == charges'[b]
             n == p.inst.meta
  <2>1. Len(new) = Len(ch) + 1 /\ new[Len(new)] = [amount |-> m.total, refunded |-> 0]
    <3>1. [amount |-> m.total, refunded |-> 0] \in [amount : Nat, refunded : Nat]
      BY <1>2 DEF Meta
    <3>2. ch \in Seq([amount : Nat, refunded : Nat])
      BY <1>2 DEF Values
    <3> HIDE DEF ch
    <3> QED
      BY <1>7, <3>1, <3>2, AppendProperties
  <2>2. /\ n.charge = Len(new) /\ n.credit = m.credit /\ n.bad = m.bad /\ n.card = m.card
        /\ n.currency = m.currency /\ n.total = m.total
    BY <1>2, <1>7, <2>1 DEF Meta
  <2>3. row[b].status = "host_approved" /\ m.card /\ ~m.bad
    BY <1>2 DEF FlightAt, Flight, PlaceOK, Charging
  <2> HIDE DEF new, n
  <2>4. Given(p, credited[b]) = Given(q, credited[b]) /\ ~Clears(p) /\ ~Clears(q) /\ p.todo = {}
    BY <1>2, <1>3, <2>2 DEF Onward, Given, Due, Stays, Clears, n
  <2>5. Agrees(p, row[b])
    BY <1>2, <1>3, <1>7, <2>2 DEF FlightAt, Flight, Agrees, Busy, n, Onward
  <2>6. ChargesOK("host_approved", n, new)
        /\ StatusOK("host_approved", n, new, credited[b], applied[b], cardGone[b])
    BY <1>2, <1>7, <2>1, <2>2, <2>3 DEF ChargesOK, StatusOK, Early
  <2>7. CreditOK(p, "host_approved", credited[b], debited[b], applied[b])
    BY <1>2, <1>3, <1>7, <2>2, <2>4 DEF FlightAt, Flight, CreditOK, Early
  <2>8. PartsOK(p, "host_approved", unsent[b])
    BY <1>2, <1>3, <1>7, <2>4 DEF PartsOK, Onward, Closed, HostCancelling, GuestCancelling,
                                  CryptoCancelling
  <2>9. PlaceOK(p, "host_approved", new, cardGone[b])
    BY <1>7, <2>2, <2>3 DEF PlaceOK, Selecting, Charging, CryptoCancelling, GuestCancelling,
                            HostCancelling, n
  <2>10. Elsewhere(p.b)
    BY <1>1, <1>4, <1>7 DEF Elsewhere, history
  <2>11. Flight(p, row[b], new, credited[b], debited[b], applied[b], cardGone[b], unsent[b])
    BY <2>3, <2>5, <2>6, <2>7, <2>8, <2>9 DEF Flight, n
  <2> QED
    BY <1>1, <1>2, <1>3, <1>4, <1>7, <2>10, <2>11, FlightStep DEF FlightNext, world, history, new
<1> QED
  BY <1>3, <1>5, <1>6, <1>7

LEMMA FlightDetails ==
  ASSUME Serial, Inv, Inv', SerialInv, NEW r \in Requests, ConfirmDetails(r)
  PROVE  SerialInv'
<1>1. /\ At(r, "confirm_details") /\ "confirm_details" \in Labels
      /\ UNCHANGED <<balance, charges, world, history>>
  BY LabelSet DEF ConfirmDetails
<1>2. CASE Save(r, req[r].inst, "idle")
  BY <1>2, FlightResaves
<1>3. CASE GoTo(r, "idle") /\ UNCHANGED row
  BY <1>1, <1>3, FlightGivesUp
<1> QED
  BY <1>2, <1>3 DEF ConfirmDetails

\* A handler ends with a save of its instance, whose status it may have set.
LEMMA FlightLastSave ==
  ASSUME Serial, Inv, Inv', SerialInv, NEW r \in Requests,
         NEW label \in Labels, label # "idle", At(r, label),
         label \notin {"charge_status", "charge_id", "guest_cancel_initiated", "confirm_status",
                   "reject_credit"},
         NEW inst \in Row, Save(r, inst, "idle"), inst.status # "none",
         UNCHANGED <<balance, charges, world, history>>,
         inst.meta.credit = req[r].inst.meta.credit, inst.meta.bad = req[r].inst.meta.bad,
         ChargesOK(inst.status, inst.meta, charges[req[r].b]),
         StatusOK(inst.status, inst.meta, charges[req[r].b], credited[req[r].b],
                  applied[req[r].b], cardGone[req[r].b]),
         inst.status \in Early => inst.status = req[r].inst.status,
         inst.status \in Closed => inst.meta.credit <= 0
  PROVE  SerialInv'
<1> DEFINE q == req[r]
           b == q.b
           s == inst.status
           ch == charges[b]
<1>1. /\ Busy(q) /\ q.todo = {} /\ ~q.dirty /\ q.pc = label /\ q \in Request /\ b \in Bookings
      /\ FlightAt(q) /\ q.inst \in Row
      /\ Values(row[b], ch, credited[b], debited[b], applied[b])
  BY AtFlight
<1>2. PICK p :
    /\ Onward(q, p) /\ Become(r, p)
    /\ \A c \in Bookings : c # b => row'[c] = row[c]
    /\ \/ row' = row /\ p.pc = "idle" /\ p.inst = q.inst
       \/ /\ p.pc = "idle" /\ p.inst = inst
          /\ row'[b].meta = inst.meta
          /\ row'[b].status = IF s # q.inst.status THEN s ELSE row[b].status
  <2>1. "idle" \in Labels
    BY LabelSet
  <2> QED
    BY <2>1, DidSave
<1>3. p \in Request /\ p.b = b /\ Elsewhere(p.b) /\ UNCHANGED cardGone
  BY <1>2 DEF Onward, Elsewhere, world, history
<1>4. CASE row' = row /\ p.pc = "idle" /\ p.inst = q.inst
  <2>1. Flight(p, row[b], ch, credited[b], debited[b], applied[b], cardGone[b], unsent[b])
    BY <1>1, <1>2, <1>4, FlightEnds DEF FlightAt
  <2> QED
    BY <1>1, <1>2, <1>3, <1>4, <2>1, FlightStep DEF FlightNext, world, history
<1>5. CASE /\ p.pc = "idle" /\ p.inst = inst /\ row'[b].meta = inst.meta
           /\ row'[b].status = IF s # q.inst.status THEN s ELSE row[b].status
  <2>1. row'[b].status = s /\ q.inst.status = row[b].status
    BY <1>1, <1>5 DEF FlightAt, Flight, Agrees
  <2>2. Given(p, credited[b]) = Given(q, credited[b]) /\ ~Clears(p) /\ ~Clears(q) /\ p.todo = {}
    BY <1>1, <1>2, <1>5 DEF Onward, Given, Due, Stays, Clears
  <2>3. Agrees(p, row'[b])
    BY <1>5, <2>1, <2>2 DEF Agrees, Busy
  <2>4. CreditOK(p, s, credited[b], debited[b], applied[b])
    BY <1>1, <1>5, <2>1, <2>2 DEF FlightAt, Flight, CreditOK, Early
  <2>5. PartsOK(p, s, unsent[b])
    BY <1>1, <1>2, <1>5, <2>2 DEF PartsOK, Onward, HostCancelling, GuestCancelling,
                                  CryptoCancelling
  <2>6. PlaceOK(p, s, ch, cardGone[b])
    BY <1>5 DEF PlaceOK, Selecting, Charging, CryptoCancelling, GuestCancelling
  <2>7. Flight(p, row'[b], ch, credited[b], debited[b], applied[b], cardGone[b], unsent[b])
    BY <1>5, <2>1, <2>3, <2>4, <2>5, <2>6 DEF Flight
  <2> QED
    BY <1>1, <1>2, <1>3, <2>7, FlightStep DEF FlightNext, world, history
<1> QED
  BY <1>2, <1>4, <1>5

LEMMA FlightSelects ==
  ASSUME Serial, Inv, Inv', SerialInv, NEW r \in Requests, SelectSave(r)
  PROVE  SerialInv'
<1> DEFINE q == req[r]
           b == q.b
<1>1. /\ At(r, "select_save") /\ "select_save" \in Labels
      /\ UNCHANGED <<balance, charges, world, history>>
  BY LabelSet DEF SelectSave
<1>2. PICK inst \in Row :
        /\ Save(r, inst, "idle") /\ inst.status = q.inst.status
        /\ inst.meta.credit = q.inst.meta.credit /\ inst.meta.bad = q.inst.meta.bad
        /\ inst.meta.charge = q.inst.meta.charge
  BY DidSelectSave
<1>3. FlightAt(q) /\ Busy(q) /\ ~q.dirty /\ q.pc = "select_save"
  BY <1>1, AtFlight
<1>4. row[b].status = "started" /\ q.inst.status = "started"
  BY <1>3 DEF FlightAt, Flight, PlaceOK, Agrees, Selecting
<1>5. ChargesOK("started", inst.meta, charges[b])
  BY <1>2, <1>3, <1>4 DEF FlightAt, Flight, ChargesOK, Early
<1>6. StatusOK("started", inst.meta, charges[b], credited[b], applied[b], cardGone[b])
  BY DEF StatusOK
<1> QED
  BY <1>1, <1>2, <1>4, <1>5, <1>6, FlightLastSave DEF Closed

LEMMA FlightCancelSaves ==
  ASSUME Serial, Inv, Inv', SerialInv, NEW r \in Requests,
         HostCancelSave(r) \/ GuestCancelSave(r)
  PROVE  SerialInv'
<1> DEFINE q == req[r]
           b == q.b
           ch == charges[b]
<1>1. PICK label \in {"host_cancel", "guest_cancel"},
           status \in {"host_cancelled", "guest_rejected", "guest_cancelled"} :
        /\ At(r, label) /\ Save(r, [q.inst EXCEPT !.status = status], "idle")
        /\ UNCHANGED <<balance, charges, world, history>>
        /\ (status = "host_cancelled") = (label = "host_cancel")
        /\ status = "guest_rejected" => q.free
  BY DEF HostCancelSave, GuestCancelSave
<1> DEFINE inst == [q.inst EXCEPT !.status = status]
<1>2. label \in Labels /\ status \in Statuses /\ status \notin Early
  BY LabelSet DEF Statuses, Early
<1>3. /\ FlightAt(q) /\ q.todo = {} /\ q.pc = label /\ q.inst \in Row
      /\ Values(row[b], ch, credited[b], debited[b], applied[b])
  BY <1>1, <1>2, AtFlight
<1>4. inst \in Row /\ inst.meta = q.inst.meta /\ inst.status = status
  BY <1>2, <1>3 DEF Row
<1> HIDE DEF inst
<1>5. q.inst.meta.credit <= 0
  BY <1>1, <1>3 DEF FlightAt, Flight, PartsOK, Clears, HostCancelling, GuestCancelling
<1>6. ChargesOK(status, q.inst.meta, ch)
  BY <1>2, <1>3 DEF FlightAt, Flight, ChargesOK
<1>7. StatusOK(status, q.inst.meta, ch, credited[b], applied[b], cardGone[b])
  <2>1. CASE status = "host_cancelled"
    BY <1>1, <1>3, <2>1 DEF FlightAt, Flight, PlaceOK, StatusOK
  <2>2. CASE status = "guest_rejected"
    <3>1. row[b].status \in Early /\ q.pc = "guest_cancel"
      BY <1>1, <1>3, <2>2 DEF FlightAt, Flight, PlaceOK, GuestCancelling
    <3>2. ch = << >>
      BY <1>3, <3>1 DEF FlightAt, Flight, ChargesOK
    <3>3. q.inst.meta.credit \in Nat \cup {Undefined}
      BY <1>3 DEF Row, Meta
    <3>4. Given(q, credited[b]) = credited[b]
      <4>1. Pos(q.inst.meta.credit) = 0 /\ credited[b] \in Nat
        BY <1>3, <1>5, <3>3, PosType DEF Values
      <4>2. Due(q) = 0 /\ Stays(q) = 0
        BY <1>3, <4>1 DEF Due, Stays, Clears
      <4> QED
        BY <4>1, <4>2 DEF Given
    <3>5. Given(q, credited[b]) = applied[b]
      BY <1>3, <3>1 DEF FlightAt, Flight, CreditOK
    <3> QED
      BY <2>2, <3>2, <3>4, <3>5 DEF StatusOK
  <2>3. CASE status = "guest_cancelled"
    BY <2>3 DEF StatusOK
  <2> QED
    BY <2>1, <2>2, <2>3
<1>8. Save(r, inst, "idle")
  BY <1>1 DEF inst
<1>9. status # "none"
  BY <1>2 DEF Statuses
<1> QED
  BY <1>1, <1>2, <1>4, <1>5, <1>6, <1>7, <1>8, <1>9, FlightLastSave

\* After Stripe has given back some of the charge, or had nothing to give back.
LEMMA FlightRefunded ==
  ASSUME NEW q \in Request, NEW p, Onward(q, p), q.todo = {}, ~q.dirty,
         q.pc \in {"host_refund", "guest_refund"},
         p.pc \in HostCancelling \cup GuestCancelling,
         p.inst.status = q.inst.status,
         NEW refund, q.inst.meta \in Meta, p.inst.meta = [q.inst.meta EXCEPT !.refund = refund],
         NEW rw, NEW ch, NEW new, NEW cr, NEW db, NEW ap, NEW gone, NEW un,
         Flight(q, rw, ch, cr, db, ap, gone, un),
         ChargesOK(rw.status, q.inst.meta, new),
         StatusOK(rw.status, q.inst.meta, new, cr, ap, gone),
         PlaceOK(p, rw.status, new, gone)
  PROVE  Flight(p, rw, new, cr, db, ap, gone, un)
<1> DEFINE m == q.inst.meta
           n == p.inst.meta
<1>1. /\ n.currency = m.currency /\ n.total = m.total /\ n.credit = m.credit /\ n.card = m.card
      /\ n.charge = m.charge /\ n.bad = m.bad
  BY DEF Meta
<1>2. Given(p, cr) = Given(q, cr) /\ ~Clears(p) /\ ~Clears(q) /\ p.todo = {}
  BY <1>1 DEF Onward, Given, Due, Stays, Clears
<1>3. q.pc \notin {"charge_status", "charge_id", "confirm_status", "guest_cancel_initiated",
                   "reject_credit"}
      /\ p.pc \notin {"confirm_status", "guest_cancel_initiated", "reject_save", "reject_credit"}
      /\ Busy(q)
  BY DEF HostCancelling, GuestCancelling, Busy
<1>4. Agrees(p, rw)
  BY <1>1, <1>3 DEF Flight, Agrees, Onward
<1>5. ChargesOK(rw.status, n, new) /\ StatusOK(rw.status, n, new, cr, ap, gone)
  BY <1>1 DEF ChargesOK, StatusOK
<1>6. CreditOK(p, rw.status, cr, db, ap)
  BY <1>1, <1>2, <1>3 DEF Flight, CreditOK
<1>7. PartsOK(p, rw.status, un)
  BY <1>1, <1>2, <1>3 DEF Flight, PartsOK, Onward, HostCancelling, GuestCancelling
<1> QED
  BY <1>4, <1>5, <1>6, <1>7 DEF Flight

\* A refund of the last charge.
LEMMA RefundOfLast ==
  ASSUME NEW ch \in Seq([amount : Nat, refunded : Nat]), NEW id, id \in DOMAIN ch,
         id = Len(ch), NEW amount \in Nat, amount > 0, NEW new,
         ch[id].refunded + amount <= ch[id].amount,
         new = Refunded(ch, id, amount)
  PROVE  /\ ch # << >> /\ new # << >> /\ Len(new) = id
         /\ new[id].amount = ch[id].amount
         /\ ~Repaid(ch)
         /\ amount = ch[id].amount => Repaid(new)
<1> DEFINE last == [ch[id] EXCEPT !.refunded = @ + amount]
<1>1. DOMAIN ch = 1..Len(ch) /\ Len(ch) \in Nat
  BY LenProperties
<1>2. id \in 1..Len(ch) /\ ch[id] \in [amount : Nat, refunded : Nat]
  BY <1>1, ElementOfSeq, Zenon
<1>3. /\ last \in [amount : Nat, refunded : Nat]
      /\ last.amount = ch[id].amount /\ last.refunded = ch[id].refunded + amount
  <2> DEFINE c == ch[id]
  <2>1. c \in [amount : Nat, refunded : Nat]
    BY <1>2
  <2> HIDE DEF c
  <2>2. /\ [c EXCEPT !.refunded = @ + amount] \in [amount : Nat, refunded : Nat]
        /\ [c EXCEPT !.refunded = @ + amount].amount = c.amount
        /\ [c EXCEPT !.refunded = @ + amount].refunded = c.refunded + amount
    BY <2>1
  <2> QED
    BY <2>2 DEF c
<1>4. new = [ch EXCEPT ![id] = last]
  BY DEF Refunded
<1> HIDE DEF last
<1>5. new \in Seq([amount : Nat, refunded : Nat]) /\ Len(new) = Len(ch) /\ new[id] = last
  BY <1>1, <1>2, <1>3, <1>4, ExceptSeq
<1>6. ch # << >> /\ new # << >>
  BY <1>1, <1>2, <1>5, EmptySeq
<1>7. ~Repaid(ch)
  BY <1>2 DEF Repaid
<1>8. ASSUME amount = ch[id].amount
      PROVE  Repaid(new)
  <2>1. ch[id].refunded = 0
    BY <1>2, <1>8
  <2>2. last.refunded = last.amount
    BY <1>3, <1>8, <2>1
  <2> QED
    BY <1>5, <2>2 DEF Repaid
<1> QED
  BY <1>3, <1>5, <1>6, <1>7, <1>8

LEMMA FlightRefunds ==
  ASSUME Serial, Inv, Inv', SerialInv, NEW r \in Requests, HostRefund(r) \/ GuestRefund(r)
  PROVE  SerialInv'
<1> DEFINE q == req[r]
           b == q.b
           s == row[b].status
           m == q.inst.meta
           ch == charges[b]
           host == At(r, "host_refund")
           noted == IF host THEN "host_refund_id" ELSE "guest_refund_id"
           next == IF host THEN "host_cancel" ELSE "guest_cancel"
           amount == IF host THEN CancelRefundForHost(q.inst.status, m.total)
                     ELSE CancelRefundForGuest(q.inst.status, late[b], m.total)
<1>1. PICK label \in {"host_refund", "guest_refund"} :
        /\ At(r, label) /\ StripeRefund(r, amount, noted, next)
        /\ UNCHANGED <<row, balance, world, history>>
        /\ label = "host_refund" <=> host
  BY DEF HostRefund, GuestRefund, At
<1>2. {"host_refund", "guest_refund", "host_refund_id", "guest_refund_id", "host_cancel",
       "guest_cancel"} \subseteq Labels
  BY LabelSet
<1>3. /\ FlightAt(q) /\ q.todo = {} /\ q.pc = label /\ q.inst \in Row /\ q \in Request
      /\ ~q.dirty /\ Busy(q) /\ b \in Bookings /\ m \in Meta
      /\ Values(row[b], ch, credited[b], debited[b], applied[b])
  BY <1>1, <1>2, AtFlight
<1>4. amount \in Nat
  BY <1>3, AmountTypes DEF Meta
<1>5. q.inst.status = s /\ s # "none"
  BY <1>3 DEF FlightAt, Flight, Agrees
<1>6. /\ noted \in Labels /\ next \in Labels
      /\ {noted, next} \subseteq HostCancelling \cup GuestCancelling
  BY <1>2 DEF HostCancelling, GuestCancelling
<1>7. /\ host /\ amount = 0 => ch = << >>
      /\ host /\ amount > 0 => amount = m.total
  <2>1. ChargesOK(s, m, ch)
    BY <1>3 DEF FlightAt, Flight
  <2>2. /\ ch # << >> => s # "guest_confirmed" /\ m.total > 0
        /\ m.total \in Int
    BY <1>3, <2>1 DEF ChargesOK, Early, Meta
  <2>3. host => amount = IF s = "guest_confirmed" THEN 0 ELSE m.total
    BY <1>5 DEF CancelRefundForHost
  <2> HIDE DEF amount, host
  <2> QED
    BY <2>2, <2>3
<1>8. ~host /\ amount > 0 => s \notin Early
  BY <1>5 DEF CancelRefundForGuest, CancelStatus, Early
<1>9. /\ noted = "host_refund_id" \/ next = "host_cancel" => host
      /\ host => next = "host_cancel" /\ noted = "host_refund_id"
      /\ ~host => next = "guest_cancel" /\ noted = "guest_refund_id"
      /\ ~host => q.pc = "guest_refund"
  BY <1>1, <1>3
<1> HIDE DEF noted, next, amount, host
<1>10. PICK p :
    /\ Onward(q, p) /\ Become(r, p) /\ p.inst.status = q.inst.status
    /\ \/ amount = 0 /\ p.pc = next /\ p.inst = q.inst /\ UNCHANGED charges
       \/ amount > 0 /\ p.pc = "idle" /\ p.inst = q.inst /\ UNCHANGED charges
       \/ p.pc = noted /\ Refunds(r, p, amount)
  BY <1>1, <1>4, <1>6, DidRefund
<1>11. p \in Request /\ p.b = b /\ p.free = q.free
  BY <1>10 DEF Onward
<1>12. UNCHANGED cardGone
       /\ \A c \in Bookings : /\ row'[c] = row[c] /\ applied'[c] = applied[c]
                              /\ debited'[c] = debited[c] /\ credited'[c] = credited[c]
                              /\ reconfirmed'[c] = reconfirmed[c] /\ unsent'[c] = unsent[c]
  BY <1>1 DEF world, history
<1>13. CASE amount = 0 /\ p.pc = next /\ p.inst = q.inst /\ UNCHANGED charges
  <2>1. PlaceOK(p, s, ch, cardGone[b])
    BY <1>3, <1>7, <1>9, <1>11, <1>13 DEF FlightAt, Flight, PlaceOK, Selecting, Charging,
       CryptoCancelling, GuestCancelling
  <2>2. p.inst.meta = [m EXCEPT !.refund = m.refund]
    BY <1>3, <1>13 DEF Meta
  <2>3. ChargesOK(s, m, ch) /\ StatusOK(s, m, ch, credited[b], applied[b], cardGone[b])
    BY <1>3 DEF FlightAt, Flight
  <2>4. Flight(p, row[b], ch, credited[b], debited[b], applied[b], cardGone[b], unsent[b])
    BY <1>1, <1>3, <1>6, <1>10, <1>13, <2>1, <2>2, <2>3, FlightRefunded DEF FlightAt
  <2>5. Elsewhere(p.b)
    BY <1>12, <1>13 DEF Elsewhere
  <2> QED
    BY <1>3, <1>10, <1>11, <1>12, <1>13, <2>4, <2>5, FlightStep DEF FlightNext
<1>14. CASE amount > 0 /\ p.pc = "idle" /\ p.inst = q.inst /\ UNCHANGED charges
  <2>1. Flight(p, row[b], ch, credited[b], debited[b], applied[b], cardGone[b], unsent[b])
    BY <1>3, <1>10, <1>14, FlightEnds DEF FlightAt
  <2>2. Elsewhere(p.b)
    BY <1>12, <1>14 DEF Elsewhere
  <2> QED
    BY <1>3, <1>10, <1>11, <1>12, <1>14, <2>1, <2>2, FlightStep DEF FlightNext
<1>15. CASE p.pc = noted /\ Refunds(r, p, amount)
  <2> DEFINE new == charges'[b]
             id == m.charge
  <2>1. /\ id \in DOMAIN ch /\ ch[id].refunded + amount <= ch[id].amount /\ amount > 0
        /\ \A c \in Bookings : c # b => charges'[c] = charges[c]
        /\ new = Refunded(ch, id, amount)
        /\ p.inst.meta = [m EXCEPT !.refund = amount]
    BY <1>15 DEF Refunds
  <2>2. id = Len(ch) /\ ch \in Seq([amount : Nat, refunded : Nat])
    BY <1>3 DEF FlightAt, Flight, ChargesOK, Values
  <2> HIDE DEF new
  <2>3. /\ ch # << >> /\ new # << >> /\ Len(new) = id
        /\ new[id].amount = ch[id].amount /\ ~Repaid(ch)
        /\ amount = ch[id].amount => Repaid(new)
    <3>1. /\ ch \in Seq([amount : Nat, refunded : Nat]) /\ id \in DOMAIN ch /\ id = Len(ch)
          /\ amount \in Nat /\ amount > 0 /\ ch[id].refunded + amount <= ch[id].amount
          /\ new = Refunded(ch, id, amount)
      BY <1>4, <2>1, <2>2
    <3> HIDE DEF ch, id
    <3> QED
      BY <3>1, RefundOfLast
  <2>4. /\ s \notin Early /\ ~m.bad /\ m.card /\ m.currency = "USD" /\ m.total > 0
        /\ ch[id].amount = m.total /\ (m.bad => m.credit = Undefined)
    BY <1>3, <2>2, <2>3 DEF FlightAt, Flight, ChargesOK
  <2>7. ChargesOK(s, m, new)
    BY <2>3, <2>4 DEF ChargesOK
  <2>8. host => Repaid(new)
    BY <1>7, <2>1, <2>3, <2>4
  <2>9. ~(s = "host_cancelled" /\ ~cardGone[b])
    BY <1>3, <2>3, <2>4 DEF FlightAt, Flight, StatusOK
  <2>10. s # "guest_rejected"
    BY <1>3, <2>3 DEF FlightAt, Flight, StatusOK
  <2>11. StatusOK(s, m, new, credited[b], applied[b], cardGone[b])
    BY <2>8, <2>9, <2>10 DEF StatusOK
  <2>12. PlaceOK(p, s, new, cardGone[b])
    BY <1>3, <1>9, <1>11, <1>15, <2>8 DEF FlightAt, Flight, PlaceOK, Selecting, Charging,
       CryptoCancelling, GuestCancelling
  <2>13. Flight(p, row[b], new, credited[b], debited[b], applied[b], cardGone[b], unsent[b])
    <3>1. p.pc \in HostCancelling \cup GuestCancelling /\ q.pc \in {"host_refund", "guest_refund"}
      BY <1>1, <1>3, <1>6, <1>15
    <3>2. Flight(q, row[b], ch, credited[b], debited[b], applied[b], cardGone[b], unsent[b])
      BY <1>3 DEF FlightAt
    <3>3. p.inst.meta = [m EXCEPT !.refund = amount] /\ m \in Meta
      BY <1>3, <2>1
    <3> HIDE DEF m, ch, b
    <3> QED
      BY <1>3, <1>10, <2>7, <2>11, <2>12, <3>1, <3>2, <3>3, FlightRefunded DEF m
  <2>14. Elsewhere(p.b)
    BY <1>11, <1>12, <2>1 DEF Elsewhere
  <2> QED
    BY <1>3, <1>10, <1>11, <1>12, <2>13, <2>14, FlightStep DEF FlightNext, new
<1> QED
  BY <1>10, <1>13, <1>14, <1>15

LEMMA FlightRejects ==
  ASSUME Serial, Inv, Inv', SerialInv, NEW r \in Requests, RejectSave(r)
  PROVE  SerialInv'
<1> DEFINE q == req[r]
           b == q.b
           s == row[b].status
           m == q.inst.meta
           ch == charges[b]
           inst == [q.inst EXCEPT !.status = "host_rejected"]
<1>1. /\ At(r, "reject_save") /\ {"reject_save", "reject_credit"} \subseteq Labels
      /\ Save(r, inst, "reject_credit")
      /\ UNCHANGED <<balance, charges, world, history>>
  BY LabelSet DEF RejectSave
<1>2. /\ Busy(q) /\ q.todo = {} /\ ~q.dirty /\ q.pc = "reject_save" /\ q \in Request
      /\ b \in Bookings /\ FlightAt(q) /\ m \in Meta /\ q.inst \in Row
      /\ Values(row[b], ch, credited[b], debited[b], applied[b])
  BY <1>1, AtFlight
<1>3. inst \in Row /\ inst.meta = m /\ inst.status = "host_rejected"
  BY <1>2 DEF Row, Statuses
<1> HIDE DEF inst
<1>4. PICK p :
    /\ Onward(q, p) /\ Become(r, p)
    /\ \A c \in Bookings : c # b => row'[c] = row[c]
    /\ \/ row' = row /\ p.pc = "idle" /\ p.inst = q.inst
       \/ /\ p.pc = "reject_credit" /\ p.inst = inst /\ row'[b].meta = m
          /\ row'[b].status = IF "host_rejected" # q.inst.status THEN "host_rejected" ELSE s
  BY <1>1, <1>3, DidSave
<1>5. p \in Request /\ p.b = b /\ Elsewhere(p.b) /\ UNCHANGED cardGone
  BY <1>1, <1>4 DEF Onward, Elsewhere, world, history
<1>6. CASE row' = row /\ p.pc = "idle" /\ p.inst = q.inst
  <2>1. Flight(p, row[b], ch, credited[b], debited[b], applied[b], cardGone[b], unsent[b])
    BY <1>2, <1>4, <1>6, FlightEnds DEF FlightAt
  <2> QED
    BY <1>1, <1>2, <1>4, <1>5, <1>6, <2>1, FlightStep DEF FlightNext, world, history
<1>7. CASE /\ p.pc = "reject_credit" /\ p.inst = inst /\ row'[b].meta = m
           /\ row'[b].status = IF "host_rejected" # q.inst.status THEN "host_rejected" ELSE s
  <2>1. row'[b].status = "host_rejected"
    BY <1>2, <1>7 DEF FlightAt, Flight, Agrees
  <2>2. Given(p, credited[b]) = Given(q, credited[b]) /\ ~Clears(p) /\ ~Clears(q) /\ p.todo = {}
    BY <1>2, <1>3, <1>4, <1>7 DEF Onward, Given, Due, Stays, Clears
  <2>3. Agrees(p, row'[b])
    BY <1>3, <1>7, <2>1 DEF Agrees
  <2>4. ChargesOK("host_rejected", m, ch)
        /\ StatusOK("host_rejected", m, ch, credited[b], applied[b], cardGone[b])
    BY <1>2 DEF FlightAt, Flight, ChargesOK, StatusOK, Early
  <2>5. CreditOK(p, "host_rejected", credited[b], debited[b], applied[b])
    BY <1>2, <2>2 DEF FlightAt, Flight, CreditOK, Early
  <2>6. PartsOK(p, "host_rejected", unsent[b])
    BY <1>2, <1>4, <1>7, <2>2 DEF FlightAt, Flight, PartsOK, Onward, HostCancelling,
                                  GuestCancelling, CryptoCancelling
  <2>7. PlaceOK(p, "host_rejected", ch, cardGone[b])
    BY <1>7 DEF PlaceOK, Selecting, Charging, CryptoCancelling, GuestCancelling
  <2>8. Flight(p, row'[b], ch, credited[b], debited[b], applied[b], cardGone[b], unsent[b])
    BY <1>3, <1>7, <2>1, <2>3, <2>4, <2>5, <2>6, <2>7 DEF Flight
  <2> QED
    BY <1>1, <1>2, <1>4, <1>5, <2>8, FlightStep DEF FlightNext, world, history
<1> QED
  BY <1>4, <1>6, <1>7

\* The mail about the rejection was sent, and the credit is given back.
LEMMA FlightRejectCredit ==
  ASSUME Serial, Inv, Inv', SerialInv, NEW r \in Requests, RejectCredit(r)
  PROVE  SerialInv'
<1> DEFINE q == req[r]
           b == q.b
           s == row[b].status
           m == q.inst.meta
           ch == charges[b]
<1>1. /\ At(r, "reject_credit") /\ "reject_credit" \in Labels
      /\ unsent' = [unsent EXCEPT ![b] = FALSE] /\ unsent \in [Bookings -> BOOLEAN]
      /\ UNCHANGED <<row, balance, charges, world, applied, debited, credited, reconfirmed>>
  BY LabelSet DEF RejectCredit, Inv, RestOK
<1>2. /\ Busy(q) /\ q.todo = {} /\ ~q.dirty /\ q.pc = "reject_credit" /\ q \in Request
      /\ b \in Bookings /\ FlightAt(q) /\ m \in Meta
      /\ Values(row[b], ch, credited[b], debited[b], applied[b])
  BY <1>1, AtFlight
<1>3. PICK p \in Request :
    /\ Become(r, p) /\ p.b = b /\ p.pc = "idle" /\ p.put = q.put
    /\ p.dirty = q.dirty /\ p.free = q.free /\ p.inst = q.inst
    /\ "save" \notin p.todo /\ p.amt = Pos(m.credit)
    /\ "money" \in p.todo <=> m.credit > 0
    /\ "meta" \in p.todo <=> m.credit > 0
  BY DidRejectCredit
<1>4. Elsewhere(p.b) /\ UNCHANGED cardGone
  BY <1>1, <1>3 DEF Elsewhere, world
<1>5. q.put = 0 /\ ~Clears(q) /\ s = "host_rejected" /\ ChargesOK(s, m, ch)
      /\ StatusOK(s, m, ch, credited[b], applied[b], cardGone[b])
      /\ CreditOK(q, s, credited[b], debited[b], applied[b])
  BY <1>2 DEF FlightAt, Flight, PartsOK, PlaceOK, Clears
<1>6. m.credit \in Nat \cup {Undefined} /\ Pos(m.credit) \in Nat /\ credited[b] \in Nat
      /\ (m.credit <= 0 => Pos(m.credit) = 0) /\ Pos(Pos(m.credit)) = Pos(m.credit)
  <2>1. m.credit \in Nat \cup {Undefined}
    BY <1>2 DEF Meta
  <2> QED
    BY <1>2, <2>1, PosType DEF Values, Pos
<1>7. Given(q, credited[b]) = credited[b] + Pos(m.credit)
  BY <1>2, <1>5, <1>6 DEF Given, Due, Stays
<1>8. Clears(p) <=> m.credit > 0
  BY <1>3, <1>5 DEF Clears
<1>9. Given(p, credited[b]) = credited[b] + Pos(m.credit)
  <2>1. m.credit > 0 \/ m.credit <= 0
    BY <1>6 DEF Undefined
  <2> QED
    BY <1>3, <1>6, <1>8, <2>1 DEF Given, Due, Stays, Undefined
<1>10. Agrees(p, row[b])
  BY <1>2, <1>3 DEF FlightAt, Flight, Agrees
<1>11. CreditOK(p, s, credited[b], debited[b], applied[b])
  BY <1>3, <1>5, <1>6, <1>7, <1>9 DEF CreditOK, Early
<1>12. PartsOK(p, s, FALSE)
  BY <1>2, <1>3, <1>5, <1>6, <1>8 DEF PartsOK, Undefined, HostCancelling, GuestCancelling,
                                      CryptoCancelling
<1>13. PlaceOK(p, s, ch, cardGone[b])
  BY <1>3 DEF PlaceOK, Selecting, Charging, CryptoCancelling, GuestCancelling
<1>14. Flight(p, row[b], ch, credited[b], debited[b], applied[b], cardGone[b], FALSE)
  BY <1>3, <1>5, <1>10, <1>11, <1>12, <1>13 DEF Flight
<1>15. unsent'[b] = FALSE
  BY <1>1, <1>2
<1> QED
  BY <1>1, <1>2, <1>3, <1>4, <1>14, <1>15, FlightStep DEF FlightNext, world

\* A mail between two writes failed.
LEMMA FlightNotice ==
  ASSUME Serial, Inv, Inv', SerialInv, NEW r \in Requests, NoticeFails(r)
  PROVE  SerialInv'
<1> DEFINE q == req[r]
           b == q.b
           s == row[b].status
           ch == charges[b]
           un == unsent[b] \/ q.pc = "reject_credit"
<1>1. PICK label \in {"reject_credit", "refund_initiated", "guest_cancel_initiated"} :
        At(r, label)
  BY DEF NoticeFails
<1>2. /\ GoTo(r, "idle")
      /\ unsent' = [unsent EXCEPT ![b] = un] /\ unsent \in [Bookings -> BOOLEAN]
      /\ UNCHANGED <<row, balance, charges, world, applied, debited, credited, reconfirmed>>
  BY DEF NoticeFails, Inv, RestOK
<1>3. label \in Labels /\ "idle" \in Labels
  BY LabelSet
<1>4. /\ Busy(q) /\ q.todo = {} /\ ~q.dirty /\ q.pc = label /\ q \in Request
      /\ b \in Bookings /\ FlightAt(q)
      /\ Values(row[b], ch, credited[b], debited[b], applied[b])
  BY <1>1, <1>3, AtFlight
<1>5. PICK p : Onward(q, p) /\ p.pc = "idle" /\ p.inst = q.inst /\ Become(r, p)
  BY <1>2, <1>3, DidGo
<1>6. p \in Request /\ p.b = b /\ Elsewhere(p.b) /\ UNCHANGED cardGone
  BY <1>2, <1>5 DEF Onward, Elsewhere, world
<1>7. Given(p, credited[b]) = Given(q, credited[b]) /\ ~Clears(p) /\ ~Clears(q) /\ p.todo = {}
  BY <1>4, <1>5 DEF Onward, Given, Due, Stays, Clears
<1>8. Agrees(p, row[b])
  BY <1>4, <1>5 DEF FlightAt, Flight, Agrees, Busy, Onward
<1>9. q.pc = "guest_cancel_initiated" => s \notin Early
  BY <1>4 DEF FlightAt, Flight, PlaceOK
<1>10. CreditOK(p, s, credited[b], debited[b], applied[b])
  BY <1>4, <1>7, <1>9 DEF FlightAt, Flight, CreditOK
<1>11. PartsOK(p, s, un)
  BY <1>4, <1>5, <1>7 DEF FlightAt, Flight, PartsOK, Onward, HostCancelling, GuestCancelling,
                          CryptoCancelling
<1>12. PlaceOK(p, s, ch, cardGone[b])
  BY <1>5 DEF PlaceOK, Selecting, Charging, CryptoCancelling, GuestCancelling
<1>13. Flight(p, row[b], ch, credited[b], debited[b], applied[b], cardGone[b], un)
  BY <1>4, <1>5, <1>8, <1>10, <1>11, <1>12 DEF FlightAt, Flight
<1>14. unsent'[b] = un
  BY <1>2, <1>4
<1> HIDE DEF un
<1> QED
  BY <1>2, <1>4, <1>5, <1>6, <1>13, <1>14, FlightStep DEF FlightNext, world

LEMMA FlightSavePart ==
  ASSUME Serial, Inv, Inv', SerialInv, NEW r \in Requests, SavePart(r)
  PROVE  SerialInv'
<1> DEFINE q == req[r]
           b == q.b
           s == row[b].status
           m == q.inst.meta
           ch == charges[b]
<1>1. "save" \in q.todo /\ UNCHANGED <<balance, charges, world, history>> /\ Busy(q)
  BY DEF SavePart, Busy
<1>2. /\ q \in Request /\ b \in Bookings /\ FlightAt(q) /\ m \in Meta /\ row[b] \in Row
      /\ credited[b] \in Nat /\ debited[b] \in Nat /\ applied[b] \in Nat
  BY <1>1, InFlight
<1>3. PICK p \in Request, status \in {"host_cancelled", "guest_cancelled"} :
    /\ p.b = b /\ p.put = q.put /\ p.amt = q.amt /\ p.free = q.free
    /\ p.todo = q.todo \ {"save"} /\ Become(r, p)
    /\ p.inst.meta = m /\ p.inst.status = status
    /\ \A c \in Bookings : c # b => row'[c] = row[c]
    /\ \/ /\ m.bad /\ row' = row /\ p.pc = "idle"
          /\ p.dirty <=> status # q.inst.status
       \/ /\ ~m.bad /\ p.pc = q.pc /\ p.dirty = q.dirty /\ row'[b].meta = m
          /\ row'[b].status = IF status # q.inst.status THEN status ELSE s
  BY DidSavePart
<1>4. Elsewhere(p.b) /\ UNCHANGED cardGone
  BY <1>1, <1>3 DEF Elsewhere, world, history
<1>5. /\ Agrees(q, row[b]) /\ ChargesOK(s, m, ch)
      /\ StatusOK(s, m, ch, credited[b], applied[b], cardGone[b])
      /\ CreditOK(q, s, credited[b], debited[b], applied[b]) /\ PartsOK(q, s, unsent[b])
      /\ PlaceOK(q, s, ch, cardGone[b])
  BY <1>2 DEF FlightAt, Flight
<1>6. /\ q.put = 0 /\ q.pc \in CryptoCancelling /\ ~q.dirty /\ m.currency \in Crypto
      /\ m.credit <= 0 \/ Clears(q)
  BY <1>1, <1>5 DEF PartsOK, PlaceOK
<1>7. q.inst.status = s /\ s # "none" /\ q.pc # "confirm_status"
  BY <1>1, <1>5, <1>6 DEF Agrees, CryptoCancelling
<1>8. ch = << >>
  BY <1>5, <1>6 DEF ChargesOK, Crypto
<1>9. /\ Given(p, credited[b]) = Given(q, credited[b]) /\ Clears(p) = Clears(q)
      /\ "save" \notin p.todo /\ "money" \in p.todo => "money" \in q.todo
  BY <1>3 DEF Given, Due, Stays, Clears
<1>10. CASE m.bad /\ row' = row /\ p.pc = "idle" /\ (p.dirty <=> status # q.inst.status)
  <2>1. Agrees(p, row[b])
    BY <1>3, <1>5, <1>6, <1>7, <1>10 DEF Agrees, CryptoCancelling
  <2>2. CreditOK(p, s, credited[b], debited[b], applied[b])
    BY <1>3, <1>5, <1>7, <1>9, <1>10 DEF CreditOK
  <2>3. PartsOK(p, s, unsent[b])
    BY <1>3, <1>6, <1>9, <1>10 DEF PartsOK
  <2>4. PlaceOK(p, s, ch, cardGone[b])
    BY <1>10 DEF PlaceOK, Selecting, Charging, CryptoCancelling, GuestCancelling
  <2>5. Flight(p, row[b], ch, credited[b], debited[b], applied[b], cardGone[b], unsent[b])
    BY <1>3, <1>5, <2>1, <2>2, <2>3, <2>4 DEF Flight
  <2> QED
    BY <1>1, <1>3, <1>4, <1>10, <2>5, FlightStep DEF FlightNext, world, history
<1>11. CASE /\ ~m.bad /\ p.pc = q.pc /\ p.dirty = q.dirty /\ row'[b].meta = m
            /\ row'[b].status = IF status # q.inst.status THEN status ELSE s
  <2>1. row'[b].status = status
    BY <1>7, <1>11
  <2>2. Agrees(p, row'[b])
    BY <1>3, <1>6, <1>11, <2>1 DEF Agrees, CryptoCancelling
  <2>3. ChargesOK(status, m, ch) /\ StatusOK(status, m, ch, credited[b], applied[b], cardGone[b])
    BY <1>5, <1>8 DEF ChargesOK, StatusOK
  <2>4. CreditOK(p, status, credited[b], debited[b], applied[b])
    BY <1>3, <1>5, <1>9, <1>11 DEF CreditOK, Early
  <2>5. PartsOK(p, status, unsent[b])
    BY <1>3, <1>6, <1>9, <1>11 DEF PartsOK
  <2>6. PlaceOK(p, status, ch, cardGone[b])
    BY <1>3, <1>6, <1>11 DEF PlaceOK, Selecting, Charging, CryptoCancelling, GuestCancelling, Early
  <2>7. Flight(p, row'[b], ch, credited[b], debited[b], applied[b], cardGone[b], unsent[b])
    BY <1>3, <2>1, <2>2, <2>3, <2>4, <2>5, <2>6 DEF Flight
  <2> QED
    BY <1>1, <1>3, <1>4, <2>7, FlightStep DEF FlightNext, world, history
<1> QED
  BY <1>3, <1>10, <1>11

LEMMA FlightMetaPart ==
  ASSUME Serial, Inv, Inv', SerialInv, NEW r \in Requests, MetaPart(r)
  PROVE  SerialInv'
<1> DEFINE q == req[r]
           b == q.b
           s == row[b].status
           m == q.inst.meta
           ch == charges[b]
           t == row'[b].status
<1>1. /\ "meta" \in q.todo /\ "save" \notin q.todo
      /\ UNCHANGED <<balance, charges, world, history>> /\ Busy(q)
  BY DEF MetaPart, Busy
<1>2. /\ q \in Request /\ b \in Bookings /\ FlightAt(q) /\ m \in Meta /\ row[b] \in Row
      /\ credited[b] \in Nat /\ debited[b] \in Nat /\ applied[b] \in Nat
      /\ q.dirty => q.pc = "idle" /\ q.inst.status \in {"host_cancelled", "guest_cancelled"}
  BY <1>1, InFlight
<1>3. PICK p \in Request :
    /\ p.b = b /\ p.put = q.put /\ p.amt = q.amt /\ p.free = q.free
    /\ p.pc = q.pc /\ p.dirty = q.dirty /\ p.todo = q.todo \ {"meta"} /\ Become(r, p)
    /\ p.inst.status = q.inst.status
    /\ p.inst.meta = [m EXCEPT !.credit = q.put, !.bad = (q.put = Undefined)]
    /\ \A c \in Bookings : c # b => row'[c] = row[c]
    /\ row'[b].meta = p.inst.meta
    /\ t = IF q.dirty THEN q.inst.status ELSE s
  BY DidMetaPart
<1> DEFINE n == p.inst.meta
<1>4. Elsewhere(p.b) /\ UNCHANGED cardGone
  BY <1>1, <1>3 DEF Elsewhere, world, history
<1>5. /\ Agrees(q, row[b]) /\ ChargesOK(s, m, ch)
      /\ StatusOK(s, m, ch, credited[b], applied[b], cardGone[b])
      /\ CreditOK(q, s, credited[b], debited[b], applied[b]) /\ PartsOK(q, s, unsent[b])
      /\ PlaceOK(q, s, ch, cardGone[b])
  BY <1>2 DEF FlightAt, Flight
<1>6. /\ n.currency = m.currency /\ n.total = m.total /\ n.card = m.card /\ n.charge = m.charge
      /\ n.credit = q.put
      /\ n.bad <=> q.put = Undefined
  BY <1>2, <1>3 DEF Meta
<1> HIDE DEF n, t
<1>7. \/ q.put = 0 /\ ~n.bad
      \/ /\ q.put # 0 /\ q.put = m.credit /\ s = "started" /\ q.pc \in {"confirm_status", "idle"}
         /\ ~q.dirty
  BY <1>1, <1>5, <1>6 DEF PartsOK, Undefined
<1>8. q.dirty => ch = << >> /\ n.currency \in Crypto /\ t \in {"host_cancelled", "guest_cancelled"}
  BY <1>2, <1>3, <1>5, <1>6 DEF PartsOK, ChargesOK, Crypto
<1>9. ~q.dirty => t = s /\ q.inst.status = s
  BY <1>1, <1>3, <1>5 DEF Agrees
<1>10. /\ "meta" \notin p.todo /\ "save" \notin p.todo /\ ~Clears(p)
       /\ "money" \in p.todo <=> "money" \in q.todo
  BY <1>1, <1>3 DEF Clears
<1>11. Stays(p) = Stays(q)
  <2>1. CASE q.put = 0
    BY <1>1, <1>6, <1>10, <2>1 DEF Stays, Clears, Pos, n
  <2>2. CASE q.put # 0
    BY <1>6, <1>7, <1>10, <2>2 DEF Stays, Clears, n
  <2> QED
    BY <2>1, <2>2
<1>12. Given(p, credited[b]) = Given(q, credited[b])
  BY <1>3, <1>10, <1>11 DEF Given, Due
<1>13. Agrees(p, row'[b])
  <2>1. t # "none"
    BY <1>5, <1>8, <1>9 DEF Agrees
  <2>2. p.dirty \/ p.inst.status = t
    BY <1>3, <1>9
  <2> QED
    BY <1>3, <2>1, <2>2 DEF Agrees, t
<1>14. ChargesOK(t, n, ch)
  <2>1. n.charge = Len(ch) /\ (n.bad => n.credit = Undefined)
    BY <1>5, <1>6 DEF ChargesOK
  <2>2. ASSUME ch # << >>
        PROVE  t \notin Early /\ ~n.bad /\ n.card /\ n.currency = "USD" /\ n.total > 0
               /\ ch[Len(ch)].amount = n.total
    BY <1>5, <1>6, <1>7, <1>8, <1>9, <2>2 DEF ChargesOK, Early
  <2> QED
    BY <2>1, <2>2 DEF ChargesOK
<1>15. StatusOK(t, n, ch, credited[b], applied[b], cardGone[b])
  BY <1>5, <1>6, <1>8, <1>9 DEF StatusOK
<1>16. CreditOK(p, t, credited[b], debited[b], applied[b])
  <2>1. ASSUME t \in Early, n.bad \/ p.pc # "guest_cancel_initiated"
        PROVE  Given(q, credited[b]) = applied[b]
    BY <1>3, <1>5, <1>7, <1>8, <1>9, <2>1 DEF CreditOK, Early
  <2>2. t = "started" => s = "started"
    BY <1>8, <1>9
  <2> QED
    BY <1>3, <1>5, <1>10, <1>12, <2>1, <2>2 DEF CreditOK, n
<1>17. PartsOK(p, t, unsent[b])
  <2>1. ASSUME t \in Closed \/ p.pc \in HostCancelling \cup GuestCancelling \cup CryptoCancelling
        PROVE  n.credit <= 0
    BY <1>3, <1>6, <1>7, <1>9, <2>1 DEF Closed, HostCancelling, GuestCancelling, CryptoCancelling
  <2>2. p.dirty => p.put = 0 /\ n.currency \in Crypto
    BY <1>3, <1>5, <1>8 DEF PartsOK
  <2>3. p.pc \in {"reject_save", "reject_credit"} => p.put = 0
    BY <1>3, <1>5 DEF PartsOK
  <2> QED
    BY <1>10, <2>1, <2>2, <2>3 DEF PartsOK, n
<1>18. PlaceOK(p, t, ch, cardGone[b])
  <2>1. ASSUME ~q.dirty
        PROVE  PlaceOK(p, t, ch, cardGone[b])
    BY <1>1, <1>3, <1>5, <1>6, <1>7, <1>9, <2>1 DEF PlaceOK, Charging, n
  <2>2. ASSUME q.dirty
        PROVE  PlaceOK(p, t, ch, cardGone[b])
    BY <1>2, <1>3, <2>2 DEF PlaceOK, Selecting, Charging, CryptoCancelling, GuestCancelling
  <2> QED
    BY <2>1, <2>2
<1>19. Flight(p, row'[b], ch, credited[b], debited[b], applied[b], cardGone[b], unsent[b])
  BY <1>13, <1>14, <1>15, <1>16, <1>17, <1>18 DEF Flight, n, t
<1> QED
  BY <1>1, <1>3, <1>4, <1>19, FlightStep DEF FlightNext, world, history

LEMMA FlightMoneyPart ==
  ASSUME Serial, Inv, Inv', SerialInv, NEW r \in Requests, MoneyPart(r)
  PROVE  SerialInv'
<1> DEFINE q == req[r]
           b == q.b
           s == row[b].status
           m == q.inst.meta
           ch == charges[b]
<1>1. /\ "money" \in q.todo /\ Busy(q)
      /\ UNCHANGED <<row, charges, cardGone, applied, reconfirmed, unsent>>
  BY DEF MoneyPart, Busy, world
<1>2. /\ q \in Request /\ b \in Bookings /\ FlightAt(q) /\ m \in Meta /\ row[b] \in Row
      /\ credited[b] \in Nat /\ debited[b] \in Nat /\ applied[b] \in Nat /\ q.amt \in Int
      /\ q.dirty => q.pc = "idle"
  BY <1>1, InFlight DEF Request
<1>3. PICK p \in Request :
    /\ p.b = b /\ p.put = q.put /\ p.amt = q.amt /\ p.free = q.free
    /\ p.dirty = q.dirty /\ p.inst = q.inst
    /\ p.todo = q.todo \ {"money"} /\ Become(r, p)
    /\ \/ p.pc = "idle" /\ UNCHANGED <<debited, credited>> /\ q.amt < 0
       \/ /\ p.pc = q.pc
          /\ \A c \in Bookings : c # b => debited'[c] = debited[c] /\ credited'[c] = credited[c]
          /\ debited'[b] = debited[b] + IF q.amt < 0 THEN -q.amt ELSE 0
          /\ credited'[b] = credited[b] + IF q.amt > 0 THEN q.amt ELSE 0
  BY DidMoneyPart
<1>4. Elsewhere(p.b) /\ UNCHANGED cardGone
  BY <1>1, <1>3 DEF Elsewhere
<1>5. /\ Agrees(q, row[b]) /\ ChargesOK(s, m, ch)
      /\ StatusOK(s, m, ch, credited[b], applied[b], cardGone[b])
      /\ CreditOK(q, s, credited[b], debited[b], applied[b]) /\ PartsOK(q, s, unsent[b])
      /\ PlaceOK(q, s, ch, cardGone[b])
  BY <1>2 DEF FlightAt, Flight
<1>6. /\ Clears(p) = Clears(q) /\ Stays(p) = Stays(q) /\ Due(p) = 0 /\ Due(q) = Pos(q.amt)
      /\ "money" \notin p.todo /\ "meta" \in p.todo <=> "meta" \in q.todo
      /\ "save" \in p.todo <=> "save" \in q.todo
      /\ p.todo \subseteq q.todo
  BY <1>1, <1>3 DEF Stays, Clears, Due
<1>7. m.credit \in Nat \cup {Undefined} /\ Pos(m.credit) \in Nat /\ Stays(q) \in Nat
      /\ Pos(q.amt) \in Nat
  <2>1. m.credit \in Nat \cup {Undefined} /\ Pos(q.amt) \in Nat
    BY <1>2 DEF Meta, Pos
  <2> QED
    BY <2>1, PosType DEF Stays
<1>8. CASE p.pc = "idle" /\ UNCHANGED <<debited, credited>> /\ q.amt < 0
  <2>1. debited[b] = 0 /\ q.pc = "confirm_status" /\ s = "started"
    BY <1>1, <1>5, <1>8 DEF CreditOK, PlaceOK
  <2>2. Pos(q.amt) = 0
    BY <1>2, <1>8 DEF Pos
  <2>3. Given(p, credited[b]) = Given(q, credited[b])
    BY <1>2, <1>6, <1>7, <2>2 DEF Given
  <2>4. "save" \notin q.todo /\ ~q.dirty
    BY <1>2, <1>5, <2>1 DEF PartsOK, CryptoCancelling
  <2>5. Agrees(p, row[b])
    BY <1>1, <1>3, <1>5, <1>8, <2>1, <2>4 DEF Agrees
  <2>6. CreditOK(p, s, credited[b], debited[b], applied[b])
    BY <1>3, <1>5, <1>6, <1>8, <2>1, <2>3 DEF CreditOK
  <2>7. PartsOK(p, s, unsent[b])
    BY <1>3, <1>5, <1>6, <1>8, <2>1, <2>4 DEF PartsOK, Closed, HostCancelling, GuestCancelling,
                                              CryptoCancelling
  <2>8. PlaceOK(p, s, ch, cardGone[b])
    BY <1>8 DEF PlaceOK, Selecting, Charging, CryptoCancelling, GuestCancelling
  <2>9. Flight(p, row[b], ch, credited[b], debited[b], applied[b], cardGone[b], unsent[b])
    BY <1>3, <1>5, <2>5, <2>6, <2>7, <2>8 DEF Flight
  <2> QED
    BY <1>1, <1>3, <1>4, <1>8, <2>9, FlightStep DEF FlightNext
<1>9. CASE /\ p.pc = q.pc
           /\ debited'[b] = debited[b] + IF q.amt < 0 THEN -q.amt ELSE 0
           /\ credited'[b] = credited[b] + IF q.amt > 0 THEN q.amt ELSE 0
  <2> DEFINE cr == credited'[b]
             db == debited'[b]
  <2>1. cr = credited[b] + Pos(q.amt)
    BY <1>9 DEF Pos
  <2>2. Given(p, cr) = Given(q, credited[b])
    BY <1>2, <1>6, <1>7, <2>1 DEF Given
  <2>3. db <= applied[b]
    BY <1>1, <1>2, <1>5, <1>9 DEF CreditOK
  <2>4. s = "started" /\ q.pc # "confirm_status" => db = 0
    BY <1>1, <1>2, <1>5, <1>9 DEF CreditOK
  <2> HIDE DEF cr, db
  <2>5. Agrees(p, row[b])
    BY <1>1, <1>3, <1>5, <1>9 DEF Agrees
  <2>6. CreditOK(p, s, cr, db, applied[b])
    BY <1>3, <1>5, <1>6, <1>9, <2>2, <2>3, <2>4 DEF CreditOK
  <2>7. PartsOK(p, s, unsent[b])
    BY <1>3, <1>5, <1>6, <1>9 DEF PartsOK
  <2>8. PlaceOK(p, s, ch, cardGone[b])
    BY <1>3, <1>5, <1>6, <1>9 DEF PlaceOK
  <2>9. s = "guest_rejected" => cr = applied[b]
    <3>1. SUFFICES ASSUME s = "guest_rejected"
                   PROVE  cr = applied[b]
      OBVIOUS
    <3>2. credited[b] = applied[b]
      BY <1>5, <3>1 DEF StatusOK
    <3>3. credited[b] + Pos(q.amt) + Stays(q) <= applied[b]
      BY <1>5, <1>6 DEF CreditOK, Given
    <3> QED
      BY <1>2, <1>7, <2>1, <3>2, <3>3
  <2>10. StatusOK(s, m, ch, cr, applied[b], cardGone[b])
    BY <1>5, <2>9 DEF StatusOK
  <2>11. Flight(p, row[b], ch, cr, db, applied[b], cardGone[b], unsent[b])
    BY <1>3, <1>5, <2>5, <2>6, <2>7, <2>8, <2>10 DEF Flight
  <2> QED
    BY <1>1, <1>3, <1>4, <2>11, FlightStep DEF FlightNext, cr, db
<1> QED
  BY <1>3, <1>8, <1>9

\* When a slot is idle, every booking is at rest.
LEMMA AllRest ==
  ASSUME Serial, SerialInv, NEW r \in Requests, req[r] = Idle, NEW b \in Bookings
  PROVE  RestAt(b)
<1>1. \A s \in Requests : ~Busy(req[s])
  BY IdleType DEF Serial, Busy
<1> QED
  BY <1>1 DEF SerialInv, RestAt

\* A request that has loaded a booking at rest.
LEMMA FlightBegins ==
  ASSUME Serial, Inv, Inv', SerialInv, NEW r \in Requests, NEW b \in Bookings,
         req[r] = Idle, Exists(b), NEW p, Began(r, b, p),
         UNCHANGED <<row, balance, charges, world, history>>,
         CreditOK(p, row[b].status, credited[b], debited[b], applied[b]),
         PartsOK(p, row[b].status, unsent[b]),
         PlaceOK(p, row[b].status, charges[b], cardGone[b])
  PROVE  SerialInv'
<1>1. /\ p \in Request /\ p.b = b /\ p.inst = row[b] /\ Become(r, p) /\ ~Busy(req[r])
      /\ row[b].status # "none"
  BY IdleType DEF Began, Busy, Exists
<1>2. Elsewhere(p.b) /\ UNCHANGED cardGone
  BY DEF Elsewhere, world, history
<1>3. Agrees(p, row[b])
  BY <1>1 DEF Agrees
<1>4. ChargesOK(row[b].status, row[b].meta, charges[b])
      /\ StatusOK(row[b].status, row[b].meta, charges[b], credited[b], applied[b], cardGone[b])
  BY AllRest DEF RestAt, Rest
<1>5. Flight(p, row[b], charges[b], credited[b], debited[b], applied[b], cardGone[b], unsent[b])
  BY <1>1, <1>3, <1>4 DEF Flight
<1> QED
  BY <1>1, <1>2, <1>5, FlightStep DEF FlightNext, world, history

LEMMA RefundRules ==
  ASSUME NEW s, NEW l, NEW c \in Nat
  PROVE  /\ CancelStatus(s, l) = "without_penalty" <=> s \in Early
         /\ CreditRefundForGuest(s, l, c) \in 0..c
         /\ s \in Early => CreditRefundForGuest(s, l, c) = c
<1>1. CancelStatus(s, l) = "without_penalty" <=> s \in Early
  BY DEF CancelStatus, Early
<1>2. NineTenths(c) \in 0..c
  BY DEF NineTenths
<1>3. CreditRefundForGuest(s, l, c) \in 0..c
  <2>1. 0 \in 0..c /\ c \in 0..c
    OBVIOUS
  <2> QED
    BY <1>2, <2>1 DEF CreditRefundForGuest
<1>4. s \in Early => CreditRefundForGuest(s, l, c) = c
  BY <1>1 DEF CreditRefundForGuest
<1> QED
  BY <1>1, <1>3, <1>4

\* What a booking at rest, loaded into a request, has to give.
LEMMA AtRestValues ==
  ASSUME Serial, Inv, SerialInv, NEW r \in Requests, req[r] = Idle, NEW b \in Bookings
  PROVE  LET s == row[b].status
             c == row[b].meta.credit
         IN /\ c \in Nat \cup {Undefined} /\ Pos(c) \in Nat /\ (c <= 0 => Pos(c) = 0)
            /\ (c > 0 => Pos(c) = c)
            /\ credited[b] \in Nat /\ debited[b] \in Nat /\ applied[b] \in Nat
            /\ credited[b] + Pos(c) <= applied[b]
            /\ s \in Early => credited[b] + Pos(c) = applied[b]
            /\ s \in Closed => c <= 0 \/ (s = "host_rejected" /\ unsent[b])
            /\ debited[b] <= applied[b] /\ (s = "started" => debited[b] = 0)
            /\ charges[b] # << >> => s \notin Early /\ row[b].meta.card
            /\ row[b].meta.bad => Pos(c) = 0
<1>1. RestAt(b)
  BY AllRest
<1>2. /\ row[b].meta.credit \in Nat \cup {Undefined}
      /\ credited[b] \in Nat /\ debited[b] \in Nat /\ applied[b] \in Nat
  BY CreditType DEF Inv, RestOK
<1>3. Pos(row[b].meta.credit) \in Nat /\ (row[b].meta.credit <= 0 => Pos(row[b].meta.credit) = 0)
      /\ (row[b].meta.credit > 0 => Pos(row[b].meta.credit) = row[b].meta.credit)
  BY <1>2, PosType DEF Pos
<1>4. row[b].meta.bad => Pos(row[b].meta.credit) = 0
  BY <1>1, <1>3 DEF RestAt, Rest, ChargesOK, Undefined
<1>5. charges[b] # << >> => row[b].status \notin Early /\ row[b].meta.card
  BY <1>1 DEF RestAt, Rest, ChargesOK
<1>6. /\ credited[b] + Pos(row[b].meta.credit) <= applied[b]
      /\ row[b].status \in Early => credited[b] + Pos(row[b].meta.credit) = applied[b]
      /\ row[b].status \in Closed =>
           row[b].meta.credit <= 0 \/ (row[b].status = "host_rejected" /\ unsent[b])
      /\ debited[b] <= applied[b] /\ (row[b].status = "started" => debited[b] = 0)
  BY <1>1, <1>2, <1>3 DEF RestAt, Rest
<1> QED
  BY <1>2, <1>3, <1>4, <1>5, <1>6

LEMMA FlightStarts ==
  ASSUME Serial, Inv, Inv', SerialInv, NEW r \in Requests, NEW b \in Bookings, Begin(r, b)
  PROVE  SerialInv'
<1> DEFINE s == row[b].status
           c == row[b].meta.credit
<1>1. req[r] = Idle /\ Exists(b) /\ UNCHANGED <<row, balance, charges, world, history>>
  BY DidBegin
<1>2. /\ c \in Nat \cup {Undefined} /\ Pos(c) \in Nat /\ (c <= 0 => Pos(c) = 0)
      /\ (c > 0 => Pos(c) = c)
      /\ credited[b] \in Nat /\ debited[b] \in Nat /\ applied[b] \in Nat
      /\ credited[b] + Pos(c) <= applied[b]
      /\ s \in Early => credited[b] + Pos(c) = applied[b]
      /\ s \in Closed => c <= 0 \/ (s = "host_rejected" /\ unsent[b])
      /\ debited[b] <= applied[b] /\ (s = "started" => debited[b] = 0)
      /\ charges[b] # << >> => s \notin Early /\ row[b].meta.card
      /\ row[b].meta.bad => Pos(c) = 0
  BY <1>1, AtRestValues
<1>3. ASSUME NEW p, Began(r, b, p), p.pc \in SimpleStarts, p.todo = {}, p.put = 0,
             p.pc \in Selecting => s = "started"
      PROVE  SerialInv'
  <2>1. p.inst = row[b] /\ ~p.dirty
    BY <1>3 DEF Began
  <2>2. p.pc \notin {"confirm_status"} \cup Charging \cup HostCancelling \cup GuestCancelling
                    \cup CryptoCancelling \cup {"reject_credit"}
    BY <1>3 DEF SimpleStarts, Selecting, Charging, HostCancelling, GuestCancelling,
                CryptoCancelling, ContractEvents
  <2>3. Given(p, credited[b]) = credited[b] + Pos(c) /\ ~Clears(p)
    BY <1>2, <1>3, <2>1 DEF Given, Due, Stays, Clears
  <2>4. CreditOK(p, s, credited[b], debited[b], applied[b])
    BY <1>2, <1>3, <2>3 DEF CreditOK
  <2>5. PartsOK(p, s, unsent[b])
    <3>1. s \in Closed => p.inst.meta.credit <= 0 \/ (s = "host_rejected" /\ unsent[b])
      BY <1>2, <2>1
    <3>2. p.todo = {} /\ p.put = 0 /\ ~p.dirty
      BY <1>3, <2>1
    <3> QED
      BY <2>2, <3>1, <3>2 DEF PartsOK
  <2>6. PlaceOK(p, s, charges[b], cardGone[b])
    BY <1>3, <2>2 DEF PlaceOK, Charging, HostCancelling, CryptoCancelling
  <2> QED
    BY <1>1, <1>3, <2>4, <2>5, <2>6, FlightBegins
<1>4. CASE GuestConfirm(r, b) /\ s = "started"
  <2>1. PICK p : Began(r, b, p) /\
          \/ p.pc = "confirm_status" /\ p.todo = {}
          \/ /\ p.pc = "confirm_status" /\ p.todo = {"meta", "money"}
             /\ p.put = c /\ p.amt = -c /\ c > 0
          \/ /\ p.pc = "idle" /\ p.todo = {"meta"} /\ p.put = c /\ c <= 0
    BY <1>4, DidConfirm
  <2>2. p.inst = row[b] /\ ~p.dirty
    BY <2>1 DEF Began
  <2>3. Due(p) = 0 /\ Stays(p) = Pos(c)
    BY <1>2, <2>1, <2>2 DEF Due, Stays, Clears, Pos, Undefined
  <2>4. Given(p, credited[b]) = applied[b] /\ debited[b] = 0
    BY <1>2, <1>4, <2>3 DEF Given, Early
  <2>5. "money" \in p.todo /\ p.amt < 0 => p.amt >= -applied[b] /\ p.pc = "confirm_status"
    BY <1>2, <2>1 DEF Undefined
  <2>6. CreditOK(p, s, credited[b], debited[b], applied[b])
    BY <1>2, <2>4, <2>5 DEF CreditOK
  <2>7. PartsOK(p, s, unsent[b])
    BY <1>4, <2>1, <2>2 DEF PartsOK, Closed, HostCancelling, GuestCancelling, CryptoCancelling
  <2>8. PlaceOK(p, s, charges[b], cardGone[b])
    BY <1>4, <2>1 DEF PlaceOK, Selecting, Charging, GuestCancelling, CryptoCancelling
  <2> QED
    BY <1>1, <2>1, <2>6, <2>7, <2>8, FlightBegins
<1>5. CASE HostCancel(r, b)
  <2>1. PICK p :
      /\ Began(r, b, p) /\ ~p.free /\ p.put = 0 /\ p.amt = Pos(c)
      /\ "money" \in p.todo <=> c > 0
      /\ "meta" \in p.todo <=> c > 0
      /\ "save" \in p.todo <=> p.pc = "refund_initiated"
      /\ \/ p.pc = "refund_initiated" /\ row[b].meta.currency \in Crypto
         \/ p.pc = "host_refund" /\ row[b].meta.currency = "USD"
         \/ p.pc = "host_cancel" /\ row[b].meta.currency = "USD" /\ ~HasCard(b)
    BY <1>5, DidHostCancel
  <2>2. p.inst = row[b] /\ ~p.dirty
    BY <2>1 DEF Began
  <2>3. c > 0 \/ c <= 0
    BY <1>2 DEF Undefined
  <2>4. Given(p, credited[b]) = credited[b] + Pos(c)
    <3>1. CASE c > 0
      <4>1. Due(p) = Pos(c) /\ Stays(p) = 0
        BY <1>2, <2>1, <3>1 DEF Due, Stays, Clears, Pos
      <4> QED
        BY <1>2, <4>1 DEF Given
    <3>2. CASE c <= 0 /\ ~(c > 0)
      <4>1. Due(p) = 0 /\ Stays(p) = Pos(c)
        BY <1>2, <2>1, <2>2, <3>2 DEF Due, Stays, Clears
      <4> QED
        BY <1>2, <4>1 DEF Given
    <3> QED
      BY <1>2, <2>3, <3>1, <3>2 DEF Undefined
  <2>5. CreditOK(p, s, credited[b], debited[b], applied[b])
    BY <1>2, <2>1, <2>4 DEF CreditOK
  <2>6. PartsOK(p, s, unsent[b])
    BY <2>1, <2>2, <2>3 DEF PartsOK, CryptoCancelling, Clears
  <2>7. PlaceOK(p, s, charges[b], cardGone[b])
    <3>1. p.pc = "host_cancel" /\ charges[b] # << >> => cardGone[b]
      BY <1>2, <2>1 DEF HasCard
    <3> QED
      BY <2>1, <2>2, <3>1 DEF PlaceOK, Selecting, Charging, CryptoCancelling
  <2> QED
    BY <1>1, <2>1, <2>5, <2>6, <2>7, FlightBegins
<1>6. CASE GuestCancel(r, b)
  <2>1. PICK p, status :
      /\ Began(r, b, p) /\ p.put = 0
      /\ p.amt = CreditRefundForGuest(status, late[b], Pos(c))
      /\ p.free <=> CancelStatus(s, late[b]) = "without_penalty"
      /\ "money" \in p.todo <=> p.amt > 0
      /\ "meta" \in p.todo
      /\ "save" \in p.todo <=> p.pc = "guest_cancel_initiated"
      /\ \/ /\ p.pc = "guest_cancel_initiated" /\ row[b].meta.currency \in Crypto
            /\ status = "guest_cancelled"
         \/ /\ p.pc \in {"guest_refund", "guest_cancel"} /\ row[b].meta.currency = "USD"
            /\ status = s
    BY <1>6, DidGuestCancel
  <2>2. p.inst = row[b] /\ ~p.dirty
    BY <2>1 DEF Began
  <2>3. p.amt \in 0..Pos(c) /\ (status \in Early => p.amt = Pos(c)) /\ (p.free <=> s \in Early)
    <3>1. p.amt = CreditRefundForGuest(status, late[b], Pos(c)) /\ Pos(c) \in Nat
      BY <1>2, <2>1
    <3>2. p.free <=> CancelStatus(s, late[b]) = "without_penalty"
      BY <2>1
    <3>3. CancelStatus(s, late[b]) = "without_penalty" <=> s \in Early
      BY <3>1, RefundRules
    <3> HIDE DEF c, s
    <3>4. p.amt \in 0..Pos(c) /\ (status \in Early => p.amt = Pos(c))
      BY <3>1, RefundRules
    <3> QED
      BY <3>2, <3>3, <3>4
  <2>4. Given(p, credited[b]) = credited[b] + p.amt
    <3>1. p.amt \in Nat
      BY <1>2, <2>3
    <3>2. Stays(p) = 0
      BY <2>1 DEF Stays, Clears
    <3>3. Due(p) = p.amt
      BY <2>1, <3>1 DEF Due, Pos
    <3> QED
      BY <1>2, <3>1, <3>2, <3>3 DEF Given
  <2>5. ASSUME s \in Early, p.inst.meta.bad \/ p.pc # "guest_cancel_initiated"
        PROVE  Given(p, credited[b]) = applied[b]
    <3>1. p.amt = Pos(c)
      BY <1>2, <2>1, <2>2, <2>3, <2>5
    <3> QED
      BY <1>2, <2>4, <2>5, <3>1
  <2>6. CreditOK(p, s, credited[b], debited[b], applied[b])
    BY <1>2, <2>3, <2>4, <2>5 DEF CreditOK
  <2>7. PartsOK(p, s, unsent[b])
    BY <2>1, <2>2 DEF PartsOK, CryptoCancelling, Clears
  <2>8. PlaceOK(p, s, charges[b], cardGone[b])
    BY <2>1, <2>2, <2>3 DEF PlaceOK, Selecting, Charging, CryptoCancelling, GuestCancelling
  <2> QED
    BY <1>1, <2>1, <2>6, <2>7, <2>8, FlightBegins
<1> QED
  BY <1>3, <1>4, <1>5, <1>6, DidBegin

-----------------------------------------------------------------------------
(* The environment, and the theorems.                                       *)

\* A booking is made.
LEMMA MadeAtRest ==
  ASSUME Serial, Inv, SerialInv, NEW b \in Bookings, NEW meta, Insert(b, meta),
         Rest([status |-> "started", meta |-> meta], << >>, 0, 0, applied'[b], cardGone[b], unsent[b]),
         \A c \in Bookings : c # b => applied'[c] = applied[c]
  PROVE  SerialInv'
<1> DEFINE new == [status |-> "started", meta |-> meta]
<1>1. /\ row[b].status = "none" /\ row' = [row EXCEPT ![b] = new]
      /\ UNCHANGED <<charges, cardGone, req, debited, credited, unsent>>
  BY DEF Insert, Exists
<1>2. row \in [Bookings -> Row]
  BY DEF Inv, RowInv
<1>3. ASSUME NEW r \in Requests, Busy(req[r])
      PROVE  req[r].b # b
  <2>1. req[r].b \in Bookings /\ FlightAt(req[r])
    BY <1>3, InFlight
  <2> QED
    BY <1>1, <2>1 DEF FlightAt, Flight, Agrees
<1>4. RestAt(b)
  BY <1>3 DEF SerialInv, RestAt
<1>5. charges[b] = << >> /\ credited[b] = 0 /\ debited[b] = 0
  BY <1>1, <1>4 DEF RestAt, Rest
<1>6. row'[b] = new /\ \A c \in Bookings : c # b => row'[c] = row[c]
  BY <1>1, <1>2
<1> HIDE DEF new
<1>7. ASSUME NEW c \in Bookings, \A r \in Requests : Busy(req'[r]) => req'[r].b # c
      PROVE  Rest(row'[c], charges'[c], credited'[c], debited'[c], applied'[c], cardGone'[c], unsent'[c])
  <2>1. CASE c = b
    BY <1>1, <1>5, <1>6, <2>1 DEF new
  <2>2. CASE c # b
    <3>1. RestAt(c)
      BY <1>1, <1>7 DEF SerialInv, RestAt
    <3> QED
      BY <1>1, <1>6, <2>2, <3>1 DEF RestAt
  <2> QED
    BY <2>1, <2>2
<1>8. ASSUME NEW r \in Requests, Busy(req'[r])
      PROVE  Flight(req'[r], row'[req'[r].b], charges'[req'[r].b], credited'[req'[r].b],
                    debited'[req'[r].b], applied'[req'[r].b], cardGone'[req'[r].b], unsent'[req'[r].b])
  <2>1. req[r].b \in Bookings /\ FlightAt(req[r]) /\ req[r].b # b
    BY <1>1, <1>3, <1>8, InFlight
  <2> QED
    BY <1>1, <1>6, <2>1 DEF FlightAt
<1> QED
  BY <1>7, <1>8 DEF SerialInv

LEMMA MadeInv ==
  ASSUME Serial, Inv, SerialInv, NEW b \in Bookings,
         (\E currency \in Chosen : CreateBooking(b, currency)) \/ CreateBookingWithQuotes(b)
  PROVE  SerialInv'
<1>1. Discount(b) \in Nat /\ NoRow.meta \in Meta
  BY DiscountType, NoRowType DEF Row
<1>2. applied \in [Bookings -> Nat]
  BY DEF Inv, RestOK
<1>3. ASSUME NEW currency \in Chosen, CreateBooking(b, currency)
      PROVE  SerialInv'
  <2> DEFINE meta == [NoRow.meta EXCEPT !.currency = currency, !.credit = Discount(b),
                                        !.total = Price[b] - Discount(b)]
  <2>1. Insert(b, meta) /\ applied' = [applied EXCEPT ![b] = Discount(b)]
    BY <1>3 DEF CreateBooking
  <2>2. meta.credit = Discount(b) /\ meta.charge = 0 /\ ~meta.bad
    BY DEF NoRow
  <2> HIDE DEF meta
  <2>3. Rest([status |-> "started", meta |-> meta], << >>, 0, 0, applied'[b], cardGone[b], unsent[b])
    BY <1>1, <1>2, <2>1, <2>2 DEF Rest, ChargesOK, StatusOK, Closed, Pos
  <2> QED
    BY <1>2, <2>1, <2>3, MadeAtRest
<1>4. CASE CreateBookingWithQuotes(b)
  <2> DEFINE meta == [NoRow.meta EXCEPT !.quote = Discount(b)]
  <2>1. Insert(b, meta) /\ UNCHANGED applied
    BY <1>4 DEF CreateBookingWithQuotes
  <2>2. meta.credit = Undefined /\ meta.charge = 0 /\ ~meta.bad
    BY DEF NoRow
  <2> HIDE DEF meta
  <2>3. applied[b] = 0
    <3>1. row[b].status = "none"
      BY <2>1 DEF Insert, Exists
    <3>2. \A r \in Requests : Busy(req[r]) => req[r].b # b
      BY <3>1, InFlight DEF FlightAt, Flight, Agrees
    <3> QED
      BY <3>1, <3>2 DEF SerialInv, Rest
  <2>4. Rest([status |-> "started", meta |-> meta], << >>, 0, 0, applied'[b], cardGone[b], unsent[b])
    BY <2>1, <2>2, <2>3 DEF Rest, ChargesOK, StatusOK, Closed, Pos, Undefined
  <2> QED
    BY <2>1, <2>4, MadeAtRest
<1> QED
  BY <1>3, <1>4

\* A guest who removes a card makes nothing that is owed any stricter.
LEMMA CardRemoved ==
  ASSUME Inv, SerialInv, NEW b \in Bookings, RemoveCard(b)
  PROVE  SerialInv'
<1>1. /\ UNCHANGED <<row, charges, req, debited, credited, applied, unsent>>
      /\ \A c \in Bookings : cardGone'[c] = cardGone[c] \/ (~cardGone[c] /\ cardGone'[c])
  BY DEF RemoveCard, history, Inv, RestOK
<1>2. ASSUME NEW c \in Bookings, RestAt(c)
      PROVE  Rest(row[c], charges[c], credited[c], debited[c], applied[c], cardGone'[c], unsent[c])
  <2>1. StatusOK(row[c].status, row[c].meta, charges[c], credited[c], applied[c], cardGone'[c])
    BY <1>1, <1>2 DEF RestAt, Rest, StatusOK
  <2> QED
    BY <1>2, <2>1 DEF RestAt, Rest
<1>3. ASSUME NEW r \in Requests, req[r].b \in Bookings, FlightAt(req[r])
      PROVE  Flight(req[r], row[req[r].b], charges[req[r].b], credited[req[r].b],
                    debited[req[r].b], applied[req[r].b], cardGone'[req[r].b], unsent[req[r].b])
  <2>1. StatusOK(row[req[r].b].status, req[r].inst.meta, charges[req[r].b], credited[req[r].b],
                 applied[req[r].b], cardGone'[req[r].b])
    BY <1>1, <1>3 DEF FlightAt, Flight, StatusOK
  <2>2. PlaceOK(req[r], row[req[r].b].status, charges[req[r].b], cardGone'[req[r].b])
    BY <1>1, <1>3 DEF FlightAt, Flight, PlaceOK
  <2> QED
    BY <1>3, <2>1, <2>2 DEF FlightAt, Flight
<1>4. ASSUME NEW r \in Requests, Busy(req[r])
      PROVE  req[r].b \in Bookings /\ FlightAt(req[r])
  BY <1>4, InFlight
<1>5. \A c \in Bookings : (\A r \in Requests : Busy(req[r]) => req[r].b # c) => RestAt(c)
  BY DEF SerialInv, RestAt
<1> QED
  BY <1>1, <1>2, <1>3, <1>4, <1>5 DEF SerialInv

LEMMA SerialSame ==
  ASSUME SerialInv, UNCHANGED <<row, charges, cardGone, req, debited, credited, applied, unsent>>
  PROVE  SerialInv'
  BY DEF SerialInv

LEMMA SerialInit == Init => SerialInv
<1> SUFFICES ASSUME Init
             PROVE  SerialInv
  OBVIOUS
<1>1. \A r \in Requests : ~Busy(req[r])
  BY IdleType DEF Init, Busy
<1>2. ASSUME NEW b \in Bookings
      PROVE  Rest(NoRow, << >>, 0, 0, 0, FALSE, FALSE)
  BY DEF Rest, ChargesOK, StatusOK, NoRow, Closed, Early, Pos, Undefined
<1>3. \A b \in Bookings : /\ row[b] = NoRow /\ charges[b] = << >> /\ credited[b] = 0
                          /\ debited[b] = 0 /\ applied[b] = 0 /\ cardGone[b] = FALSE
                          /\ unsent[b] = FALSE
  BY DEF Init
<1> QED
  BY <1>1, <1>2, <1>3 DEF SerialInv

LEMMA SerialNext ==
  ASSUME Serial, Inv, Inv', SerialInv, [Next]_vars
  PROVE  SerialInv'
<1>1. ASSUME NEW r \in Requests, NEW b \in Bookings, Begin(r, b)
      PROVE  SerialInv'
  BY <1>1, FlightStarts
<1>2. ASSUME NEW r \in Requests, Step(r)
      PROVE  SerialInv'
  BY <1>2, FlightSavePart, FlightMetaPart, FlightMoneyPart, FlightStatuses, FlightResaves,
     FlightSelects, FlightApproves, FlightDetails, FlightCharge, FlightRefunds,
     FlightCancelSaves, FlightRejects, FlightRejectCredit, FlightNotice DEF Step
<1>3. ASSUME NEW r \in Requests, Crash(r)
      PROVE  SerialInv'
  BY <1>3 DEF Crash, Serial
<1>4. ASSUME NEW b \in Bookings, Environment(b)
      PROVE  SerialInv'
  <2>1. ASSUME NEW event \in Emitted, Emit(b, event)
        PROVE  UNCHANGED <<row, charges, cardGone, req, debited, credited, applied, unsent>>
    BY <2>1 DEF Emit, history
  <2>2. ASSUME DeadlinePasses(b) \/ BookingAges(b)
        PROVE  UNCHANGED <<row, charges, cardGone, req, debited, credited, applied, unsent>>
    BY <2>2 DEF DeadlinePasses, BookingAges, history
  <2> QED
    BY <1>4, <2>1, <2>2, MadeInv, CardRemoved, SerialSame DEF Environment
<1>5. CASE UNCHANGED vars
  BY <1>5, SerialSame DEF vars, world, history
<1> QED
  BY <1>1, <1>2, <1>3, <1>4, <1>5 DEF Next

LEMMA SerialIsInvariant == ASSUME Serial PROVE Spec => [](Inv /\ SerialInv)
<1>1. Init => Inv /\ SerialInv
  BY InitInv, SerialInit
<1>2. Inv /\ SerialInv /\ [Next]_vars => (Inv /\ SerialInv)'
  BY NextInv, SerialNext
<1> QED
  BY <1>1, <1>2, PTL DEF Spec

LEMMA SerialMeans ==
  ASSUME Serial, Inv, SerialInv
  PROVE  /\ ChargeKept /\ FreeCancellationIsFree /\ ClosedBookingHoldsNoCredit
         /\ CreditMovesOnce /\ HostCancellationRefunds /\ ChargedCanBeSaved
<1>1. AtRest => \A b \in Bookings : RestAt(b)
  BY IdleType DEF AtRest, SerialInv, RestAt, Busy
<1>2. ChargeKept
  BY <1>1 DEF ChargeKept, RestAt, Rest, ChargesOK
<1>3. FreeCancellationIsFree
  BY <1>1 DEF FreeCancellationIsFree, RestAt, Rest, StatusOK
<1>4. ClosedBookingHoldsNoCredit
  BY <1>1 DEF ClosedBookingHoldsNoCredit, RestAt, Rest, Closed
<1>5. HostCancellationRefunds
  BY <1>1 DEF HostCancellationRefunds, RestAt, Rest, StatusOK, Repaid
<1>6. CreditMovesOnce
  <2> SUFFICES ASSUME NEW b \in Bookings
               PROVE  debited[b] <= applied[b] /\ credited[b] <= applied[b]
    BY DEF CreditMovesOnce
  <2>1. credited[b] \in Nat /\ applied[b] \in Nat /\ Pos(row[b].meta.credit) \in Nat
    BY CreditType, PosType DEF Inv, RestOK
  <2>2. CASE RestAt(b)
    BY <2>1, <2>2 DEF RestAt, Rest
  <2>3. ASSUME NEW r \in Requests, Busy(req[r]), req[r].b = b
        PROVE  debited[b] <= applied[b] /\ credited[b] <= applied[b]
    <3>1. req[r] \in Request /\ FlightAt(req[r]) /\ req[r].inst.meta \in Meta
      BY <2>3, InFlight
    <3>2. CreditOK(req[r], row[b].status, credited[b], debited[b], applied[b])
      BY <2>3, <3>1 DEF FlightAt, Flight
    <3>3. req[r].amt \in Int /\ req[r].inst.meta.credit \in Nat \cup {Undefined}
      BY <3>1 DEF Request, Meta
    <3>4. Due(req[r]) \in Nat /\ Stays(req[r]) \in Nat
      <4>1. Pos(req[r].amt) \in Nat
        BY <3>3 DEF Pos
      <4> QED
        BY <3>3, <4>1, PosType DEF Due, Stays
    <3>5. credited[b] + Due(req[r]) + Stays(req[r]) <= applied[b]
      BY <3>2 DEF CreditOK, Given
    <3> QED
      BY <2>1, <3>2, <3>4, <3>5 DEF CreditOK
  <2> QED
    BY <2>2, <2>3 DEF SerialInv, RestAt
<1>7. ChargedCanBeSaved
  BY <1>1 DEF ChargedCanBeSaved, RestAt, Rest, ChargesOK
<1> QED
  BY <1>2, <1>3, <1>4, <1>5, <1>6, <1>7

\* When one request runs at a time and the server does not stop in the middle of
\* one, a charged booking carries the id of its last charge: the approval, which
\* charges first and writes the id two saves later, always gets there.
THEOREM ChargeIdKept == ASSUME Serial PROVE Spec => []ChargeKept
  BY SerialIsInvariant, SerialMeans, PTL

\* One request at a time: a cancellation that ended as guest_rejected was of a
\* booking never charged, and all of its credit is back.
THEOREM FreeIsFree == ASSUME Serial PROVE Spec => []FreeCancellationIsFree
  BY SerialIsInvariant, SerialMeans, PTL

\* One request at a time: a booking closed by a cancellation or a rejection has
\* none of the credit left to give back again, or the mail about the rejection
\* failed, which hostReject sends after the status and before the credit.
THEOREM ClosedHoldsNoCredit == ASSUME Serial PROVE Spec => []ClosedBookingHoldsNoCredit
  BY SerialIsInvariant, SerialMeans, PTL

\* One request at a time: however often a booking is confirmed, cancelled and
\* rejected, no more credit is taken or given back than was applied to it.
THEOREM CreditMovedOnce == ASSUME Serial PROVE Spec => []CreditMovesOnce
  BY SerialIsInvariant, SerialMeans, PTL

\* One request at a time: a charged booking the host has cancelled is refunded in
\* full, or the guest has removed the card.
THEOREM HostCancelRefunds == ASSUME Serial PROVE Spec => []HostCancellationRefunds
  BY SerialIsInvariant, SerialMeans, PTL

\* One request at a time: a booking whose credit was stored as null is never
\* charged, since approveBooking saves it, and is refused, before the charge.
THEOREM ChargedIsSaveable == ASSUME Serial PROVE Spec => []ChargedCanBeSaved
  BY SerialIsInvariant, SerialMeans, PTL
=============================================================================

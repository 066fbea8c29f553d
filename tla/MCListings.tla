----------------------------- MODULE MCListings -----------------------------
(***************************************************************************)
(* An instance of Listings for TLC: a host and an administrator, who may   *)
(* be a host too, and two requests at once.  Each behaviour makes the      *)
(* calls of one mix: listings are made in all of them, every two calls     *)
(* overlap in some mix, and in the serial mixes the server may stop at any *)
(* await.                                                                  *)
(***************************************************************************)
EXTENDS Listings, Sequences

CONSTANTS r1, r2, host, admin

Content(price, photos) == [price |-> price, photos |-> photos]

Full == Content(8, TRUE)
AllContents == {Full, Content(2, TRUE), Content(8, FALSE), Content(0, TRUE)}

Calls(slot, names) == {<<slot, name>> : name \in names}

Clients(contents) == Calls("client", contents)

\* In an order of no meaning, so that every two meet once.
Order ==
  <<"create", "post", "quote", "update", "activate", "deactivate", "duplicate", "delete">>

Races ==
  { Clients({Full, Content(0, TRUE)}) \cup Calls(r1, {"create", Order[p[1]]})
      \cup Calls(r2, {Order[p[2]]}) :
      p \in {q \in (1..Len(Order)) \X (1..Len(Order)) : q[1] <= q[2]} }

Move ==
  Clients({Full}) \cup Calls(r1, {"create"}) \cup Calls(r2, {"update", "move"})

Sequences ==
  { Clients(AllContents) \cup Calls(r1, {"create", "crash"} \cup names) :
      names \in { {"update", "duplicate", "delete"}, {"activate", "deactivate", "delete"},
                  {"update", "post"}, {"update", "quote"} } }

MoveSequence ==
  Clients({Full}) \cup Calls(r1, {"create", "update", "move", "delete", "crash"})

AllMixes == Races \cup Sequences \cup {Move, MoveSequence}

\* Two dollars and a half for a BEE; ether and bitcoin are dear.
AllRates ==
  { [c \in Currencies |-> CASE c = "USD" -> Par
                            [] c = "BEE" -> [to |-> 5, from |-> 2]
                            [] OTHER     -> [to |-> 200, from |-> 1]] }
=============================================================================

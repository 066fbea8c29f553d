------------------------------ MODULE MCCards ------------------------------
(***************************************************************************)
(* An instance of Accounts and Cards for TLC: two logins, two requests at  *)
(* once.  Each behaviour makes the calls of one mix: every two calls about *)
(* accounts overlap in some mix, those that store or remove what belongs   *)
(* to a user meet each other, every call about cards overlaps with an      *)
(* addition or a removal, and the serial mixes, in which the server may    *)
(* stop at any await, have the long sequences of calls.                    *)
(***************************************************************************)
EXTENDS Cards

CONSTANTS r1, r2, e1, e2

AccountCalls ==
  {"signUp", "fetch", "login", "admin", "delete", "change", "own", "context"}

BelongingCalls == {"book", "move", "unlist", "own", "delete"}

CardCalls ==
  {"addCard", "removeCard", "updateCard", "connect", "wallet", "delete", "change"}

Calls(r, names) == {r} \X names

AllClients == Calls("client", Addresses)

AccountRaces ==
  { AllClients \cup Calls(r1, {"context", c}) \cup Calls(r2, {d}) :
      c \in AccountCalls, d \in AccountCalls }

BelongingRaces ==
  { Calls("client", Emails) \cup Calls(r1, {"context", "own"} \cup names) \cup Calls(r2, {c}) :
      names \in {{"book"}, {"delete"}, {"move"}}, c \in BelongingCalls }

AccountSequence ==
  AllClients \cup Calls(r1, (AccountCalls \ {"login"}) \cup {"crash"})

BelongingSequence ==
  Calls("client", Emails)
    \cup Calls(r1, {"context", "admin", "own", "book", "move", "unlist", "delete", "crash"})

CardRaces ==
  { Calls("client", {e1}) \cup Calls(r1, {"context", "addCard", "removeCard"})
      \cup Calls(r2, {c}) : c \in CardCalls }

CardSequences ==
  { Calls("client", {e1}) \cup Calls(r1, {"context", "addCard", "crash"} \cup names) :
      names \in { {"removeCard", "delete"}, {"updateCard", "delete", "admin"},
                  {"removeCard", "connect", "wallet"}, {"change", "connect"} } }

AllMixes ==
  AccountRaces \cup BelongingRaces \cup {AccountSequence, BelongingSequence}
    \cup CardRaces \cup CardSequences
=============================================================================

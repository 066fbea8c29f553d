---------------------------- MODULE CalendarSync ----------------------------
(***************************************************************************)
(* The calendars of other sites: how a listing's reservations follow them. *)
(*                                                                         *)
(* A host enters links; CalendarService.createOrUpdate replaces the rows   *)
(* of table ical and imports them, and the ListingCalendarUpdate lambda    *)
(* imports all rows again and again.  An import fetches the calendar of a  *)
(* link, deletes the reservations of the link and inserts new ones.  The   *)
(* transaction around the two statements is handed to destroy as an        *)
(* argument it ignores, so the deletion is not undone with the insert and  *)
(* is seen before it.                                                      *)
(*                                                                         *)
(* The links are those of one listing.  What a site publishes is a version *)
(* number, and the rows one import inserts are one entry of reservations.  *)
(***************************************************************************)
EXTENDS Naturals, Sequences

CONSTANTS
  Links,
  Choices,      \* the lists of links the host enters
  Updates,      \* the executions of updateReservations there can be at once
  BlockSize,    \* MAX_CONCURRENT_REQUESTS
  MaxVersion,   \* bound: how often a site changes its calendar
  MaxEdits,     \* bound: how often the host edits the links
  MaxFailures   \* bound: how often something fails

ASSUME CalendarAssumption ==
  /\ Choices \subseteq Seq(Links)
  /\ BlockSize \in Nat \ {0}
  /\ MaxVersion \in Nat /\ MaxEdits \in Nat /\ MaxFailures \in Nat

VARIABLES
  calendars,     \* table ical: the links, in the order of their ids
  reservations,  \* table reservations: the imports whose rows each link has
  published,     \* the version of the calendar each site publishes
  update,        \* the executions of createOrUpdate and updateReservations
  newest,        \* history: the newest version of each link ever inserted
  overlapped,    \* history: have two imports of the link overlapped
  edits,         \* history: how often the host has edited the links
  failures       \* history: how often something has failed

tables == <<calendars, reservations>>
past == <<newest, overlapped>>
counts == <<edits, failures>>
vars == <<tables, published, update, past, counts>>

Versions == 0..MaxVersion

\* One calendar of the block that is imported.
Task == [link : Links, at : {"fetch", "destroy", "create", "done"}, version : Versions]

\* rest: the links still to be created, or the calendars of later blocks.
Update ==
  [ pc    : {"idle", "create", "find", "import"},
    rest  : Seq(Links),
    block : Seq(Task) ]

Idle == [pc |-> "idle", rest |-> << >>, block |-> << >>]

BlockDone(u) == \A i \in DOMAIN update[u].block : update[u].block[i].at = "done"

Become(u, execution) == update' = [update EXCEPT ![u] = execution]

\* The import of calendar i is over, in one way or another.
EndImport(u, i) ==
  update' = [update EXCEPT ![u].block[i].at = "done", ![u].block[i].version = 0]

-----------------------------------------------------------------------------
(* createOrUpdate and updateReservations.                                   *)

\* createListing or updateListing has validated the links, and createOrUpdate
\* deletes the listing's rows.
Edit(u, links) ==
  /\ update[u].pc = "idle"
  /\ edits < MaxEdits
  /\ edits' = edits + 1
  /\ calendars' = << >>
  /\ Become(u, [Idle EXCEPT !.pc = IF links = << >> THEN "find" ELSE "create",
                            !.rest = links])
  /\ UNCHANGED <<reservations, published, past, failures>>

\* Mutant: the whole list becomes one row.
CreateCalendarOfList(u) ==
  /\ update[u].pc = "create"
  /\ calendars' = Append(calendars, update[u].rest)
  /\ Become(u, [Idle EXCEPT !.pc = "find"])
  /\ UNCHANGED <<reservations, published, past, counts>>

\* Calendar.bulkCreate
CreateCalendars(u) ==
  /\ update[u].pc = "create"
  /\ calendars' = calendars \o update[u].rest
  /\ Become(u, [Idle EXCEPT !.pc = "find"])
  /\ UNCHANGED <<reservations, published, past, counts>>

\* updateReservations, called by createOrUpdate or by the lambda's POST, has
\* found the calendars.
FindCalendars(u) ==
  /\ update[u].pc \in {"idle", "find"}
  /\ Become(u, [Idle EXCEPT !.pc = "import", !.rest = calendars])
  /\ UNCHANGED <<tables, published, past, counts>>

Block(links) ==
  [i \in DOMAIN links |-> [link |-> links[i], at |-> "fetch", version |-> 0]]

\* Mutant: the next block starts one calendar too late.
NextBlockSkips(u) ==
  /\ update[u].pc = "import" /\ BlockDone(u) /\ update[u].rest # << >>
  /\ LET rest == update[u].rest
     IN Become(u, [update[u] EXCEPT
          !.block = Block(SubSeq(rest, 1, IF BlockSize < Len(rest) THEN BlockSize ELSE Len(rest))),
          !.rest = SubSeq(rest, BlockSize + 2, Len(rest))])
  /\ UNCHANGED <<tables, published, past, counts>>

\* The calendars of the next block are imported side by side.
NextBlock(u) ==
  /\ update[u].pc = "import" /\ BlockDone(u) /\ update[u].rest # << >>
  /\ LET rest == update[u].rest
     IN Become(u, [update[u] EXCEPT
          !.block = Block(SubSeq(rest, 1, IF BlockSize < Len(rest) THEN BlockSize ELSE Len(rest))),
          !.rest = SubSeq(rest, BlockSize + 1, Len(rest))])
  /\ UNCHANGED <<tables, published, past, counts>>

Finish(u) ==
  /\ update[u].pc = "import" /\ BlockDone(u) /\ update[u].rest = << >>
  /\ Become(u, Idle)
  /\ UNCHANGED <<tables, published, past, counts>>

-----------------------------------------------------------------------------
(* The import of one calendar.                                              *)

At(u, i, label) == i \in DOMAIN update[u].block /\ update[u].block[i].at = label

\* Somebody has fetched the link and not yet finished the import.
Importing(l) ==
  \E u \in Updates : \E i \in DOMAIN update[u].block :
    update[u].block[i].link = l /\ update[u].block[i].at \in {"destroy", "create"}

\* axios.get and parseDateRanges
Fetch(u, i) ==
  /\ At(u, i, "fetch")
  /\ LET l == update[u].block[i].link
     IN /\ overlapped' = [overlapped EXCEPT ![l] = @ \/ Importing(l)]
        /\ update' = [update EXCEPT ![u].block[i] =
                        [link |-> l, at |-> "destroy", version |-> published[l]]]
  /\ UNCHANGED <<tables, published, newest, counts>>

\* Mutant: no row has the link that is looked for.
DestroyNothing(u, i) ==
  /\ At(u, i, "destroy")
  /\ update' = [update EXCEPT ![u].block[i].at = "create"]
  /\ UNCHANGED <<tables, published, past, counts>>

\* Reservation.destroy
Destroy(u, i) ==
  /\ At(u, i, "destroy")
  /\ reservations' = [reservations EXCEPT ![update[u].block[i].link] = << >>]
  /\ update' = [update EXCEPT ![u].block[i].at = "create"]
  /\ UNCHANGED <<calendars, published, past, counts>>

\* Reservation.bulkCreate
Create(u, i) ==
  /\ At(u, i, "create")
  /\ LET task == update[u].block[i]
     IN /\ reservations' = [reservations EXCEPT ![task.link] = Append(@, task.version)]
        /\ newest' = [newest EXCEPT ![task.link] = IF @ < task.version THEN task.version ELSE @]
  /\ EndImport(u, i)
  /\ UNCHANGED <<calendars, published, overlapped, counts>>

Fail ==
  /\ failures < MaxFailures
  /\ failures' = failures + 1

\* The site does not answer, or the database refuses a statement: the import
\* of this calendar is given up where it is.
ImportFails(u, i) ==
  /\ Fail
  /\ i \in DOMAIN update[u].block /\ update[u].block[i].at # "done"
  /\ EndImport(u, i)
  /\ UNCHANGED <<tables, published, past, edits>>

\* The server process stops.
Crash(u) ==
  /\ Fail
  /\ update[u] # Idle
  /\ Become(u, Idle)
  /\ UNCHANGED <<tables, published, past, edits>>

\* The other site changes its calendar.
Publish(l) ==
  /\ published[l] < MaxVersion
  /\ published' = [published EXCEPT ![l] = @ + 1]
  /\ UNCHANGED <<tables, update, past, counts>>

-----------------------------------------------------------------------------
Init ==
  /\ calendars = << >>
  /\ reservations = [l \in Links |-> << >>]
  /\ published = [l \in Links |-> 0]
  /\ update = [u \in Updates |-> Idle]
  /\ newest = [l \in Links |-> 0]
  /\ overlapped = [l \in Links |-> FALSE]
  /\ edits = 0
  /\ failures = 0

Import(u) ==
  \E i \in DOMAIN update[u].block : Fetch(u, i) \/ Destroy(u, i) \/ Create(u, i)

Run(u) ==
  CreateCalendars(u) \/ FindCalendars(u) \/ NextBlock(u) \/ Finish(u) \/ Import(u)

Next ==
  \/ \E u \in Updates :
       \/ \E links \in Choices : Edit(u, links)
       \/ Run(u)
       \/ \E i \in DOMAIN update[u].block : ImportFails(u, i)
       \/ Crash(u)
  \/ \E l \in Links : Publish(l)

Spec == Init /\ [][Next]_vars

\* The lambda is scheduled again and again, sites answer, and so does the
\* database; the bound on failures lets them end.
FairSpec == Spec /\ \A u \in Updates : WF_vars(Run(u))

-----------------------------------------------------------------------------
TypeOK ==
  /\ calendars \in Seq(Links)
  /\ reservations \in [Links -> Seq(Versions)]
  /\ published \in [Links -> Versions]
  /\ update \in [Updates -> Update]
  /\ newest \in [Links -> Versions]
  /\ overlapped \in [Links -> BOOLEAN]
  /\ edits \in Nat
  /\ failures \in Nat

\* Unless two imports of a link overlapped, its reservations are those of one
\* import, and never older than what the table has had before; a failure or
\* a crash between the two statements leaves none at all.
OneImport ==
  \A l \in Links : ~overlapped[l] => reservations[l] \in {<< >>, <<newest[l]>>}

\* Once the failures have ended, the reservations of every calendar the
\* listing has agree with the site again and again, whatever overlapped
\* before.
KeepsUp ==
  \A l \in Links :
    []<>((\E i \in DOMAIN calendars : calendars[i] = l) => reservations[l] = <<published[l]>>)
=============================================================================

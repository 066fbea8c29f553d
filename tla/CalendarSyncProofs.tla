------------------------- MODULE CalendarSyncProofs -------------------------
(***************************************************************************)
(* For any number of links, executions, blocks and failures: the           *)
(* reservations of a link are those of one import.                         *)
(*                                                                         *)
(* While no two imports of a link have overlapped, the only one that can   *)
(* be under way writes what is at least as new as anything before, into a  *)
(* table its own statement has emptied (Clean).                            *)
(***************************************************************************)
EXTENDS CalendarSync, SequenceTheorems, TLAPS

\* Calendar j of the block of update w is one of link l that has been fetched.
Works(w, j, l) ==
  /\ j \in DOMAIN update[w].block
  /\ update[w].block[j].link = l
  /\ update[w].block[j].at \in {"destroy", "create"}

\* The only import of l that can be under way writes what is at least as new as
\* anything before, into a table its own statement has emptied.
Clean(l) ==
  /\ reservations[l] \in {<< >>, <<newest[l]>>}
  /\ \A w, x \in Updates, j, k \in Nat : Works(w, j, l) /\ Works(x, k, l) => w = x /\ j = k
  /\ \A w \in Updates, j \in Nat : Works(w, j, l) =>
       /\ newest[l] <= update[w].block[j].version
       /\ update[w].block[j].at = "create" => reservations[l] = << >>

\* Nothing is newer than what the site publishes.
Known(l) ==
  /\ newest[l] <= published[l]
  /\ \A w \in Updates, j \in Nat : Works(w, j, l) => update[w].block[j].version <= published[l]

SyncInv ==
  /\ TypeOK
  /\ \A l \in Links : Known(l) /\ (~overlapped[l] => Clean(l))

LEMMA VersionsAreNumbers == Versions \subseteq Nat /\ 0 \in Versions
  BY CalendarAssumption DEF Versions

LEMMA PublishedStands ==
  ASSUME TypeOK, published' = published
  PROVE  \A l \in Links : published[l] <= published'[l]
<1>1. \A l \in Links : published[l] \in Nat
  BY VersionsAreNumbers DEF TypeOK
<1> QED
  BY <1>1

LEMMA SyncInit == Init => SyncInv
<1> SUFFICES ASSUME Init PROVE SyncInv
  OBVIOUS
<1>1. Idle \in Update /\ Idle.block = << >>
  BY DEF Idle, Update
<1>2. TypeOK
  BY <1>1, VersionsAreNumbers DEF TypeOK, Init
<1>3. \A w \in Updates, j \in Nat, l \in Links : ~Works(w, j, l)
  <2>1. \A w \in Updates : update[w].block = << >>
    BY <1>1 DEF Init
  <2> QED
    BY <2>1 DEF Works
<1>4. \A l \in Links : Clean(l)
  BY <1>3 DEF Clean, Init
<1>5. \A l \in Links : Known(l)
  <2>1. \A l \in Links : newest[l] <= published[l]
    <3>1. \A l \in Links : newest[l] = 0 /\ published[l] = 0
      BY DEF Init
    <3>2. 0 <= 0
      OBVIOUS
    <3> QED
      BY <3>1, <3>2
  <2> QED
    BY <1>3, <2>1 DEF Known
<1> QED
  BY <1>2, <1>4, <1>5 DEF SyncInv

LEMMA TaskType ==
  ASSUME TypeOK, NEW u \in Updates, NEW i \in DOMAIN update[u].block
  PROVE  /\ update[u].block[i] \in Task
         /\ update[u].block[i].link \in Links
         /\ update[u].block[i].version \in Versions
         /\ i \in Nat
<1>1. update[u].block \in Seq(Task)
  BY DEF TypeOK, Update
<1>2. update[u].block[i] \in Task /\ i \in Nat
  BY <1>1
<1> QED
  BY <1>2 DEF Task

\* Fewer calendars are being imported, and nothing else has changed but what the
\* sites publish.
LEMMA FewerWork ==
  ASSUME SyncInv, TypeOK', UNCHANGED <<reservations, newest, overlapped>>,
         \A l \in Links : published[l] <= published'[l],
         \A w \in Updates, j \in Nat, l \in Links :
           Works(w, j, l)' => Works(w, j, l) /\ update'[w].block[j] = update[w].block[j]
  PROVE  SyncInv'
<1> SUFFICES ASSUME NEW l \in Links
             PROVE  Known(l)' /\ (~overlapped'[l] => Clean(l)')
  BY DEF SyncInv
<1>1. Known(l)'
  <2>1. /\ newest[l] \in Nat /\ published[l] \in Nat /\ published'[l] \in Nat
        /\ published[l] <= published'[l] /\ newest'[l] = newest[l] /\ Known(l)
    BY VersionsAreNumbers DEF SyncInv, TypeOK
  <2>2. ASSUME NEW w \in Updates, NEW j \in Nat, Works(w, j, l)'
        PROVE  update'[w].block[j].version <= published'[l]
    <3>1. Works(w, j, l) /\ update'[w].block[j] = update[w].block[j]
      BY <2>2
    <3>2. update[w].block[j].version \in Nat
      <4>1. TypeOK /\ j \in DOMAIN update[w].block
        BY <3>1 DEF SyncInv, Works
      <4> QED
        BY <4>1, TaskType, VersionsAreNumbers
    <3>3. update[w].block[j].version <= published[l]
      BY <2>1, <3>1 DEF Known
    <3> QED
      BY <2>1, <3>1, <3>2, <3>3
  <2> QED
    BY <2>1, <2>2 DEF Known
<1>2. ASSUME ~overlapped'[l] PROVE Clean(l)'
  <2>1. Clean(l)
    BY <1>2 DEF SyncInv
  <2> QED
    BY <2>1 DEF Clean
<1> QED
  BY <1>1, <1>2

-----------------------------------------------------------------------------
(* One calendar of a block moves on.                                        *)

PutTask(f, u, i, t) ==
  [f EXCEPT ![u] = [f[u] EXCEPT !.block = [f[u].block EXCEPT ![i] = t]]]

LEMMA TaskPut ==
  ASSUME NEW f \in [Updates -> Update], NEW u \in Updates,
         NEW i \in DOMAIN f[u].block, NEW t \in Task
  PROVE  /\ PutTask(f, u, i, t) \in [Updates -> Update]
         /\ DOMAIN PutTask(f, u, i, t)[u].block = DOMAIN f[u].block
         /\ PutTask(f, u, i, t)[u].block[i] = t
         /\ \A j \in DOMAIN f[u].block \ {i} : PutTask(f, u, i, t)[u].block[j] = f[u].block[j]
         /\ \A w \in Updates \ {u} : PutTask(f, u, i, t)[w] = f[w]
         /\ i \in Nat
<1> DEFINE s == f[u].block
           p == [s EXCEPT ![i] = t]
           e == [f[u] EXCEPT !.block = p]
<1>1. f[u] \in Update /\ s \in Seq(Task) /\ i \in 1..Len(s) /\ Len(s) \in Nat
  BY DEF Update
<1>2. p \in Seq(Task) /\ DOMAIN p = DOMAIN s /\ p[i] = t
      /\ \A j \in DOMAIN s \ {i} : p[j] = s[j]
  BY <1>1
<1>3. e \in Update /\ e.block = p
  <2> HIDE DEF p
  <2> QED
    BY <1>1, <1>2 DEF Update
<1>4. PutTask(f, u, i, t) = [f EXCEPT ![u] = e]
  BY DEF PutTask
<1> HIDE DEF e, p
<1>5. /\ [f EXCEPT ![u] = e] \in [Updates -> Update]
      /\ [f EXCEPT ![u] = e][u] = e
      /\ \A w \in Updates \ {u} : [f EXCEPT ![u] = e][w] = f[w]
  BY <1>3
<1> QED
  BY <1>1, <1>2, <1>3, <1>4, <1>5

\* What a step does that puts t in the place of calendar i of update u.
Puts(u, i, t) ==
  /\ update' \in [Updates -> Update]
  /\ DOMAIN update'[u].block = DOMAIN update[u].block
  /\ update'[u].block[i] = t
  /\ \A j \in DOMAIN update[u].block \ {i} : update'[u].block[j] = update[u].block[j]
  /\ \A w \in Updates \ {u} : update'[w] = update[w]
  /\ i \in Nat

LEMMA PutsTask ==
  ASSUME TypeOK, NEW u \in Updates, NEW i \in DOMAIN update[u].block,
         NEW t \in Task, update' = PutTask(update, u, i, t)
  PROVE  Puts(u, i, t)
<1>1. update \in [Updates -> Update]
  BY DEF TypeOK
<1> QED
  BY <1>1, TaskPut DEF Puts

LEMMA EndsImport ==
  ASSUME TypeOK, NEW u \in Updates, NEW i \in DOMAIN update[u].block,
         EndImport(u, i)
  PROVE  \E t \in Task : t.at = "done" /\ Puts(u, i, t)
<1> DEFINE t1 == [update[u].block[i] EXCEPT !.at = "done"]
           f == PutTask(update, u, i, t1)
           t2 == [t1 EXCEPT !.version = 0]
<1>1. t1 \in Task /\ t2 \in Task /\ t2.at = "done"
  BY TaskType, VersionsAreNumbers DEF Task
<1>2. update \in [Updates -> Update]
  BY DEF TypeOK
<1>3. f[u].block[i] = t1
  <2> HIDE DEF t1
  <2> QED
    BY <1>1, <1>2, TaskPut
<1>4. update' = [f EXCEPT ![u] = [f[u] EXCEPT !.block =
                   [f[u].block EXCEPT ![i] = [f[u].block[i] EXCEPT !.version = 0]]]]
  BY DEF EndImport, PutTask
<1>5. update' = PutTask(f, u, i, t2)
  <2> HIDE DEF f
  <2> QED
    BY <1>3, <1>4 DEF PutTask
<1> HIDE DEF t1, t2
<1>6. /\ f \in [Updates -> Update]
      /\ DOMAIN f[u].block = DOMAIN update[u].block
      /\ \A j \in DOMAIN update[u].block \ {i} : f[u].block[j] = update[u].block[j]
      /\ \A w \in Updates \ {u} : f[w] = update[w]
  BY <1>1, <1>2, TaskPut
<1> HIDE DEF f
<1>7. Puts(u, i, t2)
  BY <1>1, <1>5, <1>6, TaskPut DEF Puts
<1> QED
  BY <1>1, <1>7

\* The import of calendar i goes on or ends; those of the other calendars stand.
LEMMA TaskMoves ==
  ASSUME NEW u \in Updates, NEW i \in DOMAIN update[u].block, NEW t \in Task,
         Puts(u, i, t), NEW w \in Updates, NEW j \in Nat, NEW l
  PROVE  /\ w = u /\ j = i => (Works(w, j, l)' <=> t.link = l /\ t.at \in {"destroy", "create"})
         /\ ~(w = u /\ j = i) => (Works(w, j, l)' <=> Works(w, j, l))
         /\ ~(w = u /\ j = i) /\ Works(w, j, l) => update'[w].block[j] = update[w].block[j]
  BY DEF Puts, Works

-----------------------------------------------------------------------------
(* The steps of CalendarSync.                                               *)

\* An execution starts, goes on to its next block, or is over.
LEMMA BecomeInv ==
  ASSUME SyncInv, NEW u \in Updates, NEW e \in Update, Become(u, e),
         UNCHANGED <<reservations, published, newest, overlapped>>,
         calendars' \in Seq(Links), edits' \in Nat, failures' \in Nat,
         \A i \in DOMAIN e.block : e.block[i].at = "fetch"
  PROVE  SyncInv'
<1>1. update \in [Updates -> Update] /\ update' = [update EXCEPT ![u] = e]
  BY DEF SyncInv, TypeOK, Become
<1>2. TypeOK'
  BY <1>1 DEF SyncInv, TypeOK, Versions
<1>3. \A w \in Updates : update'[w] = IF w = u THEN e ELSE update[w]
  BY <1>1
<1>4. ASSUME NEW w \in Updates, NEW j \in Nat, NEW l \in Links, Works(w, j, l)'
      PROVE  Works(w, j, l) /\ update'[w].block[j] = update[w].block[j]
  BY <1>3, <1>4 DEF Works
<1>5. \A l \in Links : published[l] \in Nat
  BY VersionsAreNumbers DEF SyncInv, TypeOK
<1> QED
  BY <1>2, <1>4, <1>5, FewerWork

LEMMA IdleUpdate ==
  ASSUME NEW label \in {"idle", "create", "find", "import"}, NEW links \in Seq(Links)
  PROVE  LET e == [pc |-> label, rest |-> links, block |-> << >>]
         IN e \in Update /\ \A i \in DOMAIN e.block : e.block[i].at = "fetch"
  BY DEF Update

Begun(label, links) == [Idle EXCEPT !.pc = label, !.rest = links]

LEMMA IdleWith ==
  ASSUME NEW label, NEW links
  PROVE  Begun(label, links) = [pc |-> label, rest |-> links, block |-> << >>]
<1>1. [Idle EXCEPT !.pc = label] = [pc |-> label, rest |-> << >>, block |-> << >>]
  BY DEF Idle
<1>2. [[pc |-> label, rest |-> << >>, block |-> << >>] EXCEPT !.rest = links]
        = [pc |-> label, rest |-> links, block |-> << >>]
  OBVIOUS
<1> QED
  BY <1>1, <1>2 DEF Begun

LEMMA EditInv ==
  ASSUME SyncInv, NEW u \in Updates, NEW links \in Choices, Edit(u, links)
  PROVE  SyncInv'
<1> DEFINE label == IF links = << >> THEN "find" ELSE "create"
           e == [pc |-> label, rest |-> links, block |-> << >>]
<1>1. links \in Seq(Links) /\ label \in {"idle", "create", "find", "import"}
  BY CalendarAssumption
<1>2. Become(u, e)
  <2>1. Become(u, Begun(label, links))
    BY DEF Edit, Begun
  <2> QED
    BY <2>1, IdleWith
<1>3. /\ UNCHANGED <<reservations, published, newest, overlapped>>
      /\ calendars' \in Seq(Links) /\ edits' \in Nat /\ failures' \in Nat
  BY DEF Edit, past, SyncInv, TypeOK
<1> HIDE DEF label
<1>4. e \in Update /\ \A i \in DOMAIN e.block : e.block[i].at = "fetch"
  BY <1>1, IdleUpdate
<1> HIDE DEF e
<1> QED
  BY <1>2, <1>3, <1>4, BecomeInv

LEMMA CreateCalendarsInv ==
  ASSUME SyncInv, NEW u \in Updates, CreateCalendars(u)
  PROVE  SyncInv'
<1> DEFINE e == [pc |-> "find", rest |-> << >>, block |-> << >>]
<1>1. Become(u, e)
  BY DEF CreateCalendars, Idle
<1>2. update[u].rest \in Seq(Links) /\ calendars \in Seq(Links)
  BY DEF SyncInv, TypeOK, Update
<1>3. calendars \o update[u].rest \in Seq(Links)
  BY <1>2, ConcatProperties
<1>4. /\ UNCHANGED <<reservations, published, newest, overlapped>>
      /\ calendars' \in Seq(Links) /\ edits' \in Nat /\ failures' \in Nat
  BY <1>3 DEF CreateCalendars, past, counts, SyncInv, TypeOK
<1>5. e \in Update /\ \A i \in DOMAIN e.block : e.block[i].at = "fetch"
  <2>1. << >> \in Seq(Links)
    OBVIOUS
  <2> QED
    BY <2>1, IdleUpdate DEF e
<1> HIDE DEF e
<1> QED
  BY <1>1, <1>4, <1>5, BecomeInv

LEMMA FindCalendarsInv ==
  ASSUME SyncInv, NEW u \in Updates, FindCalendars(u)
  PROVE  SyncInv'
<1> DEFINE links == calendars
           e == [pc |-> "import", rest |-> links, block |-> << >>]
<1>1. Become(u, e)
  <2>1. Become(u, Begun("import", links))
    BY DEF FindCalendars, Begun
  <2> QED
    BY <2>1, IdleWith
<1>2. /\ UNCHANGED <<reservations, published, newest, overlapped>>
      /\ calendars' \in Seq(Links) /\ edits' \in Nat /\ failures' \in Nat
      /\ calendars \in Seq(Links)
  BY DEF FindCalendars, past, counts, tables, SyncInv,
         TypeOK
<1>3. e \in Update /\ \A i \in DOMAIN e.block : e.block[i].at = "fetch"
  BY <1>2, IdleUpdate
<1> HIDE DEF e
<1> QED
  BY <1>1, <1>2, <1>3, BecomeInv

LEMMA NextBlockInv ==
  ASSUME SyncInv, NEW u \in Updates, NextBlock(u)
  PROVE  SyncInv'
<1> DEFINE rest == update[u].rest
           n == IF BlockSize < Len(rest) THEN BlockSize ELSE Len(rest)
           first == SubSeq(rest, 1, n)
           later == SubSeq(rest, BlockSize + 1, Len(rest))
           e == [update[u] EXCEPT !.block = Block(first), !.rest = later]
<1>1. update[u] \in Update /\ rest \in Seq(Links) /\ Len(rest) \in Nat /\ BlockSize \in Nat
  BY CalendarAssumption DEF SyncInv, TypeOK, Update
<1>2. n \in 0..Len(rest) /\ 1 \in 1..(Len(rest) + 1)
  BY <1>1
<1>3. first \in Seq(Links)
  <2> HIDE DEF n, rest
  <2>1. n <= Len(rest) /\ n \in Nat
    BY <1>1, <1>2
  <2> QED
    BY <1>1, <2>1
<1>4. later \in Seq(Links)
  <2> HIDE DEF n, rest
  <2> QED
    BY <1>1
<1> HIDE DEF first, later, n
<1>5. /\ Block(first) \in Seq(Task)
      /\ \A i \in DOMAIN Block(first) : Block(first)[i].at = "fetch"
  <2>1. \A i \in 1..Len(first) :
          [link |-> first[i], at |-> "fetch", version |-> 0] \in Task
    BY <1>3, VersionsAreNumbers DEF Task
  <2>2. DOMAIN first = 1..Len(first) /\ Len(first) \in Nat
    BY <1>3
  <2> QED
    BY <2>1, <2>2 DEF Block
<1>6. e \in Update /\ e.block = Block(first)
  <2> DEFINE k == Block(first)
  <2> HIDE DEF k
  <2>1. k \in Seq(Task)
    BY <1>5 DEF k
  <2>2. [update[u] EXCEPT !.block = k, !.rest = later] \in Update
        /\ [update[u] EXCEPT !.block = k, !.rest = later].block = k
    BY <1>1, <1>4, <2>1 DEF Update
  <2> QED
    BY <2>2 DEF k
<1>7. Become(u, e)
  BY DEF NextBlock, first, later, n
<1>8. /\ UNCHANGED <<reservations, published, newest, overlapped>>
      /\ calendars' \in Seq(Links) /\ edits' \in Nat /\ failures' \in Nat
  BY DEF NextBlock, past, counts, tables, SyncInv,
         TypeOK
<1> HIDE DEF e
<1> QED
  BY <1>5, <1>6, <1>7, <1>8, BecomeInv

\* Finish and Crash: the execution is over.
LEMMA OverInv ==
  ASSUME SyncInv, NEW u \in Updates, Finish(u) \/ Crash(u)
  PROVE  SyncInv'
<1> DEFINE e == [pc |-> "idle", rest |-> << >>, block |-> << >>]
<1>1. Become(u, e)
  BY DEF Finish, Crash, Idle
<1>2. /\ UNCHANGED <<reservations, published, newest, overlapped>>
      /\ calendars' \in Seq(Links) /\ edits' \in Nat /\ failures' \in Nat
  <2>1. calendars \in Seq(Links) /\ edits \in Nat /\ failures \in Nat
    BY DEF SyncInv, TypeOK
  <2>2. CASE Finish(u)
    BY <2>1, <2>2 DEF Finish, past, counts, tables
  <2>3. CASE Crash(u)
    BY <2>1, <2>3 DEF Crash, Fail, past, tables
  <2> QED
    BY <2>2, <2>3
<1>3. e \in Update /\ \A i \in DOMAIN e.block : e.block[i].at = "fetch"
  <2>1. << >> \in Seq(Links)
    OBVIOUS
  <2> QED
    BY <2>1, IdleUpdate DEF e
<1> HIDE DEF e
<1> QED
  BY <1>1, <1>2, <1>3, BecomeInv

LEMMA PublishInv ==
  ASSUME SyncInv, NEW m \in Links, Publish(m)
  PROVE  SyncInv'
<1>1. /\ UNCHANGED <<calendars, reservations, update, newest, overlapped, edits, failures>>
      /\ published \in [Links -> 0..MaxVersion] /\ published[m] < MaxVersion
      /\ published' = [published EXCEPT ![m] = @ + 1] /\ MaxVersion \in Nat
  BY CalendarAssumption DEF Publish, past, counts,
       tables, SyncInv, TypeOK, Versions
<1>2. published' \in [Links -> 0..MaxVersion] /\ \A l \in Links : published[l] <= published'[l]
  BY <1>1
<1>3. TypeOK'
  BY <1>1, <1>2 DEF SyncInv, TypeOK, Versions
<1>4. \A w \in Updates, j \in Nat, l \in Links :
        Works(w, j, l)' => Works(w, j, l) /\ update'[w].block[j] = update[w].block[j]
  BY <1>1 DEF Works
<1> QED
  BY <1>1, <1>2, <1>3, <1>4, FewerWork

LEMMA FetchInv ==
  ASSUME SyncInv, NEW u \in Updates, NEW i \in DOMAIN update[u].block, Fetch(u, i)
  PROVE  SyncInv'
<1> DEFINE l0 == update[u].block[i].link
           t == [link |-> l0, at |-> "destroy", version |-> published[l0]]
<1>1. TypeOK /\ l0 \in Links /\ i \in Nat /\ update[u].block[i].at = "fetch"
  BY TaskType DEF SyncInv, Fetch, At
<1>2. t \in Task /\ t.link = l0 /\ t.at = "destroy" /\ t.version = published[l0]
  BY <1>1 DEF Task, TypeOK
<1>3. update' = PutTask(update, u, i, t)
  BY DEF Fetch, PutTask
<1>4. /\ UNCHANGED <<calendars, reservations, published, newest, edits, failures>>
      /\ overlapped' = [overlapped EXCEPT ![l0] = @ \/ Importing(l0)]
  BY DEF Fetch, counts, tables
<1> HIDE DEF t
<1>5. Puts(u, i, t)
  BY <1>1, <1>2, <1>3, PutsTask
<1>6. TypeOK'
  <2>1. overlapped' \in [Links -> BOOLEAN]
    BY <1>1, <1>4 DEF TypeOK
  <2> QED
    BY <1>1, <1>4, <1>5, <2>1 DEF TypeOK, Puts, Versions
<1> SUFFICES ASSUME NEW l \in Links
             PROVE  Known(l)' /\ (~overlapped'[l] => Clean(l)')
  BY <1>6 DEF SyncInv
<1>7. newest[l] <= published[l] /\ Known(l)'
  <2>1. newest[l] <= published[l]
    BY DEF SyncInv, Known
  <2>2. published[l] <= published[l]
    <3>1. published[l] \in Nat
      BY <1>1, VersionsAreNumbers DEF TypeOK
    <3> QED
      BY <3>1
  <2>3. ASSUME NEW w \in Updates, NEW j \in Nat, Works(w, j, l)'
        PROVE  update'[w].block[j].version <= published[l]
    <3>1. CASE w = u /\ j = i
      <4>1. update'[w].block[j] = t /\ l = l0
        BY <1>2, <1>5, <2>3, <3>1, TaskMoves DEF Puts
      <4> QED
        BY <1>2, <2>2, <4>1
    <3>2. CASE ~(w = u /\ j = i)
      <4>1. Works(w, j, l) /\ update'[w].block[j] = update[w].block[j]
        BY <1>2, <1>5, <2>3, <3>2, TaskMoves
      <4> QED
        BY <4>1 DEF SyncInv, Known
    <3> QED
      BY <3>1, <3>2
  <2> QED
    BY <1>4, <2>1, <2>3 DEF Known
<1>8. ASSUME ~overlapped'[l] PROVE Clean(l)'
  <2>1. Clean(l) /\ (l = l0 => ~Importing(l))
    BY <1>1, <1>4, <1>8 DEF SyncInv, TypeOK
  <2>2. l = l0 => \A w \in Updates, j \in Nat : ~Works(w, j, l)
    BY <2>1 DEF Importing, Works
  <2>3. \A w \in Updates, j \in Nat :
          /\ w = u /\ j = i => (Works(w, j, l)' <=> l = l0)
          /\ ~(w = u /\ j = i) => (Works(w, j, l)' <=> Works(w, j, l))
          /\ ~(w = u /\ j = i) /\ Works(w, j, l) => update'[w].block[j] = update[w].block[j]
    BY <1>2, <1>5, TaskMoves
  <2>4. update'[u].block[i] = t
    BY <1>5 DEF Puts
  <2>5. /\ reservations'[l] = reservations[l] /\ newest'[l] = newest[l]
        /\ l = l0 => newest[l] <= t.version
        /\ t.at # "create"
    BY <1>2, <1>4, <1>7
  <2>6. \A w, x \in Updates, j, k \in Nat : Works(w, j, l)' /\ Works(x, k, l)' => w = x /\ j = k
    BY <2>1, <2>2, <2>3 DEF Clean
  <2>7. \A w \in Updates, j \in Nat : Works(w, j, l)' =>
          /\ newest'[l] <= update'[w].block[j].version
          /\ update'[w].block[j].at = "create" => reservations'[l] = << >>
    BY <2>1, <2>2, <2>3, <2>4, <2>5 DEF Clean
  <2> QED
    BY <2>1, <2>5, <2>6, <2>7 DEF Clean
<1> QED
  BY <1>4, <1>7, <1>8

LEMMA DestroyInv ==
  ASSUME SyncInv, NEW u \in Updates, NEW i \in DOMAIN update[u].block, Destroy(u, i)
  PROVE  SyncInv'
<1> DEFINE l0 == update[u].block[i].link
           t == [update[u].block[i] EXCEPT !.at = "create"]
<1>1. TypeOK /\ l0 \in Links /\ i \in Nat /\ update[u].block[i].at = "destroy"
      /\ update[u].block[i] \in Task
  BY TaskType DEF SyncInv, Destroy, At
<1>2. /\ t \in Task /\ t.link = l0 /\ t.at = "create"
      /\ t.version = update[u].block[i].version
  BY <1>1 DEF Task
<1>3. update' = PutTask(update, u, i, t)
  BY DEF Destroy, PutTask
<1>4. /\ UNCHANGED <<calendars, published, newest, overlapped, edits, failures>>
      /\ reservations' = [reservations EXCEPT ![l0] = << >>]
  BY DEF Destroy, counts, past
<1> HIDE DEF t
<1>5. Puts(u, i, t)
  BY <1>1, <1>2, <1>3, PutsTask
<1>6. TypeOK'
  <2>1. reservations' \in [Links -> Seq(Versions)]
    BY <1>1, <1>4 DEF TypeOK
  <2> QED
    BY <1>1, <1>4, <1>5, <2>1 DEF TypeOK, Puts, Versions
<1> SUFFICES ASSUME NEW l \in Links
             PROVE  Known(l)' /\ (~overlapped'[l] => Clean(l)')
  BY <1>6 DEF SyncInv
<1>7. Known(l)'
  <2>1. Known(l)
    BY DEF SyncInv
  <2>2. ASSUME NEW w \in Updates, NEW j \in Nat, Works(w, j, l)'
        PROVE  update'[w].block[j].version <= published[l]
    <3>1. CASE w = u /\ j = i
      <4>1. update'[w].block[j].version = update[u].block[i].version /\ l = l0
        <5>1. update'[u].block[i] = t
          BY <1>5 DEF Puts
        <5>2. Works(u, i, l)'
          BY <2>2, <3>1
        <5> QED
          BY <1>2, <3>1, <5>1, <5>2 DEF Works
      <4>2. Works(u, i, l)
        BY <1>1, <4>1 DEF Works
      <4>3. update[u].block[i].version <= published[l]
        BY <1>1, <2>1, <4>2 DEF Known
      <4> QED
        BY <4>1, <4>3
    <3>2. CASE ~(w = u /\ j = i)
      <4>1. Works(w, j, l) /\ update'[w].block[j] = update[w].block[j]
        BY <1>2, <1>5, <2>2, <3>2, TaskMoves
      <4> QED
        BY <2>1, <4>1 DEF Known
    <3> QED
      BY <3>1, <3>2
  <2> QED
    BY <1>4, <2>1, <2>2 DEF Known
<1>8. ASSUME ~overlapped'[l] PROVE Clean(l)'
  <2>1. Clean(l)
    BY <1>4, <1>8 DEF SyncInv
  <2>2. Works(u, i, l0)
    BY <1>1 DEF Works
  <2>3. \A w \in Updates, j \in Nat :
          /\ w = u /\ j = i => (Works(w, j, l)' <=> l = l0)
          /\ ~(w = u /\ j = i) => (Works(w, j, l)' <=> Works(w, j, l))
          /\ ~(w = u /\ j = i) /\ Works(w, j, l) => update'[w].block[j] = update[w].block[j]
    BY <1>2, <1>5, TaskMoves
  <2>4. update'[u].block[i] = t
    BY <1>5 DEF Puts
  <2>5. /\ reservations'[l] = IF l = l0 THEN << >> ELSE reservations[l]
        /\ newest'[l] = newest[l]
        /\ l = l0 => newest[l] <= t.version
    BY <1>1, <1>2, <1>4, <2>1, <2>2 DEF Clean, TypeOK
  <2>6. \A w, x \in Updates, j, k \in Nat : Works(w, j, l)' /\ Works(x, k, l)' => w = x /\ j = k
    <3>1. \A w \in Updates, j \in Nat : Works(w, j, l)' => Works(w, j, l)
      BY <2>2, <2>3
    <3> QED
      BY <2>1, <3>1 DEF Clean
  <2>7. \A w \in Updates, j \in Nat : Works(w, j, l)' =>
          /\ newest'[l] <= update'[w].block[j].version
          /\ update'[w].block[j].at = "create" => reservations'[l] = << >>
    BY <2>1, <2>3, <2>4, <2>5 DEF Clean
  <2> QED
    BY <2>1, <2>5, <2>6, <2>7 DEF Clean
<1> QED
  BY <1>4, <1>7, <1>8

LEMMA CreateInv ==
  ASSUME SyncInv, NEW u \in Updates, NEW i \in DOMAIN update[u].block, Create(u, i)
  PROVE  SyncInv'
<1> DEFINE l0 == update[u].block[i].link
           v == update[u].block[i].version
<1>1. /\ TypeOK /\ l0 \in Links /\ i \in Nat /\ v \in Versions
      /\ update[u].block[i].at = "create"
  BY TaskType DEF SyncInv, Create, At
<1>2. PICK t \in Task : t.at = "done" /\ Puts(u, i, t)
  BY <1>1, EndsImport DEF Create
<1>3. /\ UNCHANGED <<calendars, published, overlapped, edits, failures>>
      /\ reservations' = [reservations EXCEPT ![l0] = Append(@, v)]
      /\ newest' = [newest EXCEPT ![l0] = IF @ < v THEN v ELSE @]
  BY DEF Create, counts
<1>4. reservations \in [Links -> Seq(Versions)] /\ newest \in [Links -> Versions]
      /\ published \in [Links -> Versions]
  BY <1>1 DEF TypeOK
<1> HIDE DEF v, l0
<1>5. TypeOK'
  <2>1. Append(reservations[l0], v) \in Seq(Versions)
    BY <1>1, <1>4
  <2>2. reservations' \in [Links -> Seq(Versions)]
    BY <1>1, <1>3, <1>4, <2>1
  <2>3. newest' \in [Links -> Versions]
    BY <1>1, <1>3, <1>4
  <2> QED
    BY <1>1, <1>2, <1>3, <2>2, <2>3 DEF TypeOK, Puts, Versions
<1> SUFFICES ASSUME NEW l \in Links
             PROVE  Known(l)' /\ (~overlapped'[l] => Clean(l)')
  BY <1>5 DEF SyncInv
<1>6. /\ newest[l] \in Nat /\ published[l] \in Nat /\ v \in Nat
      /\ newest'[l] = IF l = l0 /\ newest[l] < v THEN v ELSE newest[l]
      /\ reservations'[l] = IF l = l0 THEN Append(reservations[l], v) ELSE reservations[l]
  BY <1>1, <1>3, <1>4, VersionsAreNumbers
<1>7. Works(u, i, l0)
  BY <1>1 DEF Works, l0
<1>8. \A w \in Updates, j \in Nat : Works(w, j, l)' =>
        /\ ~(w = u /\ j = i)
        /\ Works(w, j, l)
        /\ update'[w].block[j] = update[w].block[j]
  BY <1>1, <1>2, TaskMoves
<1>9. Known(l)'
  <2>1. Known(l)
    BY DEF SyncInv
  <2>2. l = l0 => v <= published[l]
    BY <1>1, <1>7, <2>1 DEF Known, v
  <2>3. newest'[l] <= published'[l]
    BY <1>3, <1>6, <2>1, <2>2 DEF Known
  <2> QED
    BY <1>3, <1>8, <2>1, <2>3 DEF Known
<1>10. ASSUME ~overlapped'[l] PROVE Clean(l)'
  <2>1. Clean(l)
    BY <1>3, <1>10 DEF SyncInv
  <2>2. CASE l = l0
    <3>1. newest[l] <= v /\ reservations[l] = << >>
      BY <1>1, <1>7, <2>1, <2>2 DEF Clean, v
    <3>2. reservations'[l] = <<v>> /\ newest'[l] = v
      BY <1>6, <2>2, <3>1
    <3>3. \A w \in Updates, j \in Nat : ~Works(w, j, l)'
      BY <1>1, <1>7, <1>8, <2>1, <2>2 DEF Clean
    <3> QED
      BY <3>2, <3>3 DEF Clean
  <2>3. CASE l # l0
    BY <1>6, <1>8, <2>1, <2>3 DEF Clean
  <2> QED
    BY <2>2, <2>3
<1> QED
  BY <1>9, <1>10

LEMMA ImportFailsInv ==
  ASSUME SyncInv, NEW u \in Updates, NEW i \in DOMAIN update[u].block,
         ImportFails(u, i)
  PROVE  SyncInv'
<1>1. TypeOK /\ i \in Nat
  BY TaskType DEF SyncInv
<1>2. PICK t \in Task : t.at = "done" /\ Puts(u, i, t)
  BY <1>1, EndsImport DEF ImportFails
<1>3. /\ UNCHANGED <<calendars, reservations, published, newest, overlapped, edits>>
      /\ failures' = failures + 1
  BY DEF ImportFails, Fail, tables, past
<1>4. TypeOK'
  BY <1>1, <1>2, <1>3 DEF TypeOK, Puts, Versions
<1>5. ASSUME NEW w \in Updates, NEW j \in Nat, NEW l \in Links, Works(w, j, l)'
      PROVE  Works(w, j, l) /\ update'[w].block[j] = update[w].block[j]
  BY <1>1, <1>2, <1>5, TaskMoves
<1>6. \A l \in Links : published[l] <= published'[l]
  BY <1>1, <1>3, PublishedStands
<1> QED
  BY <1>3, <1>4, <1>5, <1>6, FewerWork

LEMMA SyncNext == SyncInv /\ [Next]_vars => SyncInv'
<1> SUFFICES ASSUME SyncInv, [Next]_vars PROVE SyncInv'
  OBVIOUS
<1>1. ASSUME NEW u \in Updates, NEW links \in Choices, Edit(u, links) PROVE SyncInv'
  BY <1>1, EditInv
<1>2. ASSUME NEW u \in Updates, Run(u) PROVE SyncInv'
  <2>1. CASE CreateCalendars(u)
    BY <2>1, CreateCalendarsInv
  <2>2. CASE FindCalendars(u)
    BY <2>2, FindCalendarsInv
  <2>3. CASE NextBlock(u)
    BY <2>3, NextBlockInv
  <2>4. CASE Finish(u)
    BY <2>4, OverInv
  <2>5. ASSUME NEW i \in DOMAIN update[u].block, Fetch(u, i) PROVE SyncInv'
    BY <2>5, FetchInv
  <2>6. ASSUME NEW i \in DOMAIN update[u].block, Destroy(u, i) PROVE SyncInv'
    BY <2>6, DestroyInv
  <2>7. ASSUME NEW i \in DOMAIN update[u].block, Create(u, i) PROVE SyncInv'
    BY <2>7, CreateInv
  <2> QED
    BY <1>2, <2>1, <2>2, <2>3, <2>4, <2>5, <2>6, <2>7 DEF Run, Import
<1>3. ASSUME NEW u \in Updates, NEW i \in DOMAIN update[u].block, ImportFails(u, i)
      PROVE  SyncInv'
  BY <1>3, ImportFailsInv
<1>4. ASSUME NEW u \in Updates, Crash(u) PROVE SyncInv'
  BY <1>4, OverInv
<1>5. ASSUME NEW l \in Links, Publish(l) PROVE SyncInv'
  BY <1>5, PublishInv
<1>6. CASE UNCHANGED vars
  <2>1. UNCHANGED <<calendars, reservations, published, update, newest, overlapped, edits, failures>>
    BY <1>6 DEF vars, tables, past, counts
  <2>2. TypeOK'
    BY <2>1 DEF SyncInv, TypeOK, Versions
  <2>3. \A l \in Links : published[l] <= published'[l]
    BY <2>1, PublishedStands DEF SyncInv
  <2>4. ASSUME NEW w \in Updates, NEW j \in Nat, NEW l \in Links, Works(w, j, l)'
        PROVE  Works(w, j, l) /\ update'[w].block[j] = update[w].block[j]
    BY <2>1, <2>4 DEF Works
  <2> QED
    BY <2>1, <2>2, <2>3, <2>4, FewerWork
<1> QED
  BY <1>1, <1>2, <1>3, <1>4, <1>5, <1>6 DEF Next

\* Every variable keeps its type, whatever overlaps, fails or stops.
THEOREM TypeCorrect == Spec => []TypeOK
<1>1. SyncInv => TypeOK
  BY DEF SyncInv
<1> QED
  BY <1>1, SyncInit, SyncNext, PTL DEF Spec

\* Unless two imports of a link overlapped, its reservations are those of one
\* import and the newest the table has had, or none: for every number of links,
\* executions, blocks and failures.
THEOREM FollowsOneImport == Spec => []OneImport
<1>1. SyncInv => OneImport
  BY DEF SyncInv, Clean, OneImport
<1> QED
  BY <1>1, SyncInit, SyncNext, PTL DEF Spec
=============================================================================

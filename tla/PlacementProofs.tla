-------------------------- MODULE PlacementProofs --------------------------
(***************************************************************************)
(* The reservation table is never half a task's, a selection that holds    *)
(* the table's lock never loses a worker it has found able, no worker gets *)
(* two tasks for one port, a task is given up only if nobody could take    *)
(* it, and round robin takes turns.                                        *)
(***************************************************************************)
EXTENDS Placement, DataProofs, SequenceTheorems

TypedTable(tab) == tab \in [Node -> [Key -> Task \union {NoTask}]]

Whole(tab) == \A n \in Node, t \in Task : Held(tab, n, t) \in {{}, pins[t]}

IsAttempt(a) ==
    /\ a = [pc |-> a.pc, left |-> a.left, able |-> a.able, node |-> a.node]
    /\ \E S : a.able \in Seq(S)

\* The attempts are records; whoever selects holds the lock.
Locked ==
    /\ attempt = [t \in Task |-> attempt[t]]
    /\ \A t \in Task : IsAttempt(attempt[t])
    /\ \A t \in Task : In(t, "keep") \/ In(t, "scan") => holder = t

PInv ==
    /\ pins \in [Task -> SUBSET Key]
    /\ TypedTable(table)
    /\ AllOrNothing
    /\ Locked
    /\ RaceNeverLost

-----------------------------------------------------------------------------
(* The operations of the table *)

\* A reservation that finds no conflict takes from nobody.
LEMMA ClaimedWhole ==
    ASSUME NEW n, NEW t \in Task, pins \in [Task -> SUBSET Key],
           TypedTable(table), Whole(table), ~Clash(n, t, TRUE)
    PROVE  TypedTable(Claimed(table, n, t)) /\ Whole(Claimed(table, n, t))
<1> DEFINE tab == Claimed(table, n, t)
<1>1. TypedTable(tab)
  BY DEF TypedTable, Claimed
<1>2. ASSUME NEW m \in Node, NEW u \in Task, NEW k \in Key
      PROVE  tab[m][k] = IF m = n /\ k \in pins[t] THEN t ELSE table[m][k]
  BY DEF TypedTable, Claimed
<1>3. ASSUME NEW m \in Node, NEW u \in Task
      PROVE  Held(tab, m, u) \in {{}, pins[u]}
  <2>1. Held(table, m, u) \in {{}, pins[u]}
    BY DEF Whole
  <2>2. CASE m = n /\ u = t
    <3>1. Held(tab, m, u) = pins[u]
      BY <1>2, <2>1, <2>2 DEF Held
    <3> QED BY <3>1
  <2>3. CASE ~(m = n /\ u = t)
    <3>1. Held(tab, m, u) = Held(table, m, u)
      BY <1>2, <2>3, TasksAndWorkersAssumption DEF Held, Clash, TasksAndWorkersAssumption
    <3> QED BY <2>1, <3>1
  <2> QED BY <2>2, <2>3
<1> QED BY <1>1, <1>3 DEF Whole

\* A release takes from the task only, and takes everything.
LEMMA FreedWhole ==
    ASSUME NEW n, NEW t \in Task, pins \in [Task -> SUBSET Key],
           TypedTable(table), Whole(table)
    PROVE  TypedTable(Freed(table, n, t)) /\ Whole(Freed(table, n, t))
<1> DEFINE tab == Freed(table, n, t)
<1>1. CASE n = NoNode
  BY <1>1 DEF Freed
<1>2. CASE n # NoNode
  <2>1. TypedTable(tab)
    BY <1>2 DEF TypedTable, Freed
  <2>2. ASSUME NEW m \in Node, NEW k \in Key
        PROVE  tab[m][k] = IF m = n /\ k \in pins[t] /\ table[m][k] = t THEN NoTask ELSE table[m][k]
    BY <1>2 DEF TypedTable, Freed
  <2>3. ASSUME NEW m \in Node, NEW u \in Task
        PROVE  Held(tab, m, u) \in {{}, pins[u]}
    <3>1. Held(table, m, u) \in {{}, pins[u]}
      BY DEF Whole
    <3>2. CASE m = n /\ u = t
      <4>1. Held(tab, m, u) = {}
        BY <2>2, <3>1, <3>2, TasksAndWorkersAssumption DEF Held, TasksAndWorkersAssumption
      <4> QED BY <4>1
    <3>3. CASE ~(m = n /\ u = t)
      <4>1. Held(tab, m, u) = Held(table, m, u)
        BY <2>2, <3>3, TasksAndWorkersAssumption DEF Held, TasksAndWorkersAssumption
      <4> QED BY <3>1, <4>1
    <3> QED BY <3>2, <3>3
  <2> QED BY <2>1, <2>3 DEF Whole
<1> QED BY <1>1, <1>2

-----------------------------------------------------------------------------
(* The steps of one task's goroutine *)

LEMMA RestIsAttempt == IsAttempt(Rest)
<1>1. Rest.able \in Seq({})
  BY DEF Rest
<1> QED BY <1>1 DEF IsAttempt, Rest

LEMMA PcIsAttempt ==
    ASSUME NEW a, IsAttempt(a), NEW pc
    PROVE  /\ IsAttempt([a EXCEPT !.pc = pc])
           /\ [a EXCEPT !.pc = pc].pc = pc
           /\ [a EXCEPT !.pc = pc].able = a.able
<1> DEFINE b == [a EXCEPT !.pc = pc]
<1>1. b = [pc |-> pc, left |-> a.left, able |-> a.able, node |-> a.node]
  BY DEF IsAttempt
<1> QED BY <1>1 DEF IsAttempt

LEMMA PartIsAttempt ==
    ASSUME NEW a, IsAttempt(a), NEW x
    PROVE  /\ IsAttempt([a EXCEPT !.left = x]) /\ IsAttempt([a EXCEPT !.node = x])
           /\ [a EXCEPT !.left = x].pc = a.pc /\ [a EXCEPT !.node = x].pc = a.pc
           /\ [a EXCEPT !.left = x].able = a.able /\ [a EXCEPT !.node = x].able = a.able
<1>1. [a EXCEPT !.left = x] = [pc |-> a.pc, left |-> x, able |-> a.able, node |-> a.node]
  BY DEF IsAttempt
<1>2. [a EXCEPT !.node = x] = [pc |-> a.pc, left |-> a.left, able |-> a.able, node |-> x]
  BY DEF IsAttempt
<1> QED BY <1>1, <1>2 DEF IsAttempt

\* What a goroutine turns to from rest.
LEMMA FromRest ==
    ASSUME NEW p, NEW x
    PROVE  /\ \E a : a = [Rest EXCEPT !.pc = p, !.left = x] /\ IsAttempt(a) /\ a.pc = p /\ DOMAIN a.able = {}
           /\ \E a : a = [Rest EXCEPT !.pc = p, !.node = x] /\ IsAttempt(a) /\ a.pc = p
<1>1. PICK b : b = [Rest EXCEPT !.pc = p]
  OBVIOUS
<1>2. IsAttempt(b) /\ b.pc = p /\ b.able = <<>>
  <2>1. Rest.able = <<>>
    BY DEF Rest
  <2> QED BY <1>1, <2>1, RestIsAttempt, PcIsAttempt
<1>3. PICK c, d : c = [b EXCEPT !.left = x] /\ d = [b EXCEPT !.node = x]
  OBVIOUS
<1>4. c = [Rest EXCEPT !.pc = p, !.left = x] /\ d = [Rest EXCEPT !.pc = p, !.node = x]
  BY <1>1, <1>3
<1>5. IsAttempt(c) /\ c.pc = p /\ c.able = <<>>
  BY <1>2, <1>3, PartIsAttempt
<1>6. IsAttempt(d) /\ d.pc = p
  BY <1>2, <1>3, PartIsAttempt
<1>7. \E a : a = [Rest EXCEPT !.pc = p, !.left = x] /\ IsAttempt(a) /\ a.pc = p /\ DOMAIN a.able = {}
  <2>1. DOMAIN c.able = {}
    BY <1>5
  <2> QED BY <1>4, <1>5, <2>1
<1>8. \E a : a = [Rest EXCEPT !.pc = p, !.node = x] /\ IsAttempt(a) /\ a.pc = p
  BY <1>4, <1>6
<1> QED BY <1>7, <1>8

LEMMA LeftFromRest ==
    ASSUME NEW p, NEW x
    PROVE  \E a : a = [Rest EXCEPT !.pc = p, !.left = x] /\ IsAttempt(a) /\ a.pc = p /\ DOMAIN a.able = {}
  BY FromRest, Zenon

\* A step that leaves the table alone.
LEMMA QuietStep ==
    ASSUME PInv, NEW t \in Task, NEW a, pins' = pins, table' = table, Becomes(t, a), IsAttempt(a),
           holder' = holder \/ holder \in {t, NoTask},
           a.pc \in {"keep", "scan"} => holder' = t,
           a.pc = "scan" => \A i \in DOMAIN a.able : ~Clash(a.able[i], t, TRUE)
    PROVE  PInv'
<1>1. attempt' = [u \in Task |-> IF u = t THEN a ELSE attempt[u]]
  BY DEF PInv, Locked, Becomes
<1>2. Locked'
  <2>1. ASSUME NEW u \in Task, (In(u, "keep") \/ In(u, "scan"))'
        PROVE  holder' = u
    BY <1>1, <2>1, TasksAndWorkersAssumption DEF PInv, Locked, In, TasksAndWorkersAssumption
  <2>2. ASSUME NEW u \in Task
        PROVE  IsAttempt(attempt[u])'
    BY <1>1 DEF PInv, Locked, IsAttempt
  <2> QED BY <1>1, <2>1, <2>2 DEF Locked
<1>3. \A n : \A u \in Task : Clash(n, u, TRUE)' <=> Clash(n, u, TRUE)
  BY DEF Clash
<1>4. RaceNeverLost'
  <2> SUFFICES ASSUME NEW u \in Task, In(u, "scan")', NEW i \in DOMAIN attempt'[u].able
               PROVE  ~Clash(attempt'[u].able[i], u, TRUE)
    BY <1>3 DEF RaceNeverLost
  <2> QED BY <1>1 DEF PInv, RaceNeverLost, In
<1>5. AllOrNothing'
  BY DEF PInv, AllOrNothing, Held
<1> QED BY <1>2, <1>4, <1>5 DEF PInv, TypedTable

\* A step that writes the table, after which nobody selects.
LEMMA TableStep ==
    ASSUME PInv, NEW t \in Task, NEW a, pins' = pins, Becomes(t, a), IsAttempt(a),
           holder \in {t, NoTask}, a.pc \notin {"keep", "scan"},
           TypedTable(table'), Whole(table')
    PROVE  PInv'
<1>1. attempt' = [u \in Task |-> IF u = t THEN a ELSE attempt[u]]
  BY DEF PInv, Locked, Becomes
<1>2. \A u \in Task : ~(In(u, "keep") \/ In(u, "scan"))'
  BY <1>1, TasksAndWorkersAssumption DEF PInv, Locked, In, TasksAndWorkersAssumption
<1>3. Locked'
  <2>1. ASSUME NEW u \in Task
        PROVE  IsAttempt(attempt[u])'
    BY <1>1 DEF PInv, Locked, IsAttempt
  <2> QED BY <1>1, <1>2, <2>1 DEF Locked
<1>4. RaceNeverLost'
  BY <1>2 DEF RaceNeverLost
<1>5. AllOrNothing'
  BY DEF AllOrNothing, Whole, Held
<1> QED BY <1>3, <1>4, <1>5 DEF PInv, TypedTable

LEMMA InitPInv == PlacementInit => PInv
<1> SUFFICES ASSUME PlacementInit PROVE PInv
  OBVIOUS
<1> USE DEF PlacementInit
<1>1. pins \in [Task -> SUBSET Key]
  BY PlacementAssumption DEF PlacementAssumption
<1>2. TypedTable(table)
  BY DEF TypedTable
<1>3. AllOrNothing
  BY TasksAndWorkersAssumption DEF AllOrNothing, Held, TasksAndWorkersAssumption
<1>4. Locked
  BY RestIsAttempt DEF Locked, In, Rest
<1>5. RaceNeverLost
  BY DEF RaceNeverLost, In, Rest
<1> QED BY <1>1, <1>2, <1>3, <1>4, <1>5 DEF PInv

LEMMA AttemptStep ==
    ASSUME PInv, NEW t \in Task, Attempting(t), pins' = pins
    PROVE  PInv'
<1> DEFINE keep == [Rest EXCEPT !.pc = "keep"]
           at(pc) == [attempt[t] EXCEPT !.pc = pc]
<1> USE DEF choice, reservations, records, workers, bounds
<1> DEFINE scans == \E list \in Candidates(t) : Becomes(t, [Rest EXCEPT !.pc = "scan", !.left = list])
<1>1. ASSUME scans
      PROVE  \E a : Becomes(t, a) /\ IsAttempt(a) /\ a.pc = "scan" /\ DOMAIN a.able = {}
  <2>1. PICK list : Becomes(t, [Rest EXCEPT !.pc = "scan", !.left = list])
    BY <1>1
  <2>2. PICK a : a = [Rest EXCEPT !.pc = "scan", !.left = list] /\ IsAttempt(a) /\ a.pc = "scan" /\ DOMAIN a.able = {}
    BY LeftFromRest, Zenon
  <2> QED BY <2>1, <2>2
<1>2. ASSUME NEW n, Selected(t, n)
      PROVE  \E a : Becomes(t, a) /\ IsAttempt(a) /\ a.pc = "post"
  <2>1. PICK a : a = [Rest EXCEPT !.pc = "post", !.node = n] /\ IsAttempt(a) /\ a.pc = "post"
    BY FromRest
  <2> QED BY <1>2, <2>1 DEF Selected
<1>3. /\ IsAttempt(keep) /\ keep.pc = "keep"
      /\ IsAttempt(Rest) /\ Rest.pc = "rest"
  BY RestIsAttempt, PcIsAttempt DEF Rest
<1>4. IsAttempt(attempt[t])
  BY DEF PInv, Locked
<1>5. ASSUME NEW pc PROVE IsAttempt(at(pc)) /\ at(pc).pc = pc /\ at(pc).able = attempt[t].able
  BY <1>4, PcIsAttempt
<1>6. (In(t, "keep") \/ In(t, "scan")) => holder = t
  BY DEF PInv, Locked
<1>7. TypedTable(table) /\ Whole(table) /\ pins \in [Task -> SUBSET Key]
  BY DEF PInv, AllOrNothing, Whole
<1>8. CASE Begin(t)
  <2>1. table' = table /\ holder' = t
    BY <1>8 DEF Begin
  <2>2. holder = NoTask \/ holder = t \/ holder' = holder
    BY <1>8 DEF Begin, LockFree
  <2>3. CASE scans
    <3>1. PICK a : Becomes(t, a) /\ IsAttempt(a) /\ a.pc = "scan" /\ DOMAIN a.able = {}
      BY <1>1, <2>3
    <3> QED BY <2>1, <2>2, <3>1, QuietStep
  <2>4. CASE Becomes(t, keep)
    BY <1>3, <2>1, <2>2, <2>4, QuietStep
  <2> QED BY <1>8, <2>3, <2>4 DEF Begin
<1>9. CASE Keep(t)
  <2> DEFINE n == owner[t]
  <2>1. holder = t
    BY <1>6, <1>9 DEF Keep
  <2>2. CASE scans /\ UNCHANGED <<table, holder>>
    <3>1. PICK a : Becomes(t, a) /\ IsAttempt(a) /\ a.pc = "scan" /\ DOMAIN a.able = {}
      BY <1>1, <2>2
    <3> QED BY <2>1, <2>2, <3>1, QuietStep
  <2>3. CASE table' = table /\ Selected(t, n)
    <3>1. PICK a : Becomes(t, a) /\ IsAttempt(a) /\ a.pc = "post"
      BY <1>2, <2>3
    <3> QED BY <2>1, <2>3, <3>1, QuietStep
  <2>4. CASE ~Clash(n, t, TRUE) /\ table' = Claimed(table, n, t) /\ Selected(t, n)
    <3>1. TypedTable(table') /\ Whole(table')
      BY <1>7, <2>4, ClaimedWhole
    <3>2. PICK a : Becomes(t, a) /\ IsAttempt(a) /\ a.pc = "post"
      BY <1>2, <2>4
    <3> QED BY <2>1, <3>1, <3>2, TableStep
  <2> QED BY <1>9, <2>2, <2>3, <2>4 DEF Keep
<1>10. CASE Scan(t)
  <2> DEFINE n == Head(attempt[t].left)
  <2>1. holder = t /\ holder' = holder /\ table' = table /\ In(t, "scan")
    BY <1>6, <1>10 DEF Scan
  <2>2. PICK yes \in BOOLEAN :
            /\ Becomes(t, [attempt[t] EXCEPT !.left = Tail(@), !.able = IF yes THEN Append(@, n) ELSE @])
            /\ yes => ~Clash(n, t, TRUE)
    BY <1>10 DEF Scan, Clash, CanHost
  <2>3. PICK a : /\ Becomes(t, a)
                 /\ a = [pc |-> attempt[t].pc, left |-> Tail(attempt[t].left),
                         able |-> IF yes THEN Append(attempt[t].able, n) ELSE attempt[t].able,
                         node |-> attempt[t].node]
    <3>1. PICK b, c : /\ b = [attempt[t] EXCEPT !.left = Tail(@)]
                      /\ c = [b EXCEPT !.able = IF yes THEN Append(@, n) ELSE @]
      OBVIOUS
    <3>2. b = [pc |-> attempt[t].pc, left |-> Tail(attempt[t].left), able |-> attempt[t].able,
               node |-> attempt[t].node]
      BY <1>4, <3>1 DEF IsAttempt
    <3>3. c = [pc |-> attempt[t].pc, left |-> Tail(attempt[t].left),
               able |-> IF yes THEN Append(attempt[t].able, n) ELSE attempt[t].able,
               node |-> attempt[t].node]
      BY <3>1, <3>2
    <3>4. Becomes(t, c)
      BY <2>2, <3>1
    <3> QED BY <3>3, <3>4
  <2>4. PICK S : attempt[t].able \in Seq(S)
    BY <1>4 DEF IsAttempt
  <2>5. attempt[t].able \in Seq(S \union {n})
    BY <2>4
  <2>6. Append(attempt[t].able, n) \in Seq(S \union {n})
    BY <2>5
  <2>7. IsAttempt(a)
    BY <2>3, <2>5, <2>6 DEF IsAttempt
  <2>8. \A i \in DOMAIN attempt[t].able : ~Clash(attempt[t].able[i], t, TRUE)
    BY <2>1 DEF PInv, RaceNeverLost
  <2>9. \A i \in DOMAIN a.able : ~Clash(a.able[i], t, TRUE)
    <3>1. CASE yes
      <4>1. a.able = Append(attempt[t].able, n)
        BY <2>3, <3>1
      <4>2. /\ DOMAIN a.able = 1 .. Len(attempt[t].able) + 1
            /\ \A i \in 1 .. Len(attempt[t].able) : a.able[i] = attempt[t].able[i]
            /\ a.able[Len(attempt[t].able) + 1] = n
            /\ DOMAIN attempt[t].able = 1 .. Len(attempt[t].able) /\ Len(attempt[t].able) \in Nat
        BY <2>5, <4>1
      <4>3. ~Clash(n, t, TRUE)
        BY <2>2, <3>1
      <4>4. ASSUME NEW i \in DOMAIN a.able
            PROVE  ~Clash(a.able[i], t, TRUE)
        <5>1. CASE i \in 1 .. Len(attempt[t].able)
          BY <2>8, <4>2, <5>1
        <5>2. CASE i = Len(attempt[t].able) + 1
          <6>1. a.able[i] = n
            BY <4>2, <5>2
          <6> QED BY <4>3, <6>1
        <5>3. i \in 1 .. Len(attempt[t].able) \/ i = Len(attempt[t].able) + 1
          BY <4>2
        <5> QED BY <5>1, <5>2, <5>3
      <4> QED BY <4>4
    <3>2. CASE ~yes
      BY <2>3, <2>8, <3>2
    <3> QED BY <3>1, <3>2
  <2>10. a.pc = "scan"
    BY <2>1, <2>3 DEF In
  <2> QED BY <2>1, <2>3, <2>7, <2>9, <2>10, QuietStep
<1>11. CASE Pick(t)
  <2> DEFINE none == [Rest EXCEPT !.pc = "judge"]
  <2>1. holder = t
    BY <1>6, <1>11 DEF Pick
  <2>2. IsAttempt(none) /\ none.pc = "judge"
    BY RestIsAttempt, PcIsAttempt
  <2>3. CASE Becomes(t, none) /\ table' = table
    BY <2>1, <2>2, <2>3, QuietStep
  <2>4. ASSUME NEW n, ~Clash(n, t, TRUE), table' = Claimed(table, n, t), Selected(t, n)
        PROVE  PInv'
    <3>1. TypedTable(table') /\ Whole(table')
      BY <1>7, <2>4, ClaimedWhole
    <3>2. PICK a : Becomes(t, a) /\ IsAttempt(a) /\ a.pc = "post"
      BY <1>2, <2>4
    <3> QED BY <2>1, <3>1, <3>2, TableStep
  <2>5. \/ Becomes(t, none) /\ table' = table
        \/ \E n : ~Clash(n, t, TRUE) /\ table' = Claimed(table, n, t) /\ Selected(t, n)
    BY <1>11 DEF Pick
  <2> QED BY <2>3, <2>4, <2>5
<1>12. CASE Judge(t) \/ Probe(t) \/ Send(t) \/ UserStops(t)
  <2>1. table' = table /\ holder' = holder
    BY <1>12 DEF Judge, Probe, Send, UserStops
  <2>2. CASE Becomes(t, Rest)
    BY <1>3, <2>1, <2>2, QuietStep
  <2>3. ASSUME NEW pc \in {"probe", "end", "commit", "fail"}, Step(t, pc)
        PROVE  PInv'
    <3>1. PICK a : a = at(pc)
      OBVIOUS
    <3>2. IsAttempt(a) /\ a.pc = pc
      BY <1>5, <3>1
    <3>3. Becomes(t, a)
      BY <2>3, <3>1 DEF Step
    <3> QED BY <2>1, <2>3, <3>2, <3>3, QuietStep
  <2>4. Becomes(t, Rest) \/ \E pc \in {"probe", "end", "commit", "fail"} : Step(t, pc)
    BY <1>12 DEF Judge, Probe, Send, UserStops
  <2> QED BY <2>2, <2>3, <2>4
<1>13. CASE Settle(t)
  <2>1. table' = table /\ holder' = holder
    BY <1>13 DEF Settle
  <2>2. PICK leave : /\ leave = [Rest EXCEPT !.pc = "leave", !.node = owner[t]]
                     /\ IsAttempt(leave) /\ leave.pc = "leave"
    BY FromRest
  <2>3. PICK a \in {Rest, leave} : Becomes(t, a)
    BY <1>13, <2>2 DEF Settle
  <2> QED BY <1>3, <2>1, <2>2, <2>3, QuietStep
<1>14. CASE Fail(t) \/ Leave(t) \/ End(t)
  <2>1. holder = NoTask
    BY <1>14 DEF Fail, Leave, End, LockFree
  <2>2. PICK n : table' = Freed(table, n, t)
    BY <1>14 DEF Fail, Leave, End
  <2>3. TypedTable(table') /\ Whole(table')
    BY <1>7, <2>2, FreedWhole
  <2>4. PICK over : over = [Rest EXCEPT !.pc = "over"]
    OBVIOUS
  <2>5. IsAttempt(over) /\ over.pc = "over"
    BY <2>4, RestIsAttempt, PcIsAttempt
  <2>6. Becomes(t, Rest) \/ Becomes(t, over)
    BY <1>14, <2>4 DEF Fail, Leave, End
  <2>7. CASE Becomes(t, Rest)
    BY <1>3, <2>1, <2>3, <2>7, TableStep
  <2>8. CASE Becomes(t, over)
    BY <2>1, <2>3, <2>5, <2>8, TableStep
  <2> QED BY <2>6, <2>7, <2>8
<1> QED BY <1>8, <1>9, <1>10, <1>11, <1>12, <1>13, <1>14 DEF Attempting

-----------------------------------------------------------------------------
(* The other steps *)

\* New on the same bolt file claims what does not conflict.
LEMMA RebootStep ==
    ASSUME PInv, Reboot, pins' = pins
    PROVE  PInv'
<1>1. PICK live \in SUBSET {t \in Task : owner[t] # NoNode /\ ~In(t, "end") /\ ~In(t, "over")} :
          /\ \A t, u \in live : t # u /\ owner[t] = owner[u] => pins[t] \intersect pins[u] = {}
          /\ table' = [n \in Node |-> [k \in Key |->
                 LET mine == {t \in live : owner[t] = n /\ k \in pins[t]}
                 IN  IF mine = {} THEN NoTask ELSE CHOOSE t \in mine : TRUE]]
  BY DEF Reboot
<1> DEFINE mine(n, k) == {t \in live : owner[t] = n /\ k \in pins[t]}
<1>2. ASSUME NEW n \in Node, NEW k \in Key, mine(n, k) # {}
      PROVE  table'[n][k] \in mine(n, k)
  BY <1>1, <1>2
<1>3. ASSUME NEW n \in Node, NEW k \in Key, mine(n, k) = {}
      PROVE  table'[n][k] = NoTask
  BY <1>1, <1>3
<1>4. table' = [n \in Node |-> [k \in Key |-> table'[n][k]]]
  BY <1>1
<1>5. TypedTable(table')
  <2>1. ASSUME NEW n \in Node, NEW k \in Key
        PROVE  table'[n][k] \in Task \union {NoTask}
    BY <1>2, <1>3
  <2> QED BY <1>4, <2>1 DEF TypedTable
<1>6. AllOrNothing'
  <2> SUFFICES ASSUME NEW n \in Node, NEW t \in Task
               PROVE  Held(table', n, t) \in {{}, pins[t]}
    BY DEF AllOrNothing, Held
  <2>1. pins[t] \in SUBSET Key
    BY DEF PInv
  <2>2. CASE t \in live /\ owner[t] = n
    <3>1. ASSUME NEW k \in Key
          PROVE  table'[n][k] = t <=> k \in pins[t]
      <4>1. \A u \in mine(n, k) : k \in pins[t] => u = t
        BY <1>1, <2>2
      <4> QED BY <1>2, <1>3, <2>2, <4>1, TasksAndWorkersAssumption DEF TasksAndWorkersAssumption
    <3>2. Held(table', n, t) = pins[t]
      BY <2>1, <3>1 DEF Held
    <3> QED BY <3>2
  <2>3. CASE ~(t \in live /\ owner[t] = n)
    <3>1. ASSUME NEW k \in Key
          PROVE  table'[n][k] # t
      <4>1. t \notin mine(n, k)
        BY <2>3
      <4> QED BY <1>2, <1>3, <4>1, TasksAndWorkersAssumption DEF TasksAndWorkersAssumption
    <3>2. Held(table', n, t) = {}
      BY <3>1 DEF Held
    <3> QED BY <3>2
  <2> QED BY <2>2, <2>3
<1>7. Locked' /\ RaceNeverLost'
  <2>1. PICK over : over = [Rest EXCEPT !.pc = "over"]
    OBVIOUS
  <2>2. IsAttempt(over) /\ over.pc = "over" /\ IsAttempt(Rest) /\ Rest.pc = "rest"
    BY <2>1, RestIsAttempt, PcIsAttempt DEF Rest
  <2>3. attempt' = [t \in Task |-> IF In(t, "end") \/ In(t, "over") THEN over ELSE Rest]
    BY <2>1 DEF Reboot
  <2>4. attempt' = [t \in Task |-> attempt'[t]]
    BY <2>3
  <2>5. ASSUME NEW t \in Task
        PROVE  IsAttempt(attempt'[t]) /\ attempt'[t].pc \notin {"keep", "scan"}
    <3>1. attempt'[t] = over \/ attempt'[t] = Rest
      BY <2>3
    <3> QED BY <2>2, <3>1
  <2>6. \A t \in Task : ~(In(t, "keep") \/ In(t, "scan"))'
    BY <2>5 DEF In
  <2>7. \A t \in Task : IsAttempt(attempt[t])'
    BY <2>5 DEF IsAttempt
  <2> QED BY <2>4, <2>6, <2>7 DEF Locked, RaceNeverLost
<1> QED BY <1>5, <1>6, <1>7 DEF PInv, TypedTable

\* Neither the table nor an attempt changes.
LEMMA StutterStep ==
    ASSUME PInv, UNCHANGED <<pins, table, holder, attempt>>
    PROVE  PInv'
<1>1. AllOrNothing' <=> AllOrNothing
  BY DEF AllOrNothing, Held
<1>2. Locked' <=> Locked
  <2>1. \A t \in Task : IsAttempt(attempt'[t]) <=> IsAttempt(attempt[t])
    OBVIOUS
  <2>2. attempt' = [t \in Task |-> attempt'[t]] <=> attempt = [t \in Task |-> attempt[t]]
    OBVIOUS
  <2>3. \A t \in Task : (In(t, "keep") \/ In(t, "scan"))' <=> In(t, "keep") \/ In(t, "scan")
    BY DEF In
  <2> QED BY <2>1, <2>2, <2>3 DEF Locked, IsAttempt
<1>3. RaceNeverLost' <=> RaceNeverLost
  <2>1. \A n, t : Clash(n, t, TRUE)' <=> Clash(n, t, TRUE)
    BY DEF Clash
  <2>2. \A t \in Task : In(t, "scan")' <=> In(t, "scan")
    BY DEF In
  <2> QED BY <2>1, <2>2 DEF RaceNeverLost
<1> QED BY <1>1, <1>2, <1>3 DEF PInv, TypedTable

LEMMA NextPInv == PInv /\ [PlacementNext]_pvars => PInv'
<1> SUFFICES ASSUME PInv, [PlacementNext]_pvars PROVE PInv'
  OBVIOUS
<1>1. CASE UNCHANGED pvars
  BY <1>1, StutterStep DEF pvars
<1>2. CASE PlacementNext
  <2>1. pins' = pins
    BY <1>2 DEF PlacementNext
  <2>2. ASSUME NEW t \in Task, Attempting(t) PROVE PInv'
    BY <2>1, <2>2, AttemptStep
  <2>3. CASE Reboot
    BY <2>1, <2>3, RebootStep
  <2>4. ASSUME NEW t \in Task, NEW n \in Node, Obey(n, t) \/ Exit(n, t) PROVE PInv'
    <3>1. UNCHANGED <<table, holder, attempt>>
      BY <2>4 DEF Obey, Exit, reservations
    <3> QED BY <2>1, <3>1, StutterStep
  <2>5. ASSUME NEW t \in Task, Report(t) PROVE PInv'
    <3>1. UNCHANGED <<table, holder, attempt>>
      BY <2>5 DEF Report, reservations
    <3> QED BY <2>1, <3>1, StutterStep
  <2>6. ASSUME NEW n \in Node, Refresh(n) \/ Outage(n) PROVE PInv'
    <3>1. UNCHANGED <<table, holder, attempt>>
      BY <2>6 DEF Refresh, Outage, reservations
    <3> QED BY <2>1, <3>1, StutterStep
  <2> QED BY <1>2, <2>2, <2>3, <2>4, <2>5, <2>6 DEF PlacementNext
<1> QED BY <1>1, <1>2

-----------------------------------------------------------------------------
(* Theorems *)

LEMMA PInvariant == PlacementSpec => []PInv
<1>1. PlacementInit => PInv
  BY InitPInv
<1>2. PInv /\ [PlacementNext]_pvars => PInv'
  BY NextPInv
<1> QED BY <1>1, <1>2, PTL DEF PlacementSpec

\* Whatever tasks pin, however many workers there are and however selections,
\* releases and restarts of the manager interleave: a task has all its ports
\* reserved on a worker, or none.
THEOREM ReservationsWhole == PlacementSpec => []AllOrNothing
<1>1. PInv => AllOrNothing
  BY DEF PInv
<1> QED BY <1>1, PInvariant, PTL

\* The reservation at the end of a selection cannot fail: what
\* selectAndReserveWorker calls impossible is.
THEOREM SelectionKeepsItsWorker == PlacementSpec => []RaceNeverLost
<1>1. PInv => RaceNeverLost
  BY DEF PInv
<1> QED BY <1>1, PInvariant, PTL

-----------------------------------------------------------------------------
(* Attempts, owners and orders *)

Pcs == {"rest", "keep", "scan", "judge", "probe", "post", "fail", "commit", "leave", "end", "over"}
Attempt == [pc : Pcs, left : Seq(Node), able : Seq(Node), node : Node \union {NoNode}]
Orders == [Node -> [Task -> Seq({"start", "stop"})]]

Typed ==
    /\ attempt \in [Task -> Attempt]
    /\ owner \in [Task -> Node \union {NoNode}]
    /\ orders \in Orders /\ running \in [Node -> SUBSET Task]
    /\ lastWorker \in Nat
    /\ \A t \in Task : In(t, "keep") => owner[t] \in Node

LEMMA RestTyped == Rest \in Attempt
  BY DEF Rest, Attempt, Pcs

\* The candidates are the workers that fit, all of them.
LEMMA CandidatesAre ==
    ASSUME NEW t, NEW list \in Candidates(t)
    PROVE  /\ list \in Seq(Node)
           /\ \A n \in Node : (scheduler = "epvm" => n \in sampled /\ t \in Room[n])
                                  => \E i \in DOMAIN list : list[i] = n
<1> DEFINE S == {i \in DOMAIN WorkerNodes : scheduler = "epvm" => WorkerNodes[i] \in sampled /\ t \in Room[WorkerNodes[i]]}
<1>1. list \in Kept(WorkerNodes, S)
  BY DEF Candidates
<1>2. IsFiniteSet(1 .. Len(WorkerNodes)) /\ DOMAIN WorkerNodes = 1 .. Len(WorkerNodes)
  BY FS_Interval, TasksAndWorkersAssumption
<1>3. IsFiniteSet(S) /\ S \in SUBSET Int
  BY <1>2, FS_Subset
<1>4. \A i : i \in S <=> /\ i \in DOMAIN WorkerNodes
                         /\ scheduler = "epvm" => WorkerNodes[i] \in sampled /\ t \in Room[WorkerNodes[i]]
  OBVIOUS
<1> HIDE DEF S
<1>5. Cardinality(S) \in Nat /\ DOMAIN list = 1 .. Cardinality(S)
  BY <1>1, <1>3, KeptIs
<1>6. PICK f \in [DOMAIN list -> S] :
          /\ list = [k \in DOMAIN list |-> WorkerNodes[f[k]]]
          /\ \A x \in S : \E i \in DOMAIN list : f[i] = x
  BY <1>1, <1>3, KeptIs
<1>7. \A k \in DOMAIN list : f[k] \in S /\ list[k] = WorkerNodes[f[k]]
  BY <1>6
<1>8. \A i \in DOMAIN WorkerNodes : WorkerNodes[i] \in Node
  BY TasksAndWorkersAssumption
<1>9. list \in Seq(Node)
  <2>1. list \in [1 .. Cardinality(S) -> Node]
    BY <1>4, <1>5, <1>6, <1>7, <1>8
  <2> QED BY <2>1, <1>5, SeqDef
<1>10. ASSUME NEW n \in Node, scheduler = "epvm" => n \in sampled /\ t \in Room[n]
       PROVE  \E i \in DOMAIN list : list[i] = n
  <2>1. PICK j \in DOMAIN WorkerNodes : WorkerNodes[j] = n
    BY TasksAndWorkersAssumption
  <2>2. j \in S
    BY <1>4, <1>10, <2>1
  <2> QED BY <1>6, <1>7, <2>1, <2>2
<1> QED BY <1>9, <1>10

\* What the goroutine of t becomes, field by field.
LEMMA BecomesIs ==
    ASSUME Typed, NEW t \in Task, NEW a, Becomes(t, a)
    PROVE  /\ attempt'[t] = a /\ \A u \in Task : u # t => attempt'[u] = attempt[u]
           /\ a \in Attempt => attempt' \in [Task -> Attempt]
  BY DEF Typed, Becomes

LEMMA FromRestIs ==
    ASSUME NEW pc, NEW n, NEW list
    PROVE  /\ [Rest EXCEPT !.pc = pc, !.node = n] = [pc |-> pc, left |-> <<>>, able |-> <<>>, node |-> n]
           /\ [Rest EXCEPT !.pc = pc, !.left = list] = [pc |-> pc, left |-> list, able |-> <<>>, node |-> NoNode]
           /\ [Rest EXCEPT !.pc = pc] = [pc |-> pc, left |-> <<>>, able |-> <<>>, node |-> NoNode]
<1>1. PICK b : b = [Rest EXCEPT !.pc = pc]
  OBVIOUS
<1>2. /\ [Rest EXCEPT !.pc = pc, !.node = n] = [b EXCEPT !.node = n]
      /\ [Rest EXCEPT !.pc = pc, !.left = list] = [b EXCEPT !.left = list]
  BY <1>1
<1>3. b = [pc |-> pc, left |-> <<>>, able |-> <<>>, node |-> NoNode]
  BY <1>1 DEF Rest
<1>4. /\ [b EXCEPT !.node = n] = [pc |-> pc, left |-> <<>>, able |-> <<>>, node |-> n]
      /\ [b EXCEPT !.left = list] = [pc |-> pc, left |-> list, able |-> <<>>, node |-> NoNode]
  BY <1>3
<1> QED BY <1>1, <1>2, <1>3, <1>4

LEMMA IsAttemptOf ==
    ASSUME NEW a, a = [pc |-> a.pc, left |-> a.left, able |-> a.able, node |-> a.node],
           a.pc \in Pcs, a.left \in Seq(Node), a.able \in Seq(Node), a.node \in Node \union {NoNode}
    PROVE  a \in Attempt
  BY DEF Attempt

LEMMA StepIs ==
    ASSUME Typed, NEW t \in Task, NEW pc \in Pcs, Step(t, pc)
    PROVE  /\ attempt' \in [Task -> Attempt] /\ attempt'[t].pc = pc
           /\ attempt'[t].left = attempt[t].left /\ attempt'[t].able = attempt[t].able
           /\ attempt'[t].node = attempt[t].node
           /\ \A u \in Task : u # t => attempt'[u] = attempt[u]
<1> DEFINE a == [attempt[t] EXCEPT !.pc = pc]
<1>1. attempt[t] \in Attempt
  BY DEF Typed
<1>2. /\ a \in Attempt /\ a.pc = pc /\ a.left = attempt[t].left /\ a.able = attempt[t].able
      /\ a.node = attempt[t].node
  BY <1>1 DEF Attempt
<1>3. Becomes(t, a)
  BY DEF Step
<1> HIDE DEF a
<1> QED BY <1>2, <1>3, BecomesIs

LEMMA RestsIs ==
    ASSUME Typed, NEW t \in Task, Becomes(t, Rest)
    PROVE  /\ attempt' \in [Task -> Attempt] /\ attempt'[t].pc = "rest"
           /\ \A u \in Task : u # t => attempt'[u] = attempt[u]
  BY RestTyped, BecomesIs DEF Rest

LEMMA ScansIs ==
    ASSUME Typed, NEW t \in Task, \E list \in Candidates(t) : Becomes(t, [Rest EXCEPT !.pc = "scan", !.left = list])
    PROVE  /\ attempt' \in [Task -> Attempt] /\ attempt'[t].pc = "scan" /\ attempt'[t].able = <<>>
           /\ attempt'[t].left \in Candidates(t)
           /\ \A u \in Task : u # t => attempt'[u] = attempt[u]
<1>1. PICK list \in Candidates(t) : Becomes(t, [Rest EXCEPT !.pc = "scan", !.left = list])
  OBVIOUS
<1>2. PICK a : a = [Rest EXCEPT !.pc = "scan", !.left = list]
  OBVIOUS
<1>3. list \in Seq(Node)
  BY CandidatesAre
<1>4. a = [pc |-> "scan", left |-> list, able |-> <<>>, node |-> NoNode]
  BY <1>2, FromRestIs
<1>5. Becomes(t, a)
  BY <1>1, <1>2
<1>6. "scan" \in Pcs /\ <<>> \in Seq(Node)
  BY DEF Pcs
<1>7. a.pc = "scan" /\ a.left = list /\ a.able = <<>> /\ a.node = NoNode
  BY <1>4
<1>8. a \in Attempt
  BY <1>3, <1>4, <1>6, <1>7, IsAttemptOf
<1> QED BY <1>5, <1>7, <1>8, BecomesIs

\* A goroutine leaves its attempt behind, for a worker or for none.
LEMMA GoesToIs ==
    ASSUME Typed, NEW t \in Task, NEW pc \in Pcs, NEW n \in Node \union {NoNode},
           \/ Becomes(t, [Rest EXCEPT !.pc = pc, !.node = n])
           \/ Becomes(t, [Rest EXCEPT !.pc = pc]) /\ n = NoNode
    PROVE  /\ attempt' \in [Task -> Attempt] /\ attempt'[t].pc = pc /\ attempt'[t].node = n
           /\ \A u \in Task : u # t => attempt'[u] = attempt[u]
<1>1. PICK a : a = [pc |-> pc, left |-> <<>>, able |-> <<>>, node |-> n]
  OBVIOUS
<1>2. Becomes(t, a)
  BY <1>1, FromRestIs
<1>3. <<>> \in Seq(Node)
  OBVIOUS
<1>4. a.pc = pc /\ a.node = n /\ a.left = <<>> /\ a.able = <<>>
  BY <1>1
<1>5. a \in Attempt
  BY <1>1, <1>3, <1>4, IsAttemptOf
<1> QED BY <1>2, <1>4, <1>5, BecomesIs

LEMMA PassIs ==
    ASSUME Typed, NEW t \in Task, attempt[t].left # <<>>, NEW yes \in BOOLEAN,
           Becomes(t, [attempt[t] EXCEPT !.left = Tail(@), !.able = IF yes THEN Append(@, Head(attempt[t].left)) ELSE @])
    PROVE  /\ attempt' \in [Task -> Attempt] /\ attempt'[t].pc = attempt[t].pc
           /\ attempt'[t].left = Tail(attempt[t].left)
           /\ attempt'[t].able = IF yes THEN Append(attempt[t].able, Head(attempt[t].left)) ELSE attempt[t].able
           /\ \A u \in Task : u # t => attempt'[u] = attempt[u]
<1> DEFINE able == IF yes THEN Append(attempt[t].able, Head(attempt[t].left)) ELSE attempt[t].able
<1>1. attempt[t] \in Attempt
  BY DEF Typed
<1>2. attempt[t].left \in Seq(Node) /\ attempt[t].able \in Seq(Node)
  BY <1>1 DEF Attempt
<1>3. Tail(attempt[t].left) \in Seq(Node) /\ Head(attempt[t].left) \in Node
  BY <1>2
<1>4. able \in Seq(Node)
  BY <1>2, <1>3
<1>5. PICK a : a = [attempt[t] EXCEPT !.left = Tail(@), !.able = IF yes THEN Append(@, Head(attempt[t].left)) ELSE @]
  OBVIOUS
<1>6. PICK b : b = [attempt[t] EXCEPT !.left = Tail(@)]
  OBVIOUS
<1>7. b = [pc |-> attempt[t].pc, left |-> Tail(attempt[t].left), able |-> attempt[t].able, node |-> attempt[t].node]
  BY <1>1, <1>6 DEF Attempt
<1>8. a = [b EXCEPT !.able = IF yes THEN Append(@, Head(attempt[t].left)) ELSE @]
  BY <1>5, <1>6
<1>9. a = [pc |-> attempt[t].pc, left |-> Tail(attempt[t].left), able |-> able, node |-> attempt[t].node]
  BY <1>7, <1>8
<1>10. attempt[t].pc \in Pcs /\ attempt[t].node \in Node \union {NoNode}
  BY <1>1 DEF Attempt
<1>11. Becomes(t, a)
  BY <1>5
<1>12. PICK ab : ab = able
  OBVIOUS
<1> HIDE DEF able
<1>13. /\ a.pc = attempt[t].pc /\ a.left = Tail(attempt[t].left) /\ a.able = ab
       /\ a.node = attempt[t].node
  BY <1>9, <1>12
<1>14. a \in Attempt
  <2>1. ab \in Seq(Node)
    BY <1>4, <1>12
  <2>2. a = [pc |-> a.pc, left |-> a.left, able |-> a.able, node |-> a.node]
    BY <1>9
  <2> QED BY <1>3, <1>10, <1>13, <2>1, <2>2, IsAttemptOf
<1>15. ab = IF yes THEN Append(attempt[t].able, Head(attempt[t].left)) ELSE attempt[t].able
  BY <1>12 DEF able
<1> QED BY <1>11, <1>13, <1>14, <1>15, BecomesIs
-----------------------------------------------------------------------------
(* What a step of a goroutine leaves *)

\* The workers with an order to start t, or t up.
Present(n, t) == t \in running[n] \/ Queued(n, t)

\* The attempts of the other tasks stay as they are.
Goes(t, pc) ==
    /\ attempt' \in [Task -> Attempt] /\ attempt'[t].pc = pc
    /\ \A u \in Task : u # t => attempt'[u] = attempt[u]

LEMMA AcceptedIs ==
    ASSUME Typed, NEW n \in Node, NEW t \in Task, NEW o \in {"start", "stop"}, orders' = Accepted(orders, n, t, o)
    PROVE  /\ orders' \in Orders
           /\ \A m \in Node, u \in Task : Queued(m, u)' <=> Queued(m, u) \/ (o = "start" /\ m = n /\ u = t)
<1>1. orders \in Orders
  BY DEF Typed
<1>2. PICK q : q = orders[n][t]
  OBVIOUS
<1>3. q \in Seq({"start", "stop"})
  BY <1>1, <1>2 DEF Orders
<1>4. PICK r : r = Append(q, o)
  OBVIOUS
<1>5. r \in Seq({"start", "stop"}) /\ \A x : (\E i \in DOMAIN r : r[i] = x) <=> (\E i \in DOMAIN q : q[i] = x) \/ x = o
  <2>1. r \in Seq({"start", "stop"}) /\ Len(q) \in Nat /\ DOMAIN q = 1 .. Len(q) /\ DOMAIN r = 1 .. Len(q) + 1
    BY <1>3, <1>4
  <2>2. /\ \A i \in 1 .. Len(q) : r[i] = q[i]
        /\ r[Len(q) + 1] = o
    BY <1>3, <1>4
  <2>3. \A i \in DOMAIN r : i \in DOMAIN q \/ i = Len(q) + 1
    BY <2>1
  <2>4. DOMAIN q \subseteq DOMAIN r /\ Len(q) + 1 \in DOMAIN r
    BY <2>1
  <2> QED BY <2>1, <2>2, <2>3, <2>4
<1>6. \A m \in Node, u \in Task : orders'[m][u] = IF m = n /\ u = t THEN r ELSE orders[m][u]
  BY <1>1, <1>2, <1>4 DEF Accepted, Orders
<1>7. orders' \in Orders
  BY <1>1, <1>2, <1>4, <1>5 DEF Accepted, Orders
<1>8. ASSUME NEW m \in Node, NEW u \in Task
      PROVE  Queued(m, u)' <=> Queued(m, u) \/ (o = "start" /\ m = n /\ u = t)
  <2>1. Queued(m, u)' <=> \E i \in DOMAIN orders'[m][u] : orders'[m][u][i] = "start"
    BY DEF Queued
  <2>2. Queued(m, u) <=> \E i \in DOMAIN orders[m][u] : orders[m][u][i] = "start"
    BY DEF Queued
  <2>3. CASE m = n /\ u = t
    <3>1. orders'[m][u] = r /\ orders[m][u] = q
      BY <1>2, <1>6, <2>3
    <3> QED BY <1>5, <2>1, <2>2, <2>3, <3>1
  <2>4. CASE ~(m = n /\ u = t)
    BY <1>6, <2>1, <2>2, <2>4
  <2> QED BY <2>3, <2>4
<1> QED BY <1>7, <1>8

LEMMA HaltedIs ==
    ASSUME Typed, NEW n \in Node \union {NoNode}, NEW t \in Task, Halted(n, t)
    PROVE  /\ orders' \in Orders
           /\ \A m \in Node, u \in Task : Queued(m, u)' <=> Queued(m, u)
<1>1. CASE orders' = orders
  BY <1>1 DEF Typed, Queued
<1>2. CASE n \in Node /\ orders' = Accepted(orders, n, t, "stop")
  BY <1>2, AcceptedIs
<1> QED BY <1>1, <1>2 DEF Halted

\* An order that is carried out was there before.
LEMMA ObeyIs ==
    ASSUME Typed, NEW n \in Node, NEW t \in Task, Obey(n, t)
    PROVE  /\ orders' \in Orders /\ running' \in [Node -> SUBSET Task]
           /\ \A m \in Node, u \in Task : Present(m, u)' => Present(m, u)
<1>1. orders \in Orders /\ running \in [Node -> SUBSET Task]
  BY DEF Typed
<1>2. PICK q : q = orders[n][t]
  OBVIOUS
<1>3. q \in Seq({"start", "stop"}) /\ q # <<>>
  BY <1>1, <1>2 DEF Orders, Obey
<1>4. PICK r : r = Tail(q)
  OBVIOUS
<1>5. r \in Seq({"start", "stop"}) /\ (\A x : (\E i \in DOMAIN r : r[i] = x) => \E i \in DOMAIN q : q[i] = x)
  <2>1. r \in Seq({"start", "stop"}) /\ Len(q) \in Nat /\ DOMAIN q = 1 .. Len(q) /\ DOMAIN r = 1 .. Len(q) - 1
    BY <1>3, <1>4
  <2>2. \A i \in DOMAIN r : r[i] = q[i + 1] /\ i + 1 \in DOMAIN q
    BY <1>3, <1>4, <2>1
  <2> QED BY <2>1, <2>2
<1>6. \A m \in Node, u \in Task : orders'[m][u] = IF m = n /\ u = t THEN r ELSE orders[m][u]
  BY <1>1, <1>2, <1>4 DEF Obey, Orders
<1>7. orders' \in Orders
  BY <1>1, <1>2, <1>4, <1>5 DEF Obey, Orders
<1>8. running' \in [Node -> SUBSET Task] /\ \A m \in Node : m # n => running'[m] = running[m]
  BY <1>1 DEF Obey
<1>9. \A u \in running'[n] : u \in running[n] \/ (u = t /\ Head(orders[n][t]) = "start")
  BY <1>1 DEF Obey
<1>10. \A m, u : Queued(m, u) <=> \E i \in DOMAIN orders[m][u] : orders[m][u][i] = "start"
  BY DEF Queued
<1>11. \A m, u : Queued(m, u)' <=> \E i \in DOMAIN orders'[m][u] : orders'[m][u][i] = "start"
  BY DEF Queued
<1>12. \A m \in Node, u \in Task : Queued(m, u)' => Queued(m, u)
  BY <1>2, <1>5, <1>6, <1>10, <1>11
<1>13. Head(orders[n][t]) = "start" => Queued(n, t)
  <2>1. 1 \in DOMAIN q /\ Head(q) = q[1]
    BY <1>3
  <2> QED BY <1>2, <1>10, <2>1
<1>14. ASSUME NEW m \in Node, NEW u \in Task, Present(m, u)'
       PROVE  Present(m, u)
  BY <1>8, <1>9, <1>12, <1>13, <1>14 DEF Present
<1> QED BY <1>7, <1>8, <1>14

\* A selection that ends well.
LEMMA SelectedIs ==
    ASSUME Typed, NEW t \in Task, NEW n \in Node, Selected(t, n)
    PROVE  Goes(t, "post") /\ attempt'[t].node = n
  BY GoesToIs DEF Selected, Pcs, Goes

LEMMA BeginIs ==
    ASSUME Typed, NEW t \in Task, Begin(t)
    PROVE  \/ Goes(t, "keep") /\ owner[t] \in Node
           \/ /\ Goes(t, "scan") /\ owner[t] = NoNode
              /\ attempt'[t].able = <<>> /\ attempt'[t].left \in Candidates(t)
<1>1. CASE owner[t] = NoNode
  <2>1. \E list \in Candidates(t) : Becomes(t, [Rest EXCEPT !.pc = "scan", !.left = list])
    BY <1>1 DEF Begin
  <2> QED BY <1>1, <2>1, ScansIs DEF Goes
<1>2. CASE owner[t] # NoNode
  <2>1. Becomes(t, [Rest EXCEPT !.pc = "keep"])
    BY <1>2 DEF Begin
  <2>2. owner[t] \in Node
    BY <1>2 DEF Typed
  <2>3. NoNode \in Node \union {NoNode} /\ "keep" \in Pcs
    BY DEF Pcs
  <2> QED BY <2>1, <2>2, <2>3, GoesToIs DEF Goes
<1> QED BY <1>1, <1>2

LEMMA KeepIs ==
    ASSUME Typed, NEW t \in Task, Keep(t)
    PROVE  \/ /\ Goes(t, "scan") /\ attempt'[t].able = <<>> /\ attempt'[t].left \in Candidates(t)
              /\ table' = table
              /\ Clash(owner[t], t, TRUE) \/ owner[t] \notin alive \/ ~CanHost(owner[t], t, TRUE)
                     \/ troubles' = troubles + 1
           \/ /\ Goes(t, "post") /\ attempt'[t].node = owner[t] /\ ~Clash(owner[t], t, TRUE)
              /\ table' = Claimed(table, owner[t], t) \/ (table' = table /\ pins[t] = {})
<1>1. owner[t] \in Node
  BY DEF Keep, Typed
<1>2. CASE \E list \in Candidates(t) : Becomes(t, [Rest EXCEPT !.pc = "scan", !.left = list])
  <2>1. Goes(t, "scan") /\ attempt'[t].able = <<>> /\ attempt'[t].left \in Candidates(t)
    BY <1>2, ScansIs DEF Goes
  <2>2. attempt'[t].pc = "scan"
    BY <2>1 DEF Goes
  <2>3. ~Selected(t, owner[t])
    <3>1. Selected(t, owner[t]) => attempt'[t].pc = "post"
      BY <1>1, SelectedIs DEF Goes
    <3> QED BY <2>2, <3>1
  <2> QED BY <2>1, <2>3 DEF Keep, Fetches, Unfetched, Flaky, reservations
<1>3. CASE Selected(t, owner[t])
  <2>1. Goes(t, "post") /\ attempt'[t].node = owner[t]
    BY <1>1, <1>3, SelectedIs
  <2>2. attempt'[t].pc # "scan"
    BY <2>1 DEF Goes
  <2>3. ~\E list \in Candidates(t) : Becomes(t, [Rest EXCEPT !.pc = "scan", !.left = list])
    BY <2>2, ScansIs
  <2> QED BY <2>1, <2>3 DEF Keep
<1> QED BY <1>2, <1>3 DEF Keep

LEMMA ScanIs ==
    ASSUME Typed, NEW t \in Task, Scan(t)
    PROVE  \E yes \in BOOLEAN : LET n == Head(attempt[t].left)
           IN  /\ Goes(t, "scan") /\ attempt[t].left # <<>> /\ n \in Node
               /\ attempt'[t].left = Tail(attempt[t].left)
               /\ attempt'[t].able = IF yes THEN Append(attempt[t].able, n) ELSE attempt[t].able
               /\ yes => pins[t] = {} \/ (CanHost(n, t, FALSE) /\ ~Clash(n, t, FALSE))
               /\ ~yes => ~CanHost(n, t, FALSE) \/ Clash(n, t, FALSE) \/ n \notin alive
                          \/ troubles' = troubles + 1
<1> DEFINE n == Head(attempt[t].left)
           pass(yes) == Becomes(t, [attempt[t] EXCEPT !.left = Tail(@), !.able = IF yes THEN Append(@, n) ELSE @])
<1>1. attempt[t].left # <<>> /\ attempt[t].pc = "scan" /\ attempt[t].left \in Seq(Node)
  BY DEF Scan, In, Typed, Attempt
<1>2. n \in Node
  BY <1>1
<1>3. \A yes \in BOOLEAN : pass(yes) =>
          /\ Goes(t, "scan") /\ attempt'[t].left = Tail(attempt[t].left)
          /\ attempt'[t].able = IF yes THEN Append(attempt[t].able, n) ELSE attempt[t].able
  BY <1>1, PassIs DEF Goes
<1>4. (CanHost(n, t, FALSE) /\ ~Clash(n, t, FALSE)) \in BOOLEAN
  BY DEF CanHost, Clash
<1>5. \E yes \in BOOLEAN :
          /\ pass(yes)
          /\ yes => pins[t] = {} \/ (CanHost(n, t, FALSE) /\ ~Clash(n, t, FALSE))
          /\ ~yes => ~CanHost(n, t, FALSE) \/ Clash(n, t, FALSE) \/ n \notin alive \/ troubles' = troubles + 1
  <2> HIDE DEF n
  <2>1. PICK y : y = (CanHost(n, t, FALSE) /\ ~Clash(n, t, FALSE)) /\ y \in BOOLEAN
    BY <1>4
  <2>2. CASE pass(TRUE) /\ pins[t] = {}
    BY <2>2
  <2>3. CASE pass(FALSE) /\ Unfetched(n)
    BY <2>3 DEF Unfetched, Flaky
  <2>4. CASE pass(y)
    <3> HIDE DEF pass
    <3> QED BY <2>1, <2>4
  <2>5. (pass(TRUE) /\ pins[t] = {}) \/ (pass(FALSE) /\ Unfetched(n)) \/ pass(y)
    BY <2>1 DEF Scan, n
  <2> QED BY <2>2, <2>3, <2>4, <2>5
<1> QED BY <1>1, <1>2, <1>3, <1>5

LEMMA TurnIs ==
    ASSUME Typed, NEW S, NEW able \in Seq(S), able # <<>>
    PROVE  Turn(able) \in DOMAIN able /\ Turn(able) \in Nat
<1>1. Len(able) \in Nat /\ Len(able) # 0 /\ DOMAIN able = 1 .. Len(able)
  OBVIOUS
<1>2. lastWorker \in Nat
  BY DEF Typed
<1> QED BY <1>1, <1>2 DEF Turn

LEMMA PickIs ==
    ASSUME Typed, NEW t \in Task, Pick(t)
    PROVE  LET able == attempt[t].able
           IN  /\ lastWorker' \in Nat /\ attempt[t].left = <<>>
               /\ \/ /\ Goes(t, "judge") /\ table' = table
                     /\ \/ able = <<>>
                        \/ scheduler # "roundrobin" /\ \A i \in DOMAIN able : able[i] \notin sampled
                        \/ \E i \in DOMAIN able : Clash(able[i], t, TRUE)
                  \/ \E i \in DOMAIN able :
                        /\ Goes(t, "post") /\ attempt'[t].node = able[i] /\ able[i] \in Node
                        /\ ~Clash(able[i], t, TRUE) /\ table' = Claimed(table, able[i], t)
<1>1. PICK able : able = attempt[t].able
  OBVIOUS
<1>2. able \in Seq(Node)
  BY <1>1 DEF Typed, Attempt
<1>3. \A i \in DOMAIN able : able[i] \in Node /\ i \in Nat
  BY <1>2
<1>4. able # <<>> => Turn(able) \in DOMAIN able
  BY <1>2, TurnIs
<1>5. Becomes(t, [Rest EXCEPT !.pc = "judge"]) => Goes(t, "judge")
  <2>1. NoNode \in Node \union {NoNode} /\ "judge" \in Pcs
    BY DEF Pcs
  <2> QED BY <2>1, GoesToIs DEF Goes
<1>6. \A i \in DOMAIN able : Selected(t, able[i]) => Goes(t, "post") /\ attempt'[t].node = able[i]
  BY <1>3, SelectedIs
<1>7. PICK pos : pos = {i \in DOMAIN able : IF scheduler = "roundrobin" THEN i = Turn(able) ELSE able[i] \in sampled}
  OBVIOUS
<1>8. pos \subseteq DOMAIN able
  BY <1>7
<1>9. pos = {} => able = <<>> \/ (scheduler # "roundrobin" /\ \A i \in DOMAIN able : able[i] \notin sampled)
  BY <1>4, <1>7
<1>10. \/ /\ pos = {} /\ Becomes(t, [Rest EXCEPT !.pc = "judge"]) /\ table' = table
          /\ lastWorker' = lastWorker
       \/ \E i \in pos : /\ lastWorker' \in {i, lastWorker}
                         /\ IF Clash(able[i], t, TRUE) THEN Becomes(t, [Rest EXCEPT !.pc = "judge"]) /\ table' = table
                            ELSE table' = Claimed(table, able[i], t) /\ Selected(t, able[i])
  BY <1>1, <1>7 DEF Pick
<1>11. lastWorker \in Nat
  BY DEF Typed
<1>12. attempt[t].left = <<>>
  BY DEF Pick
<1>13. CASE /\ pos = {} /\ Becomes(t, [Rest EXCEPT !.pc = "judge"]) /\ table' = table
            /\ lastWorker' = lastWorker
  BY <1>1, <1>5, <1>9, <1>11, <1>12, <1>13
<1>14. ASSUME NEW i \in pos, lastWorker' \in {i, lastWorker},
              IF Clash(able[i], t, TRUE) THEN Becomes(t, [Rest EXCEPT !.pc = "judge"]) /\ table' = table
              ELSE table' = Claimed(table, able[i], t) /\ Selected(t, able[i])
       PROVE  /\ lastWorker' \in Nat
              /\ \/ Goes(t, "judge") /\ table' = table /\ Clash(able[i], t, TRUE)
                 \/ /\ Goes(t, "post") /\ attempt'[t].node = able[i] /\ able[i] \in Node
                    /\ ~Clash(able[i], t, TRUE) /\ table' = Claimed(table, able[i], t)
  BY <1>3, <1>5, <1>6, <1>8, <1>11, <1>14
<1> QED BY <1>1, <1>8, <1>10, <1>12, <1>13, <1>14

\* The steps that only move on, or that give back.
LEMMA RestIs ==
    ASSUME Typed, NEW t \in Task, Judge(t) \/ Probe(t) \/ Send(t) \/ Fail(t) \/ Settle(t) \/ Leave(t) \/ End(t) \/ UserStops(t)
    PROVE  \E pc \in {"rest", "probe", "end", "commit", "fail", "leave", "over"} :
               /\ Goes(t, pc)
               /\ pc = "commit" => Send(t) /\ attempt'[t].node = attempt[t].node
<1>1. ASSUME NEW pc \in {"probe", "end", "commit", "fail"}, Step(t, pc)
      PROVE  Goes(t, pc) /\ attempt'[t].node = attempt[t].node
  <2>1. pc \in Pcs
    BY DEF Pcs
  <2> QED BY <1>1, <2>1, StepIs DEF Goes
<1>2. Becomes(t, Rest) => Goes(t, "rest")
  BY RestsIs DEF Goes
<1>3. ASSUME NEW pc \in {"over", "leave"}, NEW n \in Node \union {NoNode},
             Becomes(t, [Rest EXCEPT !.pc = pc]) \/ Becomes(t, [Rest EXCEPT !.pc = pc, !.node = n])
      PROVE  Goes(t, pc)
  <2>1. pc \in Pcs /\ NoNode \in Node \union {NoNode}
    BY DEF Pcs
  <2> QED BY <1>3, <2>1, GoesToIs DEF Goes
<1>4. owner[t] \in Node \union {NoNode}
  BY DEF Typed
<1>5. \/ Becomes(t, Rest)
      \/ Becomes(t, [Rest EXCEPT !.pc = "over"])
      \/ Becomes(t, [Rest EXCEPT !.pc = "leave", !.node = owner[t]])
      \/ \E pc \in {"probe", "end", "fail"} : Step(t, pc)
      \/ Send(t) /\ Step(t, "commit")
  BY DEF Judge, Probe, Send, Fail, Settle, Leave, End, UserStops
<1>6. CASE Becomes(t, Rest)
  BY <1>2, <1>6
<1>7. CASE Becomes(t, [Rest EXCEPT !.pc = "over"])
  BY <1>3, <1>4, <1>7
<1>8. CASE Becomes(t, [Rest EXCEPT !.pc = "leave", !.node = owner[t]])
  BY <1>3, <1>4, <1>8
<1>9. ASSUME NEW pc \in {"probe", "end", "fail"}, Step(t, pc)
      PROVE  Goes(t, pc)
  BY <1>1, <1>9
<1>10. CASE Send(t) /\ Step(t, "commit")
  <2>1. Goes(t, "commit") /\ attempt'[t].node = attempt[t].node
    BY <1>1, <1>10
  <2> QED BY <1>10, <2>1
<1> QED BY <1>5, <1>6, <1>7, <1>8, <1>9, <1>10

\* Where the orders of a goroutine go.
LEMMA OrdersOf ==
    ASSUME Typed, NEW t \in Task, Attempting(t),
           In(t, "post") => attempt[t].node \in Node
    PROVE  /\ orders' \in Orders /\ running' = running
           /\ \A m \in Node, u \in Task :
                  Present(m, u)' => Present(m, u) \/ (Send(t) /\ u = t /\ m = attempt[t].node)
<1>1. running' = running
  BY DEF Attempting, Begin, Keep, Scan, Pick, Judge, Probe, Send, Fail, Settle, Leave, End, UserStops, workers
<1>2. orders \in Orders /\ owner[t] \in Node \union {NoNode} /\ attempt[t].node \in Node \union {NoNode}
  BY DEF Typed, Attempt
<1>3. \/ orders' = orders
      \/ Send(t) /\ attempt[t].node \in Node /\ orders' = Accepted(orders, attempt[t].node, t, "start")
      \/ \E n \in Node \union {NoNode} : Halted(n, t)
  <2>1. CASE Send(t)
    BY <2>1 DEF Send
  <2>2. CASE Leave(t)
    BY <1>2, <2>2 DEF Leave
  <2>3. CASE End(t)
    BY <1>2, <2>3 DEF End
  <2>4. CASE Begin(t) \/ Keep(t) \/ Scan(t) \/ Pick(t) \/ Judge(t) \/ Probe(t) \/ Fail(t) \/ Settle(t) \/ UserStops(t)
    BY <2>4 DEF Begin, Keep, Scan, Pick, Judge, Probe, Fail, Settle, UserStops, workers
  <2> QED BY <2>1, <2>2, <2>3, <2>4 DEF Attempting
<1>4. CASE orders' = orders
  BY <1>1, <1>2, <1>4 DEF Present, Queued
<1>5. CASE Send(t) /\ attempt[t].node \in Node /\ orders' = Accepted(orders, attempt[t].node, t, "start")
  BY <1>1, <1>5, AcceptedIs DEF Present
<1>6. ASSUME NEW n \in Node \union {NoNode}, Halted(n, t)
      PROVE  orders' \in Orders /\ \A m \in Node, u \in Task : Present(m, u)' => Present(m, u)
  BY <1>1, <1>6, HaltedIs DEF Present
<1> QED BY <1>1, <1>3, <1>4, <1>5, <1>6

\* Owners change when an attempt is settled.
LEMMA OwnersOf ==
    ASSUME Typed, NEW t \in Task, Attempting(t)
    PROVE  owner' = owner \/ (Settle(t) /\ owner' = [owner EXCEPT ![t] = attempt[t].node])
  BY DEF Attempting, Begin, Keep, Scan, Pick, Judge, Probe, Send, Fail, Settle, Leave, End, UserStops, records

LEMMA AttemptTyped ==
    ASSUME Typed, NEW t \in Task, Attempting(t),
           In(t, "post") => attempt[t].node \in Node
    PROVE  Typed'
<1>1. orders' \in Orders /\ running' \in [Node -> SUBSET Task]
  BY OrdersOf DEF Typed
<1>2. owner \in [Task -> Node \union {NoNode}] /\ attempt[t].node \in Node \union {NoNode}
  BY DEF Typed, Attempt
<1>3. owner' \in [Task -> Node \union {NoNode}] /\ \A u \in Task : u # t => owner'[u] = owner[u]
  BY <1>2, OwnersOf
<1>4. /\ attempt' \in [Task -> Attempt] /\ \A u \in Task : u # t => attempt'[u] = attempt[u]
      /\ lastWorker' \in Nat
      /\ attempt'[t].pc = "keep" => owner'[t] \in Node
  <2>1. CASE Begin(t)
    <3>1. owner' = owner /\ lastWorker' = lastWorker
      BY <2>1 DEF Begin, records, choice
    <3> QED BY <2>1, <3>1, BeginIs DEF Goes, Typed
  <2>2. CASE Keep(t)
    <3>1. lastWorker' = lastWorker
      BY <2>2 DEF Keep, choice
    <3>2. Goes(t, "scan") \/ Goes(t, "post")
      BY <2>2, KeepIs
    <3> QED BY <3>1, <3>2 DEF Goes, Typed
  <2>3. CASE Scan(t)
    <3>1. lastWorker' = lastWorker
      BY <2>3 DEF Scan, choice
    <3>2. Goes(t, "scan")
      BY <2>3, ScanIs
    <3> QED BY <3>1, <3>2 DEF Goes, Typed
  <2>4. CASE Pick(t)
    <3>1. lastWorker' \in Nat /\ (Goes(t, "judge") \/ Goes(t, "post"))
      BY <2>4, PickIs
    <3> QED BY <3>1 DEF Goes
  <2>5. CASE Judge(t) \/ Probe(t) \/ Send(t) \/ Fail(t) \/ Settle(t) \/ Leave(t) \/ End(t) \/ UserStops(t)
    <3>1. lastWorker' = lastWorker
      BY <2>5 DEF Judge, Probe, Send, Fail, Settle, Leave, End, UserStops, choice
    <3>2. PICK pc \in {"rest", "probe", "end", "commit", "fail", "leave", "over"} : Goes(t, pc)
      BY <2>5, RestIs
    <3> QED BY <3>1, <3>2 DEF Goes, Typed
  <2> QED BY <2>1, <2>2, <2>3, <2>4, <2>5 DEF Attempting
<1>5. \A u \in Task : In(u, "keep")' => owner'[u] \in Node
  BY <1>3, <1>4 DEF Typed, In
<1> QED BY <1>1, <1>3, <1>4, <1>5 DEF Typed

\* No step of a worker, or of a loop that watches it, is one of a goroutine.
Around ==
    \/ \E n \in Node, t \in Task : Obey(n, t) \/ Exit(n, t)
    \/ \E t \in Task : Report(t)
    \/ \E n \in Node : Refresh(n) \/ Outage(n)

LEMMA AroundIs ==
    ASSUME Typed, Around
    PROVE  /\ Typed'
           /\ UNCHANGED <<table, holder, owner, attempt, surrendered, scheduler>>
           /\ \A m \in Node, u \in Task : Present(m, u)' => Present(m, u)
<1>1. UNCHANGED <<table, holder, owner, attempt, surrendered, lastWorker, scheduler>>
  BY DEF Around, Obey, Exit, Report, Refresh, Outage, choice, reservations, records
<1>2. /\ orders' \in Orders /\ running' \in [Node -> SUBSET Task]
      /\ \A m \in Node, u \in Task : Present(m, u)' => Present(m, u)
  <2>1. ASSUME NEW n \in Node, NEW t \in Task, Obey(n, t)
        PROVE  /\ orders' \in Orders /\ running' \in [Node -> SUBSET Task]
               /\ \A m \in Node, u \in Task : Present(m, u)' => Present(m, u)
    BY <2>1, ObeyIs
  <2>2. ASSUME NEW n \in Node, NEW t \in Task, Exit(n, t)
        PROVE  /\ orders' \in Orders /\ running' \in [Node -> SUBSET Task]
               /\ \A m \in Node, u \in Task : Present(m, u)' => Present(m, u)
    <3>1. orders' = orders /\ running' = [running EXCEPT ![n] = @ \ {t}]
      BY <2>2 DEF Exit
    <3>2. running \in [Node -> SUBSET Task] /\ orders \in Orders
      BY DEF Typed
    <3>3. running' \in [Node -> SUBSET Task] /\ \A m \in Node, u \in Task : u \in running'[m] => u \in running[m]
      BY <3>1, <3>2
    <3> QED BY <3>1, <3>2, <3>3 DEF Present, Queued
  <2>3. CASE orders' = orders /\ running' = running
    BY <2>3 DEF Present, Queued, Typed
  <2>4. \/ \E n \in Node, t \in Task : Obey(n, t) \/ Exit(n, t)
        \/ orders' = orders /\ running' = running
    BY DEF Around, Report, Refresh, Outage, workers
  <2> QED BY <2>1, <2>2, <2>3, <2>4
<1>3. Typed'
  BY <1>1, <1>2 DEF Typed, In
<1> QED BY <1>1, <1>2, <1>3

LEMMA RebootTyped ==
    ASSUME Typed, Reboot
    PROVE  Typed' /\ \A t \in Task : attempt'[t].pc \in {"rest", "over"}
<1>1. PICK over : over = [Rest EXCEPT !.pc = "over"]
  OBVIOUS
<1>2. over = [pc |-> "over", left |-> <<>>, able |-> <<>>, node |-> NoNode]
  BY <1>1, FromRestIs
<1>3. over \in Attempt /\ over.pc = "over"
  <2>1. "over" \in Pcs /\ <<>> \in Seq(Node)
    BY DEF Pcs
  <2>2. over.pc = "over" /\ over.left = <<>> /\ over.able = <<>> /\ over.node = NoNode
    BY <1>2
  <2> QED BY <1>2, <2>1, <2>2, IsAttemptOf
<1>4. Rest \in Attempt /\ Rest.pc = "rest"
  BY RestTyped DEF Rest
<1>5. attempt' = [t \in Task |-> IF In(t, "end") \/ In(t, "over") THEN over ELSE Rest]
  BY <1>1 DEF Reboot
<1>6. attempt' \in [Task -> Attempt] /\ \A t \in Task : attempt'[t].pc \in {"rest", "over"}
  BY <1>3, <1>4, <1>5
<1>7. UNCHANGED <<owner, orders, running>> /\ lastWorker' = 0
  BY DEF Reboot, records, workers
<1> QED BY <1>6, <1>7 DEF Typed, In

-----------------------------------------------------------------------------
(* Who may be at work on the ports of a task *)

Rivals(t, u) == t # u /\ pins[t] \intersect pins[u] # {}

Holds(n, t) == \A k \in pins[t] : table[n][k] = t

\* A task that never gave back or lost a reservation holds its ports wherever
\* it is or will be; and where it holds them, no rival is.
Owns(t) == t \notin surrendered =>
    \A n \in Node :
        /\ Present(n, t) \/ owner[t] = n => Holds(n, t)
        /\ Holds(n, t) => \A u \in Task : Rivals(t, u) => ~Present(n, u)

\* The reservation of a selection lasts until its owner is recorded.
HeldPost(t) == In(t, "post") \/ In(t, "commit") => attempt[t].node \in Node /\ Holds(attempt[t].node, t)

\* No rival came to a worker that was found able.
Clear(t) == In(t, "scan") =>
    \A i \in DOMAIN attempt[t].able, u \in Task : Rivals(t, u) => ~Present(attempt[t].able[i], u)

Booked(t) == Owns(t) /\ HeldPost(t) /\ Clear(t)

BookInv == PInv /\ Typed /\ \A t \in Task : Booked(t)

\* Two tasks hold no port together, and a holder is in the way of a reservation.
LEMMA HoldersClash ==
    ASSUME PInv, NEW t \in Task, NEW u \in Task, Rivals(t, u), NEW n, Holds(n, u)
    PROVE  Clash(n, t, TRUE) /\ ~Holds(n, t)
<1>1. PICK k \in pins[t] : k \in pins[u]
  BY DEF Rivals
<1>2. table[n][k] = u
  BY <1>1 DEF Holds
<1> QED BY <1>1, <1>2, TasksAndWorkersAssumption DEF Clash, Holds, Rivals, TasksAndWorkersAssumption

\* A reservation without conflict takes the ports, and disturbs nobody.
LEMMA ClaimedHolds ==
    ASSUME PInv, pins' = pins, NEW t \in Task, NEW n \in Node, ~Clash(n, t, TRUE), table' = Claimed(table, n, t)
    PROVE  /\ Holds(n, t)'
           /\ \A m \in Node : m # n => (Holds(m, t)' <=> Holds(m, t))
           /\ \A m \in Node, u \in Task : u # t => (Holds(m, u)' <=> Holds(m, u))
<1>1. table \in [Node -> [Key -> Task \union {NoTask}]] /\ pins \in [Task -> SUBSET Key]
  BY DEF PInv, TypedTable
<1>2. \A m \in Node, k \in Key : table'[m][k] = IF m = n /\ k \in pins[t] THEN t ELSE table[m][k]
  BY <1>1 DEF Claimed
<1>3. \A k \in pins[t] : table[n][k] = NoTask \/ table[n][k] = t
  BY DEF Clash
<1>4. Holds(n, t)'
  BY <1>1, <1>2 DEF Holds
<1>5. \A m \in Node : m # n => (Holds(m, t)' <=> Holds(m, t))
  BY <1>1, <1>2 DEF Holds
<1>6. ASSUME NEW m \in Node, NEW u \in Task, u # t
      PROVE  Holds(m, u)' <=> Holds(m, u)
  <2>1. \A k \in pins[u] : table'[m][k] = u <=> table[m][k] = u
    BY <1>1, <1>2, <1>3, <1>6, TasksAndWorkersAssumption DEF TasksAndWorkersAssumption
  <2> QED BY <2>1 DEF Holds
<1> QED BY <1>4, <1>5, <1>6

\* A release disturbs nobody else.
LEMMA FreedHolds ==
    ASSUME PInv, pins' = pins, NEW t \in Task, NEW n \in Node \union {NoNode}, table' = Freed(table, n, t)
    PROVE  \A m \in Node, u \in Task : u # t => (Holds(m, u)' <=> Holds(m, u))
<1>1. table \in [Node -> [Key -> Task \union {NoTask}]] /\ pins \in [Task -> SUBSET Key]
  BY DEF PInv, TypedTable
<1>2. CASE n = NoNode
  BY <1>2 DEF Freed, Holds
<1>3. CASE n \in Node /\ n # NoNode
  <2>1. \A m \in Node, k \in Key :
            table'[m][k] = IF m = n /\ k \in pins[t] /\ table[m][k] = t THEN NoTask ELSE table[m][k]
    BY <1>1, <1>3 DEF Freed
  <2>2. ASSUME NEW m \in Node, NEW u \in Task, u # t
        PROVE  Holds(m, u)' <=> Holds(m, u)
    <3>1. \A k \in pins[u] : table'[m][k] = u <=> table[m][k] = u
      BY <1>1, <2>1, <2>2, TasksAndWorkersAssumption DEF TasksAndWorkersAssumption
    <3> QED BY <3>1 DEF Holds
  <2> QED BY <2>2
<1> QED BY <1>2, <1>3, TasksAndWorkersAssumption

\* What other tasks do leaves a task booked: they come only where they hold
\* their ports, so not where it holds its own or found a worker able.
LEMMA OthersBooked ==
    ASSUME BookInv, NEW t \in Task, pins' = pins, attempt'[t] = attempt[t], owner'[t] = owner[t],
           surrendered \subseteq surrendered',
           \A n \in Node : Holds(n, t)' <=> Holds(n, t),
           \A n \in Node, u \in Task : Present(n, u)' => Present(n, u) \/ (u # t /\ Holds(n, u))
    PROVE  Booked(t)'
<1>1. PInv /\ Owns(t) /\ HeldPost(t) /\ Clear(t)
  BY DEF BookInv, Booked
<1>2. \A u : Rivals(t, u)' <=> Rivals(t, u)
  BY DEF Rivals
<1>3. ASSUME t \notin surrendered', NEW n \in Node
      PROVE  /\ Present(n, t)' \/ owner'[t] = n => Holds(n, t)'
             /\ Holds(n, t)' => \A u \in Task : Rivals(t, u) => ~Present(n, u)'
  <2>1. t \notin surrendered
    BY <1>3
  <2>2. Present(n, t) \/ owner[t] = n => Holds(n, t)
    BY <1>1, <2>1 DEF Owns
  <2>3. Holds(n, t) => \A u \in Task : Rivals(t, u) => ~Present(n, u)
    BY <1>1, <2>1 DEF Owns
  <2>4. \A u \in Task : Rivals(t, u) /\ Holds(n, t) => ~Holds(n, u)
    BY <1>1, HoldersClash
  <2> QED BY <2>2, <2>3, <2>4
<1>4. Owns(t)'
  BY <1>2, <1>3 DEF Owns
<1>5. HeldPost(t)'
  <2>1. attempt[t].node \in Node => (Holds(attempt[t].node, t)' <=> Holds(attempt[t].node, t))
    OBVIOUS
  <2> QED BY <1>1, <2>1 DEF HeldPost, In, Holds
<1>6. Clear(t)'
  <2> SUFFICES ASSUME In(t, "scan"), NEW i \in DOMAIN attempt[t].able, NEW u \in Task, Rivals(t, u)
               PROVE  ~Present(attempt[t].able[i], u)'
    BY <1>2 DEF Clear, In, Present, Queued
  <2>1. PICK n : n = attempt[t].able[i]
    OBVIOUS
  <2>2. n \in Node
    BY <2>1 DEF BookInv, Typed, Attempt
  <2>3. ~Present(n, u)
    BY <1>1, <2>1 DEF Clear
  <2>4. ~Clash(n, t, TRUE)
    BY <1>1, <2>1 DEF PInv, RaceNeverLost
  <2>5. ~Present(n, u)'
    BY <1>1, <2>2, <2>3, <2>4, HoldersClash
  <2> QED BY <2>1, <2>5 DEF Present, Queued
<1> QED BY <1>4, <1>5, <1>6 DEF Booked

\* No step of the task's own: its ports are where they were.
LEMMA OwnsKept ==
    ASSUME BookInv, NEW t \in Task, pins' = pins, owner'[t] = owner[t], surrendered \subseteq surrendered',
           \A n \in Node : Holds(n, t)' <=> Holds(n, t),
           \A n \in Node, u \in Task : Present(n, u)' => Present(n, u) \/ (u = t /\ Holds(n, t))
    PROVE  Owns(t)'
<1>1. PInv /\ Owns(t)
  BY DEF BookInv, Booked
<1>2. \A u : Rivals(t, u)' <=> Rivals(t, u)
  BY DEF Rivals
<1>3. \A u : Rivals(t, u) => u # t
  BY DEF Rivals
<1> QED BY <1>1, <1>2, <1>3 DEF Owns

\* A goroutine disturbs no other task's reservations.
LEMMA TablesOf ==
    ASSUME BookInv, NEW t \in Task, Attempting(t), pins' = pins
    PROVE  \A n \in Node, u \in Task : u # t => (Holds(n, u)' <=> Holds(n, u))
<1>1. PInv /\ Typed
  BY DEF BookInv
<1>2. owner[t] \in Node \union {NoNode} /\ attempt[t].node \in Node \union {NoNode}
  BY <1>1 DEF Typed, Attempt
<1>3. CASE table' = table
  BY <1>3 DEF Holds
<1>4. ASSUME NEW n \in Node, ~Clash(n, t, TRUE), table' = Claimed(table, n, t)
      PROVE  \A m \in Node, u \in Task : u # t => (Holds(m, u)' <=> Holds(m, u))
  BY <1>1, <1>4, ClaimedHolds
<1>5. ASSUME NEW n \in Node \union {NoNode}, table' = Freed(table, n, t)
      PROVE  \A m \in Node, u \in Task : u # t => (Holds(m, u)' <=> Holds(m, u))
  BY <1>1, <1>5, FreedHolds
<1>6. CASE Keep(t)
  <2>1. owner[t] \in Node
    BY <1>1, <1>6 DEF Keep, Typed
  <2>2. table' = table \/ (~Clash(owner[t], t, TRUE) /\ table' = Claimed(table, owner[t], t))
    BY <1>1, <1>6, KeepIs
  <2> QED BY <1>3, <1>4, <2>1, <2>2
<1>7. CASE Pick(t)
  <2>1. table' = table \/ \E n \in Node : ~Clash(n, t, TRUE) /\ table' = Claimed(table, n, t)
    BY <1>1, <1>7, PickIs
  <2> QED BY <1>3, <1>4, <2>1
<1>8. CASE Fail(t) \/ Leave(t) \/ End(t)
  <2>1. \E n \in Node \union {NoNode} : table' = Freed(table, n, t)
    BY <1>2, <1>8 DEF Fail, Leave, End
  <2> QED BY <1>5, <2>1
<1>9. CASE Begin(t) \/ Scan(t) \/ Judge(t) \/ Probe(t) \/ Send(t) \/ Settle(t) \/ UserStops(t)
  <2>1. table' = table
    BY <1>9 DEF Begin, Scan, Judge, Probe, Send, Settle, UserStops, reservations
  <2> QED BY <1>3, <2>1
<1> QED BY <1>6, <1>7, <1>8, <1>9 DEF Attempting

LEMMA SurrenderedOf ==
    ASSUME NEW t \in Task, Attempting(t)
    PROVE  \/ surrendered' = surrendered /\ ~(Fail(t) \/ Leave(t) \/ End(t))
           \/ surrendered' = surrendered \union {t} /\ (Fail(t) \/ Leave(t) \/ End(t))
<1>1. CASE Fail(t) \/ Leave(t) \/ End(t)
  BY <1>1 DEF Fail, Leave, End
<1>2. CASE ~(Fail(t) \/ Leave(t) \/ End(t))
  <2>1. surrendered' = surrendered
    BY <1>2 DEF Attempting, Begin, Keep, Scan, Pick, Judge, Probe, Send, Settle, UserStops
  <2> QED BY <1>2, <2>1
<1> QED BY <1>1, <1>2

LEMMA AttemptFrame ==
    ASSUME Typed, NEW t \in Task, Attempting(t), NEW u \in Task, u # t
    PROVE  attempt'[u] = attempt[u]
<1>1. CASE Begin(t)
  BY <1>1, BeginIs DEF Goes
<1>2. CASE Keep(t)
  BY <1>2, KeepIs DEF Goes
<1>3. CASE Scan(t)
  BY <1>3, ScanIs DEF Goes
<1>4. CASE Pick(t)
  BY <1>4, PickIs DEF Goes
<1>5. CASE Judge(t) \/ Probe(t) \/ Send(t) \/ Fail(t) \/ Settle(t) \/ Leave(t) \/ End(t) \/ UserStops(t)
  BY <1>5, RestIs DEF Goes
<1> QED BY <1>1, <1>2, <1>3, <1>4, <1>5 DEF Attempting

\* The other tasks stay booked in a step of a goroutine.
LEMMA AttemptOthers ==
    ASSUME BookInv, NEW t \in Task, Attempting(t), pins' = pins, NEW u \in Task, u # t
    PROVE  Booked(u)'
<1>1. Typed /\ HeldPost(t) /\ PInv
  BY DEF BookInv, Booked
<1>2. In(t, "post") => attempt[t].node \in Node /\ Holds(attempt[t].node, t)
  BY <1>1 DEF HeldPost
<1>3. \A n \in Node, v \in Task : Present(n, v)' => Present(n, v) \/ (v # u /\ Holds(n, v))
  <2>1. \A n \in Node, v \in Task :
            Present(n, v)' => Present(n, v) \/ (Send(t) /\ v = t /\ n = attempt[t].node)
    BY <1>1, <1>2, OrdersOf
  <2>2. Send(t) => In(t, "post")
    BY DEF Send
  <2> QED BY <1>2, <2>1, <2>2
<1>4. \A n \in Node : Holds(n, u)' <=> Holds(n, u)
  BY TablesOf
<1>5. surrendered \subseteq surrendered'
  BY SurrenderedOf
<1>6. owner'[u] = owner[u]
  BY <1>1, OwnersOf DEF Typed
<1>7. attempt'[u] = attempt[u]
  BY <1>1, AttemptFrame
<1> QED BY <1>3, <1>4, <1>5, <1>6, <1>7, OthersBooked

\* In a step that queues no start, a task stays where it is.
LEMMA NothingQueued ==
    ASSUME BookInv, NEW t \in Task, Attempting(t), ~Send(t), pins' = pins
    PROVE  \A n \in Node, v \in Task : Present(n, v)' => Present(n, v)
<1>1. In(t, "post") => attempt[t].node \in Node
  BY DEF BookInv, Booked, HeldPost
<1> QED BY <1>1, OrdersOf DEF BookInv

\* A task whose goroutine is in no selection and has none to record.
LEMMA IdleBooked ==
    ASSUME NEW t \in Task, NEW pc, Goes(t, pc), pc \notin {"post", "commit", "scan"}
    PROVE  HeldPost(t)' /\ Clear(t)'
  BY DEF Goes, HeldPost, Clear, In

LEMMA AttemptSelf ==
    ASSUME BookInv, NEW t \in Task, Attempting(t), pins' = pins
    PROVE  Booked(t)'
<1> USE DEF choice, reservations, records, workers, bounds
<1>1. PInv /\ Typed /\ Owns(t) /\ HeldPost(t) /\ Clear(t)
  BY DEF BookInv, Booked
<1>2. pins[t] \in SUBSET Key
  BY <1>1 DEF PInv
<1>3. ~Send(t) => \A n \in Node, v \in Task : Present(n, v)' => Present(n, v)
  BY NothingQueued
<1>4. owner[t] \in Node \union {NoNode}
  BY <1>1 DEF Typed
<1>5. CASE Begin(t)
  <2>1. UNCHANGED <<table, owner, surrendered>> /\ ~Send(t)
    BY <1>5 DEF Begin, Send, In
  <2>2. \A n \in Node : Holds(n, t)' <=> Holds(n, t)
    BY <2>1 DEF Holds
  <2>3. Owns(t)'
    BY <1>3, <2>1, <2>2, OwnsKept
  <2>4. Goes(t, "keep") \/ (Goes(t, "scan") /\ attempt'[t].able = <<>>)
    BY <1>1, <1>5, BeginIs
  <2>5. HeldPost(t)' /\ Clear(t)'
    BY <2>4 DEF Goes, HeldPost, Clear, In
  <2> QED BY <2>3, <2>5 DEF Booked
<1>6. CASE Keep(t)
  <2>1. UNCHANGED <<owner, surrendered>> /\ ~Send(t) /\ owner[t] \in Node
    BY <1>1, <1>6 DEF Keep, Send, In, Typed
  <2>2. CASE Goes(t, "scan") /\ attempt'[t].able = <<>> /\ table' = table
    <3>1. \A n \in Node : Holds(n, t)' <=> Holds(n, t)
      BY <2>2 DEF Holds
    <3>2. Owns(t)'
      BY <1>3, <2>1, <3>1, OwnsKept
    <3>3. HeldPost(t)' /\ Clear(t)'
      BY <2>2 DEF Goes, HeldPost, Clear, In
    <3> QED BY <3>2, <3>3 DEF Booked
  <2>3. CASE /\ Goes(t, "post") /\ attempt'[t].node = owner[t] /\ ~Clash(owner[t], t, TRUE)
             /\ table' = Claimed(table, owner[t], t) \/ (table' = table /\ pins[t] = {})
    <3> PICK w \in Node : w = owner[t]
      BY <2>1
    <3>1. Holds(w, t)' /\ \A m \in Node : m # w => (Holds(m, t)' <=> Holds(m, t))
      <4>1. CASE table' = Claimed(table, w, t)
        BY <1>1, <2>3, <4>1, ClaimedHolds
      <4>2. CASE table' = table /\ pins[t] = {}
        BY <4>2 DEF Holds
      <4> QED BY <2>3, <4>1, <4>2
    <3>2. Owns(t)'
      <4>1. CASE t \in surrendered
        BY <2>1, <4>1 DEF Owns
      <4>2. CASE t \notin surrendered
        <5>1. Holds(w, t)
          BY <1>1, <4>2 DEF Owns
        <5>2. \A n \in Node : Holds(n, t)' <=> Holds(n, t)
          BY <3>1, <5>1
        <5> QED BY <1>3, <2>1, <5>2, OwnsKept
      <4> QED BY <4>1, <4>2
    <3>3. HeldPost(t)' /\ Clear(t)'
      <4>1. Holds(attempt[t].node, t)'
        BY <2>3, <3>1 DEF Holds
      <4> QED BY <2>1, <2>3, <4>1 DEF Goes, HeldPost, Clear, In
    <3> QED BY <3>2, <3>3 DEF Booked
  <2> QED BY <1>1, <1>6, <2>2, <2>3, KeepIs
<1>7. CASE Scan(t)
  <2>1. UNCHANGED <<table, owner, surrendered, orders, running>> /\ ~Send(t)
    BY <1>7 DEF Scan, Send, In
  <2>2. \A n \in Node : Holds(n, t)' <=> Holds(n, t)
    BY <2>1 DEF Holds
  <2>3. Owns(t)'
    BY <1>3, <2>1, <2>2, OwnsKept
  <2> PICK n : n = Head(attempt[t].left)
    OBVIOUS
  <2>4. PICK yes \in BOOLEAN :
            /\ n \in Node
            /\ Goes(t, "scan")
            /\ attempt'[t].able = IF yes THEN Append(attempt[t].able, n) ELSE attempt[t].able
            /\ yes => pins[t] = {} \/ CanHost(n, t, FALSE)
    BY <1>1, <1>7, ScanIs, Zenon
  <2>5. HeldPost(t)'
    BY <2>4 DEF Goes, HeldPost, In
  <2>6. PICK able : able = attempt[t].able
    OBVIOUS
  <2>7. able \in Seq(Node)
    BY <1>1, <2>6 DEF Typed, Attempt
  <2>8. ASSUME NEW i \in DOMAIN attempt'[t].able
        PROVE  (i \in DOMAIN able /\ attempt'[t].able[i] = able[i]) \/ (yes /\ attempt'[t].able[i] = n)
    <3>1. CASE yes
      <4>1. attempt'[t].able = Append(able, n)
        BY <2>4, <2>6, <3>1
      <4>2. /\ DOMAIN Append(able, n) = 1 .. Len(able) + 1 /\ Len(able) \in Nat /\ DOMAIN able = 1 .. Len(able)
            /\ \A j \in 1 .. Len(able) : Append(able, n)[j] = able[j]
            /\ Append(able, n)[Len(able) + 1] = n
        BY <2>4, <2>7
      <4>3. i \in 1 .. Len(able) \/ i = Len(able) + 1
        BY <4>1, <4>2
      <4> QED BY <3>1, <4>1, <4>2, <4>3
    <3>2. CASE ~yes
      BY <2>4, <2>6, <3>2
    <3> QED BY <3>1, <3>2
  <2>9. ASSUME yes, NEW u \in Task, Rivals(t, u)
        PROVE  ~Present(n, u)
    <3>1. PICK k \in pins[t] : k \in pins[u]
      BY <2>9 DEF Rivals
    <3>2. k \notin Busy(n)
      BY <2>4, <2>9, <3>1 DEF CanHost, Hidden
    <3>3. Present(n, u) => k \in Busy(n)
      BY <3>1 DEF Busy, Present
    <3> QED BY <3>2, <3>3
  <2>10. Clear(t)'
    <3> SUFFICES ASSUME NEW i \in DOMAIN attempt'[t].able, NEW u \in Task, Rivals(t, u)
                 PROVE  ~Present(attempt[t].able[i], u)'
      BY DEF Clear, Rivals
    <3>1. PICK m : m = attempt'[t].able[i]
      OBVIOUS
    <3>2. ~Present(m, u)
      <4>1. CASE i \in DOMAIN able /\ m = able[i]
        BY <1>1, <1>7, <2>6, <4>1 DEF Clear, Scan
      <4>2. CASE yes /\ m = n
        BY <2>9, <4>2
      <4> QED BY <2>8, <3>1, <4>1, <4>2
    <3> QED BY <2>1, <3>1, <3>2 DEF Present, Queued
  <2> QED BY <2>3, <2>5, <2>10 DEF Booked
<1>8. CASE Pick(t)
  <2>1. UNCHANGED <<owner, surrendered>> /\ ~Send(t)
    BY <1>8 DEF Pick, Send, In
  <2>2. CASE Goes(t, "judge") /\ table' = table
    <3>1. \A n \in Node : Holds(n, t)' <=> Holds(n, t)
      BY <2>2 DEF Holds
    <3>2. Owns(t)'
      BY <1>3, <2>1, <3>1, OwnsKept
    <3>3. HeldPost(t)' /\ Clear(t)'
      BY <2>2, IdleBooked
    <3> QED BY <3>2, <3>3 DEF Booked
  <2>3. ASSUME NEW i \in DOMAIN attempt[t].able, NEW n \in Node, n = attempt[t].able[i],
               Goes(t, "post"), attempt'[t].node = n, ~Clash(n, t, TRUE), table' = Claimed(table, n, t)
        PROVE  Booked(t)'
    <3>1. Holds(n, t)' /\ \A m \in Node : m # n => (Holds(m, t)' <=> Holds(m, t))
      BY <1>1, <2>3, ClaimedHolds
    <3>2. \A u \in Task : Rivals(t, u) => ~Present(n, u)
      BY <1>1, <1>8, <2>3 DEF Clear, Pick
    <3>3. Owns(t)'
      BY <1>1, <1>3, <2>1, <3>1, <3>2 DEF Owns, Rivals
    <3>4. HeldPost(t)' /\ Clear(t)'
      <4>1. Holds(attempt[t].node, t)'
        BY <2>3, <3>1 DEF Holds
      <4> QED BY <2>3, <4>1 DEF Goes, HeldPost, Clear, In
    <3> QED BY <3>3, <3>4 DEF Booked
  <2> QED BY <1>1, <1>8, <2>2, <2>3, PickIs
<1>9. CASE Fail(t) \/ Leave(t) \/ End(t)
  <2>1. t \in surrendered'
    BY <1>9, SurrenderedOf
  <2>2. PICK pc : Goes(t, pc) /\ pc \in {"rest", "probe", "end", "commit", "fail", "leave", "over"}
                  /\ (pc = "commit" => Send(t))
    BY <1>1, <1>9, RestIs
  <2>3. ~Send(t)
    BY <1>9 DEF Fail, Leave, End, Send, In
  <2> QED BY <2>1, <2>2, <2>3, IdleBooked DEF Booked, Owns
<1>10. CASE Settle(t)
  <2>1. UNCHANGED <<table, surrendered>> /\ ~Send(t)
    BY <1>10 DEF Settle, Send, In
  <2>2. PICK pc : Goes(t, pc) /\ pc \in {"rest", "probe", "end", "commit", "fail", "leave", "over"}
                  /\ (pc = "commit" => Send(t))
    BY <1>1, <1>10, RestIs
  <2>3. HeldPost(t)' /\ Clear(t)'
    BY <2>1, <2>2, IdleBooked
  <2>4. attempt[t].node \in Node /\ Holds(attempt[t].node, t)
    BY <1>1, <1>10 DEF HeldPost, Settle
  <2>5. owner'[t] = attempt[t].node
    BY <1>1, <1>10 DEF Settle, Typed
  <2>6. \A n \in Node : Holds(n, t)' <=> Holds(n, t)
    BY <2>1 DEF Holds
  <2>7. Owns(t)'
    BY <1>1, <1>3, <2>1, <2>4, <2>5, <2>6 DEF Owns, Rivals
  <2> QED BY <2>3, <2>7 DEF Booked
<1>11. CASE Send(t)
  <2>1. UNCHANGED <<table, owner, surrendered>>
    BY <1>11 DEF Send
  <2>2. attempt[t].node \in Node /\ Holds(attempt[t].node, t)
    BY <1>1, <1>11 DEF HeldPost, Send
  <2>3. \A n \in Node : Holds(n, t)' <=> Holds(n, t)
    BY <2>1 DEF Holds
  <2>4. \A n \in Node, u \in Task : Present(n, u)' => Present(n, u) \/ (u = t /\ Holds(n, t))
    BY <1>1, <2>2, OrdersOf
  <2>5. Owns(t)'
    BY <2>1, <2>3, <2>4, OwnsKept
  <2>6. PICK pc : Goes(t, pc) /\ pc \in {"rest", "probe", "end", "commit", "fail", "leave", "over"}
                  /\ (pc = "commit" => attempt'[t].node = attempt[t].node)
    BY <1>1, <1>11, RestIs
  <2>7. HeldPost(t)' /\ Clear(t)'
    <3>1. CASE pc = "commit"
      <4>1. Holds(attempt[t].node, t)'
        BY <2>1, <2>2, <2>6, <3>1 DEF Holds
      <4> QED BY <2>2, <2>6, <3>1, <4>1 DEF Goes, HeldPost, Clear, In
    <3>2. CASE pc # "commit"
      BY <2>6, <3>2, IdleBooked
    <3> QED BY <3>1, <3>2
  <2> QED BY <2>5, <2>7 DEF Booked
<1>12. CASE Judge(t) \/ Probe(t) \/ UserStops(t)
  <2>1. UNCHANGED <<table, owner, surrendered>> /\ ~Send(t)
    BY <1>12 DEF Judge, Probe, UserStops, Send, In
  <2>2. \A n \in Node : Holds(n, t)' <=> Holds(n, t)
    BY <2>1 DEF Holds
  <2>3. Owns(t)'
    BY <1>3, <2>1, <2>2, OwnsKept
  <2>4. PICK pc : Goes(t, pc) /\ pc \in {"rest", "probe", "end", "commit", "fail", "leave", "over"}
                  /\ (pc = "commit" => Send(t))
    BY <1>1, <1>12, RestIs
  <2>5. HeldPost(t)' /\ Clear(t)'
    BY <2>1, <2>4, IdleBooked
  <2> QED BY <2>3, <2>5 DEF Booked
<1> QED BY <1>5, <1>6, <1>7, <1>8, <1>9, <1>10, <1>11, <1>12 DEF Attempting

\* A restart keeps the reservations of the tasks that lost none, and claims
\* more for them only where they are owned, where they held them already.
LEMMA RebootBooked ==
    ASSUME BookInv, Reboot, pins' = pins, PInv', Typed', NEW t \in Task
    PROVE  Booked(t)'
<1>1. PInv /\ Typed /\ Owns(t)
  BY DEF BookInv, Booked
<1>2. /\ UNCHANGED <<owner, orders, running>>
      /\ surrendered' = surrendered \union
             {u \in Task : \E n \in Node : Held(table, n, u) # {} /\ Held(table', n, u) = {}}
  BY DEF Reboot, records, workers
<1>3. HeldPost(t)' /\ Clear(t)'
  <2>1. attempt'[t].pc \in {"rest", "over"}
    BY <1>1, RebootTyped
  <2> QED BY <2>1 DEF HeldPost, Clear, In
<1>4. ASSUME t \notin surrendered', NEW n \in Node
      PROVE  Holds(n, t)' <=> Holds(n, t)
  <2>1. pins[t] \in SUBSET Key
    BY <1>1 DEF PInv
  <2>2. CASE pins[t] = {}
    BY <2>2 DEF Holds
  <2>3. CASE pins[t] # {}
    <3>1. ASSUME Holds(n, t) PROVE Holds(n, t)'
      <4>1. Held(table, n, t) # {}
        BY <2>1, <2>3, <3>1 DEF Held, Holds
      <4>2. Held(table', n, t) # {}
        BY <1>2, <1>4, <4>1
      <4>3. Held(table', n, t) = pins[t]
        BY <4>2 DEF PInv, AllOrNothing, Held
      <4> QED BY <4>3 DEF Held, Holds
    <3>2. ASSUME Holds(n, t)' PROVE Holds(n, t)
      <4>1. PICK k \in pins[t] : table'[n][k] = t
        BY <2>3, <3>2 DEF Holds
      <4>2. PICK live \in SUBSET {u \in Task : owner[u] # NoNode /\ ~In(u, "end") /\ ~In(u, "over")} :
                table' = [m \in Node |-> [l \in Key |->
                    LET mine == {u \in live : owner[u] = m /\ l \in pins[u]}
                    IN  IF mine = {} THEN NoTask ELSE CHOOSE u \in mine : TRUE]]
        BY DEF Reboot
      <4>3. PICK mine : mine = {u \in live : owner[u] = n /\ k \in pins[u]}
        OBVIOUS
      <4>4. table'[n][k] = IF mine = {} THEN NoTask ELSE CHOOSE u \in mine : TRUE
        BY <2>1, <4>1, <4>2, <4>3
      <4>5. t \in mine
        BY <4>1, <4>4, TasksAndWorkersAssumption
      <4>6. owner[t] = n
        BY <4>3, <4>5
      <4> QED BY <1>1, <1>2, <1>4, <4>6 DEF Owns
    <3> QED BY <3>1, <3>2
  <2> QED BY <2>2, <2>3
<1>5. \A n \in Node, u \in Task : Present(n, u)' <=> Present(n, u)
  BY <1>2 DEF Present, Queued
<1>6. Owns(t)'
  <2> SUFFICES ASSUME t \notin surrendered', NEW n \in Node
               PROVE  /\ Present(n, t)' \/ owner'[t] = n => Holds(n, t)'
                      /\ Holds(n, t)' => \A u \in Task : Rivals(t, u)' => ~Present(n, u)'
    BY DEF Owns
  <2>1. t \notin surrendered
    BY <1>2
  <2>2. \A u : Rivals(t, u)' <=> Rivals(t, u)
    BY DEF Rivals
  <2> QED BY <1>1, <1>2, <1>4, <1>5, <2>1, <2>2 DEF Owns
<1> QED BY <1>3, <1>6 DEF Booked

LEMMA InitBook == PlacementInit => BookInv
<1> SUFFICES ASSUME PlacementInit PROVE BookInv
  OBVIOUS
<1>1. Rest \in Attempt /\ Rest.pc = "rest"
  BY RestTyped DEF Rest
<1>2. /\ \A t \in Task : owner[t] = NoNode /\ In(t, "rest")
      /\ \A n \in Node, t \in Task : orders[n][t] = <<>> /\ running[n] = {}
  BY <1>1 DEF PlacementInit, In
<1>3. \A n \in Node, t \in Task : ~Present(n, t)
  BY <1>2 DEF Present, Queued
<1>4. orders \in Orders /\ running \in [Node -> SUBSET Task]
  <2>1. <<>> \in Seq({"start", "stop"})
    OBVIOUS
  <2> QED BY <2>1 DEF PlacementInit, Orders
<1>5. Typed
  BY <1>1, <1>2, <1>4 DEF PlacementInit, Typed, In
<1>6. ASSUME NEW t \in Task
      PROVE  Booked(t)
  <2>1. \A n \in Node : owner[t] # n /\ ~Present(n, t) /\ \A u \in Task : ~Present(n, u)
    BY <1>2, <1>3, TasksAndWorkersAssumption DEF TasksAndWorkersAssumption
  <2>2. Owns(t)
    BY <2>1 DEF Owns
  <2>3. HeldPost(t) /\ Clear(t)
    BY <1>2 DEF HeldPost, Clear, In
  <2> QED BY <2>2, <2>3 DEF Booked
<1> QED BY <1>5, <1>6, InitPInv DEF BookInv

LEMMA NextBook == BookInv /\ [PlacementNext]_pvars => BookInv'
<1> SUFFICES ASSUME BookInv, [PlacementNext]_pvars PROVE BookInv'
  OBVIOUS
<1>1. PInv' /\ Typed
  BY NextPInv DEF BookInv
<1>2. CASE UNCHANGED pvars
  <2>1. UNCHANGED <<pins, table, owner, attempt, orders, running, lastWorker, surrendered>>
    BY <1>2 DEF pvars
  <2>2. Typed'
    BY <1>1, <2>1 DEF Typed, In
  <2>3. \A n \in Node, t \in Task : (Holds(n, t)' <=> Holds(n, t)) /\ (Present(n, t)' <=> Present(n, t))
    BY <2>1 DEF Holds, Present, Queued
  <2>4. \A t \in Task : Booked(t)'
    BY <2>1, <2>3, OthersBooked
  <2> QED BY <1>1, <2>2, <2>4 DEF BookInv
<1>3. CASE PlacementNext
  <2>1. pins' = pins
    BY <1>3 DEF PlacementNext
  <2>2. ASSUME NEW t \in Task, Attempting(t) PROVE BookInv'
    <3>1. In(t, "post") => attempt[t].node \in Node
      BY DEF BookInv, Booked, HeldPost
    <3>2. Typed'
      BY <1>1, <2>2, <3>1, AttemptTyped
    <3>3. Booked(t)'
      BY <2>1, <2>2, AttemptSelf
    <3>4. \A u \in Task : u # t => Booked(u)'
      BY <2>1, <2>2, AttemptOthers
    <3>5. \A u \in Task : Booked(u)'
      BY <3>3, <3>4
    <3> QED BY <1>1, <3>2, <3>5 DEF BookInv
  <2>3. CASE Reboot
    <3>1. Typed'
      BY <1>1, <2>3, RebootTyped
    <3>2. \A t \in Task : Booked(t)'
      BY <1>1, <2>1, <2>3, <3>1, RebootBooked
    <3> QED BY <1>1, <3>1, <3>2 DEF BookInv
  <2>4. CASE Around
    <3>1. /\ Typed' /\ UNCHANGED <<table, owner, attempt, surrendered>>
          /\ \A m \in Node, u \in Task : Present(m, u)' => Present(m, u)
      BY <1>1, <2>4, AroundIs
    <3>2. \A m \in Node, u \in Task : Holds(m, u)' <=> Holds(m, u)
      BY <2>1, <3>1 DEF Holds
    <3>3. \A u \in Task : Booked(u)'
      BY <2>1, <3>1, <3>2, OthersBooked
    <3> QED BY <1>1, <3>1, <3>3 DEF BookInv
  <2>5. (\E t \in Task : Attempting(t)) \/ Reboot \/ Around
    BY <1>3 DEF PlacementNext, Around
  <2> QED BY <2>2, <2>3, <2>4, <2>5
<1> QED BY <1>2, <1>3

LEMMA BookInvariant == PlacementSpec => []BookInv
<1>1. PlacementInit => BookInv
  BY InitBook
<1>2. BookInv /\ [PlacementNext]_pvars => BookInv'
  BY NextBook
<1> QED BY <1>1, <1>2, PTL DEF PlacementSpec

\* No worker is told to start a task while a task that wants one of its ports
\* is there, waiting or up: not even when the answer of GET /ports is old by the
\* time the reservation is made, the request is retried or the manager restarts.
\* Exempt are pairs that both gave back or lost a reservation, whose container
\* may have survived that.
THEOREM NotDoublyBooked == PlacementSpec => []NoDoubleBooking
<1>1. BookInv => NoDoubleBooking
  <2> SUFFICES ASSUME BookInv, NEW n \in Node, NEW t \in Task, NEW u \in Task,
                      Rivals(t, u), Queued(n, t), u \in running[n] \/ Queued(n, u)
               PROVE  t \in surrendered /\ u \in surrendered
    BY DEF NoDoubleBooking, Rivals
  <2>1. Present(n, t) /\ Present(n, u) /\ Rivals(u, t)
    BY DEF Present, Rivals
  <2>2. Owns(t) /\ Owns(u)
    BY DEF BookInv, Booked
  <2> QED BY <2>1, <2>2 DEF Owns
<1> QED BY <1>1, BookInvariant, PTL

-----------------------------------------------------------------------------
(* A worker that could take the task all along is not overlooked *)

\* The workers of steady suit the task.  While the task is scanned they are
\* still to be asked or were found able, and the owner that it could not keep
\* is none of them.
Watched(t) ==
    /\ \A n \in steady[t] : n \in Node /\ Suits(n, t)
    /\ In(t, "rest") \/ In(t, "judge") => steady[t] = {}
    /\ In(t, "scan") => \A n \in steady[t] :
           /\ n # owner[t]
           /\ \/ \E i \in DOMAIN attempt[t].left : attempt[t].left[i] = n
              \/ \E i \in DOMAIN attempt[t].able : attempt[t].able[i] = n

TryInv == BookInv /\ troubles \in Nat /\ scheduler \in {"epvm", "roundrobin"} /\ \A t \in Task : Watched(t)

\* What the history of an attempt becomes.
LEMMA WatchIs ==
    ASSUME TryInv, Watch, NEW t \in Task
    PROVE  /\ \A n \in steady'[t] : n \in Node /\ Suits(n, t)' /\ (~In(t, "rest") => n \in steady[t] /\ Suits(n, t))
           /\ attempt'[t].pc = "rest" \/ troubles' # troubles => steady'[t] = {}
<1>1. steady'[t] = IF attempt'[t].pc = "rest" \/ troubles' # troubles THEN {}
                   ELSE {n \in IF In(t, "rest") THEN Node ELSE steady[t] : Suits(n, t)'}
  BY DEF Watch
<1>2. \A n \in steady[t] : n \in Node /\ Suits(n, t)
  BY DEF TryInv, Watched
<1> QED BY <1>1, <1>2

\* A goroutine that does not end in a scan or at the judge.
LEMMA ElsewhereWatched ==
    ASSUME TryInv, Watch, NEW t \in Task, NEW pc, Goes(t, pc), pc \notin {"scan", "judge"}
    PROVE  Watched(t)'
<1>1. (In(t, "rest") \/ In(t, "judge"))' => attempt'[t].pc = "rest"
  BY DEF Goes, In
<1>2. ~In(t, "scan")'
  BY DEF Goes, In
<1>3. \A n \in steady'[t] : n \in Node /\ Suits(n, t)'
  BY WatchIs
<1>4. attempt'[t].pc = "rest" => steady'[t] = {}
  BY WatchIs
<1> QED BY <1>1, <1>2, <1>3, <1>4 DEF Watched

LEMMA OthersWatched ==
    ASSUME TryInv, Watch, NEW t \in Task, attempt'[t] = attempt[t], owner'[t] = owner[t]
    PROVE  Watched(t)'
<1>1. Watched(t)
  BY DEF TryInv
<1>2. \A n \in steady'[t] : n \in Node /\ Suits(n, t)' /\ (~In(t, "rest") => n \in steady[t] /\ Suits(n, t))
  BY WatchIs
<1>3. In(t, "rest") => steady'[t] = {}
  BY WatchIs DEF In
<1>4. (In(t, "rest") \/ In(t, "judge"))' => steady'[t] = {}
  BY <1>1, <1>2, <1>3 DEF Watched, In
<1>5. In(t, "scan")' => In(t, "scan") /\ ~In(t, "rest")
  BY DEF In
<1>6. In(t, "scan")' => \A n \in steady'[t] :
          /\ n # owner'[t]
          /\ \/ \E i \in DOMAIN attempt'[t].left : attempt'[t].left[i] = n
             \/ \E i \in DOMAIN attempt'[t].able : attempt'[t].able[i] = n
  BY <1>1, <1>2, <1>5 DEF Watched
<1> QED BY <1>2, <1>4, <1>6 DEF Watched

\* Every worker that suits the task is a candidate.
LEMMA SuitsIsCandidate ==
    ASSUME NEW t \in Task, NEW n \in Node, Suits(n, t), NEW list \in Candidates(t)
    PROVE  \E i \in DOMAIN list : list[i] = n
<1>1. scheduler = "epvm" => n \in sampled /\ t \in Room[n]
  BY DEF Suits
<1> QED BY <1>1, CandidatesAre

LEMMA BeginWatched ==
    ASSUME TryInv, Watch, NEW t \in Task, Begin(t)
    PROVE  Watched(t)'
<1>1. Typed
  BY DEF TryInv, BookInv
<1>2. CASE Goes(t, "keep")
  BY <1>2, ElsewhereWatched
<1>3. CASE Goes(t, "scan") /\ owner[t] = NoNode /\ attempt'[t].left \in Candidates(t)
  <2>1. UNCHANGED <<scheduler, sampled, owner>>
    BY DEF Begin, choice, records
  <2>2. \A n \in steady'[t] : n \in Node /\ Suits(n, t)'
    BY WatchIs
  <2>3. \A n \in steady'[t] : n # owner'[t]
    BY <1>3, <2>1, <2>2, TasksAndWorkersAssumption DEF TasksAndWorkersAssumption
  <2>4. ASSUME NEW n \in steady'[t]
        PROVE  \E i \in DOMAIN attempt'[t].left : attempt'[t].left[i] = n
    <3>1. n \in Node /\ (scheduler = "epvm" => n \in sampled /\ t \in Room[n])
      BY <2>1, <2>2, <2>4 DEF Suits
    <3> QED BY <1>3, <3>1, CandidatesAre
  <2>5. ~(In(t, "rest") \/ In(t, "judge"))'
    BY <1>3 DEF Goes, In
  <2> QED BY <2>2, <2>3, <2>4, <2>5 DEF Watched
<1> QED BY <1>1, <1>2, <1>3, BeginIs

\* The owner does not suit a task that cannot stay on it.
LEMMA KeepWatched ==
    ASSUME TryInv, Watch, NEW t \in Task, Keep(t)
    PROVE  Watched(t)'
<1>1. Typed /\ troubles \in Nat
  BY DEF TryInv, BookInv
<1>2. CASE Goes(t, "post")
  BY <1>2, ElsewhereWatched
<1>3. CASE /\ Goes(t, "scan") /\ attempt'[t].left \in Candidates(t)
           /\ Clash(owner[t], t, TRUE) \/ owner[t] \notin alive \/ ~CanHost(owner[t], t, TRUE)
                  \/ troubles' = troubles + 1
  <2>1. owner' = owner /\ ~In(t, "rest")
    BY DEF Keep, records, In
  <2>2. \A n \in steady'[t] : n \in Node /\ Suits(n, t)' /\ Suits(n, t)
    BY <2>1, WatchIs
  <2>3. ASSUME owner[t] \in steady'[t]
        PROVE  FALSE
    <3>1. troubles' = troubles
      BY <2>3, WatchIs
    <3>2. Suits(owner[t], t)
      BY <2>2, <2>3
    <3>3. owner[t] \in alive /\ ~Clash(owner[t], t, TRUE)
      BY <3>2 DEF Suits
    <3>4. pins[t] \intersect Busy(owner[t]) \subseteq IF t \in hostPorts THEN pins[t] ELSE {}
      BY <3>2 DEF Suits
    <3>5. CanHost(owner[t], t, TRUE)
      BY <3>4 DEF CanHost, Hidden
    <3>6. troubles' # troubles + 1
      BY <1>1, <3>1
    <3> QED BY <1>3, <3>3, <3>5, <3>6
  <2>4. \A n \in steady'[t] : \E i \in DOMAIN attempt'[t].left : attempt'[t].left[i] = n
    BY <1>3, <2>2, SuitsIsCandidate
  <2>5. ~(In(t, "rest") \/ In(t, "judge"))'
    BY <1>3 DEF Goes, In
  <2> QED BY <2>1, <2>2, <2>3, <2>4, <2>5 DEF Watched
<1> QED BY <1>1, <1>2, <1>3, KeepIs

\* A worker that is passed over does not suit the task, unless it is the owner.
LEMMA ScanWatched ==
    ASSUME TryInv, Watch, NEW t \in Task, Scan(t)
    PROVE  Watched(t)'
<1>1. Typed /\ troubles \in Nat /\ Watched(t)
  BY DEF TryInv, BookInv
<1>2. owner' = owner /\ ~In(t, "rest") /\ In(t, "scan")
  BY DEF Scan, records, In
<1> PICK n : n = Head(attempt[t].left)
  OBVIOUS
<1>3. PICK yes \in BOOLEAN :
          /\ Goes(t, "scan") /\ attempt[t].left # <<>>
          /\ attempt'[t].left = Tail(attempt[t].left)
          /\ attempt'[t].able = IF yes THEN Append(attempt[t].able, n) ELSE attempt[t].able
          /\ ~yes => ~CanHost(n, t, FALSE) \/ Clash(n, t, FALSE) \/ n \notin alive \/ troubles' = troubles + 1
  BY <1>1, ScanIs, Zenon
<1>4. \A m \in steady'[t] : m \in Node /\ Suits(m, t)' /\ Suits(m, t) /\ m \in steady[t]
  BY <1>2, WatchIs
<1>5. PICK left, able : left = attempt[t].left /\ able = attempt[t].able
  OBVIOUS
<1>6. left \in Seq(Node) /\ able \in Seq(Node) /\ left # <<>>
  BY <1>1, <1>3, <1>5 DEF Typed, Attempt
<1>7. \A m \in steady'[t] : /\ m # owner[t]
                            /\ (\E i \in DOMAIN left : left[i] = m) \/ (\E i \in DOMAIN able : able[i] = m)
  BY <1>1, <1>2, <1>4, <1>5 DEF Watched
<1>8. ASSUME n \in steady'[t]
      PROVE  yes
  <2>1. Suits(n, t) /\ n # owner[t]
    BY <1>4, <1>7, <1>8
  <2>2. n \in alive /\ ~Clash(n, t, FALSE) /\ pins[t] \intersect Busy(n) \subseteq {}
    BY <2>1 DEF Suits
  <2>3. CanHost(n, t, FALSE)
    BY <2>2 DEF CanHost, Hidden
  <2>4. troubles' # troubles + 1
    BY <1>1, <1>8, WatchIs
  <2> QED BY <1>3, <2>2, <2>3, <2>4
<1>9. ASSUME NEW i \in DOMAIN left, left[i] # n
      PROVE  \E j \in DOMAIN Tail(left) : Tail(left)[j] = left[i]
  <2>1. i \in 1 .. Len(left) /\ Len(left) \in Nat /\ n = left[1]
    BY <1>5, <1>6
  <2>2. i # 1 /\ i - 1 \in DOMAIN Tail(left) /\ Tail(left)[i - 1] = left[i]
    BY <1>6, <1>9, <2>1
  <2> QED BY <2>2
<1>10. \A i \in DOMAIN able : i \in DOMAIN Append(able, n) /\ Append(able, n)[i] = able[i]
  BY <1>6
<1>11. \E i \in DOMAIN Append(able, n) : Append(able, n)[i] = n
  <2>1. Len(able) + 1 \in DOMAIN Append(able, n) /\ Append(able, n)[Len(able) + 1] = n
    BY <1>6
  <2> QED BY <2>1
<1>12. ASSUME NEW m \in steady'[t]
       PROVE  \/ \E i \in DOMAIN attempt'[t].left : attempt'[t].left[i] = m
              \/ \E i \in DOMAIN attempt'[t].able : attempt'[t].able[i] = m
  <2>1. CASE m = n
    BY <1>3, <1>5, <1>8, <1>11, <2>1
  <2>2. CASE m # n /\ \E i \in DOMAIN left : left[i] = m
    BY <1>3, <1>5, <1>9, <2>2
  <2>3. CASE \E i \in DOMAIN able : able[i] = m
    <3>1. attempt'[t].able = able \/ attempt'[t].able = Append(able, n)
      BY <1>3, <1>5
    <3> QED BY <1>10, <2>3, <3>1
  <2> QED BY <1>7, <2>1, <2>2, <2>3
<1>13. ~(In(t, "rest") \/ In(t, "judge"))'
  BY <1>3 DEF Goes, In
<1>14. \A m \in steady'[t] : m # owner'[t]
  BY <1>2, <1>7
<1>15. \A m \in steady'[t] : m \in Node /\ Suits(m, t)'
  BY <1>4
<1> QED BY <1>12, <1>13, <1>14, <1>15 DEF Watched

\* Whoever suits the task is in the list that the scheduler is given, has a
\* sample, and its reservation does not fail.
LEMMA PickWatched ==
    ASSUME TryInv, Watch, NEW t \in Task, Pick(t)
    PROVE  Watched(t)'
<1>1. Typed /\ PInv /\ Watched(t)
  BY DEF TryInv, BookInv
<1>2. In(t, "scan") /\ ~In(t, "rest")
  BY DEF Pick, In
<1> PICK able : able = attempt[t].able
  OBVIOUS
<1>3. CASE Goes(t, "post")
  BY <1>3, ElsewhereWatched
<1>4. CASE /\ Goes(t, "judge") /\ attempt[t].left = <<>>
           /\ \/ able = <<>>
              \/ scheduler # "roundrobin" /\ \A i \in DOMAIN able : able[i] \notin sampled
              \/ \E i \in DOMAIN able : Clash(able[i], t, TRUE)
  <2>1. ~\E i \in DOMAIN able : Clash(able[i], t, TRUE)
    BY <1>1, <1>2 DEF PInv, RaceNeverLost
  <2>2. \A n \in steady[t] : \E i \in DOMAIN able : able[i] = n
    BY <1>1, <1>2, <1>4 DEF Watched
  <2>3. \A n \in steady[t] : scheduler = "epvm" => n \in sampled
    BY <1>1 DEF Watched, Suits
  <2>4. ASSUME NEW n \in steady[t]
        PROVE  FALSE
    <3>1. PICK i \in DOMAIN able : able[i] = n
      BY <2>2, <2>4
    <3>2. able # <<>>
      <4>1. DOMAIN <<>> = {}
        OBVIOUS
      <4> QED BY <3>1, <4>1
    <3>3. scheduler # "roundrobin" => able[i] \in sampled
      BY <2>3, <2>4, <3>1 DEF TryInv
    <3> QED BY <1>4, <2>1, <3>2, <3>3
  <2>5. steady'[t] = {}
    BY <1>2, <2>4, WatchIs
  <2>6. ~In(t, "scan")'
    BY <1>4 DEF Goes, In
  <2> QED BY <2>5, <2>6 DEF Watched
<1>5. Goes(t, "post") \/ /\ Goes(t, "judge") /\ attempt[t].left = <<>>
                         /\ \/ able = <<>>
                            \/ scheduler # "roundrobin" /\ \A i \in DOMAIN able : able[i] \notin sampled
                            \/ \E i \in DOMAIN able : Clash(able[i], t, TRUE)
  BY <1>1, PickIs
<1> QED BY <1>3, <1>4, <1>5

LEMMA AttemptTry ==
    ASSUME TryInv, Watch, NEW t \in Task, Attempting(t)
    PROVE  troubles' \in Nat /\ \A u \in Task : Watched(u)'
<1>1. Typed /\ troubles \in Nat
  BY DEF TryInv, BookInv
<1>2. troubles' = troubles \/ troubles' = troubles + 1
  BY DEF Attempting, Begin, Keep, Scan, Pick, Judge, Probe, Send, Fail, Settle, Leave, End, UserStops,
         bounds, Fetches, Unfetched, Flaky, Halted
<1>3. \A u \in Task : u # t => owner'[u] = owner[u]
  BY <1>1, OwnersOf DEF Typed
<1>4. Watched(t)' /\ \A u \in Task : u # t => attempt'[u] = attempt[u]
  <2>1. CASE Begin(t)
    BY <1>1, <2>1, BeginIs, BeginWatched DEF Goes
  <2>2. CASE Keep(t)
    BY <1>1, <2>2, KeepIs, KeepWatched DEF Goes
  <2>3. CASE Scan(t)
    <3>1. Goes(t, "scan")
      BY <1>1, <2>3, ScanIs
    <3> QED BY <2>3, <3>1, ScanWatched DEF Goes
  <2>4. CASE Pick(t)
    <3>1. Goes(t, "judge") \/ Goes(t, "post")
      BY <1>1, <2>4, PickIs
    <3> QED BY <2>4, <3>1, PickWatched DEF Goes
  <2>5. CASE Judge(t) \/ Probe(t) \/ Send(t) \/ Fail(t) \/ Settle(t) \/ Leave(t) \/ End(t) \/ UserStops(t)
    <3>1. PICK pc \in {"rest", "probe", "end", "commit", "fail", "leave", "over"} : Goes(t, pc)
      BY <1>1, <2>5, RestIs
    <3>2. pc \notin {"scan", "judge"}
      OBVIOUS
    <3>3. Watched(t)'
      BY <3>1, <3>2, ElsewhereWatched
    <3> QED BY <3>1, <3>3 DEF Goes
  <2> QED BY <2>1, <2>2, <2>3, <2>4, <2>5 DEF Attempting
<1>5. \A u \in Task : u # t => Watched(u)'
  BY <1>3, <1>4, OthersWatched
<1> QED BY <1>1, <1>2, <1>4, <1>5

LEMMA RebootTry ==
    ASSUME TryInv, Watch, Reboot
    PROVE  troubles' \in Nat /\ \A u \in Task : Watched(u)'
<1>1. Typed /\ troubles \in Nat
  BY DEF TryInv, BookInv
<1>2. troubles' = troubles + 1
  BY DEF Reboot, Flaky
<1>3. ASSUME NEW u \in Task
      PROVE  Watched(u)'
  <2>1. steady'[u] = {}
    BY <1>1, <1>2, WatchIs
  <2> QED BY <2>1 DEF Watched
<1> QED BY <1>1, <1>2, <1>3

LEMMA AroundTry ==
    ASSUME TryInv, Watch, Around
    PROVE  troubles' \in Nat /\ \A u \in Task : Watched(u)'
<1>1. Typed /\ troubles \in Nat
  BY DEF TryInv, BookInv
<1>2. troubles' = troubles \/ troubles' = troubles + 1
  BY DEF Around, Obey, Exit, Report, Refresh, Outage, bounds, Flaky
<1>3. owner' = owner /\ attempt' = attempt
  BY <1>1, AroundIs
<1>4. \A u \in Task : Watched(u)'
  BY <1>3, OthersWatched
<1> QED BY <1>1, <1>2, <1>4

LEMMA NextTry == TryInv /\ [PlacementNext]_pvars => TryInv'
<1> SUFFICES ASSUME TryInv, [PlacementNext]_pvars PROVE TryInv'
  OBVIOUS
<1>1. BookInv'
  BY NextBook DEF TryInv
<1>2. CASE UNCHANGED pvars
  <2>1. /\ UNCHANGED <<pins, scheduler, table, owner, hostPorts, attempt, sampled, alive, orders, running>>
        /\ UNCHANGED <<troubles, steady>>
    BY <1>2 DEF pvars
  <2>2. \A n : Busy(n)' = Busy(n)
    BY <2>1 DEF Busy, Queued
  <2>3. ASSUME NEW t \in Task, NEW n \in Node
        PROVE  Suits(n, t)' <=> Suits(n, t)
    BY <2>1, <2>2 DEF Suits, Clash
  <2>4. \A t \in Task : Watched(t)' <=> Watched(t)
    BY <2>1, <2>3 DEF Watched, In
  <2> QED BY <1>1, <2>1, <2>4 DEF TryInv
<1>3. CASE PlacementNext
  <2>1. scheduler' = scheduler
    BY <1>3 DEF PlacementNext, Attempting, Begin, Keep, Scan, Pick, Judge, Probe, Send, Fail, Settle, Leave,
                End, UserStops, Report, Obey, Exit, Refresh, Outage, Reboot, choice
  <2>2. Watch /\ ((\E t \in Task : Attempting(t)) \/ Reboot \/ Around)
    BY <1>3 DEF PlacementNext, Around
  <2>3. troubles' \in Nat /\ \A t \in Task : Watched(t)'
    BY <2>2, AttemptTry, RebootTry, AroundTry
  <2> QED BY <1>1, <2>1, <2>3 DEF TryInv
<1> QED BY <1>2, <1>3

LEMMA InitTry == PlacementInit => TryInv
<1> SUFFICES ASSUME PlacementInit PROVE TryInv
  OBVIOUS
<1>1. BookInv
  BY InitBook
<1>2. \A t \in Task : steady[t] = {}
  BY DEF PlacementInit
<1>3. \A t \in Task : Watched(t)
  BY <1>2 DEF Watched
<1> QED BY <1>1, <1>3 DEF PlacementInit, TryInv

\* A task is given up (it fails for good) only if no single worker was able to
\* take it from the moment its selection began: reachable, with room, its ports
\* free or the task's own.  It holds although the workers are asked one after
\* the other, so that an answer may be old when the choice is made, and although
\* samples come and go under the scheduler's feet.
THEOREM GivenUpForCause == PlacementSpec => []NotGivenUpLightly
<1>1. PlacementInit => TryInv
  BY InitTry
<1>2. TryInv /\ [PlacementNext]_pvars => TryInv'
  BY NextTry
<1>3. TryInv => NotGivenUpLightly
  BY DEF TryInv, Watched, NotGivenUpLightly
<1> QED BY <1>1, <1>2, <1>3, PTL DEF PlacementSpec

-----------------------------------------------------------------------------
(* The round robin *)

Distinct(q) == \A i, j \in DOMAIN q : q[i] = q[j] => i = j

\* Nobody is asked twice in a selection.
Asked(t) == In(t, "scan") =>
    /\ Distinct(attempt[t].left) /\ Distinct(attempt[t].able)
    /\ \A i \in DOMAIN attempt[t].left, j \in DOMAIN attempt[t].able : attempt[t].left[i] # attempt[t].able[j]

\* The index is the one of the last choice.
Indexed ==
    scheduler = "roundrobin" =>
        \/ lastPick.able = <<>>
        \/ lastWorker \in DOMAIN lastPick.able /\ lastPick.node = lastPick.able[lastWorker]

TurnInv == BookInv /\ Indexed /\ \A t \in Task : Asked(t)

LEMMA CandidatesDistinct ==
    ASSUME Distinct(WorkerNodes), NEW t, NEW list \in Candidates(t)
    PROVE  Distinct(list)
<1> DEFINE S == {i \in DOMAIN WorkerNodes : scheduler = "epvm" => WorkerNodes[i] \in sampled /\ t \in Room[WorkerNodes[i]]}
<1>1. list \in Kept(WorkerNodes, S)
  BY DEF Candidates
<1>2. IsFiniteSet(1 .. Len(WorkerNodes)) /\ DOMAIN WorkerNodes = 1 .. Len(WorkerNodes)
  BY FS_Interval, TasksAndWorkersAssumption
<1>3. IsFiniteSet(S) /\ S \in SUBSET Int
  BY <1>2, FS_Subset
<1>4. S \subseteq DOMAIN WorkerNodes
  OBVIOUS
<1> HIDE DEF S
<1>5. PICK f \in [DOMAIN list -> S] :
          /\ list = [k \in DOMAIN list |-> WorkerNodes[f[k]]]
          /\ \A i, j \in DOMAIN list : f[i] = f[j] => i = j
  BY <1>1, <1>3, KeptIs
<1>6. \A k \in DOMAIN list : list[k] = WorkerNodes[f[k]] /\ f[k] \in DOMAIN WorkerNodes
  BY <1>4, <1>5
<1> QED BY <1>5, <1>6 DEF Distinct

LEMMA ScanAsked ==
    ASSUME TurnInv, NEW t \in Task, Scan(t)
    PROVE  Asked(t)'
<1>1. Typed /\ Asked(t) /\ In(t, "scan")
  BY DEF TurnInv, BookInv, Scan
<1> PICK n : n = Head(attempt[t].left)
  OBVIOUS
<1>2. PICK yes \in BOOLEAN :
          /\ attempt[t].left # <<>>
          /\ attempt'[t].left = Tail(attempt[t].left)
          /\ attempt'[t].able = IF yes THEN Append(attempt[t].able, n) ELSE attempt[t].able
  BY <1>1, ScanIs, Zenon
<1> PICK left, able, rest, more : left = attempt[t].left /\ able = attempt[t].able
                                  /\ rest = Tail(left) /\ more = Append(able, n)
  OBVIOUS
<1>3. left \in Seq(Node) /\ able \in Seq(Node) /\ left # <<>> /\ n = left[1]
  BY <1>1, <1>2 DEF Typed, Attempt
<1>4. /\ Len(left) \in Nat /\ DOMAIN left = 1 .. Len(left) /\ DOMAIN rest = 1 .. Len(left) - 1
      /\ \A i \in DOMAIN rest : rest[i] = left[i + 1] /\ i + 1 \in DOMAIN left /\ i + 1 # 1
      /\ 1 \in DOMAIN left
  BY <1>3
<1>5. /\ Len(able) \in Nat /\ DOMAIN able = 1 .. Len(able) /\ DOMAIN more = 1 .. Len(able) + 1
      /\ more[Len(able) + 1] = n
      /\ \A i \in DOMAIN able : more[i] = able[i]
      /\ \A i \in DOMAIN more : i \in DOMAIN able \/ i = Len(able) + 1
  BY <1>3
<1>6. /\ Distinct(left) /\ Distinct(able)
      /\ \A i \in DOMAIN left, j \in DOMAIN able : left[i] # able[j]
  BY <1>1 DEF Asked
<1>7. Distinct(rest)
  <2>1. ASSUME NEW i \in DOMAIN rest, NEW j \in DOMAIN rest, rest[i] = rest[j]
        PROVE  i = j
    <3>1. i + 1 = j + 1
      BY <1>4, <1>6, <2>1 DEF Distinct
    <3>2. i \in Int /\ j \in Int
      BY <1>4
    <3> QED BY <3>1, <3>2
  <2> QED BY <2>1 DEF Distinct
<1>8. \A i \in DOMAIN rest : rest[i] # n
  BY <1>3, <1>4, <1>6 DEF Distinct
<1>9. \A j \in DOMAIN able : able[j] # n
  BY <1>3, <1>4, <1>6
<1>10. Distinct(more)
  BY <1>5, <1>6, <1>9 DEF Distinct
<1>11. \A i \in DOMAIN rest, j \in DOMAIN more : rest[i] # more[j]
  BY <1>4, <1>5, <1>6, <1>8
<1>12. \A i \in DOMAIN rest, j \in DOMAIN able : rest[i] # able[j]
  BY <1>4, <1>6
<1>13. attempt'[t].left = rest /\ (attempt'[t].able = able \/ attempt'[t].able = more)
  BY <1>2
<1> QED BY <1>6, <1>7, <1>10, <1>11, <1>12, <1>13 DEF Asked

LEMMA AttemptAsked ==
    ASSUME TurnInv, Distinct(WorkerNodes), NEW t \in Task, Attempting(t)
    PROVE  \A u \in Task : Asked(u)'
<1>1. Typed
  BY DEF TurnInv, BookInv
<1>2. ASSUME attempt'[t].able = <<>>, attempt'[t].left \in Candidates(t)
      PROVE  Asked(t)'
  <2>1. DOMAIN attempt'[t].able = {}
    BY <1>2
  <2>2. Distinct(attempt'[t].left)
    BY <1>2, CandidatesDistinct
  <2> QED BY <2>1, <2>2 DEF Asked, Distinct
<1>3. ASSUME NEW pc, Goes(t, pc), pc # "scan"
      PROVE  Asked(t)'
  BY <1>3 DEF Asked, In, Goes
<1>4. Asked(t)' /\ \A u \in Task : u # t => attempt'[u] = attempt[u]
  <2>1. CASE Begin(t)
    BY <1>1, <1>2, <1>3, <2>1, BeginIs DEF Goes
  <2>2. CASE Keep(t)
    BY <1>1, <1>2, <1>3, <2>2, KeepIs DEF Goes
  <2>3. CASE Scan(t)
    <3>1. Goes(t, "scan")
      BY <1>1, <2>3, ScanIs
    <3> QED BY <2>3, <3>1, ScanAsked DEF Goes
  <2>4. CASE Pick(t)
    <3>1. Goes(t, "judge") \/ Goes(t, "post")
      BY <1>1, <2>4, PickIs
    <3> QED BY <1>3, <3>1 DEF Goes
  <2>5. CASE Judge(t) \/ Probe(t) \/ Send(t) \/ Fail(t) \/ Settle(t) \/ Leave(t) \/ End(t) \/ UserStops(t)
    <3>1. PICK pc \in {"rest", "probe", "end", "commit", "fail", "leave", "over"} : Goes(t, pc)
      BY <1>1, <2>5, RestIs
    <3> QED BY <1>3, <3>1 DEF Goes
  <2> QED BY <2>1, <2>2, <2>3, <2>4, <2>5 DEF Attempting
<1>5. ASSUME NEW u \in Task, attempt'[u] = attempt[u]
      PROVE  Asked(u)'
  <2>1. Asked(u)
    BY DEF TurnInv
  <2> QED BY <1>5, <2>1 DEF Asked, In
<1> QED BY <1>4, <1>5

\* Only a choice and a restart touch the index.
LEMMA PickIndexed ==
    ASSUME TurnInv, NEW t \in Task, Pick(t)
    PROVE  /\ Indexed'
           /\ LET able == attempt[t].able
              IN  scheduler = "roundrobin" /\ able # <<>> => lastPick'.node = able[Turn(able)]
<1> PICK able : able = attempt[t].able
  OBVIOUS
<1>1. Typed /\ able \in Seq(Node)
  BY DEF TurnInv, BookInv, Typed, Attempt
<1>2. able # <<>> => Turn(able) \in DOMAIN able
  BY <1>1, TurnIs
<1>3. scheduler' = scheduler
  BY DEF Pick
<1>4. PICK pos : pos = {i \in DOMAIN able : IF scheduler = "roundrobin" THEN i = Turn(able) ELSE able[i] \in sampled}
  OBVIOUS
<1>5. \/ pos = {} /\ UNCHANGED <<lastWorker, lastPick>>
      \/ \E i \in pos : scheduler = "roundrobin" => lastWorker' = i /\ lastPick' = [able |-> able, node |-> able[i]]
  BY <1>4 DEF Pick
<1>6. CASE scheduler # "roundrobin"
  BY <1>3, <1>6 DEF Indexed
<1>7. CASE scheduler = "roundrobin" /\ able = <<>>
  <2>1. pos = {}
    BY <1>4, <1>7
  <2> QED BY <1>3, <1>5, <1>7, <2>1 DEF Indexed, TurnInv
<1>8. CASE scheduler = "roundrobin" /\ able # <<>>
  <2>1. \A i : i \in pos <=> i = Turn(able)
    BY <1>2, <1>4, <1>8
  <2>2. lastWorker' = Turn(able) /\ lastPick' = [able |-> able, node |-> able[Turn(able)]]
    BY <1>5, <1>8, <2>1
  <2>3. lastPick'.able = able /\ lastPick'.node = able[Turn(able)]
    BY <2>2
  <2> QED BY <1>2, <1>8, <2>2, <2>3 DEF Indexed
<1> QED BY <1>6, <1>7, <1>8

LEMMA NextTurn == Distinct(WorkerNodes) /\ TurnInv /\ [PlacementNext]_pvars => TurnInv'
<1> SUFFICES ASSUME Distinct(WorkerNodes), TurnInv, [PlacementNext]_pvars PROVE TurnInv'
  OBVIOUS
<1>1. BookInv' /\ Typed
  BY NextBook DEF TurnInv, BookInv
<1>2. ASSUME attempt' = attempt
      PROVE  \A t \in Task : Asked(t)'
  BY <1>2 DEF TurnInv, Asked, In
<1>3. ASSUME UNCHANGED <<scheduler, lastWorker, lastPick>>
      PROVE  Indexed'
  BY <1>3 DEF TurnInv, Indexed
<1>4. CASE UNCHANGED pvars
  BY <1>1, <1>2, <1>3, <1>4 DEF pvars, TurnInv
<1>5. ASSUME NEW t \in Task, Attempting(t) PROVE TurnInv'
  <2>1. \A u \in Task : Asked(u)'
    BY <1>5, AttemptAsked
  <2>2. CASE Pick(t)
    BY <1>1, <2>1, <2>2, PickIndexed DEF TurnInv
  <2>3. CASE ~Pick(t)
    <3>1. UNCHANGED choice
      BY <1>5, <2>3 DEF Attempting, Begin, Keep, Scan, Judge, Probe, Send, Fail, Settle, Leave, End, UserStops
    <3> QED BY <1>1, <1>3, <2>1, <3>1 DEF choice, TurnInv
  <2> QED BY <2>2, <2>3
<1>6. CASE Reboot
  <2>1. \A t \in Task : Asked(t)'
    BY <1>1, <1>6, RebootTyped DEF Asked, In
  <2>2. Indexed'
    <3>1. lastPick'.able = <<>>
      BY <1>6 DEF Reboot
    <3> QED BY <3>1 DEF Indexed
  <2> QED BY <1>1, <2>1, <2>2 DEF TurnInv
<1>7. CASE Around
  <2>1. UNCHANGED choice /\ attempt' = attempt
    BY <1>7 DEF Around, Obey, Exit, Report, Refresh, Outage
  <2> QED BY <1>1, <1>2, <1>3, <2>1 DEF choice, TurnInv
<1> QED BY <1>4, <1>5, <1>6, <1>7 DEF PlacementNext, Around

LEMMA StepTurn ==
    ASSUME Distinct(WorkerNodes), TurnInv, PlacementNext, NEW t \in Task, scheduler = "roundrobin",
           Len(attempt[t].able) > 1, lastPick.able = attempt[t].able, In(t, "scan"),
           attempt'[t].pc \in {"post", "judge"}
    PROVE  lastPick'.node # lastPick.node
<1> PICK able : able = attempt[t].able
  OBVIOUS
<1>1. Typed /\ Indexed /\ Asked(t) /\ able \in Seq(Node)
  BY DEF TurnInv, BookInv, Typed, Attempt
<1>2. Pick(t)
  <2>1. ASSUME NEW u \in Task, u # t PROVE ~Attempting(u)
    <3>1. attempt'[t] # attempt[t]
      BY DEF In
    <3>2. Attempting(u) => attempt'[t] = attempt[t]
      BY <1>1, <2>1, AttemptFrame
    <3> QED BY <3>1, <3>2
  <2>2. ~Reboot
    BY <1>1, RebootTyped
  <2>3. ~Around
    BY <1>1, AroundIs DEF In
  <2>4. Attempting(t)
    BY <2>1, <2>2, <2>3 DEF PlacementNext, Around
  <2>5. ~Scan(t)
    BY <1>1, ScanIs DEF Goes
  <2> QED BY <2>4, <2>5 DEF Attempting, Begin, Keep, Judge, Probe, Send, Fail, Settle, Leave, End, UserStops, In
<1>3. Len(able) > 1 /\ able # <<>> /\ Len(able) \in Nat /\ DOMAIN able = 1 .. Len(able)
  BY <1>1
<1>4. lastWorker \in DOMAIN able /\ lastPick.node = able[lastWorker]
  BY <1>1, <1>3 DEF Indexed
<1>5. lastPick'.node = able[Turn(able)]
  BY <1>2, <1>3, PickIndexed
<1>6. Turn(able) \in DOMAIN able
  BY <1>1, <1>3, TurnIs
<1>7. Turn(able) # lastWorker
  BY <1>3, <1>4 DEF Turn
<1>8. Distinct(able)
  BY <1>1 DEF Asked
<1> QED BY <1>4, <1>5, <1>6, <1>7, <1>8 DEF Distinct

\* Round robin takes turns: with the same list of able workers as last time, it
\* chooses another one, whatever happened in between.  The configuration must
\* name no worker twice, which nothing in the code checks.
THEOREM TurnsTaken == Distinct(WorkerNodes) => (PlacementSpec => TakesTurns)
<1> SUFFICES ASSUME Distinct(WorkerNodes) PROVE PlacementSpec => TakesTurns
  OBVIOUS
<1>1. PlacementInit => TurnInv
  <2> SUFFICES ASSUME PlacementInit PROVE TurnInv
    OBVIOUS
  <2>1. BookInv
    BY InitBook
  <2>2. Indexed
    BY DEF PlacementInit, Indexed
  <2>3. \A t \in Task : Asked(t)
    BY DEF PlacementInit, Asked, In, Rest
  <2> QED BY <2>1, <2>2, <2>3 DEF TurnInv
<1>2. TurnInv /\ [PlacementNext]_pvars => TurnInv'
  BY NextTurn
<1>3. TurnInv /\ [PlacementNext]_pvars =>
          [\A t \in Task :
              /\ scheduler = "roundrobin" /\ Len(attempt[t].able) > 1 /\ lastPick.able = attempt[t].able
              /\ In(t, "scan") /\ attempt'[t].pc \in {"post", "judge"}
              => lastPick'.node # lastPick.node]_pvars
  BY StepTurn
<1> QED BY <1>1, <1>2, <1>3, PTL DEF PlacementSpec, TakesTurns
=============================================================================

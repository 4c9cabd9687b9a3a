--------------------------- MODULE CheckersProofs ---------------------------
(***************************************************************************)
(* A task has at most one checker that has not been told to stop, and it   *)
(* is the registered one.                                                  *)
(***************************************************************************)
EXTENDS Checkers, TLAPS

\* A checker that still probes has let fewer failures pass than it may.
Patient == \A m \in Monitor :
    monitor[m].pc \in {"start", "watch", "probe"} => monitor[m].failures < Retries

CInv == CheckersTypeOK /\ Patient /\ OneMonitor

LEMMA InitCInv == CheckersInit => CInv
<1> SUFFICES ASSUME CheckersInit PROVE CInv
  OBVIOUS
<1> USE CheckersAssumption DEF CheckersAssumption, CheckersInit
<1>1. CheckersTypeOK
  <2>1. Free \in MonitorState
    BY DEF Free, MonitorState
  <2>2. monitor \in [Monitor -> MonitorState] /\ \A m \in Monitor : monitor[m].pc = "free"
    BY <2>1 DEF Free
  <2>3. health \in [Checked -> Health] /\ byTask \in [Checked -> Monitor \union {NoMonitor}] /\ quit \in BOOLEAN
    BY DEF Health
  <2>4. /\ pass \in [pc : {"idle", "visit", "start"}, list : SUBSET (Checked \X BOOLEAN),
                     seen : SUBSET Checked, new : Checked \union {NoTask}]
        /\ pass.pc # "start"
    BY DEF PassIdle
  <2> QED BY <2>2, <2>3, <2>4 DEF CheckersTypeOK
<1>2. Patient
  BY DEF Patient, Free
<1>3. OneMonitor
  BY DEF OneMonitor, Live, Free
<1> QED BY <1>1, <1>2, <1>3 DEF CInv

\* A step of one checker that leaves the registry alone and stays on its task.
LEMMA OwnStep ==
    ASSUME CInv, NEW m \in Monitor, NEW r \in MonitorState, monitor[m].pc # "free", r.pc # "free",
           monitor' = [monitor EXCEPT ![m] = r], r.task = monitor[m].task,
           r.cancelled = monitor[m].cancelled,
           r.pc \in {"start", "watch", "probe"} => r.failures < Retries,
           health' \in [Checked -> Health], UNCHANGED <<byTask, pass, quit>>
    PROVE  CInv'
<1>1. CheckersTypeOK'
  BY DEF CInv, CheckersTypeOK
<1>2. Patient'
  BY DEF CInv, CheckersTypeOK, Patient
<1>3. OneMonitor'
  BY DEF CInv, CheckersTypeOK, OneMonitor, Live
<1> QED BY <1>1, <1>2, <1>3 DEF CInv

\* Cancelled checkers are the ones the registry forgets.
LEMMA UnregisterStep ==
    ASSUME CInv, NEW tasks \in SUBSET Checked, Unregister(tasks), UNCHANGED <<health, quit>>,
           pass' \in [pc : {"idle", "visit", "start"}, list : SUBSET (Checked \X BOOLEAN),
                      seen : SUBSET Checked, new : Checked \union {NoTask}],
           pass'.pc = "start" => pass'.new \in Checked
    PROVE  CInv'
<1> DEFINE mons == Registered(tasks)
<1>1. monitor' = [m \in Monitor |-> [monitor[m] EXCEPT !.cancelled = @ \/ m \in mons]]
  BY DEF Unregister, Cancelled
<1>2. byTask' = [t \in Checked |-> IF t \in tasks THEN NoMonitor ELSE byTask[t]]
  BY DEF Unregister
<1>3. ASSUME NEW m \in Monitor
      PROVE  /\ monitor'[m] \in MonitorState
             /\ monitor'[m].pc = monitor[m].pc /\ monitor'[m].task = monitor[m].task
             /\ monitor'[m].failures = monitor[m].failures
             /\ monitor'[m].cancelled <=> (monitor[m].cancelled \/ m \in mons)
  <2>1. monitor[m] \in MonitorState
    BY DEF CInv, CheckersTypeOK
  <2>2. monitor'[m] = [monitor[m] EXCEPT !.cancelled = monitor[m].cancelled \/ m \in mons]
    BY <1>1
  <2>3. (monitor[m].cancelled \/ m \in mons) \in BOOLEAN
    OBVIOUS
  <2> QED BY <2>1, <2>2, <2>3 DEF MonitorState
<1>4. CheckersTypeOK'
  <2>1. monitor' \in [Monitor -> MonitorState]
    BY <1>1, <1>3
  <2>2. byTask' \in [Checked -> Monitor \union {NoMonitor}]
    BY <1>2 DEF CInv, CheckersTypeOK
  <2> QED BY <1>3, <2>1, <2>2 DEF CInv, CheckersTypeOK
<1>5. Patient'
  BY <1>3 DEF CInv, Patient
<1>6. OneMonitor'
  <2> SUFFICES ASSUME NEW t \in Checked, NEW m \in Monitor
               PROVE  Live(m, t)' <=> byTask'[t] = m
    BY DEF OneMonitor
  <2>1. Live(m, t)' <=> Live(m, t) /\ m \notin mons
    BY <1>3 DEF Live
  <2>2. \A u \in Checked : byTask[u] = m <=> Live(m, u)
    BY DEF CInv, OneMonitor
  <2>3. CASE t \in tasks
    <3>1. Live(m, t) => m \in mons
      BY <2>2, <2>3, CheckersAssumption DEF Registered, CheckersAssumption
    <3>2. byTask'[t] # m
      BY <1>2, <2>3, CheckersAssumption DEF CheckersAssumption
    <3> QED BY <2>1, <3>1, <3>2
  <2>4. CASE t \notin tasks
    <3>1. Live(m, t) => m \notin mons
      BY <2>2, <2>4 DEF Registered, Live
    <3> QED BY <1>2, <2>1, <2>2, <2>4, <3>1
  <2> QED BY <2>3, <2>4
<1> QED BY <1>4, <1>5, <1>6 DEF CInv

-----------------------------------------------------------------------------
(* The steps *)

LEMMA ReconcileStep ==
    ASSUME CInv, Reconcile
    PROVE  CInv'
<1> DEFINE PassState == [pc : {"idle", "visit", "start"}, list : SUBSET (Checked \X BOOLEAN),
                         seen : SUBSET Checked, new : Checked \union {NoTask}]
<1>1. pass \in PassState
  BY DEF CInv, CheckersTypeOK
<1>2. ASSUME UNCHANGED <<health, byTask, monitor, quit>>, pass' \in PassState,
             pass'.pc = "start" => pass'.new \in Checked
      PROVE  CInv'
  <2>1. CheckersTypeOK'
    BY <1>2 DEF CInv, CheckersTypeOK
  <2>2. Patient' /\ OneMonitor'
    BY <1>2 DEF CInv, Patient, OneMonitor, Live
  <2> QED BY <2>1, <2>2 DEF CInv
<1>3. CASE PassBegin
  <2> DEFINE known == {t \in Checked : health[t] # "gone"}
             list == {<<t, Managed(health[t])>> : t \in known}
  <2>1. pass' = [pc |-> "visit", list |-> list, seen |-> known, new |-> NoTask]
    BY <1>3 DEF PassBegin
  <2>2. list \in SUBSET (Checked \X BOOLEAN)
    <3>1. \A t \in known : t \in Checked /\ Managed(health[t]) \in BOOLEAN
      BY DEF Managed
    <3>2. \A t \in known : <<t, Managed(health[t])>> \in Checked \X BOOLEAN
      BY <3>1
    <3> QED BY <3>2
  <2>3. pass' \in PassState /\ pass'.pc = "visit"
    BY <2>1, <2>2
  <2> QED BY <1>2, <1>3, <2>3 DEF PassBegin
<1>4. CASE PassVisit
  <2>1. PICK e \in pass.list :
            LET t == e[1]
                rest == [pass EXCEPT !.list = @ \ {e}]
            IN  \/ ~e[2] /\ Unregister({t}) /\ pass' = rest
                \/ pass' = rest /\ UNCHANGED <<byTask, monitor>>
                \/ pass' = [rest EXCEPT !.pc = "start", !.new = t] /\ UNCHANGED <<byTask, monitor>>
    BY <1>4 DEF PassVisit
  <2>2. e[1] \in Checked
    BY <1>1
  <2>3. PICK rest : rest = [pass EXCEPT !.list = @ \ {e}]
    OBVIOUS
  <2>4. rest \in PassState /\ rest.pc = "visit"
    BY <1>1, <1>4, <2>3 DEF PassVisit
  <2>5. CASE Unregister({e[1]}) /\ pass' = rest
    <3>1. {e[1]} \in SUBSET Checked /\ UNCHANGED <<health, quit>>
      BY <1>4, <2>2 DEF PassVisit
    <3> QED BY <2>4, <2>5, <3>1, UnregisterStep
  <2>6. CASE pass' = rest /\ UNCHANGED <<byTask, monitor>>
    BY <1>2, <1>4, <2>4, <2>6 DEF PassVisit
  <2>7. CASE pass' = [rest EXCEPT !.pc = "start", !.new = e[1]] /\ UNCHANGED <<byTask, monitor>>
    <3>1. PICK s : s = [rest EXCEPT !.pc = "start"]
      OBVIOUS
    <3>2. s \in PassState /\ s.pc = "start"
      BY <2>4, <3>1
    <3>3. pass' = [s EXCEPT !.new = e[1]]
      BY <2>7, <3>1
    <3>4. pass' \in PassState /\ pass'.new \in Checked
      BY <2>2, <3>2, <3>3
    <3> QED BY <1>2, <1>4, <2>7, <3>4 DEF PassVisit
  <2> QED BY <2>1, <2>3, <2>5, <2>6, <2>7
<1>5. CASE PassStart
  <2>1. pass.new \in Checked
    BY <1>5 DEF PassStart, CInv, CheckersTypeOK
  <2>2. pass' \in PassState /\ pass'.pc = "visit"
    <3>1. PICK s : s = [pass EXCEPT !.pc = "visit"]
      OBVIOUS
    <3>2. s \in PassState /\ s.pc = "visit"
      BY <1>1, <3>1
    <3>3. pass' = [s EXCEPT !.new = NoTask]
      BY <1>5, <3>1 DEF PassStart
    <3> QED BY <3>2, <3>3
  <2>3. CASE UNCHANGED <<byTask, monitor>>
    BY <1>2, <1>5, <2>2, <2>3 DEF PassStart
  <2>4. ASSUME NEW m \in Monitor, monitor[m].pc = "free", byTask[pass.new] = NoMonitor,
               byTask' = [byTask EXCEPT ![pass.new] = m],
               monitor' = [monitor EXCEPT ![m] = [Free EXCEPT !.pc = "start", !.task = pass.new]]
        PROVE  CInv'
    <3>1. PICK r : r = [Free EXCEPT !.pc = "start", !.task = pass.new]
      OBVIOUS
    <3>2. r = [pc |-> "start", task |-> pass.new, cancelled |-> FALSE, failures |-> 0]
      <4>1. PICK q : q = [Free EXCEPT !.pc = "start"]
        OBVIOUS
      <4>2. q = [pc |-> "start", task |-> NoTask, cancelled |-> FALSE, failures |-> 0]
        BY <4>1 DEF Free
      <4>3. r = [q EXCEPT !.task = pass.new]
        BY <3>1, <4>1
      <4> QED BY <4>2, <4>3
    <3>3. r \in MonitorState /\ r.failures < Retries
      BY <2>1, <3>2, CheckersAssumption DEF MonitorState, CheckersAssumption
    <3>4. monitor' = [monitor EXCEPT ![m] = r]
      BY <2>4, <3>1
    <3>5. UNCHANGED <<health, quit>>
      BY <1>5 DEF PassStart
    <3>6. /\ \A n \in Monitor \ {m} : monitor'[n] = monitor[n]
          /\ monitor'[m] = r /\ monitor' \in [Monitor -> MonitorState]
      BY <3>3, <3>4 DEF CInv, CheckersTypeOK
    <3>7. CheckersTypeOK'
      <4>1. byTask' \in [Checked -> Monitor \union {NoMonitor}]
        BY <2>4 DEF CInv, CheckersTypeOK
      <4>2. ASSUME NEW n \in Monitor, monitor'[n].pc # "free"
            PROVE  monitor'[n].task \in Checked
        <5>1. CASE n = m
          <6>1. r.task = pass.new
            BY <3>2
          <6> QED BY <2>1, <3>6, <5>1, <6>1
        <5>2. CASE n # m
          BY <3>6, <4>2, <5>2 DEF CInv, CheckersTypeOK
        <5> QED BY <5>1, <5>2
      <4>3. health' \in [Checked -> Health] /\ quit' \in BOOLEAN
        BY <3>5 DEF CInv, CheckersTypeOK
      <4> QED BY <2>2, <3>6, <4>1, <4>2, <4>3 DEF CheckersTypeOK
    <3>8. Patient'
      BY <3>3, <3>4 DEF CInv, CheckersTypeOK, Patient
    <3>9. OneMonitor'
      <4> SUFFICES ASSUME NEW t \in Checked, NEW n \in Monitor
                   PROVE  Live(n, t)' <=> byTask'[t] = n
        BY DEF OneMonitor
      <4>1. Live(n, t) <=> byTask[t] = n
        BY DEF CInv, OneMonitor
      <4>2. Live(n, t)' <=> IF n = m THEN t = pass.new ELSE Live(n, t)
        <5>1. r.pc = "start" /\ r.task = pass.new /\ r.cancelled = FALSE
          BY <3>2
        <5>2. CASE n = m
          BY <3>6, <5>1, <5>2 DEF Live
        <5>3. CASE n # m
          BY <3>6, <5>3 DEF Live
        <5> QED BY <5>2, <5>3
      <4>3. byTask'[t] = IF t = pass.new THEN m ELSE byTask[t]
        BY <2>1, <2>4 DEF CInv, CheckersTypeOK
      <4>4. ~Live(m, t)
        BY <2>4 DEF Live
      <4>5. byTask[pass.new] # n
        BY <2>4, CheckersAssumption DEF CheckersAssumption
      <4> QED BY <4>1, <4>2, <4>3, <4>4, <4>5
    <3> QED BY <3>7, <3>8, <3>9 DEF CInv
  <2> QED BY <1>5, <2>3, <2>4 DEF PassStart
<1>6. CASE PassEnd
  <2>1. Unregister(Checked \ pass.seen) /\ UNCHANGED <<health, quit>> /\ pass' = PassIdle
    BY <1>6 DEF PassEnd
  <2>2. pass' \in PassState /\ pass'.pc # "start"
    BY <2>1 DEF PassIdle
  <2> QED BY <2>1, <2>2, UnregisterStep
<1> QED BY <1>3, <1>4, <1>5, <1>6 DEF Reconcile

LEMMA MonitorStep ==
    ASSUME CInv, NEW m \in Monitor, Watching(m) \/ MonitorTick(m)
    PROVE  CInv'
<1> DEFINE at(pc) == [monitor[m] EXCEPT !.pc = pc]
<1>1. monitor[m] \in MonitorState
  BY DEF CInv, CheckersTypeOK
<1>2. ASSUME NEW pc \in {"start", "watch", "probe", "act", "exit"}
      PROVE  /\ at(pc) \in MonitorState
             /\ at(pc).pc = pc /\ at(pc).task = monitor[m].task
             /\ at(pc).cancelled = monitor[m].cancelled /\ at(pc).failures = monitor[m].failures
  BY <1>1 DEF MonitorState
<1>3. ASSUME NEW pc \in {"watch", "probe", "exit"}, Set(m, pc), monitor[m].pc # "free",
             pc \in {"watch", "probe"} => monitor[m].pc \in {"start", "watch", "probe"},
             health' \in [Checked -> Health], UNCHANGED <<byTask, pass, quit>>
      PROVE  CInv'
  <2>1. PICK r \in MonitorState : r = at(pc)
    BY <1>2
  <2>2. monitor' = [monitor EXCEPT ![m] = r]
    BY <1>3, <2>1 DEF Set
  <2>3. r.pc = pc /\ r.task = monitor[m].task /\ r.cancelled = monitor[m].cancelled
        /\ r.failures = monitor[m].failures
    BY <1>2, <2>1
  <2>4. r.pc \in {"start", "watch", "probe"} => r.failures < Retries
    BY <1>3, <2>3 DEF CInv, Patient
  <2> QED BY <1>3, <2>2, <2>3, <2>4, OwnStep
<1>4. health \in [Checked -> Health]
  BY DEF CInv, CheckersTypeOK
<1>5. CASE MonitorStart(m) \/ MonitorTick(m) \/ MonitorCancelled(m)
  <2>1. UNCHANGED <<health, byTask, pass, quit>>
    BY <1>5 DEF MonitorStart, MonitorTick, MonitorCancelled
  <2>2. PICK pc \in {"watch", "probe", "exit"} : Set(m, pc)
    BY <1>5 DEF MonitorStart, MonitorTick, MonitorCancelled
  <2>3. monitor[m].pc \in {"start", "watch"}
    BY <1>5 DEF MonitorStart, MonitorTick, MonitorCancelled
  <2> QED BY <1>3, <1>4, <2>1, <2>2, <2>3
<1>6. CASE MonitorProbe(m)
  <2> DEFINE to(pc, n) == [pc |-> pc, task |-> monitor[m].task, cancelled |-> monitor[m].cancelled,
                           failures |-> n]
  <2>1. UNCHANGED <<health, byTask, pass, quit>> /\ monitor[m].pc = "probe"
    BY <1>6 DEF MonitorProbe
  <2>2. monitor[m].failures \in Nat /\ monitor[m].failures < Retries
    BY <1>1, <2>1 DEF CInv, Patient, MonitorState
  <2>3. ASSUME NEW pc \in {"watch", "act"}, NEW n \in 0 .. Retries, pc = "watch" => n < Retries,
               monitor' = [monitor EXCEPT ![m].pc = pc, ![m].failures = n]
        PROVE  CInv'
    <3>1. PICK r : r = to(pc, n)
      OBVIOUS
    <3>2. r \in MonitorState
      BY <1>1, <2>3, <3>1 DEF MonitorState
    <3>3. PICK mid : mid = [monitor EXCEPT ![m].pc = pc]
      OBVIOUS
    <3>4. monitor' = [mid EXCEPT ![m].failures = n]
      BY <2>3, <3>3
    <3>5. mid = [monitor EXCEPT ![m] = at(pc)]
      BY <3>3
    <3>6. mid[m] = at(pc) /\ monitor \in [Monitor -> MonitorState]
      BY <3>5 DEF CInv, CheckersTypeOK
    <3>7. [mid[m] EXCEPT !.failures = n] = r
      <4>1. monitor[m] = [pc |-> monitor[m].pc, task |-> monitor[m].task,
                          cancelled |-> monitor[m].cancelled, failures |-> monitor[m].failures]
        BY <1>1 DEF MonitorState
      <4>2. mid[m] = to(pc, monitor[m].failures)
        BY <3>6, <4>1
      <4> QED BY <3>1, <4>2
    <3>8. monitor' = [monitor EXCEPT ![m] = r]
      BY <3>4, <3>5, <3>6, <3>7
    <3> QED BY <1>4, <2>1, <2>3, <3>1, <3>2, <3>8, OwnStep
  <2>4. CASE monitor' = [monitor EXCEPT ![m].pc = "watch", ![m].failures = 0]
    <3>1. 0 \in 0 .. Retries /\ 0 < Retries
      BY CheckersAssumption DEF CheckersAssumption
    <3> QED BY <2>3, <2>4, <3>1
  <2>5. CASE monitor' = [monitor EXCEPT ![m].pc = IF Unhealthy(m) THEN "act" ELSE "watch",
                                        ![m].failures = @ + 1]
    <3>1. PICK pc \in {"watch", "act"} : pc = IF Unhealthy(m) THEN "act" ELSE "watch"
      OBVIOUS
    <3>2. PICK n : n = monitor[m].failures + 1
      OBVIOUS
    <3>3. n \in 0 .. Retries /\ (pc = "watch" => n < Retries)
      BY <2>2, <3>1, <3>2, CheckersAssumption DEF Unhealthy, CheckersAssumption
    <3>4. monitor' = [monitor EXCEPT ![m].pc = pc, ![m].failures = n]
      BY <1>1, <2>5, <3>1, <3>2 DEF MonitorState, CInv, CheckersTypeOK
    <3> QED BY <2>3, <3>3, <3>4
  <2> QED BY <1>6, <2>4, <2>5 DEF MonitorProbe
<1>7. CASE MonitorAct(m)
  <2>1. Set(m, "exit") /\ UNCHANGED <<byTask, pass, quit>> /\ monitor[m].pc = "act"
    BY <1>7 DEF MonitorAct
  <2>2. health' \in [Checked -> Health]
    BY <1>4, <1>7 DEF MonitorAct, Health
  <2> QED BY <1>3, <2>1, <2>2
<1>8. CASE MonitorExit(m)
  <2>1. /\ monitor[m].pc = "exit" /\ monitor[m].task \in Checked
        /\ byTask' = Forgotten(m) /\ monitor' = [monitor EXCEPT ![m] = Free]
        /\ UNCHANGED <<health, pass, quit>>
    BY <1>8 DEF MonitorExit, CInv, CheckersTypeOK
  <2>2. Free \in MonitorState /\ Free.pc = "free"
    BY CheckersAssumption DEF Free, MonitorState, CheckersAssumption
  <2>3. byTask' \in [Checked -> Monitor \union {NoMonitor}]
    BY <2>1 DEF Forgotten, CInv, CheckersTypeOK
  <2>4. CheckersTypeOK'
    BY <2>1, <2>2, <2>3 DEF CInv, CheckersTypeOK
  <2>5. Patient'
    BY <2>1, <2>2 DEF CInv, CheckersTypeOK, Patient
  <2>6. OneMonitor'
    <3> SUFFICES ASSUME NEW t \in Checked, NEW n \in Monitor
                 PROVE  Live(n, t)' <=> byTask'[t] = n
      BY DEF OneMonitor
    <3>1. Live(n, t) <=> byTask[t] = n
      BY DEF CInv, OneMonitor
    <3>2. Live(m, t) <=> byTask[t] = m
      BY DEF CInv, OneMonitor
    <3>3. Live(n, t)' <=> n # m /\ Live(n, t)
      BY <2>1, <2>2 DEF Live, CInv, CheckersTypeOK
    <3>4. byTask'[t] = IF byTask[t] = m /\ t = monitor[m].task THEN NoMonitor ELSE byTask[t]
      BY <2>1 DEF Forgotten, CInv, CheckersTypeOK
    <3>5. byTask[t] = m => t = monitor[m].task
      BY <3>2 DEF Live
    <3> QED BY <3>1, <3>3, <3>4, <3>5, CheckersAssumption DEF CheckersAssumption
  <2> QED BY <2>4, <2>5, <2>6 DEF CInv
<1> QED BY <1>5, <1>6, <1>7, <1>8 DEF Watching

LEMMA NextCInv == CInv /\ [CheckersNext]_cvars => CInv'
<1> SUFFICES ASSUME CInv, [CheckersNext]_cvars PROVE CInv'
  OBVIOUS
<1>1. ASSUME UNCHANGED <<byTask, monitor, pass>>, health' \in [Checked -> Health], quit' \in BOOLEAN
      PROVE  CInv'
  <2>1. CheckersTypeOK'
    BY <1>1 DEF CInv, CheckersTypeOK
  <2>2. Patient' /\ OneMonitor'
    BY <1>1 DEF CInv, Patient, OneMonitor, Live
  <2> QED BY <2>1, <2>2 DEF CInv
<1>2. health \in [Checked -> Health] /\ quit \in BOOLEAN
  BY DEF CInv, CheckersTypeOK
<1>3. CASE UNCHANGED cvars
  BY <1>1, <1>2, <1>3 DEF cvars
<1>4. CASE Reconcile
  BY <1>4, ReconcileStep
<1>5. ASSUME NEW m \in Monitor, Watching(m) \/ MonitorTick(m) PROVE CInv'
  BY <1>5, MonitorStep
<1>6. ASSUME NEW t \in Checked, RecordChanges(t) PROVE CInv'
  <2>1. health' \in [Checked -> Health]
    BY <1>2, <1>6 DEF RecordChanges, Health
  <2> QED BY <1>1, <1>2, <1>6, <2>1 DEF RecordChanges
<1>7. CASE Shutdown
  BY <1>1, <1>2, <1>7 DEF Shutdown
<1> QED BY <1>3, <1>4, <1>5, <1>6, <1>7 DEF CheckersNext

LEMMA CInvariant == CheckersSpec => []CInv
<1>1. CheckersInit => CInv
  BY InitCInv
<1>2. CInv /\ [CheckersNext]_cvars => CInv'
  BY NextCInv
<1> QED BY <1>1, <1>2, PTL DEF CheckersSpec

-----------------------------------------------------------------------------
(* Theorems *)

\* The state of the checkers keeps its type; in particular no checker counts
\* more failures than make a task unhealthy.
THEOREM CheckersTyped == CheckersSpec => []CheckersTypeOK
<1>1. CInv => CheckersTypeOK
  BY DEF CInv
<1> QED BY <1>1, CInvariant, PTL

\* For any number of tasks and checkers: what the registry holds for a task is
\* its one checker that has not been told to stop.
THEOREM OneCheckerPerTask == CheckersSpec => []OneMonitor
<1>1. CInv => OneMonitor
  BY DEF CInv
<1> QED BY <1>1, CInvariant, PTL
=============================================================================

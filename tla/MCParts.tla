------------------------------- MODULE MCParts -------------------------------
(***************************************************************************)
(* The parts of the manager that are modelled on their own, checked in one *)
(* run: a behaviour is one of the part chosen at its start, while the      *)
(* others stay in their initial states.                                    *)
(***************************************************************************)
EXTENDS Placement, Checkers, Admission, Settings, TLC

CONSTANTS t1, t2, n1, n2, m1, m2, h1, h2, q1, q2, name1

VARIABLE part

MCTask == {t1, t2}
MCNode == {n1, n2}
MCWorkerNodes == <<n1, n2>>

\* Placement: with epvm one pinned port is wanted twice and one worker is too
\* full for t2; with roundrobin t2 pins nothing and t1's port is taken on n2.
MCKey == {"a", "b", "c"}
MCPinSets == {(t1 :> {"a", "b"}) @@ (t2 :> {"b"}), (t1 :> {"c"}) @@ (t2 :> {})}
MCForeign == (n1 :> {}) @@ (n2 :> {"c"})
MCMaxTries == [epvm |-> 3, roundrobin |-> 2]
MCRoom == (n1 :> MCTask) @@ (n2 :> {t1})

MCChecked == {t1}
MCMonitor == {m1, m2}

\* Admission: a good token file and one in which a hash has two roles;
\* submissions at the boundaries of what is accepted.
MCHash == {h1, h2}
MCName == {name1}
MCRequest == {q1, q2}
Entry(role, hash) == [user |-> TRUE, role |-> role, hash |-> hash]
MCTokenFiles == {<<Entry("admin", h1), Entry("viewer", h2)>>, <<Entry("viewer", h1), Entry("admin", h1)>>,
                 <<Entry("admin", NoHash)>>, <<>>}
Ports == {[con |-> c, host |-> h, proto |-> p] :
              <<c, h, p>> \in {<<1, 0, "">>, <<1, 0, "udp">>, <<2, 7, "">>, <<2, 7, "tcp">>, <<1, 7, "tcp">>,
                               <<1, 7, "udp">>, <<65535, 65535, "tcp">>, <<65536, 7, "tcp">>, <<0, 7, "tcp">>,
                               <<1, -1, "tcp">>, <<3, 65536, "">>, <<3, 7, "sctp">>}}
Submission(ports, policy, timeout, cap) == [ports |-> ports, policy |-> policy, timeout |-> timeout, cap |-> cap]
MCPayload == {Submission(<<x, y>>, "", 0, 0) : x \in Ports, y \in Ports}
                 \union {Submission(<<>>, p, x, y) : p \in {"always", "other"}, x \in -1 .. 1, y \in -1 .. 1}

\* Settings: every setting, and two of them together, with values around the
\* boundaries, the bounds of the backoff with many, and the options.
Unset == [s \in Setting \union Option |-> Absent]
MCFiles ==
    {[Unset EXCEPT ![u] = w, ![s] = v] : s \in Setting, u \in {"max_restarts", "check_retries"},
                                         v \in {-1, 0, 2, Bad}, w \in {0, 3}}
        \union {[Unset EXCEPT !["restart_backoff_base"] = v, !["restart_backoff_max"] = w] :
                    v \in {Absent, Bad, 0, 1, 7, 120}, w \in {Absent, -1, 1, 64, 127}}
        \union {[Unset EXCEPT !["scheduler"] = v, !["dbtype"] = w] :
                    v \in {Absent, "", "roundrobin", "other"}, w \in {"", "bolt", "other"}}
MCLines == {[scheduler |-> Absent, dbtype |-> Absent], [scheduler |-> "roundrobin", dbtype |-> Absent],
            [scheduler |-> "", dbtype |-> "bolt"]}
MCDefaults == [s \in Setting \union Option |->
                  CASE s = "max_restarts" -> 3
                    [] s = "restart_backoff_base" -> 10
                    [] s = "restart_backoff_max" -> 100
                    [] s = "scheduler" -> "epvm"
                    [] s = "dbtype" -> "memory"
                    [] OTHER -> 5]

\* Power2 is what it says.
ASSUME PowersOfTwo == \A k \in 0 .. 20 : Power2[k] = 2 ^ k

PartsInit ==
    /\ part \in {"placement", "checkers", "admission", "settings"}
    /\ PlacementInit /\ IF part = "placement" THEN pins[t2] = {} <=> scheduler = "roundrobin"
                        ELSE pins[t2] = {} /\ scheduler = "epvm"
    /\ CheckersInit
    /\ AdmissionInit /\ (part # "admission" => tokenFile = CHOOSE f \in TokenFiles : f = NoFile \/ Parses(f))
    /\ SettingsInit
    /\ part # "settings" => command = "manager" /\ file = Unset /\ line = [o \in Option |-> Absent]

Placing   == part = "placement" /\ PlacementNext /\ UNCHANGED <<part, cvars, avars, svars>>
Checking  == part = "checkers" /\ CheckersNext /\ UNCHANGED <<part, pvars, avars, svars>>
Admitting == part = "admission" /\ AdmissionNext /\ UNCHANGED <<part, pvars, cvars, svars>>
Starting  == part = "settings" /\ SettingsNext /\ UNCHANGED <<part, pvars, cvars, avars>>

PartsNext == Placing \/ Checking \/ Admitting \/ Starting

\* CheckersFairness, where the checkers are the part chosen.
PartsFairness ==
    /\ WF_cvars(part = "checkers" /\ Reconciling)
    /\ \A m \in Monitor : WF_cvars(Watching(m)) /\ WF_cvars(MonitorTick(m))

PartsSpec == PartsInit /\ [][PartsNext]_<<pvars, cvars, avars, svars, part>> /\ PartsFairness
=============================================================================

--------------------------- MODULE SettingsProofs ---------------------------
(***************************************************************************)
(* What a process may rely on in its settings, for every file, command     *)
(* line and built-in setting, and what it computes from them, for words of *)
(* every width.                                                            *)
(***************************************************************************)
EXTENDS Settings, DataProofs

Commands == {"manager", "worker", "nodes"}
Names    == {"http", "manager", "worker", "node", "scheduler", "task"}

\* The smallest legal value.
Least(s) == IF s \in Positive THEN 1 ELSE 0

\* Options come from the command line or are built in until the file is read.
OptionsMerged ==
    IF stage.at = "flags"
    THEN \A o \in Option : options[o] = IF line[o] = Absent THEN Defaults[o] ELSE line[o]
    ELSE \A o \in Options(command) :
             options[o] = IF line[o] # Absent THEN line[o]
                          ELSE IF file[o] \in {Absent, ""} THEN Defaults[o] ELSE file[o]

\* Whatever has been read is legal, also between two sections.
ValuesLegal ==
    /\ vals \in [Setting -> Word]
    /\ \A s \in Setting : vals[s] >= Least(s)
    /\ vals["restart_backoff_base"] <= vals["restart_backoff_max"]

\* The sections left are the last ones of the command, and still as built in.
SectionsLeft ==
    /\ \E k \in 0 .. Len(Sections(command)) :
           /\ Len(stage.left) = Len(Sections(command)) - k
           /\ \A i \in 1 .. Len(stage.left) : stage.left[i] = Sections(command)[i + k]
    /\ \A i \in 1 .. Len(stage.left), s \in Setting :
           s \in Section[stage.left[i]] => vals[s] = Defaults[s]

SettingsInv ==
    /\ command \in Commands /\ file \in Files
    /\ stage \in [at : {"flags", "file", "running", "refused"}, left : Seq(Names)]
    /\ OptionsMerged
    /\ ValuesLegal
    /\ stage.at = "flags" => vals = [s \in Setting |-> Defaults[s]]
    /\ stage.at = "file" => SectionsLeft
    /\ RefusedForCause

-----------------------------------------------------------------------------
(* Sections *)

\* The sections of a command are known ones, none of them twice.
LEMMA SectionsKnown ==
    ASSUME NEW c \in Commands
    PROVE  /\ Sections(c) \in Seq(Names) /\ Len(Sections(c)) \in Nat
           /\ \A i, j \in 1 .. Len(Sections(c)) : Sections(c)[i] = Sections(c)[j] => i = j
<1>1. CASE c = "manager"
  <2>1. Sections(c) = <<"http", "manager", "node", "scheduler", "task">>
    BY <1>1 DEF Sections
  <2> QED  BY <2>1 DEF Names
<1>2. CASE c = "worker"
  <2>1. Sections(c) = <<"http", "worker", "task">>
    BY <1>2 DEF Sections
  <2> QED  BY <2>1 DEF Names
<1>3. CASE c = "nodes"
  <2>1. Sections(c) = <<"http", "node">>
    BY <1>3 DEF Sections
  <2> QED  BY <2>1 DEF Names
<1> QED  BY <1>1, <1>2, <1>3 DEF Commands

\* Only the manager reads its section.
LEMMA ManagerSection ==
    ASSUME NEW c \in Commands, NEW i \in 1 .. Len(Sections(c)), Sections(c)[i] = "manager"
    PROVE  c = "manager"
<1>1. CASE c = "worker"
  <2>1. Sections(c) = <<"http", "worker", "task">>
    BY <1>1 DEF Sections
  <2> QED  BY <2>1
<1>2. CASE c = "nodes"
  <2>1. Sections(c) = <<"http", "node">>
    BY <1>2 DEF Sections
  <2> QED  BY <2>1
<1> QED  BY <1>1, <1>2 DEF Commands

\* Sections consist of settings and have none in common.
LEMMA SectionsDisjoint ==
    /\ \A a \in Names : Section[a] \subseteq Setting
    /\ \A a, b \in Names, s \in Setting : s \in Section[a] /\ s \in Section[b] => a = b
    /\ \A a \in Names : "restart_backoff_base" \in Section[a] \/ "restart_backoff_max" \in Section[a]
           => a = "manager"
    /\ {"restart_backoff_base", "restart_backoff_max"} \subseteq Section["manager"]
    /\ {"restart_backoff_base", "restart_backoff_max"} \subseteq Positive
    /\ Positive \subseteq Setting
<1>1. /\ Section["http"] = {"client_timeout", "long_op_timeout"}
      /\ Section["manager"] = {"max_restarts", "restart_backoff_base", "restart_backoff_max", "loop_interval",
                               "shutdown_timeout"}
      /\ Section["worker"] = {"log_capture_max_lines", "worker_loop_interval", "worker_shutdown_timeout"}
      /\ Section["node"] = {"stats_query_max_retries", "stats_query_sleep_period", "ports_query_timeout"}
      /\ Section["scheduler"] = {"epvm_max_jobs"}
      /\ Section["task"] = {"check_interval", "check_timeout", "check_retries", "check_start_period"}
  BY DEF Section
<1>2. \A a \in Names : Section[a] \subseteq Setting
  BY <1>1 DEF Names, Setting, Positive, Natural
<1>3. \A a, b \in Names, s \in Setting : s \in Section[a] /\ s \in Section[b] => a = b
  BY <1>1 DEF Names
<1>4. \A a \in Names : "restart_backoff_base" \in Section[a] \/ "restart_backoff_max" \in Section[a]
           => a = "manager"
  BY <1>1 DEF Names
<1> QED  BY <1>1, <1>2, <1>3, <1>4 DEF Positive, Setting

-----------------------------------------------------------------------------
(* Every step keeps the invariant. *)

\* The assumptions on words, in numbers.
LEMMA Words ==
    /\ Width - 1 \in Nat /\ Power2[Width - 1] \in Nat /\ Power2[Width - 1] > 0
    /\ Power2[Width] = 2 * Power2[Width - 1]
    /\ Word \subseteq Int
    /\ \A x \in Int : x \in Word <=> -Power2[Width - 1] <= x /\ x < Power2[Width - 1]
<1>1. Width - 1 \in Nat /\ (Width - 1) + 1 = Width
  BY SettingsAssumption
<1>2. Power2[Width - 1] \in Nat /\ Power2[Width - 1] > 0 /\ Power2[Width] = 2 * Power2[Width - 1]
  BY <1>1, Powers
<1> QED  BY <1>1, <1>2 DEF Word

LEMMA SettingsInit_Inv ==
    ASSUME SettingsInit
    PROVE  SettingsInv
<1>1. ValuesLegal
  <2>1. \A s \in Setting : vals[s] = Defaults[s]
    BY DEF SettingsInit
  <2>2. vals \in [Setting -> Word]
    BY SettingsAssumption DEF SettingsInit
  <2>3. \A s \in Setting : vals[s] >= Least(s)
    BY <2>1, SettingsAssumption DEF Least
  <2>4. "restart_backoff_base" \in Setting /\ "restart_backoff_max" \in Setting
    BY SectionsDisjoint
  <2> QED  BY <2>1, <2>2, <2>3, <2>4, SettingsAssumption DEF ValuesLegal
<1>2. stage.at = "flags" /\ stage.left = <<>>
  BY DEF SettingsInit
<1>3. stage \in [at : {"flags", "file", "running", "refused"}, left : Seq(Names)]
  BY DEF SettingsInit
<1>4. OptionsMerged
  BY <1>2 DEF OptionsMerged, SettingsInit
<1>5. RefusedForCause
  BY <1>2 DEF RefusedForCause
<1> QED  BY <1>1, <1>2, <1>3, <1>4, <1>5 DEF SettingsInv, SettingsInit, Commands

LEMMA ApplyConfig_Inv ==
    ASSUME SettingsInv, ApplyConfig
    PROVE  SettingsInv'
<1>1. /\ stage.at = "flags" /\ stage' = [at |-> "file", left |-> Sections(command)]
      /\ options' = [o \in Option |-> IF o \in Options(command) THEN Overridden(o) ELSE options[o]]
      /\ command' = command /\ file' = file /\ line' = line /\ vals' = vals
  BY DEF ApplyConfig
<1>2. Sections(command) \in Seq(Names) /\ Len(Sections(command)) \in Nat
  BY SectionsKnown DEF SettingsInv
<1>3. stage' \in [at : {"flags", "file", "running", "refused"}, left : Seq(Names)]
  BY <1>1, <1>2
<1>4. stage'.at = "file" /\ stage'.left = Sections(command)
  BY <1>1
<1>5. OptionsMerged'
  <2>1. \A o \in Option : options[o] = IF line[o] = Absent THEN Defaults[o] ELSE line[o]
    BY <1>1 DEF SettingsInv, OptionsMerged
  <2>2. Options(command) \subseteq Option
    BY DEF Options, Option, SettingsInv, Commands
  <2>3. \A o \in Options(command) : options'[o] = Overridden(o)
    BY <1>1, <2>2
  <2>4. Options(command)' = Options(command)
    BY <1>1 DEF Options
  <2> QED  BY <1>1, <1>4, <2>1, <2>2, <2>3, <2>4 DEF OptionsMerged, Overridden
<1>6. ValuesLegal'
  BY <1>1 DEF SettingsInv, ValuesLegal
<1>7. SectionsLeft'
  <2>1. \A s \in Setting : vals[s] = Defaults[s]
    BY <1>1 DEF SettingsInv
  <2>2. Sections(command)' = Sections(command)
    BY <1>1 DEF Sections
  <2>3. 0 \in 0 .. Len(Sections(command)) /\ Len(Sections(command)) - 0 = Len(Sections(command))
    BY <1>2
  <2>4. \A i \in 1 .. Len(Sections(command)) : i + 0 = i
    BY <1>2
  <2> QED  BY <1>1, <1>4, <2>1, <2>2, <2>3, <2>4 DEF SectionsLeft
<1>8. RefusedForCause'
  BY <1>4 DEF RefusedForCause
<1> QED  BY <1>1, <1>3, <1>4, <1>5, <1>6, <1>7, <1>8 DEF SettingsInv

\* What is asked of a setting of a section that has not been read: the file's
\* value over the one in force, which is the built-in one.
LEMMA AskedOfNext ==
    ASSUME SettingsInv, stage.at = "file", stage.left # <<>>, NEW s \in Section[Head(stage.left)]
    PROVE  /\ Head(stage.left) \in Names /\ s \in Setting /\ s \in Mine
           /\ Asked(s) = IF file[s] # Absent THEN file[s] ELSE vals[s]
           /\ Head(stage.left) = "manager" => command = "manager"
<1>1. stage.left \in Seq(Names) /\ command \in Commands /\ SectionsLeft
  BY DEF SettingsInv
<1>2. Len(stage.left) \in Nat /\ 1 \in 1 .. Len(stage.left) /\ Head(stage.left) = stage.left[1]
  BY <1>1
<1>3. PICK k \in 0 .. Len(Sections(command)) :
          /\ Len(stage.left) = Len(Sections(command)) - k
          /\ \A i \in 1 .. Len(stage.left) : stage.left[i] = Sections(command)[i + k]
  BY <1>1 DEF SectionsLeft
<1>4. Sections(command) \in Seq(Names) /\ Len(Sections(command)) \in Nat
  BY <1>1, SectionsKnown
<1>5. 1 + k \in 1 .. Len(Sections(command)) /\ Head(stage.left) = Sections(command)[1 + k]
  BY <1>2, <1>3, <1>4
<1>6. Head(stage.left) \in Names
  BY <1>1, <1>2
<1>7. s \in Setting
  BY <1>6, SectionsDisjoint
<1>8. s \in Mine
  <2>1. DOMAIN Sections(command) = 1 .. Len(Sections(command))
    BY <1>4
  <2>2. s \in Section[Sections(command)[1 + k]]
    BY <1>5
  <2> QED  BY <1>5, <2>1, <2>2 DEF Mine
<1>9. vals[s] = Defaults[s]
  BY <1>1, <1>2, <1>7 DEF SectionsLeft
<1>10. Head(stage.left) = "manager" => command = "manager"
  BY <1>1, <1>5, ManagerSection
<1> QED  BY <1>6, <1>7, <1>8, <1>9, <1>10 DEF Asked

LEMMA ApplySection_Inv ==
    ASSUME SettingsInv, ApplySection
    PROVE  SettingsInv'
<1> DEFINE names == Section[Head(stage.left)]
           set == {s \in names : file[s] # Absent}
           new == [s \in Setting |-> IF s \in set THEN file[s] ELSE vals[s]]
           good == (\A s \in set : Legal(s, file[s])) /\ (Head(stage.left) = "manager" => Consistent(new))
<1>1. /\ stage.at = "file" /\ stage.left # <<>>
      /\ command' = command /\ file' = file /\ line' = line /\ options' = options
  BY DEF ApplySection
<1>2. IF good THEN vals' = new /\ stage' = [stage EXCEPT !.left = Tail(@)]
              ELSE vals' = vals /\ stage' = [at |-> "refused", left |-> <<>>]
  BY DEF ApplySection
<1>3. /\ command \in Commands /\ file \in Files /\ ValuesLegal /\ OptionsMerged /\ SectionsLeft
      /\ stage \in [at : {"flags", "file", "running", "refused"}, left : Seq(Names)]
  BY <1>1 DEF SettingsInv
<1>4. /\ stage.left \in Seq(Names) /\ Len(stage.left) \in Nat /\ Len(stage.left) > 0
      /\ Head(stage.left) = stage.left[1] /\ Head(stage.left) \in Names
  BY <1>1, <1>3
<1>5. \A s \in names : s \in Setting /\ s \in Mine
                       /\ Asked(s) = IF file[s] # Absent THEN file[s] ELSE vals[s]
  BY <1>1, AskedOfNext
<1>6. \A s \in Setting : file[s] \in Word \union {Absent, Bad}
  BY <1>3, SettingsAssumption
<1>7. \A s \in set : file[s] # Bad => file[s] \in Word /\ file[s] \in Int
  BY <1>5, <1>6, Words
<1>8. \A s \in Setting : vals[s] \in Word /\ vals[s] \in Int
  BY <1>3, Words DEF ValuesLegal
<1>9. \A s \in set : Legal(s, file[s]) <=> file[s] # Bad /\ file[s] >= Least(s)
  BY DEF Legal, Least
<1>10. "restart_backoff_base" \in Setting /\ "restart_backoff_max" \in Setting
  BY SectionsDisjoint
<1>11. CASE good
  <2> HIDE DEF good, new, set, names
  <2>1. vals' = new /\ stage' = [stage EXCEPT !.left = Tail(@)]
    BY <1>2, <1>11
  <2>2. stage'.at = "file" /\ stage'.left = Tail(stage.left)
    BY <1>1, <1>3, <2>1
  <2>3. stage'.left \in Seq(Names) /\ stage' \in [at : {"flags", "file", "running", "refused"}, left : Seq(Names)]
    BY <1>3, <1>4, <2>1, <2>2
  <2>4. \A s \in Setting : new[s] = IF s \in set THEN file[s] ELSE vals[s]
    BY DEF new
  <2>5. \A s \in Setting : new[s] \in Word /\ new[s] >= Least(s)
    <3>1. \A s \in set : file[s] \in Word /\ file[s] >= Least(s)
      BY <1>7, <1>9, <1>11 DEF good
    <3> QED  BY <3>1, <1>3, <2>4 DEF ValuesLegal
  <2>6. new \in [Setting -> Word]
    BY <2>5 DEF new
  <2>7. new["restart_backoff_base"] <= new["restart_backoff_max"]
    <3>1. CASE Head(stage.left) = "manager"
      <4>1. new["restart_backoff_max"] >= new["restart_backoff_base"]
        BY <1>11, <3>1 DEF good, Consistent
      <4>2. new["restart_backoff_base"] \in Int /\ new["restart_backoff_max"] \in Int
        BY <1>10, <2>5, Words
      <4> QED  BY <4>1, <4>2
    <3>2. CASE Head(stage.left) # "manager"
      <4>1. "restart_backoff_base" \notin set /\ "restart_backoff_max" \notin set
        BY <1>4, <3>2, SectionsDisjoint DEF set, names
      <4> QED  BY <4>1, <2>4, <1>10, <1>3 DEF ValuesLegal
    <3> QED  BY <3>1, <3>2
  <2>8. ValuesLegal'
    BY <2>1, <2>5, <2>6, <2>7 DEF ValuesLegal, Least
  <2>9. SectionsLeft'
    <3>1. Sections(command)' = Sections(command)
      BY <1>1 DEF Sections
    <3>2. PICK k \in 0 .. Len(Sections(command)) :
              /\ Len(stage.left) = Len(Sections(command)) - k
              /\ \A i \in 1 .. Len(stage.left) : stage.left[i] = Sections(command)[i + k]
      BY <1>3 DEF SectionsLeft
    <3>3. Len(Sections(command)) \in Nat
      BY <1>3, SectionsKnown
    <3>4. /\ Len(Tail(stage.left)) = Len(stage.left) - 1
          /\ \A i \in 1 .. Len(Tail(stage.left)) : Tail(stage.left)[i] = stage.left[i + 1]
      BY <1>4
    <3>5. k + 1 \in 0 .. Len(Sections(command)) /\ Len(Tail(stage.left)) = Len(Sections(command)) - (k + 1)
      BY <1>4, <3>2, <3>3, <3>4
    <3>6. ASSUME NEW i \in 1 .. Len(Tail(stage.left))
          PROVE  Tail(stage.left)[i] = Sections(command)[i + (k + 1)]
      <4>1. i + 1 \in 1 .. Len(stage.left) /\ (i + 1) + k = i + (k + 1)
        BY <1>4, <3>4, <3>3
      <4> QED  BY <4>1, <3>2, <3>4
    <3>7. ASSUME NEW i \in 1 .. Len(Tail(stage.left)), NEW s \in Setting, s \in Section[Tail(stage.left)[i]]
          PROVE  new[s] = Defaults[s]
      <4>1. /\ i + 1 \in 1 .. Len(stage.left) /\ Tail(stage.left)[i] = stage.left[i + 1]
            /\ 1 \in 1 .. Len(stage.left)
        BY <1>4, <3>4
      <4>2. vals[s] = Defaults[s]
        BY <4>1, <3>7, <1>3 DEF SectionsLeft
      <4>3. stage.left[i + 1] # stage.left[1]
        <5>1. stage.left[i + 1] = Sections(command)[(i + 1) + k] /\ stage.left[1] = Sections(command)[1 + k]
          BY <4>1, <3>2
        <5>2. (i + 1) + k \in 1 .. Len(Sections(command)) /\ 1 + k \in 1 .. Len(Sections(command))
              /\ (i + 1) + k # 1 + k
          BY <4>1, <3>2, <3>3, <1>4
        <5> QED  BY <5>1, <5>2, <1>3, SectionsKnown
      <4>4. stage.left[i + 1] \in Names /\ stage.left[1] \in Names
        BY <4>1, <1>4
      <4>5. s \notin set
        BY <4>1, <4>3, <4>4, <3>7, <1>4, SectionsDisjoint DEF set, names
      <4> QED  BY <4>2, <4>5, <2>4
    <3> QED  BY <2>1, <2>2, <3>1, <3>5, <3>6, <3>7 DEF SectionsLeft
  <2>10. OptionsMerged'
    <3>1. Options(command)' = Options(command)
      BY <1>1 DEF Options
    <3> QED  BY <1>1, <1>3, <2>2, <3>1 DEF OptionsMerged
  <2>11. RefusedForCause'
    BY <2>2 DEF RefusedForCause
  <2> QED  BY <1>1, <1>3, <2>2, <2>3, <2>8, <2>9, <2>10, <2>11 DEF SettingsInv
<1>12. CASE ~good
  <2> HIDE DEF good, new, set, names
  <2>1. vals' = vals /\ stage' = [at |-> "refused", left |-> <<>>]
    BY <1>2, <1>12
  <2>2. stage'.at = "refused"
    BY <2>1
  <2>3. stage' \in [at : {"flags", "file", "running", "refused"}, left : Seq(Names)]
    BY <2>1
  <2>4. OptionsMerged'
    <3>1. Options(command)' = Options(command)
      BY <1>1 DEF Options
    <3> QED  BY <1>1, <1>3, <2>2, <3>1 DEF OptionsMerged
  <2>5. ValuesLegal'
    BY <1>3, <2>1 DEF ValuesLegal
  <2>6. Mine' = Mine /\ \A s : Asked(s)' = Asked(s)
    BY <1>1 DEF Mine, Asked, Sections
  <2>7. CASE \E s \in set : ~Legal(s, file[s])
    <3>1. PICK s \in set : ~Legal(s, file[s])
      BY <2>7
    <3>2. s \in names /\ file[s] # Absent
      BY <3>1 DEF set
    <3>3. s \in Mine /\ Asked(s) = file[s]
      BY <3>2, <1>5
    <3>4. Asked(s) = Bad \/ Asked(s) < 0 \/ (Asked(s) = 0 /\ s \in Positive)
      BY <3>1, <3>3, <1>7, <1>9 DEF Least
    <3>5. RefusedForCause'
      BY <2>6, <3>3, <3>4 DEF RefusedForCause
    <3> QED  BY <1>1, <1>3, <2>2, <2>3, <2>4, <2>5, <3>5 DEF SettingsInv
  <2>8. CASE ~ \E s \in set : ~Legal(s, file[s])
    <3>1. Head(stage.left) = "manager" /\ ~Consistent(new)
      BY <2>8, <1>12 DEF good
    <3>2. "restart_backoff_base" \in names /\ "restart_backoff_max" \in names
      BY <3>1, SectionsDisjoint DEF names
    <3>3. \A s \in names : new[s] = Asked(s)
      BY <1>5 DEF new, set
    <3>4. ~(new["restart_backoff_max"] >= new["restart_backoff_base"])
      BY <3>1 DEF Consistent
    <3>5. new["restart_backoff_base"] \in Int /\ new["restart_backoff_max"] \in Int
      <4>1. \A s \in set : file[s] \in Int
        BY <2>8, <1>7, <1>9
      <4> QED  BY <4>1, <1>8, <1>10 DEF new
    <3>6. new["restart_backoff_max"] < new["restart_backoff_base"]
      BY <3>4, <3>5
    <3>7. Asked("restart_backoff_max") < Asked("restart_backoff_base")
      BY <3>2, <3>3, <3>6
    <3>8. command = "manager"
      BY <1>1, <3>1, <3>2, AskedOfNext DEF names
    <3>9. RefusedForCause'
      BY <1>1, <2>6, <3>7, <3>8 DEF RefusedForCause
    <3> QED  BY <1>1, <1>3, <2>2, <2>3, <2>4, <2>5, <3>9 DEF SettingsInv
  <2> QED  BY <2>7, <2>8
<1> QED  BY <1>11, <1>12

LEMMA Create_Inv ==
    ASSUME SettingsInv, Create
    PROVE  SettingsInv'
<1> DEFINE known == /\ "scheduler" \in Options(command) => options["scheduler"] \in Schedulers
                    /\ "dbtype" \in Options(command) => options["dbtype"] \in Stores
<1>1. /\ stage.at = "file" /\ stage.left = <<>>
      /\ stage' = [stage EXCEPT !.at = IF known THEN "running" ELSE "refused"]
      /\ command' = command /\ file' = file /\ line' = line /\ options' = options /\ vals' = vals
  BY DEF Create
<1>2. /\ stage' \in [at : {"flags", "file", "running", "refused"}, left : Seq(Names)]
      /\ stage'.at = IF known THEN "running" ELSE "refused"
  BY <1>1 DEF SettingsInv
<1>3. OptionsMerged'
  <2>1. Options(command)' = Options(command)
    BY <1>1 DEF Options
  <2>2. stage.at # "flags" /\ stage'.at # "flags"
    BY <1>1, <1>2
  <2> QED  BY <1>1, <2>1, <2>2 DEF OptionsMerged, SettingsInv
<1>4. ValuesLegal'
  BY <1>1 DEF ValuesLegal, SettingsInv
<1>5. RefusedForCause'
  <2>1. ~known => options["scheduler"] \notin Schedulers \/ options["dbtype"] \notin Stores
    OBVIOUS
  <2> HIDE DEF known
  <2> QED  BY <1>1, <1>2, <2>1 DEF RefusedForCause, Schedulers, Stores
<1>6. stage'.at # "flags" /\ stage'.at # "file"
  BY <1>2
<1> QED  BY <1>1, <1>2, <1>3, <1>4, <1>5, <1>6 DEF SettingsInv

\* Nothing but the three steps changes the settings.
LEMMA SettingsStep ==
    ASSUME SettingsInv, [SettingsNext]_svars
    PROVE  SettingsInv'
<1>1. CASE SettingsNext
  BY <1>1, ApplyConfig_Inv, ApplySection_Inv, Create_Inv DEF SettingsNext
<1>2. CASE UNCHANGED svars
  <2>1. /\ command' = command /\ file' = file /\ line' = line /\ options' = options /\ vals' = vals
        /\ stage' = stage
    BY <1>2 DEF svars
  <2>2. Options(command)' = Options(command) /\ Sections(command)' = Sections(command)
    BY <2>1 DEF Options, Sections
  <2>3. Mine' = Mine /\ \A s : Asked(s)' = Asked(s)
    BY <2>1, <2>2 DEF Mine, Asked
  <2>4. OptionsMerged' /\ ValuesLegal' /\ (stage.at = "file" => SectionsLeft')
    BY <2>1, <2>2 DEF SettingsInv, OptionsMerged, ValuesLegal, SectionsLeft
  <2>5. RefusedForCause'
    BY <2>1, <2>3 DEF SettingsInv, RefusedForCause
  <2> QED  BY <2>1, <2>4, <2>5 DEF SettingsInv
<1> QED  BY <1>1, <1>2

LEMMA SettingsAlways == SettingsSpec => []SettingsInv
<1>1. SettingsInit => SettingsInv
  BY SettingsInit_Inv
<1>2. SettingsInv /\ [SettingsNext]_svars => SettingsInv'
  BY SettingsStep
<1> QED  BY <1>1, <1>2, PTL DEF SettingsSpec

-----------------------------------------------------------------------------
(* The settings *)

\* applyConfig, the sections of applyRuntimeConfig and New: for every file
\* and command line, a process runs with the option that was asked for and
\* with legal settings, the bounds of the backoff in order although the file
\* may set only one of them.
THEOREM Configured == SettingsSpec => []RunsAsConfigured
<1>1. SettingsInv => RunsAsConfigured
  <2> SUFFICES ASSUME SettingsInv, stage.at = "running"
               PROVE  RunsAsConfigured
    BY DEF RunsAsConfigured
  <2>1. \A o \in Options(command) :
            options[o] = IF line[o] # Absent THEN line[o]
                         ELSE IF file[o] \in {Absent, ""} THEN Defaults[o] ELSE file[o]
    BY DEF SettingsInv, OptionsMerged
  <2>2. \A s \in Positive : vals[s] > 0
    <3>1. ASSUME NEW s \in Positive
          PROVE  vals[s] > 0
      <4>1. s \in Setting
        BY SectionsDisjoint
      <4>2. vals[s] \in Word /\ vals[s] >= 1
        BY <4>1 DEF SettingsInv, ValuesLegal, Least
      <4>3. vals[s] \in Int
        BY <4>2, Words
      <4> QED  BY <4>2, <4>3
    <3> QED  BY <3>1
  <2>3. vals["restart_backoff_base"] <= vals["restart_backoff_max"]
    BY DEF SettingsInv, ValuesLegal
  <2> QED  BY <2>1, <2>2, <2>3 DEF RunsAsConfigured
<1> QED  BY <1>1, SettingsAlways, PTL

\* A process that exits at startup was asked for a value that is illegal, for
\* a cap below the base, or for an unknown scheduler or store: since the
\* settings of a section are the built-in ones until it is read, comparing the
\* two bounds of the backoff in one section refuses nothing it should take.
THEOREM RefusedRightly == SettingsSpec => []RefusedForCause
<1>1. SettingsInv => RefusedForCause
  BY DEF SettingsInv
<1> QED  BY <1>1, SettingsAlways, PTL

-----------------------------------------------------------------------------
(* What is computed from the settings *)

\* A number that needs at most one bit more than the word has: it is kept, or
\* turns negative.
LEMMA Wrapped ==
    ASSUME NEW x \in Nat, x < Power2[Width]
    PROVE  Wrap(x) = IF x < Power2[Width - 1] THEN x ELSE x - Power2[Width]
<1> DEFINE H == Power2[Width - 1]
<1>1. H \in Nat /\ H > 0 /\ Power2[Width] = 2 * H
  BY Words
<1>2. Wrap(x) = ((x + H) % (2 * H)) - H
  BY <1>1 DEF Wrap
<1> HIDE DEF H
<1>3. CASE x < H
  <2>1. x + H \in Nat /\ x + H < 2 * H /\ 2 * H \in Nat
    BY <1>1, <1>3
  <2>2. (x + H) % (2 * H) = x + H
    BY <2>1
  <2> QED  BY <1>1, <1>2, <1>3, <2>2 DEF H
<1>4. CASE ~(x < H)
  <2> DEFINE K == 2 * H
  <2>1. K \in Nat /\ K > 0 /\ x + H \in Nat /\ x + H >= K /\ x + H < 2 * K
    BY <1>1, <1>4
  <2>2. (x + H) % K = (x + H) - K
    <3> HIDE DEF K
    <3> QED  BY <2>1
  <2> QED  BY <1>1, <1>2, <1>4, <2>2 DEF H
<1> QED  BY <1>3, <1>4

\* What the loop of restartBackoff has after each pass.
LEMMA Doubling ==
    ASSUME vals["restart_backoff_base"] \in Int
    PROVE  /\ doubled \in [Nat -> Int]
           /\ doubled[1] = vals["restart_backoff_base"]
           /\ \A i \in Nat : i > 0 =>
                  doubled[i + 1] = IF doubled[i] \in 0 .. vals["restart_backoff_max"] - 1
                                   THEN Wrap(2 * doubled[i]) ELSE doubled[i]
<1> DEFINE base == vals["restart_backoff_base"]
           cap == vals["restart_backoff_max"]
           pass(v) == IF v \in 0 .. cap - 1 THEN Wrap(2 * v) ELSE v
           h == [n \in Nat |-> [v \in Int |-> IF n <= 1 THEN base ELSE pass(v)]]
           Is(f) == f = [i \in Nat |-> IF i <= 1 THEN base
                                       ELSE IF f[i - 1] \in 0 .. cap - 1 THEN Wrap(2 * f[i - 1])
                                       ELSE f[i - 1]]
<1>1. ASSUME NEW v \in Int
      PROVE  pass(v) \in Int
  <2>1. Power2[Width - 1] \in Int /\ Power2[Width] \in Int /\ Power2[Width] > 0
    BY Words
  <2>2. ((2 * v + Power2[Width - 1]) % Power2[Width]) \in Int
    BY <2>1
  <2> QED  BY <2>1, <2>2 DEF Wrap
<1> HIDE DEF pass
<1>2. h \in [Nat -> [Int -> Int]]
  BY <1>1
<1>3. PICK f \in [Nat -> Int] : Continues(f, base, h)
  BY <1>2, RecursionExists
<1>4. ASSUME NEW n \in Nat, n # 0
      PROVE  h[n][f[n - 1]] = IF n <= 1 THEN base ELSE pass(f[n - 1])
  <2>1. n - 1 \in Nat
    BY <1>4
  <2>2. f[n - 1] \in Int
    BY <2>1
  <2> QED  BY <2>2
<1> HIDE DEF h
<1>5. f = [n \in Nat |-> IF n <= 1 THEN base ELSE pass(f[n - 1])]
  <2>1. f = [n \in Nat |-> IF n = 0 THEN base ELSE h[n][f[n - 1]]]
    BY <1>3 DEF Continues
  <2>2. \A n \in Nat : (IF n = 0 THEN base ELSE h[n][f[n - 1]])
                       = IF n <= 1 THEN base ELSE pass(f[n - 1])
    BY <1>4
  <2> QED  BY <2>1, <2>2
<1>6. Is(f)
  BY <1>5 DEF pass
<1>7. Is(CHOOSE g : Is(g))
  <2> HIDE DEF Is
  <2> QED  BY <1>6
<1>8. doubled = CHOOSE g : Is(g)
  BY DEF doubled
<1>9. Is(doubled)
  <2> HIDE DEF Is
  <2> QED  BY <1>7, <1>8
<1>10. doubled = [i \in Nat |-> IF i <= 1 THEN base ELSE pass(doubled[i - 1])]
  BY <1>9 DEF pass
<1>11. DOMAIN doubled = Nat /\ \A i \in Nat : doubled[i] = IF i <= 1 THEN base ELSE pass(doubled[i - 1])
  BY <1>10
<1> DEFINE S == {i \in Nat : doubled[i] \in Int}
<1>12. Nat \subseteq S
  <2>1. 0 \in S
    BY <1>11
  <2>2. \A i \in Nat : i \in S => i + 1 \in S
    <3>1. ASSUME NEW i \in Nat, doubled[i] \in Int
          PROVE  doubled[i + 1] \in Int
      <4>1. i + 1 \in Nat /\ (i + 1) - 1 = i
        OBVIOUS
      <4> QED  BY <4>1, <3>1, <1>1, <1>11
    <3> QED  BY <3>1
  <2> HIDE DEF S
  <2> QED  BY <2>1, <2>2, Induction
<1>13. doubled \in [Nat -> Int]
  BY <1>10, <1>12
<1>14. doubled[1] = base
  BY <1>11
<1>15. ASSUME NEW i \in Nat, i > 0
       PROVE  doubled[i + 1] = pass(doubled[i])
  <2>1. i + 1 \in Nat /\ (i + 1) - 1 = i /\ ~(i + 1 <= 1)
    BY <1>15
  <2> QED  BY <2>1, <1>11
<1> QED  BY <1>13, <1>14, <1>15 DEF pass

\* Below the cap the loop has base * 2^(i-1), from there on something that
\* is cut: the first product that does not fit the word is negative.
LEMMA DoublingExact ==
    ASSUME SettingsInv, NEW n \in Nat, n > 0
    PROVE  /\ vals["restart_backoff_base"] * Power2[n - 1] \in Nat
           /\ IF vals["restart_backoff_base"] * Power2[n - 1] < vals["restart_backoff_max"]
              THEN doubled[n] = vals["restart_backoff_base"] * Power2[n - 1]
              ELSE doubled[n] < 0 \/ doubled[n] >= vals["restart_backoff_max"]
<1> DEFINE base == vals["restart_backoff_base"]
           cap == vals["restart_backoff_max"]
           e(i) == base * Power2[i]
           Fits(i) == /\ e(i) \in Nat
                      /\ IF e(i) < cap THEN doubled[i + 1] = e(i)
                                       ELSE doubled[i + 1] < 0 \/ doubled[i + 1] >= cap
           S == {i \in Nat : Fits(i)}
<1>1. /\ base \in Nat /\ base > 0 /\ cap \in Nat /\ base <= cap
      /\ cap < Power2[Width - 1]
  <2>1. {"restart_backoff_base", "restart_backoff_max"} \subseteq Positive
    BY SectionsDisjoint
  <2>2. "restart_backoff_base" \in Setting /\ "restart_backoff_max" \in Setting
    BY SectionsDisjoint
  <2>3. base \in Word /\ cap \in Word /\ base >= 1 /\ base <= cap
    BY <2>1, <2>2 DEF SettingsInv, ValuesLegal, Least
  <2>4. base \in Int /\ cap \in Int
    BY <2>3, Words
  <2>5. cap < Power2[Width - 1]
    BY <2>3, <2>4, Words
  <2> QED  BY <2>3, <2>4, <2>5
<1> HIDE DEF base, cap
<1>2. /\ doubled \in [Nat -> Int] /\ doubled[1] = base
      /\ \A i \in Nat : i > 0 =>
             doubled[i + 1] = IF doubled[i] \in 0 .. cap - 1 THEN Wrap(2 * doubled[i]) ELSE doubled[i]
  BY <1>1, Doubling DEF base, cap
<1>3. 0 \in S
  <2>1. e(0) = base
    BY <1>1, Powers
  <2>2. doubled[0 + 1] = base
    BY <1>2
  <2> QED  BY <1>1, <2>1, <2>2
<1>4. ASSUME NEW i \in Nat, i \in S
      PROVE  i + 1 \in S
  <2>1. Power2[i] \in Nat /\ Power2[i + 1] = 2 * Power2[i]
    BY Powers
  <2>2. e(i + 1) = 2 * e(i)
    BY <1>1, <2>1
  <2>3. Fits(i)
    BY <1>4
  <2>4. e(i) \in Nat
    BY <2>3
  <2>5. doubled[(i + 1) + 1] = IF doubled[i + 1] \in 0 .. cap - 1 THEN Wrap(2 * doubled[i + 1])
                               ELSE doubled[i + 1]
    BY <1>2
  <2>6. doubled[i + 1] \in Int
    BY <1>2
  <2>7. Power2[Width] = 2 * Power2[Width - 1] /\ Power2[Width - 1] \in Nat
    BY Words
  <2>8. (e(i) < cap => doubled[i + 1] = e(i))
        /\ (~(e(i) < cap) => doubled[i + 1] < 0 \/ doubled[i + 1] >= cap)
    BY <2>3
  <2> HIDE DEF e
  <2>9. CASE e(i) < cap
    <3>1. doubled[i + 1] = e(i) /\ e(i) \in 0 .. cap - 1
      BY <2>4, <2>8, <2>9, <1>1
    <3>2. doubled[(i + 1) + 1] = Wrap(2 * e(i))
      BY <2>5, <3>1
    <3>3. 2 * e(i) \in Nat /\ 2 * e(i) < Power2[Width]
      BY <2>4, <2>7, <2>9, <1>1
    <3>4. Wrap(2 * e(i)) = IF 2 * e(i) < Power2[Width - 1] THEN 2 * e(i) ELSE 2 * e(i) - Power2[Width]
      BY <3>3, Wrapped
    <3>5. CASE 2 * e(i) < Power2[Width - 1]
      BY <3>2, <3>3, <3>4, <3>5, <2>2, <1>1
    <3>6. CASE ~(2 * e(i) < Power2[Width - 1])
      <4>1. 2 * e(i) - Power2[Width] < 0
        BY <3>3, <2>7
      <4>2. ~(2 * e(i) < cap)
        BY <3>3, <3>6, <2>7, <1>1
      <4> QED  BY <4>1, <4>2, <3>2, <3>3, <3>4, <3>6, <2>2
    <3> QED  BY <3>5, <3>6
  <2>10. CASE ~(e(i) < cap)
    <3>1. doubled[(i + 1) + 1] = doubled[i + 1]
      BY <2>5, <2>6, <2>8, <2>10, <1>1
    <3>2. ~(2 * e(i) < cap) /\ 2 * e(i) \in Nat
      BY <2>4, <2>10, <1>1
    <3> QED  BY <3>1, <3>2, <2>2, <2>8, <2>10
  <2> QED  BY <2>9, <2>10
<1>5. Nat \subseteq S
  <2> HIDE DEF S
  <2> QED  BY <1>3, <1>4, Induction
<1>6. n - 1 \in Nat /\ (n - 1) + 1 = n
  OBVIOUS
<1>7. Fits(n - 1)
  BY <1>5, <1>6
<1> QED  BY <1>6, <1>7 DEF base, cap

\* restartBackoff: in words of any width, for any legal base and cap and any
\* number of restarts, the wait is base * 2^(n-1) or the cap.
THEOREM BackoffIsExact == SettingsSpec => []BackoffExact
<1>1. SettingsInv => BackoffExact
  <2> SUFFICES ASSUME SettingsInv, NEW n \in 1 .. MaxCount
               PROVE  restartBackoff(n) =
                          IF vals["restart_backoff_base"] * Power2[n - 1] < vals["restart_backoff_max"]
                          THEN vals["restart_backoff_base"] * Power2[n - 1] ELSE vals["restart_backoff_max"]
    BY DEF BackoffExact
  <2> DEFINE cap == vals["restart_backoff_max"]
             exact == vals["restart_backoff_base"] * Power2[n - 1]
  <2>1. n \in Nat /\ n > 0
    BY SettingsAssumption
  <2>2. /\ exact \in Nat
        /\ exact < cap => doubled[n] = exact
        /\ ~(exact < cap) => doubled[n] < 0 \/ doubled[n] >= cap
    BY <2>1, DoublingExact
  <2>3. cap \in Int
    BY SectionsDisjoint, Words DEF SettingsInv, ValuesLegal
  <2>4. doubled[n] \in Int
    <3>1. vals["restart_backoff_base"] \in Int
      BY SectionsDisjoint, Words DEF SettingsInv, ValuesLegal
    <3> QED  BY <3>1, <2>1, Doubling
  <2>5. restartBackoff(n) = IF doubled[n] < 0 \/ doubled[n] > cap THEN cap ELSE doubled[n]
    BY DEF restartBackoff, Clamped
  <2> HIDE DEF cap, exact
  <2>6. restartBackoff(n) = IF exact < cap THEN exact ELSE cap
    BY <2>2, <2>3, <2>4, <2>5
  <2> QED  BY <2>6 DEF cap, exact
<1> QED  BY <1>1, SettingsAlways, PTL

\* HealthCheck.Normalized and the checker's ticker: no product of seconds
\* that fits the word is zero or negative, whatever a submission says.
THEOREM TickersRun == SettingsSpec => []TickersPositive
<1>1. SettingsInv => TickersPositive
  <2> SUFFICES ASSUME SettingsInv, NEW given \in -1 .. MaxCount, Normalized(given) * Second \in Word
               PROVE  Ticks(given) > 0
    BY DEF TickersPositive
  <2>1. given \in Int
    BY SettingsAssumption
  <2>2. vals["check_interval"] \in Int /\ vals["check_interval"] > 0
    <3>1. "check_interval" \in Positive /\ "check_interval" \in Setting
      BY DEF Positive, Setting
    <3>2. vals["check_interval"] \in Word /\ vals["check_interval"] >= 1
      BY <3>1 DEF SettingsInv, ValuesLegal, Least
    <3>3. vals["check_interval"] \in Int
      BY <3>2, Words
    <3> QED  BY <3>2, <3>3
  <2>3. Normalized(given) \in Int /\ Normalized(given) > 0
    BY <2>1, <2>2 DEF Normalized
  <2>4. Normalized(given) * Second \in Nat /\ Normalized(given) * Second > 0
    <3>1. ASSUME NEW x \in Nat, x > 0, NEW y \in Nat, y > 0
          PROVE  x * y \in Nat /\ x * y > 0
      BY <3>1
    <3> QED  BY <3>1, <2>3, SettingsAssumption
  <2>5. Normalized(given) * Second < Power2[Width - 1] /\ Power2[Width] = 2 * Power2[Width - 1]
        /\ Power2[Width - 1] \in Nat
    BY <2>4, Words
  <2>6. Wrap(Normalized(given) * Second) = Normalized(given) * Second
    BY <2>4, <2>5, Wrapped
  <2> QED  BY <2>4, <2>6 DEF Ticks
<1> QED  BY <1>1, SettingsAlways, PTL
=============================================================================

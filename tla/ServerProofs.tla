----------------------------- MODULE ServerProofs -----------------------------
(***************************************************************************)
(* Proofs about the process: no run is left out of the usage reports or    *)
(* reported twice, the windows of the reports fit together, and the files  *)
(* on disk are in the order in which a stop writes them, for any number of *)
(* sessions, kills, unreadable files, runs and failed reports.  At the end,*)
(* the machines that are run beside it: the graphs with their assistants   *)
(* over the starts, and the store.                                         *)
(***************************************************************************)
EXTENDS MCServer, TLAPS

\* A report in flight has a window of its own, which ends where the next
\* begins; no report is in flight while the loop sleeps.
WindowsInOrder ==
    /\ from <= clock
    /\ report.from <= report.to
    /\ ~Sending => report = NoReport

MInv == MeteringTypes /\ Reported /\ Windowed /\ WindowsInOrder

\* How far a start and a stop have come: a start that may still serve, and the
\* files that the stop under way has written.
Progress ==
    /\ phase \in {"imported", "opened", "waiting"} => session < MaxSessions /\ loop = "off"
    /\ \A f \in Files : file[f].by <= session
    /\ phase = "saving" => \A i \in 1..7 : i < next => file[Order[i]].by = session

ServerTypes ==
    /\ phase \in Phase
    /\ session \in 0..MaxSessions
    /\ file \in [Files -> [by : 0..MaxSessions, bad : BOOLEAN]]
    /\ next \in 0..Len(Order)
    /\ next > 0 <=> phase = "saving"
    /\ child \in BOOLEAN
    /\ deaths \in 0..MaxDeaths /\ polls \in 0..MaxPolls + 1
    /\ kills \in 0..MaxKills /\ spoils \in 0..MaxSpoils

SInv == ServerTypes /\ Progress /\ SavedInOrder

----------------------------------------------------------------------------
(* The usage reports.                                                      *)

LEMMA ForgetKeeps == ASSUME MInv, Forget PROVE MInv'
BY MeteringAssumption DEF MInv, MeteringTypes, Reported, Windowed, WindowsInOrder, Forget,
    Moments, Loop, Report, NoReport, Sending

LEMMA TickKeeps == ASSUME MInv, Tick PROVE MInv'
BY MeteringAssumption DEF MInv, MeteringTypes, Reported, Windowed, WindowsInOrder, Tick,
    Moments, Loop, Report, NoReport, Sending

LEMMA CountKeeps == ASSUME MInv, Count PROVE MInv'
<1>1. /\ counter \in Nat /\ accepted \in Nat /\ report.runs \in Nat /\ started \in Nat
      /\ clock \in Nat /\ from \in Nat
  BY MeteringAssumption DEF MInv, MeteringTypes, Report, Moments
<1>2. started' \in 0..MaxRuns /\ counter' \in 0..MaxRuns /\ Reported'
  BY <1>1, MeteringAssumption DEF MInv, MeteringTypes, Reported, Count
<1>3. clock \in from..clock
  BY <1>1 DEF MInv, WindowsInOrder
<1>4. /\ moments' = moments \cup {clock}
      /\ UNCHANGED <<clock, from, loop, report, upto>>
  BY DEF Count
<1>5. Windowed'
  BY <1>3, <1>4 DEF MInv, Windowed, Sending
<1>6. WindowsInOrder'
  BY <1>4 DEF MInv, WindowsInOrder, Sending
<1> QED BY <1>2, <1>5, <1>6 DEF MInv, MeteringTypes, Count, Moments

LEMMA SubmitKeeps == ASSUME MInv, Submit PROVE MInv'
<1> USE MeteringAssumption
<1>t. /\ counter \in Nat /\ accepted \in Nat /\ report.runs \in Nat /\ started \in Nat
      /\ clock \in Nat /\ from \in Nat /\ report.from \in Nat /\ report.to \in Nat
      /\ started <= MaxRuns /\ report.from \in Moments
      /\ moments \subseteq Moments /\ report.moments \subseteq Moments
  BY DEF MInv, MeteringTypes, Report, Moments
<1>1. CASE Collect
  <2>1. report' \in Report
    BY <1>1, <1>t DEF MInv, MeteringTypes, Collect, Report, Moments
  <2>2. Reported'
    BY <1>1, <1>t DEF MInv, Reported, Collect, WindowsInOrder, NoReport, Sending
  <2>3. Windowed' /\ WindowsInOrder'
    BY <1>1, <1>t DEF MInv, Windowed, WindowsInOrder, Collect, NoReport, Sending
  <2> QED BY <1>1, <2>1, <2>2, <2>3 DEF MInv, MeteringTypes, Collect, Moments, Loop
<1>2. CASE Accept
  <2>1. report' \in Report /\ accepted' \in 0..MaxRuns /\ Reported'
    BY <1>2, <1>t DEF MInv, MeteringTypes, Reported, Accept, Sleep, NoReport, Report, Moments
  <2>2. Windowed' /\ WindowsInOrder'
    BY <1>2, <1>t DEF MInv, Windowed, WindowsInOrder, Accept, Sleep, NoReport, Sending
  <2> QED BY <1>2, <1>t, <2>1, <2>2 DEF MInv, MeteringTypes, Accept, Sleep, Moments, Loop, Report
<1>3. CASE TryAgain
  BY <1>3 DEF MInv, MeteringTypes, Reported, Windowed, WindowsInOrder, TryAgain, Sending
<1>4. CASE PutBack
  <2>1. report' \in Report /\ counter' \in 0..MaxRuns /\ Reported'
    BY <1>4, <1>t DEF MInv, MeteringTypes, Reported, PutBack, Sleep, NoReport, Report, Moments
  <2>2. /\ report.to = from /\ upto = report.from
        /\ report.from <= from /\ from <= clock
        /\ moments \subseteq from..clock /\ report.moments \subseteq report.from..from
    BY <1>4, <1>t DEF MInv, Windowed, WindowsInOrder, PutBack
  <2>3. /\ moments' = moments \cup report.moments /\ from' = report.from
        /\ clock' = clock /\ upto' = upto /\ report' = NoReport /\ loop' = "asleep"
    BY <1>4 DEF PutBack, Sleep
  <2>4. moments' \subseteq from'..clock'
    <3> SUFFICES ASSUME NEW m \in moments' PROVE m \in from'..clock'
      OBVIOUS
    <3>1. CASE m \in moments
      BY <2>2, <2>3, <1>t, <3>1
    <3>2. CASE m \in report.moments
      BY <2>2, <2>3, <1>t, <3>2
    <3> QED BY <2>3, <3>1, <3>2
  <2>5. report'.moments = {} /\ report'.from = 0 /\ report'.to = 0
    BY <2>3 DEF NoReport
  <2>6. Windowed' /\ WindowsInOrder'
    BY <2>2, <2>3, <2>4, <2>5, <1>t DEF Windowed, WindowsInOrder, Sending
  <2>7. moments' \subseteq Moments /\ from' \in Moments
    BY <2>3, <1>t
  <2>8. /\ loop' \in Loop /\ tries' \in 0..MaxTries /\ started' = started
        /\ accepted' = accepted /\ clock' = clock /\ upto' = upto
    BY <1>4 DEF PutBack, Sleep, Loop
  <2> QED BY <2>1, <2>6, <2>7, <2>8 DEF MInv, MeteringTypes
<1> QED BY <1>1, <1>2, <1>3, <1>4 DEF Submit

LEMMA UnchangedKeeps == ASSUME MInv, UNCHANGED meter PROVE MInv'
BY DEF MInv, MeteringTypes, Reported, Windowed, WindowsInOrder, meter, Sending

\* A server that begins to serve wakes the loop, which has nothing in flight.
LEMMA WakeKeeps ==
    ASSUME MInv, loop = "off", loop' = "asleep",
           UNCHANGED <<clock, counter, from, moments, report, tries, started, accepted, upto>>
    PROVE  MInv'
BY DEF MInv, MeteringTypes, Reported, Windowed, WindowsInOrder, Sending, Loop

----------------------------------------------------------------------------
(* The files.                                                              *)

LEMMA Seven ==
    /\ Len(Order) = 7
    /\ \A i \in 1..7 : Order[i] \in Files
    /\ \A i, j \in 1..7 : i # j => Order[i] # Order[j]
BY DEF Order, Files

LEMMA NextTypes == ASSUME SInv PROVE next \in 0..7 /\ session \in Nat
BY Seven, ServerAssumption DEF SInv, ServerTypes

\* A step that writes no file.
LEMMA IdleKeeps ==
    ASSUME SInv, UNCHANGED <<session, file>>, SavedInOrder,
           phase' = "saving" => (phase = "saving" /\ UNCHANGED next) \/ next' = 1,
           phase' \in {"imported", "opened", "waiting"} => session < MaxSessions /\ loop' = "off"
    PROVE  SavedInOrder' /\ Progress'
<1>1. SavedInOrder'
  BY DEF SavedInOrder, Missing
<1>2. \A f \in Files : file'[f].by <= session'
  BY DEF SInv, Progress
<1>3. ASSUME phase' = "saving", NEW i \in 1..7, i < next'
      PROVE  file'[Order[i]].by = session'
  BY <1>3, NextTypes DEF SInv, Progress
<1> QED BY <1>1, <1>2, <1>3 DEF Progress

\* A file removed counts as the oldest, and what is removed first is excepted.
LEMMA DropKeeps == ASSUME SInv, DropTables PROVE SavedInOrder' /\ Progress'
<1> USE NextTypes, Seven
<1>1. \A f \in Files : file'[f] = IF f \in {"ops", "counter"} THEN Absent ELSE file[f]
  BY DEF DropTables, SInv, ServerTypes, Files
<1>2. \A f \in Files : file'[f].by <= session
  BY <1>1 DEF SInv, Progress, Absent
<1>3. ASSUME NEW i \in 1..7, NEW j \in 1..7, i < j,
             ~(Missing(Order[i])' /\ Order[i] \in {"ops", "counter"})
      PROVE  file'[Order[i]].by >= file'[Order[j]].by
  <2>1. Order[i] \notin {"ops", "counter"}
    BY <1>1, <1>3 DEF Missing, Absent
  <2>2. file'[Order[i]] = file[Order[i]]
    BY <1>1, <2>1
  <2>3. Order[j] \notin {"ops", "counter"}
    BY <1>3, <2>1 DEF Order
  <2>4. file'[Order[j]] = file[Order[j]]
    BY <1>1, <2>3
  <2> QED BY <1>3, <2>1, <2>2, <2>4 DEF SInv, SavedInOrder
<1>4. SavedInOrder'
  BY <1>3 DEF SavedInOrder
<1> QED BY <1>2, <1>4 DEF DropTables, SInv, Progress, meter

LEMMA SaveKeeps == ASSUME SInv, Save PROVE SavedInOrder' /\ Progress'
<1> USE NextTypes, Seven
<1>1. next \in 1..7 /\ session' = session /\ Order[next] \in Files
  BY DEF Save, SInv, ServerTypes
<1>2. \A f \in Files : file'[f] = IF f = Order[next] THEN [by |-> session, bad |-> FALSE]
                                  ELSE file[f]
  BY <1>1 DEF Save, SInv, ServerTypes
<1>3. \A f \in Files : file[f].by \in Nat /\ file[f].by <= session
  BY ServerAssumption DEF SInv, Progress, ServerTypes
<1>4. \A f \in Files : file'[f].by \in Nat /\ file'[f].by <= session
  BY <1>2, <1>3
<1>5. \A i \in 1..7 : i <= next => file'[Order[i]].by = session
  BY <1>1, <1>2 DEF Save, SInv, Progress
<1>6. ASSUME NEW i \in 1..7, NEW j \in 1..7, i < j,
             ~(Missing(Order[i])' /\ Order[i] \in {"ops", "counter"})
      PROVE  file'[Order[i]].by >= file'[Order[j]].by
  <2>1. CASE i <= next
    BY <1>4, <1>5, <2>1
  <2>2. CASE i > next
    <3>1. file'[Order[i]] = file[Order[i]] /\ file'[Order[j]] = file[Order[j]]
      BY <1>1, <1>2, <1>6, <2>2
    <3> QED BY <1>6, <3>1 DEF SInv, SavedInOrder, Missing
  <2> QED BY <1>1, <2>1, <2>2
<1>7. SavedInOrder'
  BY <1>6 DEF SavedInOrder
<1>8. phase' = "saving" => next' = next + 1
  BY <1>1 DEF Save, Leave
<1>9. phase' \notin {"imported", "opened", "waiting"}
  BY DEF Save, Leave
<1> QED BY <1>1, <1>4, <1>5, <1>7, <1>8, <1>9 DEF Progress

LEMMA SpoilKeeps ==
    ASSUME SInv, NEW f \in Files, Spoil(f) PROVE SavedInOrder' /\ Progress'
<1>1. \A g \in Files : file'[g].by = file[g].by
  BY DEF Spoil, SInv, ServerTypes
<1>2. session' = session /\ phase' = "down"
  BY DEF Spoil
<1> QED BY <1>1, <1>2, Seven DEF SInv, SavedInOrder, Missing, Progress

LEMMA ServeKeeps ==
    ASSUME SInv, Serve PROVE SavedInOrder' /\ Progress'
<1>1. file' = file /\ session' = session + 1 /\ phase' = "serving"
  BY DEF Serve
<1>2. \A g \in Files : file[g].by \in Nat
  BY ServerAssumption DEF SInv, ServerTypes
<1> QED BY <1>1, <1>2, NextTypes DEF SInv, SavedInOrder, Missing, Progress

----------------------------------------------------------------------------
(* The whole server.                                                       *)

IInv == MInv /\ SInv

File == [by : 0..MaxSessions, bad : BOOLEAN]

LEMMA Stored ==
    /\ Absent \in File
    /\ session \in 0..MaxSessions => [by |-> session, bad |-> FALSE] \in File
<1>1. FALSE \in BOOLEAN /\ 0 \in 0..MaxSessions
  BY ServerAssumption
<1> QED BY <1>1 DEF Absent, File

LEMMA LeaveTypes == Leave => phase' = "down" /\ next' = 0 /\ child' \in BOOLEAN
<1>1. FALSE \in BOOLEAN
  OBVIOUS
<1> QED BY <1>1, Zenon DEF Leave

LEMMA Start == Init => IInv
<1> SUFFICES ASSUME Init PROVE IInv
  OBVIOUS
<1>1. MInv
  BY MeteringAssumption DEF Init, MeteringInit, MInv, MeteringTypes, Reported, Windowed,
     WindowsInOrder, Moments, Loop, Report, NoReport, Sending
<1>2. \A f \in Files : file[f] = Absent
  BY DEF Init
<1>3. ServerTypes
  <2>1. child \in BOOLEAN
    BY Zenon DEF Init
  <2>2. file \in [Files -> File]
    BY Stored DEF Init
  <2> QED BY <2>1, <2>2, Seven, ServerAssumption DEF Init, ServerTypes, Phase, File
<1>4. Progress /\ SavedInOrder
  BY <1>2, Seven DEF Init, Progress, SavedInOrder, Absent
<1> QED BY <1>1, <1>3, <1>4 DEF IInv, SInv

LEMMA TypesStep == ASSUME SInv, Next PROVE ServerTypes'
<1> USE NextTypes, Seven, ServerAssumption DEF SInv, ServerTypes, Phase, disk, js, faults
<1>1. CASE Boot
  <2>1. CASE Import
    BY <2>1 DEF Import
  <2>2. CASE LoadTables
    BY <2>2 DEF LoadTables
  <2>3. CASE DropTables
    <3>1. file' \in [Files -> [by : 0..MaxSessions, bad : BOOLEAN]]
      BY <2>3, Stored DEF DropTables, File
    <3> QED BY <2>3, <3>1 DEF DropTables
  <2> QED BY <1>1, <2>1, <2>2, <2>3 DEF Boot
<1>2. CASE ServePython
  BY <1>2 DEF ServePython, Serve, Progress
<1>3. CASE StartChild
  BY <1>3 DEF StartChild
<1>4. CASE Answer
  BY <1>4 DEF Answer, Serve, Progress
<1>5. CASE PollFails
  BY <1>5, LeaveTypes DEF PollFails
<1>6. CASE ChildDies
  <2>1. deaths' \in 0..MaxDeaths
    BY <1>6 DEF ChildDies
  <2>2. CASE deaths < MaxDeaths
    BY <1>6, <2>1, <2>2 DEF ChildDies
  <2>3. CASE ~(deaths < MaxDeaths)
    BY <1>6, <2>1, <2>3, LeaveTypes DEF ChildDies
  <2> QED BY <2>2, <2>3
<1>7. CASE Usage \/ Time
  BY <1>7 DEF Usage, Time
<1>8. CASE Stop
  BY <1>8 DEF Stop
<1>9. CASE ExitEarly
  BY <1>9, LeaveTypes DEF ExitEarly
<1>10. CASE StopPool
  BY <1>10 DEF StopPool
<1>11. CASE Save
  <2>1. next \in 1..7 /\ session \in 0..MaxSessions
    BY <1>11 DEF Save
  <2>2. file' \in [Files -> [by : 0..MaxSessions, bad : BOOLEAN]]
    BY <1>11, <2>1, Stored DEF Save, File
  <2>3. CASE next < Len(Order)
    BY <1>11, <2>1, <2>2, <2>3 DEF Save
  <2>4. CASE ~(next < Len(Order))
    BY <1>11, <2>1, <2>2, <2>4, LeaveTypes DEF Save
  <2> QED BY <2>3, <2>4
<1>12. CASE SaveFails
  BY <1>12, LeaveTypes DEF SaveFails
<1>13. CASE Kill
  BY <1>13, LeaveTypes DEF Kill
<1>14. ASSUME NEW f \in Files, Spoil(f) PROVE ServerTypes'
  <2>1. file' \in [Files -> [by : 0..MaxSessions, bad : BOOLEAN]]
    BY <1>14 DEF Spoil
  <2> QED BY <1>14, <2>1 DEF Spoil
<1> QED BY <1>1, <1>2, <1>3, <1>4, <1>5, <1>6, <1>7, <1>8, <1>9, <1>10, <1>11, <1>12,
           <1>13, <1>14 DEF Next

LEMMA FilesStep == ASSUME SInv, Next PROVE SavedInOrder' /\ Progress'
<1> USE IdleKeeps DEF SInv, disk
<1>1. CASE Import
  BY <1>1 DEF Import, Forget
<1>2. CASE LoadTables
  BY <1>2 DEF LoadTables, meter, Progress
<1>3. CASE DropTables
  BY <1>3, DropKeeps
<1>4. CASE ServePython \/ Answer
  BY <1>4, ServeKeeps DEF ServePython, Answer
<1>5. CASE StartChild
  BY <1>5 DEF StartChild, meter, Progress
<1>6. CASE PollFails
  BY <1>6 DEF PollFails, Leave, meter, Progress
<1>7. CASE ChildDies
  BY <1>7 DEF ChildDies, Leave, meter, Progress
<1>8. CASE Usage
  BY <1>8 DEF Usage
<1>9. CASE Time
  BY <1>9 DEF Time, Tick, Progress
<1>10. CASE Stop
  BY <1>10 DEF Stop
<1>11. CASE ExitEarly
  BY <1>11 DEF ExitEarly, Leave
<1>12. CASE StopPool
  BY <1>12 DEF StopPool
<1>13. CASE Save
  BY <1>13, SaveKeeps
<1>14. CASE SaveFails
  BY <1>14 DEF SaveFails, Leave
<1>15. CASE Kill
  BY <1>15 DEF Kill, Leave
<1>16. ASSUME NEW f \in Files, Spoil(f) PROVE SavedInOrder' /\ Progress'
  BY <1>16, SpoilKeeps
<1> QED BY <1>1, <1>2, <1>3, <1>4, <1>5, <1>6, <1>7, <1>8, <1>9, <1>10, <1>11, <1>12,
           <1>13, <1>14, <1>15, <1>16 DEF Next, Boot

LEMMA MeterStep == ASSUME IInv, Next PROVE MInv'
<1> USE DEF IInv
<1>1. CASE Import \/ Stop
  BY <1>1, ForgetKeeps DEF Import, Stop
<1>2. CASE ServePython \/ Answer
  <2>1. loop = "off" /\ Serve
    BY <1>2 DEF ServePython, Answer, SInv, Progress
  <2> QED BY <2>1, WakeKeeps DEF Serve
<1>3. CASE Usage
  BY <1>3, CountKeeps, SubmitKeeps DEF Usage
<1>4. CASE Time
  BY <1>4, TickKeeps DEF Time
<1>5. CASE UNCHANGED meter
  BY <1>5, UnchangedKeeps
<1> QED
  BY <1>1, <1>2, <1>3, <1>4, <1>5 DEF Next, Boot, LoadTables, DropTables, StartChild, PollFails,
     ChildDies, ExitEarly, StopPool, Save, SaveFails, Kill, Spoil

LEMMA Step == IInv /\ [Next]_vars => IInv'
<1> SUFFICES ASSUME IInv, [Next]_vars PROVE IInv'
  OBVIOUS
<1>1. CASE Next
  BY <1>1, TypesStep, FilesStep, MeterStep DEF IInv, SInv
<1>2. CASE UNCHANGED vars
  <2>1. MInv'
    BY <1>2, UnchangedKeeps DEF IInv, vars
  <2>2. ServerTypes' /\ Progress' /\ SavedInOrder'
    BY <1>2 DEF IInv, SInv, ServerTypes, Progress, SavedInOrder, Missing, vars, disk, js,
       faults, meter
  <2> QED BY <2>1, <2>2 DEF IInv, SInv
<1> QED BY <1>1, <1>2

LEMMA Invariance == Spec => []IInv
  BY Start, Step, PTL DEF Spec

\* Every variable of the process keeps its type.
THEOREM TypeCorrect == Spec => []TypeOK
<1>1. IInv => TypeOK
  BY DEF IInv, MInv, SInv, ServerTypes, TypeOK
<1> QED BY <1>1, Invariance, PTL

\* Every run the process has counted is in exactly one place: in the counter, in
\* the report in flight or in one report that was accepted.
THEOREM NoRunUnreported == Spec => []Reported
<1>1. IInv => Reported
  BY DEF IInv, MInv
<1> QED BY <1>1, Invariance, PTL

\* Accepted reports leave no gap, do not overlap and cover their runs.
THEOREM WindowsFit == Spec => []Windowed
<1>1. IInv => Windowed
  BY DEF IInv, MInv
<1> QED BY <1>1, Invariance, PTL

\* A stop that was cut short leaves the tables newer than the store, and the
\* store newer than the checkpoints, never the other way round.
THEOREM FilesInOrder == Spec => []SavedInOrder
<1>1. IInv => SavedInOrder
  BY DEF IInv, SInv
<1> QED BY <1>1, Invariance, PTL

----------------------------------------------------------------------------
(* The graphs of the environment.                                          *)

RegistryTypes ==
    /\ progress \in {"down", "loading", "serving"} /\ touched \subseteq Graphs
    /\ env \in [Graphs -> R!Specs \cup {Nil}]
    /\ accepts \in [Graphs -> {Nil, "remote", "graph", "without config", "with config"}]
    /\ assistant \in [Graphs -> R!Assistants \cup {Nil}]
    /\ saved \in [Graphs -> R!Assistants \cup {Nil}]

\* The graphs of the environment are loaded one by one, and when all are the server
\* serves.
Loaded ==
    progress # "down" =>
        /\ \A g \in Graphs : env[g] = Nil => accepts[g] = Nil
        /\ \A g \in Graphs : accepts[g] # Nil => accepts[g] = R!Value(env[g])
        /\ progress = "serving" => \A g \in Graphs : env[g] # Nil => accepts[g] # Nil
        /\ progress = "loading" => touched = {}

\* Nothing but a client takes an assistant away from what it was when the server
\* stopped; one that was not there is made with its graph.
AsLeft ==
    progress # "down" =>
        \A g \in Graphs \ touched :
            assistant[g] = IF saved[g] # Nil THEN saved[g]
                           ELSE IF accepts[g] # Nil THEN R!System(g) ELSE Nil

RegistryInv == RegistryTypes /\ Loaded /\ AsLeft

LEMMA RegistryStart ==
    ASSUME R!RegistryAssumption, R!Init
    PROVE  RegistryInv
BY DEF R!RegistryAssumption, R!Init, R!None, RegistryInv, RegistryTypes, Loaded, AsLeft

LEMMA RegistryStep ==
    ASSUME R!RegistryAssumption, RegistryInv, [R!Next]_(R!vars)
    PROVE  RegistryInv'
<1> USE DEF R!RegistryAssumption, RegistryInv
<1>1. ASSUME R!Start PROVE RegistryInv'
  BY <1>1 DEF R!Start, R!None, RegistryTypes, Loaded, AsLeft
<1>2. ASSUME R!StartFails \/ R!Stop \/ R!Kill PROVE RegistryInv'
  BY <1>2 DEF R!StartFails, R!Stop, R!Kill, R!Down, R!None, RegistryTypes, Loaded, AsLeft
<1>3. ASSUME R!Serve PROVE RegistryInv'
  BY <1>3 DEF R!Serve, R!Left, R!Named, RegistryTypes, Loaded, AsLeft, R!System, R!Value
<1>4. ASSUME NEW g \in Graphs, R!Load(g) PROVE RegistryInv'
  BY <1>4, ZenonT(30) DEF R!Load, R!Register, R!Left, R!Named, R!System, R!Value, R!Assistants, R!Specs,
     RegistryTypes, Loaded, AsLeft
<1>5. ASSUME NEW g \in Graphs, NEW row \in R!Assistants \cup {Nil}, R!Changed(g, row)
      PROVE  RegistryInv'
  BY <1>5 DEF R!Changed, R!System, R!Value, RegistryTypes, Loaded, AsLeft
<1>6. ASSUME NEW g \in Graphs, NEW h \in Graphs, NEW c \in Settings,
             R!Create(g, h, c) \/ R!Patch(g, h, c)
      PROVE  RegistryInv'
  BY <1>5, <1>6 DEF R!Create, R!Patch, R!Assistants, RegistryTypes
<1>7. ASSUME NEW g \in Graphs, R!Delete(g) PROVE RegistryInv'
  BY <1>5, <1>7 DEF R!Delete
<1>8. ASSUME R!Truncate PROVE RegistryInv'
  BY <1>8 DEF R!Truncate, R!None, R!Value, RegistryTypes, Loaded, AsLeft
<1>9. CASE UNCHANGED R!vars
  BY <1>9 DEF R!vars, R!System, R!Value, RegistryTypes, Loaded, AsLeft
<1> QED BY <1>1, <1>2, <1>3, <1>4, <1>6, <1>7, <1>8, <1>9 DEF R!Next

LEMMA RegistryHolds == R!Spec => []R!ServesAsLeft
<1>1. R!Init => RegistryInv
  BY RegistryAssumed, RegistryStart
<1>2. RegistryInv /\ [R!Next]_(R!vars) => RegistryInv'
  BY RegistryAssumed, RegistryStep
<1>3. RegistryInv => R!ServesAsLeft
  BY RegistryAssumed
  DEF R!RegistryAssumption, RegistryInv, RegistryTypes, Loaded, AsLeft, R!ServesAsLeft
<1> QED BY <1>1, <1>2, <1>3, PTL DEF R!Spec

\* A server that serves has every graph it was started with, and each has an assistant
\* as it was left, for any number of graphs, starts, failures and changes by clients.
THEOREM GraphsServedAsLeft == MCSpec => []ServesAsLeft
<1>1. MCInit => R!Init
  BY DEF MCInit
<1>2. [MCNext]_allVars => [R!Next]_(R!vars)
  BY DEF MCNext, allVars, registry, R!vars
<1>3. MCSpec => R!Spec
  BY <1>1, <1>2, PTL DEF MCSpec, R!Spec
<1>4. R!ServesAsLeft => ServesAsLeft
  BY DEF ServesAsLeft
<1> QED BY <1>3, <1>4, RegistryHolds, PTL

----------------------------------------------------------------------------
(* The store.                                                              *)

CallTypes == [at : {"idle", "deciding", "queued", "done"},
              op : {"put", "get", "delete", "search"}, thread : Threads,
              place : I!Places, value : Values \cup {Nothing}]

ItemTypes ==
    /\ place \in {"down", "imported", "serving"}
    /\ store \in {1, 2} /\ memory \in [1..2 -> I!Contents]
    /\ batched \in [Threads -> 0..2]
    /\ written \in I!Contents /\ kept \in I!Contents
    /\ call \in [Calls -> CallTypes]

\* Every thread that has a store has the one there is, and who waits for a batch waits
\* for a thread that has one; nobody has before the store is made again.
OneStore ==
    /\ \A t \in Threads : batched[t] # 0 => place = "serving" /\ batched[t] = store
    /\ \A c \in Calls : call[c].at = "queued" => batched[call[c].thread] = store
    /\ \A c \in Calls : place # "serving" => call[c].at = "idle"

\* The one store, or the file while there is none, has what was kept.
Holds ==
    /\ place # "down" => memory[store] = kept
    /\ place # "serving" => written = kept

ItemsInv == ItemTypes /\ OneStore /\ Holds

LEMMA IdleCall ==
    ASSUME I!ItemsAssumption
    PROVE  I!Idle \in CallTypes /\ I!Idle.at = "idle"
<1>1. (CHOOSE t \in Threads : TRUE) \in Threads
  BY DEF I!ItemsAssumption
<1>2. \E p \in I!Places : TRUE
  <2>1. PICK n \in Namespaces, k \in Keys : TRUE
    BY DEF I!ItemsAssumption
  <2>2. <<n, k>> \in I!Places
    BY <2>1 DEF I!Places
  <2> QED BY <2>2
<1>3. (CHOOSE p \in I!Places : TRUE) \in I!Places
  BY <1>2
<1> QED BY <1>1, <1>3 DEF I!Idle, CallTypes

LEMMA ItemsStart ==
    ASSUME I!ItemsAssumption, I!Init
    PROVE  ItemsInv
BY IdleCall DEF I!Init, I!NoCalls, I!Empty, I!Contents, ItemsInv, ItemTypes, OneStore, Holds

\* Only one call moves on, and nothing else than what the threads have.
LEMMA CallMoves ==
    ASSUME I!ItemsAssumption, ItemsInv, place = "serving", NEW c \in Calls,
           NEW record \in CallTypes, I!Moves(c, record), I!Only,
           \/ record.at # "queued" /\ UNCHANGED batched
           \/ batched' = [batched EXCEPT ![record.thread] = IF @ = 0 THEN store ELSE @]
    PROVE  ItemsInv'
<1> USE DEF ItemsInv
<1>1. /\ call' \in [Calls -> CallTypes] /\ call'[c] = record
      /\ \A d \in Calls : d # c => call'[d] = call[d]
  BY DEF I!Moves, ItemTypes
<1>2. UNCHANGED <<place, opened, store, written, memory, kept>>
  BY DEF I!Only, I!process
<1>3. record.thread \in Threads /\ \A d \in Calls : call[d].thread \in Threads
  BY DEF ItemTypes, CallTypes
<1>4. /\ batched' \in [Threads -> 0..2]
      /\ \A t \in Threads : batched'[t] # 0 => batched'[t] = store
      /\ \A t \in Threads : batched[t] # 0 => batched'[t] = batched[t]
      /\ record.at = "queued" => batched'[record.thread] = store
  BY <1>3 DEF ItemTypes, OneStore
<1>5. store # 0
  BY DEF ItemTypes
<1>6. OneStore'
  BY <1>1, <1>2, <1>3, <1>4, <1>5 DEF OneStore
<1> QED BY <1>1, <1>2, <1>4, <1>6 DEF ItemTypes, Holds

\* The end of a process that leaves in the file what is kept.
LEMMA GoneKeeps ==
    ASSUME I!ItemsAssumption, ItemsInv, I!Gone,
           written' = kept', kept' \in I!Contents
    PROVE  ItemsInv'
BY IdleCall DEF I!Gone, I!NoCalls, I!Empty, I!Contents, ItemsInv, ItemTypes, OneStore, Holds

LEMMA BatchKeeps ==
    ASSUME I!ItemsAssumption, ItemsInv, NEW t \in Threads, NEW ws \in I!Writings,
           I!Batch(t, ws)
    PROVE  ItemsInv'
<1> USE DEF ItemsInv
<1>1. PICK q \in Calls : call[q].at = "queued" /\ call[q].thread = t /\ place = "serving"
  BY DEF I!Batch, I!Asked
<1>2. batched[t] = store
  BY <1>1 DEF OneStore
<1> DEFINE After(old) == [p \in I!Places |-> IF p \in DOMAIN ws THEN ws[p] ELSE old[p]]
<1>3. /\ memory' = [memory EXCEPT ![store] = After(memory[store])]
      /\ kept' = After(kept)
      /\ UNCHANGED <<place, opened, store, written, batched>>
  BY <1>2 DEF I!Batch, I!process
<1>4. \A p \in DOMAIN ws : ws[p] \in Values \cup {Nothing}
  BY DEF I!Writings
<1>5. memory[store] = kept /\ kept \in I!Contents
  BY <1>1 DEF Holds, ItemTypes
<1>6. After(kept) \in I!Contents
  BY <1>4, <1>5 DEF I!Contents
<1>7. /\ memory' \in [1..2 -> I!Contents] /\ memory'[store] = kept' /\ kept' \in I!Contents
  BY <1>3, <1>5, <1>6 DEF ItemTypes
<1>8. /\ call' \in [Calls -> CallTypes]
      /\ \A c \in Calls : /\ call'[c].thread = call[c].thread
                          /\ call'[c].at = "queued" => call[c].at = "queued"
                          /\ call[c].at = "idle" => call'[c].at = "idle"
  BY DEF I!Batch, I!Asked, ItemTypes, CallTypes
<1>9. OneStore'
  BY <1>1, <1>3, <1>8 DEF OneStore
<1> QED BY <1>1, <1>3, <1>7, <1>8, <1>9 DEF ItemTypes, Holds

LEMMA ItemsStep ==
    ASSUME I!ItemsAssumption, ItemsInv, [I!Next]_(I!vars)
    PROVE  ItemsInv'
<1> USE DEF ItemsInv
<1>1. ASSUME I!Import PROVE ItemsInv'
  BY <1>1 DEF I!Import, I!Empty, I!Contents, ItemTypes, OneStore, Holds
<1>2. ASSUME I!StartPlain PROVE ItemsInv'
  BY <1>2 DEF I!StartPlain, ItemTypes, OneStore, Holds
<1>3. ASSUME I!StartIndexed PROVE ItemsInv'
  <2>1. /\ memory[store] \in I!Contents /\ I!Empty \in I!Contents
        /\ \A t \in Threads : batched[t] = 0
        /\ \A c \in Calls : call[c].at = "idle"
    BY <1>3 DEF I!StartIndexed, I!Empty, I!Contents, ItemTypes, OneStore
  <2> QED BY <1>3, <2>1 DEF I!StartIndexed, ItemTypes, OneStore, Holds
<1>4. ASSUME I!StartFails \/ I!Stop \/ I!Kill PROVE ItemsInv'
  <2>1. I!Gone /\ written' = kept' /\ kept' \in I!Contents
    BY <1>4 DEF I!StartFails, I!Stop, I!Kill, ItemTypes, Holds
  <2> QED BY <2>1, GoneKeeps
<1>5. ASSUME NEW c \in Calls, NEW t \in Threads,
             NEW o \in {"put", "get", "delete", "search"},
             NEW p \in I!Places, NEW v \in Values \cup {Nothing}, I!Ask(c, t, o, p, v)
      PROVE  ItemsInv'
  <2> DEFINE record == [I!Idle EXCEPT !.at = "deciding", !.op = o, !.thread = t,
                                      !.place = p, !.value = v]
  <2>1. record \in CallTypes /\ record.at = "deciding"
    BY IdleCall DEF CallTypes
  <2>2. place = "serving" /\ I!Moves(c, record) /\ UNCHANGED batched /\ I!Only
    BY <1>5 DEF I!Ask, I!Asked
  <2> QED BY <2>1, <2>2, CallMoves
<1>6. ASSUME NEW c \in Calls, I!Refuse(c) \/ I!Leave(c) PROVE ItemsInv'
  <2>1. /\ place = "serving" /\ I!Moves(c, I!Idle) /\ UNCHANGED batched /\ I!Only
    BY <1>6 DEF I!Refuse, I!Leave, I!Asked
  <2> QED BY <2>1, IdleCall, CallMoves
<1>7. ASSUME NEW c \in Calls, NEW p \in I!Places, NEW v \in Values \cup {Nothing},
             place = "serving", I!Queue(c, p, v)
      PROVE  ItemsInv'
  <2> DEFINE record == [call[c] EXCEPT !.at = "queued", !.place = p, !.value = v]
  <2>1. record \in CallTypes /\ record.thread = call[c].thread
    BY DEF ItemTypes, CallTypes
  <2>2. /\ I!Moves(c, record) /\ I!Only
        /\ batched' = [batched EXCEPT ![record.thread] = IF @ = 0 THEN store ELSE @]
    BY <1>7, <2>1 DEF I!Queue
  <2> QED BY <1>7, <2>1, <2>2, CallMoves
<1>8. ASSUME NEW c \in Calls, I!GetItem(c) PROVE ItemsInv'
  <2>1. call[c].place \in I!Places
    BY DEF ItemTypes, CallTypes
  <2> QED BY <1>7, <1>8, <2>1 DEF I!GetItem, I!Asked
<1>9. ASSUME NEW c \in Calls, NEW p \in I!Places,
             \/ I!DeleteItem(c, p) \/ I!SearchItems(c, p)
             \/ \E v \in Values : I!PutItem(c, p, v)
      PROVE  ItemsInv'
  BY <1>7, <1>9 DEF I!DeleteItem, I!SearchItems, I!PutItem, I!Asked
<1>10. CASE UNCHANGED I!vars
  BY <1>10 DEF I!vars, I!process, ItemTypes, OneStore, Holds
<1> QED BY <1>1, <1>2, <1>3, <1>4, <1>5, <1>6, <1>8, <1>9, <1>10, BatchKeeps DEF I!Next

LEMMA ItemsHold == I!Spec => []I!ItemsKept
<1>1. I!Init => ItemsInv
  BY ItemsAssumed, ItemsStart
<1>2. ItemsInv /\ [I!Next]_(I!vars) => ItemsInv'
  BY ItemsAssumed, ItemsStep
<1>3. ItemsInv => I!ItemsKept
  BY DEF ItemsInv, OneStore, Holds, I!ItemsKept
<1> QED BY <1>1, <1>2, <1>3, PTL DEF I!Spec

\* Nothing that was written to the store is lost but by a kill, for any number of calls,
\* threads and starts with or without an index.
THEOREM NothingWrittenIsLost == MCSpec => []ItemsKept
<1>1. MCInit => I!Init
  BY DEF MCInit
<1>2. [MCNext]_allVars => [I!Next]_(I!vars)
  BY DEF MCNext, allVars, items, I!vars, I!process
<1>3. MCSpec => I!Spec
  BY <1>1, <1>2, PTL DEF MCSpec, I!Spec
<1>4. I!ItemsKept => ItemsKept
  BY DEF ItemsKept
<1> QED BY <1>3, <1>4, ItemsHold, PTL

=============================================================================

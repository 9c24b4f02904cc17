--------------------------- MODULE HarnessProofs ---------------------------
(***************************************************************************)
(* Proofs about Harness, for any number of runners and ports, any fixtures *)
(* and any deadline.  Types of the processes first; then PhaseInv, from    *)
(* which the order of stop() follows; with ExitedInv, that only failed     *)
(* fixtures leave a daemon behind; then VerdictInv, from which the meaning *)
(* of exit status 0 follows; and all the types (TypeCorrect).              *)
(***************************************************************************)
EXTENDS Harness, TLAPS, WellFoundedInduction

\* What ports and processes are named never coincides.
LEMMA Names ==
    /\ \A r \in Runner : Registry(r) # Nobody /\ Daemon(r) # Nobody
    /\ \A r, x \in Runner : Registry(r) # Daemon(x)
    /\ \A r, x \in Runner : Registry(r) = Registry(x) => r = x
    /\ \A r, x \in Runner : Daemon(r) = Daemon(x) => r = x
BY HarnessAssumption DEF Registry, Daemon

-----------------------------------------------------------------------------
(* Types of the processes.                                                 *)

LEMMA ReleasedType ==
    ASSUME NEW owner, ProcessTypeOK
    PROVE  Released(owner) \in [Port -> {Nobody} \cup ({"registry", "daemon"} \X Runner)]
BY DEF Released, ProcessTypeOK

\* Every variable of a process always has its type.
LEMMA ProcessTypes == Spec => []ProcessTypeOK
<1>1. Init => ProcessTypeOK
  BY DEF Init, ProcessTypeOK, Label
<1>2. ProcessTypeOK /\ [Next]_vars => ProcessTypeOK'
  <2> SUFFICES ASSUME ProcessTypeOK, [Next]_vars PROVE ProcessTypeOK'
    OBVIOUS
  <2>1. CASE UNCHANGED vars
    BY <2>1 DEF vars, ProcessTypeOK
  <2>2. ASSUME NEW r \in Runner, Main(r) \/ Bind(r) \/ Die(r) PROVE ProcessTypeOK'
    <3> USE DEF ProcessTypeOK, processVars, fixtureVars, Goto, Label
    <3>1. Registry(r) \in {"registry", "daemon"} \X Runner /\ Daemon(r) \in {"registry", "daemon"} \X Runner
      BY DEF Registry, Daemon
    <3>2. ASSUME NEW code \in {"success", "failure"}, Exit(r, code), UNCHANGED <<port, child, waited, started, fixtureVars>>
          PROVE  ProcessTypeOK'
      BY <3>2, ReleasedType DEF Exit
    <3>3. CASE Prepare(r)
      BY <3>3 DEF Prepare
    <3>4. CASE PrepareFails(r)
      BY <3>4, <3>2 DEF PrepareFails
    <3>5. CASE StartDaemon(r)
      <4>1. CASE FreePort(r)
        BY <4>1 DEF FreePort
      <4>2. CASE FreePortFails(r)
        BY <4>2 DEF FreePortFails, ReturnError
      <4>3. CASE StartRegistry(r)
        BY <4>3, <3>1 DEF StartRegistry
      <4>4. CASE StartRegistryFails(r)
        BY <4>4 DEF StartRegistryFails, ReturnError
      <4>5. CASE Spawn(r)
        BY <4>5 DEF Spawn
      <4>6. CASE SpawnFails(r)
        BY <4>6, ReleasedType DEF SpawnFails, ReturnError
      <4>7. CASE Healthy(r) \/ Unhealthy(r) \/ GiveUp(r)
        BY <4>7 DEF Healthy, Unhealthy, GiveUp
      <4>. QED BY <3>5, <4>1, <4>2, <4>3, <4>4, <4>5, <4>6, <4>7 DEF StartDaemon
    <3>6. CASE Stop(r)
      <4>1. CASE Kill(r) \/ Wait(r)
        BY <4>1 DEF Kill, Wait
      <4>2. CASE StopRegistry(r)
        BY <4>2, ReleasedType DEF StopRegistry, ReturnError
      <4>. QED BY <3>6, <4>1, <4>2 DEF Stop
    <3>7. CASE Fatal(r)
      BY <3>7, <3>2 DEF Fatal
    <3>8. CASE RunFixtures(r)
      <4>1. CASE StepMet(r) \/ StepNotMet(r)
        BY <4>1 DEF StepMet, StepNotMet
      <4>2. CASE ReportFailures(r)
        BY <4>2, <3>2 DEF ReportFailures
      <4>3. CASE ReportSuccess(r)
        BY <4>3 DEF ReportSuccess
      <4>. QED BY <3>8, <4>1, <4>2, <4>3 DEF RunFixtures
    <3>9. CASE Bind(r)
      BY <3>9, <3>1 DEF Bind
    <3>10. CASE Die(r)
      BY <3>10, ReleasedType DEF Die
    <3>. QED BY <2>2, <3>3, <3>4, <3>5, <3>6, <3>7, <3>8, <3>9, <3>10 DEF Main
  <2>. QED BY <2>1, <2>2 DEF Next
<1>. QED BY <1>1, <1>2, PTL DEF Spec

-----------------------------------------------------------------------------
(* The phases of a run.                                                    *)

\* PhaseInv for one runner.
LEMMA PhaseParts ==
    ASSUME NEW r \in Runner, PhaseInv
    PROVE  /\ pc[r] \in {"main", "port", "registry"} =>
                 child[r] = "none" /\ registry[r] = "none" /\ started[r] = "none"
           /\ pc[r] = "spawn" => child[r] = "none" /\ registry[r] = "up" /\ started[r] = "none"
           /\ pc[r] \in {"poll", "run", "kill"} =>
                 child[r] \in {"started", "serving", "exited"} /\ registry[r] = "up"
           /\ pc[r] = "wait" => child[r] \in {"killed", "exited"} /\ registry[r] = "up"
           /\ pc[r] = "close" => child[r] = "reaped" /\ registry[r] = "up"
           /\ pc[r] = "fatal" => child[r] \in {"none", "reaped"} /\ registry[r] # "up"
           /\ \A p \in Port : holder[p] = Registry(r) => registry[r] = "up"
           /\ \A p \in Port : holder[p] = Daemon(r) => child[r] \in {"serving", "killed"}
BY DEF PhaseInv, StartedInv, HolderInv

\* A port that is released was held by the owner; no other port changes.
LEMMA ReleasedHolder ==
    ASSUME NEW owner, NEW p \in Port, NEW x, x # Nobody, Released(owner)[p] = x
    PROVE  holder[p] = x /\ x # owner
BY DEF Released

\* One registry stops and leaves its port; the daemons stay as they are.
LEMMA HolderKept ==
    ASSUME HolderInv, NEW r \in Runner, child' = child,
           \A x \in Runner \ {r} : registry'[x] = registry[x],
           \A p \in Port, x \in Runner :
              /\ holder'[p] = Registry(x) => holder[p] = Registry(x) /\ x # r
              /\ holder'[p] = Daemon(x) => holder[p] = Daemon(x)
    PROVE  HolderInv'
BY DEF HolderInv, Registry, Daemon

\* One daemon leaves its port; the registries stay as they are.
LEMMA HolderKeptByOthers ==
    ASSUME HolderInv, NEW r \in Runner, registry' = registry,
           \A x \in Runner \ {r} : child'[x] = child[x],
           \A p \in Port, x \in Runner :
              /\ holder'[p] = Registry(x) => holder[p] = Registry(x)
              /\ holder'[p] = Daemon(x) => holder[p] = Daemon(x) /\ x # r
    PROVE  HolderInv'
BY DEF HolderInv, Registry, Daemon

\* The phases agree with the processes and the ports in every reachable state.
LEMMA Phases == Spec => []PhaseInv
<1>1. Init => PhaseInv
  BY Names DEF Init, PhaseInv, StartedInv, HolderInv
<1>2. ProcessTypeOK /\ PhaseInv /\ [Next]_vars => PhaseInv'
  <2> SUFFICES ASSUME ProcessTypeOK, PhaseInv, [Next]_vars PROVE PhaseInv'
    OBVIOUS
  <2>1. CASE UNCHANGED vars
    BY <2>1 DEF vars, PhaseInv, StartedInv, HolderInv, Registry, Daemon
  <2>2. ASSUME NEW r \in Runner, Main(r) \/ Bind(r) \/ Die(r) PROVE PhaseInv'
    <3> USE PhaseParts, Names DEF ProcessTypeOK, processVars, fixtureVars, Goto
    <3>1. ASSUME NEW code, Exit(r, code), UNCHANGED <<port, child, waited, started, fixtureVars>>
          PROVE  PhaseInv'
      <4>1. \A p \in Port, x \in Runner :
              /\ holder'[p] = Registry(x) => holder[p] = Registry(x) /\ x # r
              /\ holder'[p] = Daemon(x) => holder[p] = Daemon(x)
        BY <3>1, ReleasedHolder DEF Exit
      <4>2. StartedInv'
        BY <3>1, <4>1 DEF Exit, PhaseInv, StartedInv
      <4>3. child' = child /\ \A x \in Runner \ {r} : registry'[x] = registry[x]
        BY <3>1 DEF Exit
      <4>4. HolderInv'
        BY <4>1, <4>3, HolderKept DEF PhaseInv
      <4>. QED BY <4>2, <4>4 DEF PhaseInv
    <3>2. CASE Prepare(r)
      <4>1. UNCHANGED <<holder, registry, child, started>> /\ pc[r] = "main" /\ pc' = [pc EXCEPT ![r] = "port"]
        BY <3>2 DEF Prepare
      <4>. QED BY <4>1 DEF PhaseInv, StartedInv, HolderInv, Registry, Daemon
    <3>3. CASE PrepareFails(r)
      BY <3>3, <3>1 DEF PrepareFails
    <3>4. CASE StartDaemon(r)
      <4>1. CASE FreePort(r) \/ FreePortFails(r) \/ StartRegistryFails(r)
        BY <4>1 DEF FreePort, FreePortFails, StartRegistryFails, ReturnError, PhaseInv, StartedInv, HolderInv, Registry, Daemon
      <4>2. CASE StartRegistry(r)
        BY <4>2 DEF StartRegistry, PhaseInv, StartedInv, HolderInv, Registry, Daemon
      <4>3. CASE Spawn(r)
        BY <4>3 DEF Spawn, PhaseInv, StartedInv, HolderInv, Registry, Daemon
      <4>4. CASE SpawnFails(r)
        <5>1. \A p \in Port, x \in Runner :
                /\ holder'[p] = Registry(x) => holder[p] = Registry(x) /\ x # r
                /\ holder'[p] = Daemon(x) => holder[p] = Daemon(x)
          BY <4>4, ReleasedHolder DEF SpawnFails
        <5>2. StartedInv'
          BY <4>4, <5>1 DEF SpawnFails, ReturnError, PhaseInv, StartedInv
        <5>3. child' = child /\ \A x \in Runner \ {r} : registry'[x] = registry[x]
          BY <4>4 DEF SpawnFails
        <5>4. HolderInv'
          BY <5>1, <5>3, HolderKept DEF PhaseInv
        <5>. QED BY <5>2, <5>4 DEF PhaseInv
      <4>5. CASE Healthy(r) \/ Unhealthy(r) \/ GiveUp(r)
        BY <4>5 DEF Healthy, Unhealthy, GiveUp, PhaseInv, StartedInv, HolderInv, Registry, Daemon
      <4>. QED BY <3>4, <4>1, <4>2, <4>3, <4>4, <4>5 DEF StartDaemon
    <3>5. CASE Stop(r)
      <4>1. CASE Kill(r) \/ Wait(r)
        BY <4>1 DEF Kill, Wait, PhaseInv, StartedInv, HolderInv, Registry, Daemon
      <4>2. CASE StopRegistry(r)
        <5>1. \A p \in Port, x \in Runner :
                /\ holder'[p] = Registry(x) => holder[p] = Registry(x) /\ x # r
                /\ holder'[p] = Daemon(x) => holder[p] = Daemon(x)
          BY <4>2, ReleasedHolder DEF StopRegistry
        <5>2. StartedInv'
          BY <4>2, <5>1 DEF StopRegistry, ReturnError, PhaseInv, StartedInv
        <5>3. child' = child /\ \A x \in Runner \ {r} : registry'[x] = registry[x]
          BY <4>2 DEF StopRegistry
        <5>4. HolderInv'
          BY <5>1, <5>3, HolderKept DEF PhaseInv
        <5>. QED BY <5>2, <5>4 DEF PhaseInv
      <4>. QED BY <3>5, <4>1, <4>2 DEF Stop
    <3>6. CASE Fatal(r)
      BY <3>6, <3>1 DEF Fatal
    <3>7. CASE RunFixtures(r)
      <4>1. CASE StepMet(r) \/ StepNotMet(r)
        BY <4>1 DEF StepMet, StepNotMet, PhaseInv, StartedInv, HolderInv, Registry, Daemon
      <4>2. CASE ReportFailures(r)
        BY <4>2, <3>1 DEF ReportFailures
      <4>3. CASE ReportSuccess(r)
        BY <4>3 DEF ReportSuccess, PhaseInv, StartedInv, HolderInv, Registry, Daemon
      <4>. QED BY <3>7, <4>1, <4>2, <4>3 DEF RunFixtures
    <3>8. CASE Bind(r)
      BY <3>8 DEF Bind, PhaseInv, StartedInv, HolderInv, Registry, Daemon, Free
    <3>9. CASE Die(r)
      <4>1. \A p \in Port, x \in Runner :
              /\ holder'[p] = Registry(x) => holder[p] = Registry(x)
              /\ holder'[p] = Daemon(x) => holder[p] = Daemon(x) /\ x # r
        BY <3>9, ReleasedHolder DEF Die
      <4>2. StartedInv'
        BY <3>9, <4>1 DEF Die, Alive, PhaseInv, StartedInv
      <4>3. registry' = registry /\ \A x \in Runner \ {r} : child'[x] = child[x]
        BY <3>9 DEF Die
      <4>4. HolderInv'
        BY <4>1, <4>3, HolderKeptByOthers DEF PhaseInv
      <4>. QED BY <4>2, <4>4 DEF PhaseInv
    <3>. QED BY <2>2, <3>2, <3>3, <3>4, <3>5, <3>6, <3>7, <3>8, <3>9 DEF Main
  <2>. QED BY <2>1, <2>2 DEF Next
<1>. QED BY <1>1, <1>2, ProcessTypes, PTL DEF Spec

\* stop()'s order: as long as the runner's process lives, so does the registry of a
\* daemon that lives.
THEOREM StopOrder == Spec => []RegistryOutlivesDaemon
<1>1. ProcessTypeOK /\ PhaseInv => RegistryOutlivesDaemon
  BY DEF ProcessTypeOK, PhaseInv, StartedInv, RegistryOutlivesDaemon, Alive, Label
<1>. QED BY <1>1, ProcessTypes, Phases, PTL

-----------------------------------------------------------------------------
(* The fixtures' types.                                                    *)

FixtureTypeOK ==
    /\ result \in [Runner -> [Fixture -> Verdict]]
    /\ step \in [Runner -> Nat \ {0}]
    /\ DOMAIN verdicts = Runner

\* Only these steps touch the fixtures' variables.
LEMMA FixtureSteps ==
    ASSUME [Next]_vars
    PROVE  \/ UNCHANGED fixtureVars
           \/ \E r \in Runner : Prepare(r) \/ StepMet(r) \/ StepNotMet(r)
<1>1. CASE UNCHANGED vars
  BY <1>1 DEF vars, fixtureVars
<1>2. ASSUME NEW r \in Runner, Main(r) \/ Bind(r) \/ Die(r)
      PROVE  UNCHANGED fixtureVars \/ Prepare(r) \/ StepMet(r) \/ StepNotMet(r)
  <2> USE DEF fixtureVars
  <2>1. CASE StartDaemon(r)
    BY <2>1 DEF StartDaemon, FreePort, FreePortFails, StartRegistry, StartRegistryFails,
                Spawn, SpawnFails, Healthy, Unhealthy, GiveUp
  <2>2. CASE Stop(r)
    BY <2>2 DEF Stop, Kill, Wait, StopRegistry
  <2>3. CASE RunFixtures(r)
    BY <2>3 DEF RunFixtures, ReportFailures, ReportSuccess
  <2>4. CASE PrepareFails(r) \/ Fatal(r) \/ Bind(r) \/ Die(r)
    BY <2>4 DEF PrepareFails, Fatal, Bind, Die
  <2>. QED BY <1>2, <2>1, <2>2, <2>3, <2>4 DEF Main
<1>. QED BY <1>1, <1>2 DEF Next

\* Writing one entry of a table, even one that is not there, keeps its type.
LEMMA TableType ==
    ASSUME NEW R, NEW S, NEW T, NEW g \in [R -> [S -> T]], NEW r \in R, NEW f, NEW v \in T
    PROVE  [g EXCEPT ![r][f] = v] \in [R -> [S -> T]]
<1>1. [g[r] EXCEPT ![f] = v] \in [S -> T]
  OBVIOUS
<1>. QED BY <1>1

\* The types of the fixtures' variables.
LEMMA FixtureTypes == Spec => []FixtureTypeOK
<1>1. Init => FixtureTypeOK
  BY DEF Init, FixtureTypeOK, Verdict
<1>2. FixtureTypeOK /\ [Next]_vars => FixtureTypeOK'
  <2> SUFFICES ASSUME FixtureTypeOK, [Next]_vars PROVE FixtureTypeOK'
    OBVIOUS
  <2>1. CASE UNCHANGED fixtureVars
    BY <2>1 DEF fixtureVars, FixtureTypeOK
  <2>2. ASSUME NEW r \in Runner, Prepare(r) PROVE FixtureTypeOK'
    <3>1. PICK only : result' = [result EXCEPT ![r] =
                        [f \in Fixture |-> IF f \in Selected(only) THEN "pending" ELSE "skipped"]]
      BY <2>2 DEF Prepare
    <3>2. [f \in Fixture |-> IF f \in Selected(only) THEN "pending" ELSE "skipped"] \in [Fixture -> Verdict]
      BY DEF Verdict
    <3>3. result' \in [Runner -> [Fixture -> Verdict]]
      BY <3>1, <3>2 DEF FixtureTypeOK
    <3>4. step' = [step EXCEPT ![r] = 1] /\ UNCHANGED verdicts
      BY <2>2 DEF Prepare
    <3>. QED BY <3>3, <3>4 DEF FixtureTypeOK
  <2>3. ASSUME NEW r \in Runner, StepMet(r) PROVE FixtureTypeOK'
    <3>1. result' \in [Runner -> [Fixture -> Verdict]]
      <4>1. result' = result \/ result' = [result EXCEPT ![r][Current(r)] = "pass"]
        BY <2>3 DEF StepMet
      <4>2. "pass" \in Verdict /\ result \in [Runner -> [Fixture -> Verdict]]
        BY DEF Verdict, FixtureTypeOK
      <4>3. CASE result' = result
        BY <4>2, <4>3
      <4>4. CASE result' = [result EXCEPT ![r][Current(r)] = "pass"]
        BY <4>2, <4>4, TableType, Zenon
      <4>. QED BY <4>1, <4>3, <4>4
    <3>2. step' \in [Runner -> Nat \ {0}]
      <4>1. step' = [step EXCEPT ![r] = 1] \/ step' = [step EXCEPT ![r] = step[r] + 1]
        BY <2>3 DEF StepMet
      <4>. QED BY <4>1 DEF FixtureTypeOK
    <3>3. DOMAIN verdicts' = Runner
      BY <2>3 DEF StepMet, FixtureTypeOK
    <3>. QED BY <3>1, <3>2, <3>3 DEF FixtureTypeOK
  <2>4. ASSUME NEW r \in Runner, StepNotMet(r) PROVE FixtureTypeOK'
    <3>1. result' \in [Runner -> [Fixture -> Verdict]]
      <4>1. result' = [result EXCEPT ![r][Current(r)] = "fail"]
        BY <2>4 DEF StepNotMet
      <4>2. "fail" \in Verdict /\ result \in [Runner -> [Fixture -> Verdict]]
        BY DEF Verdict, FixtureTypeOK
      <4>. QED BY <4>1, <4>2, TableType, Zenon
    <3>2. step' \in [Runner -> Nat \ {0}] /\ DOMAIN verdicts' = Runner
      BY <2>4 DEF StepNotMet, FixtureTypeOK
    <3>. QED BY <3>1, <3>2 DEF FixtureTypeOK
  <2>. QED BY <2>1, <2>2, <2>3, <2>4, FixtureSteps
<1>. QED BY <1>1, <1>2, PTL DEF Spec

-----------------------------------------------------------------------------
(* How main ends.                                                          *)

\* A runner's step leaves the other runners where they were.
LEMMA OthersStay ==
    ASSUME ProcessTypeOK, FixtureTypeOK, NEW r \in Runner, Main(r) \/ Bind(r) \/ Die(r),
           NEW x \in Runner, x # r
    PROVE  pc'[x] = pc[x] /\ child'[x] = child[x] /\ registry'[x] = registry[x] /\ result'[x] = result[x]
<1> USE DEF processVars, fixtureVars, Goto, ReturnError
<1>1. pc \in [Runner -> Label] /\ child \in [Runner -> {"none", "started", "serving", "killed", "exited", "reaped"}]
      /\ registry \in [Runner -> {"none", "up", "stopped"}] /\ result \in [Runner -> [Fixture -> Verdict]]
  BY DEF ProcessTypeOK, FixtureTypeOK
<1>2. ASSUME NEW code, Exit(r, code), UNCHANGED <<port, child, waited, started, fixtureVars>>
      PROVE  pc'[x] = pc[x] /\ child'[x] = child[x] /\ registry'[x] = registry[x] /\ result'[x] = result[x]
  BY <1>1, <1>2 DEF Exit
<1>3. CASE Prepare(r)
  BY <1>1, <1>3 DEF Prepare
<1>4. CASE PrepareFails(r) \/ Fatal(r) \/ ReportFailures(r)
  BY <1>2, <1>4 DEF PrepareFails, Fatal, ReportFailures
<1>5. CASE StartDaemon(r)
  <2>1. CASE FreePort(r) \/ FreePortFails(r) \/ StartRegistry(r) \/ StartRegistryFails(r)
    BY <1>1, <2>1 DEF FreePort, FreePortFails, StartRegistry, StartRegistryFails
  <2>2. CASE Spawn(r) \/ SpawnFails(r)
    BY <1>1, <2>2 DEF Spawn, SpawnFails
  <2>3. CASE Healthy(r) \/ Unhealthy(r) \/ GiveUp(r)
    BY <1>1, <2>3 DEF Healthy, Unhealthy, GiveUp
  <2>. QED BY <1>5, <2>1, <2>2, <2>3 DEF StartDaemon
<1>6. CASE Stop(r)
  <2>1. CASE Kill(r) \/ Wait(r)
    BY <1>1, <2>1 DEF Kill, Wait
  <2>2. CASE StopRegistry(r)
    BY <1>1, <2>2 DEF StopRegistry
  <2>. QED BY <1>6, <2>1, <2>2 DEF Stop
<1>7. CASE StepNotMet(r)
  <2>1. \E f : result' = [result EXCEPT ![r][f] = "fail"]
    BY <1>7 DEF StepNotMet
  <2>2. UNCHANGED <<pc, child, registry>>
    BY <1>7 DEF StepNotMet
  <2>. QED BY <1>1, <2>1, <2>2
<1>8. CASE StepMet(r)
  <2>1. (\E f : result' = [result EXCEPT ![r][f] = "pass"]) \/ UNCHANGED result
    BY <1>8 DEF StepMet
  <2>2. UNCHANGED <<pc, child, registry>>
    BY <1>8 DEF StepMet
  <2>. QED BY <1>1, <2>1, <2>2
<1>9. CASE ReportSuccess(r)
  BY <1>1, <1>9 DEF ReportSuccess
<1>10. CASE Bind(r) \/ Die(r)
  BY <1>1, <1>10 DEF Bind, Die
<1>. QED BY <1>3, <1>4, <1>5, <1>6, <1>7, <1>8, <1>9, <1>10 DEF Main, RunFixtures

\* ExitedInv for one runner.
ExitedBy(r) ==
    pc[r] = "exited" => registry[r] # "up" /\ (Failed(r) = {} => child[r] \in {"none", "reaped"})

\* A runner that has not ended ends with no child, with a child it waited for, or
\* after failed fixtures; one that ended and left no child has none that moves.
LEMMA EndsClean ==
    ASSUME ProcessTypeOK, PhaseInv, NEW r \in Runner, ExitedBy(r), Main(r) \/ Bind(r) \/ Die(r)
    PROVE  ExitedBy(r)'
<1> USE PhaseParts DEF processVars, fixtureVars, Goto
<1>1. ASSUME NEW code, Exit(r, code), UNCHANGED <<port, child, waited, started, fixtureVars>>,
             child[r] \in {"none", "reaped"} \/ Failed(r) # {}
      PROVE  ExitedBy(r)'
  <2>1. Failed(r)' = Failed(r)
    BY <1>1 DEF Failed
  <2>2. child' = child /\ registry'[r] # "up"
    BY <1>1 DEF Exit, ProcessTypeOK
  <2>. QED BY <1>1, <2>1, <2>2 DEF ExitedBy
<1>2. CASE Prepare(r)
  BY <1>2 DEF Prepare, ExitedBy, ProcessTypeOK
<1>3. CASE PrepareFails(r) \/ Fatal(r) \/ ReportFailures(r)
  BY <1>1, <1>3 DEF PrepareFails, Fatal, ReportFailures
<1>4. CASE StartDaemon(r)
  <2>1. CASE FreePort(r) \/ StartRegistry(r) \/ Spawn(r) \/ Healthy(r) \/ GiveUp(r)
    BY <2>1 DEF FreePort, StartRegistry, Spawn, Healthy, GiveUp, ExitedBy, ProcessTypeOK
  <2>2. CASE FreePortFails(r) \/ StartRegistryFails(r) \/ SpawnFails(r)
    BY <2>2 DEF FreePortFails, StartRegistryFails, SpawnFails, ReturnError, ExitedBy, ProcessTypeOK
  <2>3. CASE Unhealthy(r)
    BY <2>3 DEF Unhealthy, ExitedBy
  <2>. QED BY <1>4, <2>1, <2>2, <2>3 DEF StartDaemon
<1>5. CASE Kill(r) \/ Wait(r)
  BY <1>5 DEF Kill, Wait, ExitedBy, ProcessTypeOK
<1>6. CASE StopRegistry(r)
  <2>1. child[r] = "reaped" /\ UNCHANGED child
    BY <1>6 DEF StopRegistry
  <2>2. registry'[r] = "stopped"
    BY <1>6 DEF StopRegistry, ProcessTypeOK
  <2>. QED BY <2>1, <2>2 DEF ExitedBy
<1>7. CASE StepMet(r) \/ StepNotMet(r)
  <2>1. UNCHANGED pc /\ pc[r] = "run"
    BY <1>7 DEF StepMet, StepNotMet
  <2>. QED BY <2>1 DEF ExitedBy
<1>8. CASE ReportSuccess(r)
  BY <1>8 DEF ReportSuccess, ExitedBy, ProcessTypeOK
<1>9. CASE Bind(r) \/ Die(r)
  <2>1. UNCHANGED <<pc, registry, result>> /\ child[r] \notin {"none", "reaped"}
    BY <1>9 DEF Bind, Die, Alive
  <2>2. Failed(r)' = Failed(r)
    BY <2>1 DEF Failed
  <2>. QED BY <2>1, <2>2 DEF ExitedBy
<1>. QED BY <1>2, <1>3, <1>4, <1>5, <1>6, <1>7, <1>8, <1>9 DEF Main, Stop, RunFixtures

\* What has ended stays as it ended.
LEMMA Exits == Spec => []ExitedInv
<1>1. Init => ExitedInv
  BY DEF Init, ExitedInv
<1>2. ProcessTypeOK /\ PhaseInv /\ FixtureTypeOK /\ ExitedInv /\ [Next]_vars => ExitedInv'
  <2> SUFFICES ASSUME ProcessTypeOK, PhaseInv, FixtureTypeOK, ExitedInv, [Next]_vars, NEW x \in Runner
               PROVE  ExitedBy(x)'
    BY DEF ExitedInv, ExitedBy
  <2>1. ExitedBy(x)
    BY DEF ExitedInv, ExitedBy
  <2>2. CASE UNCHANGED vars
    BY <2>1, <2>2 DEF vars, ExitedBy, Failed
  <2>3. ASSUME NEW r \in Runner, Main(r) \/ Bind(r) \/ Die(r) PROVE ExitedBy(x)'
    <3>1. CASE x = r
      BY <2>1, <2>3, <3>1, EndsClean
    <3>2. CASE x # r
      <4>1. pc'[x] = pc[x] /\ child'[x] = child[x] /\ registry'[x] = registry[x] /\ result'[x] = result[x]
        BY <2>3, <3>2, OthersStay
      <4>2. Failed(x)' = Failed(x)
        BY <4>1 DEF Failed
      <4>. QED BY <2>1, <4>1, <4>2 DEF ExitedBy
    <3>. QED BY <3>1, <3>2
  <2>. QED BY <2>2, <2>3 DEF Next
<1>. QED BY <1>1, <1>2, ProcessTypes, Phases, FixtureTypes, PTL DEF Spec

\* Every error path of StartDaemon (daemon.go:54-98), and every end of main but
\* os.Exit(1) after a failed fixture, leaves no process, no listener and no port.
THEOREM CleanUnlessFailed == Spec => []OnlyFailedFixturesLeak
<1>1. PhaseInv /\ ExitedInv => OnlyFailedFixturesLeak
  <2> SUFFICES ASSUME PhaseInv, ExitedInv, NEW r \in Runner,
                      pc[r] = "fatal" \/ (pc[r] = "exited" /\ Failed(r) = {})
               PROVE  /\ child[r] \in {"none", "reaped"} /\ registry[r] # "up"
                      /\ \A p \in Port : holder[p] \notin {Registry(r), Daemon(r)}
    BY DEF OnlyFailedFixturesLeak
  <2>1. child[r] \in {"none", "reaped"} /\ registry[r] # "up"
    BY PhaseParts DEF ExitedInv
  <2>. QED BY <2>1, PhaseParts
<1>. QED BY <1>1, Phases, Exits, PTL

-----------------------------------------------------------------------------
(* What a runner has heard.                                                *)

\* A step that is met was heard, or was a denial; what was heard stays heard.
LEMMA MetIsHeard ==
    ASSUME FixtureTypeOK, NEW r \in Runner, StepMet(r)
    PROVE  /\ \A f, i : f = Current(r) /\ i = step[r] => StepHeard(r, f, i)'
           /\ \A x \in Runner : \A f, i : StepHeard(x, f, i) => StepHeard(x, f, i)'
<1>1. PICK by \in Answerers(r), accepted \in BOOLEAN :
         /\ Met(Script[Current(r)][step[r]], by, accepted)
         /\ verdicts' = [verdicts EXCEPT ![r] = @ \cup {<<Current(r), step[r], by>>}]
  BY DEF StepMet
<1>2. verdicts[r] \cup {<<Current(r), step[r], by>>} = verdicts'[r] /\ \A x \in Runner : verdicts[x] \subseteq verdicts'[x]
  BY <1>1 DEF FixtureTypeOK
<1>3. by \in Runner \cup {Nobody} /\ (by = Nobody => Script[Current(r)][step[r]] = "deny")
  BY <1>1 DEF Answerers, Listening, Met
<1>. QED BY <1>2, <1>3 DEF StepHeard

\* HeardInv for one runner.
HeardBy(r) ==
    /\ \A f \in Fixture : result[r][f] = "pass" => \A i \in DOMAIN Script[f] : StepHeard(r, f, i)
    /\ Pending(r) # {} => \A i \in 1 .. step[r] - 1 : StepHeard(r, Current(r), i)

LEMMA HeardParts == HeardInv <=> \A r \in Runner : HeardBy(r)
BY DEF HeardInv, HeardBy

\* A runner's part only depends on its own fixtures.
LEMMA HeardKept ==
    ASSUME NEW x \in Runner, HeardBy(x), result'[x] = result[x], step'[x] = step[x],
           \A f, i : StepHeard(x, f, i) => StepHeard(x, f, i)'
    PROVE  HeardBy(x)'
<1>1. Pending(x)' = Pending(x) /\ Current(x)' = Current(x)
  BY DEF Pending, Current
<1>. QED BY <1>1 DEF HeardBy

\* Verdicts are recorded for every step a runner has left behind.
LEMMA VerdictsHeard == Spec => []HeardInv
<1>1. Init => HeardInv
  <2> SUFFICES ASSUME Init, NEW r \in Runner PROVE HeardBy(r)
    BY HeardParts
  <2>1. \A f \in Fixture : result[r][f] = "skipped"
    BY DEF Init
  <2>2. Pending(r) = {}
    BY <2>1 DEF Pending
  <2>. QED BY <2>1, <2>2 DEF HeardBy
<1>2. FixtureTypeOK /\ HeardInv /\ [Next]_vars => HeardInv'
  <2> SUFFICES ASSUME FixtureTypeOK, HeardInv, [Next]_vars, NEW x \in Runner PROVE HeardBy(x)'
    BY DEF HeardInv, HeardBy
  <2> HeardBy(x)
    BY HeardParts
  <2>1. CASE UNCHANGED fixtureVars
    BY <2>1, HeardKept DEF fixtureVars, StepHeard
  <2>2. ASSUME NEW r \in Runner, Prepare(r) \/ StepNotMet(r) PROVE HeardBy(x)'
    <3>1. \A f, i : StepHeard(x, f, i)' <=> StepHeard(x, f, i)
      BY <2>2 DEF Prepare, StepNotMet, StepHeard
    <3>2. CASE x = r
      <4>1. step'[x] = 1
        BY <2>2, <3>2 DEF Prepare, StepNotMet, FixtureTypeOK
      <4>2. ASSUME NEW f \in Fixture, result'[x][f] = "pass" PROVE result[x][f] = "pass"
        <5>1. CASE Prepare(r)
          BY <3>2, <4>2, <5>1 DEF Prepare, FixtureTypeOK
        <5>2. CASE StepNotMet(r)
          BY <3>2, <4>2, <5>2 DEF StepNotMet, FixtureTypeOK
        <5>. QED BY <2>2, <5>1, <5>2
      <4>. QED BY <3>1, <4>1, <4>2 DEF HeardBy
    <3>3. CASE x # r
      <4>1. result'[x] = result[x] /\ step'[x] = step[x]
        BY <2>2, <3>3 DEF Prepare, StepNotMet, FixtureTypeOK
      <4>. QED BY <3>1, <4>1, HeardKept
    <3>. QED BY <3>2, <3>3
  <2>3. ASSUME NEW r \in Runner, StepMet(r) PROVE HeardBy(x)'
    <3>1. \A f, i : StepHeard(x, f, i) => StepHeard(x, f, i)'
      BY <2>3, MetIsHeard
    <3>2. CASE x # r
      <4>1. result'[x] = result[x] /\ step'[x] = step[x]
        BY <2>3, <3>2 DEF StepMet, FixtureTypeOK
      <4>. QED BY <3>1, <4>1, HeardKept
    <3>3. CASE x = r
      <4>0. PICK f : f = Current(x)
        OBVIOUS
      <4>1. \A i \in 1 .. step[x] : StepHeard(x, f, i)'
        <5>1. Pending(x) # {} /\ step[x] \in Nat \ {0}
          BY <2>3, <3>3 DEF StepMet, FixtureTypeOK
        <5>2. \A i \in 1 .. step[x] - 1 : StepHeard(x, f, i)'
          BY <3>1, <4>0, <5>1 DEF HeardBy
        <5>3. \A i : i = step[x] => StepHeard(x, f, i)'
          BY <2>3, <3>3, <4>0, MetIsHeard
        <5>. QED BY <5>1, <5>2, <5>3
      <4>2. CASE step[x] = Len(Script[f])
        <5>1. result' = [result EXCEPT ![x][f] = "pass"] /\ step'[x] = 1
          BY <2>3, <3>3, <4>0, <4>2 DEF StepMet, FixtureTypeOK
        <5>2. ASSUME NEW g \in Fixture, result'[x][g] = "pass", NEW i \in DOMAIN Script[g]
              PROVE  StepHeard(x, g, i)'
          <6>1. CASE g = f
            <7>1. i \in 1 .. step[x]
              BY <4>2, <5>2, <6>1, HarnessAssumption DEF Fixture
            <7>. QED BY <4>1, <6>1, <7>1
          <6>2. CASE g # f
            <7>1. result[x][g] = "pass"
              BY <5>1, <5>2, <6>2 DEF FixtureTypeOK
            <7>. QED BY <3>1, <5>2, <7>1 DEF HeardBy
          <6>. QED BY <6>1, <6>2
        <5>. QED BY <5>1, <5>2 DEF HeardBy
      <4>3. CASE step[x] # Len(Script[f])
        <5>1. result' = result /\ step'[x] = step[x] + 1
          BY <2>3, <3>3, <4>0, <4>3 DEF StepMet, FixtureTypeOK
        <5>2. Pending(x)' = Pending(x) /\ Current(x)' = Current(x)
          BY <5>1 DEF Pending, Current
        <5>. QED BY <3>1, <4>0, <4>1, <5>1, <5>2 DEF HeardBy, FixtureTypeOK
      <4>. QED BY <4>2, <4>3
    <3>. QED BY <3>2, <3>3
  <2>. QED BY <2>1, <2>2, <2>3, FixtureSteps
<1>. QED BY <1>1, <1>2, FixtureTypes, PTL DEF Spec

\* A run that cleans up after its fixtures has none left, and none that failed.
LEMMA Ends == Spec => []EndInv
<1>1. Init => EndInv
  BY DEF Init, EndInv, Done
<1>2. ProcessTypeOK /\ PhaseInv /\ FixtureTypeOK /\ EndInv /\ [Next]_vars => EndInv'
  <2> SUFFICES ASSUME ProcessTypeOK, PhaseInv, FixtureTypeOK, EndInv, [Next]_vars PROVE EndInv'
    OBVIOUS
  <2>1. CASE UNCHANGED vars
    BY <2>1 DEF vars, EndInv, Done, Pending, Failed
  <2>2. ASSUME NEW r \in Runner, Main(r) \/ Bind(r) \/ Die(r) PROVE EndInv'
    <3> USE DEF ProcessTypeOK, processVars, fixtureVars, Goto, EndInv, Done
    <3>1. CASE UNCHANGED fixtureVars
      <4>1. \A x \in Runner : Pending(x)' = Pending(x) /\ Failed(x)' = Failed(x)
        BY <3>1 DEF Pending, Failed
      <4>2. CASE StartDaemon(r)
        BY <4>1, <4>2 DEF StartDaemon, FreePort, FreePortFails, StartRegistry, StartRegistryFails,
                          Spawn, SpawnFails, Healthy, Unhealthy, GiveUp, ReturnError
      <4>3. CASE Stop(r)
        BY <4>1, <4>3 DEF Stop, Kill, Wait, StopRegistry, ReturnError
      <4>4. CASE PrepareFails(r) \/ Fatal(r) \/ ReportFailures(r)
        BY <4>1, <4>4 DEF PrepareFails, Fatal, ReportFailures, Exit
      <4>5. CASE ReportSuccess(r)
        BY <4>1, <4>5 DEF ReportSuccess
      <4>6. CASE Bind(r) \/ Die(r)
        BY <4>1, <4>6 DEF Bind, Die
      <4>7. CASE Prepare(r) \/ StepMet(r) \/ StepNotMet(r)
        <5>1. UNCHANGED <<started, status>> /\ pc[r] \in {"main", "run"}
          BY <4>7 DEF Prepare, StepMet, StepNotMet
        <5>2. \/ pc' = pc
              \/ pc[r] = "main" /\ pc' = [pc EXCEPT ![r] = "port"]
          BY <4>7 DEF Prepare, StepMet, StepNotMet
        <5>. QED BY <4>1, <5>1, <5>2
      <4>. QED BY <2>2, <4>2, <4>3, <4>4, <4>5, <4>6, <4>7 DEF Main, RunFixtures
    <3>2. ASSUME NEW x \in Runner, Prepare(x) \/ StepMet(x) \/ StepNotMet(x) PROVE EndInv'
      <4>1. /\ UNCHANGED <<started, status>>
            /\ pc[x] \in {"main", "run"} /\ pc'[x] \in {"port", "run"}
            /\ pc[x] = "main" <=> pc'[x] = "port"
            /\ \A y \in Runner \ {x} : pc'[y] = pc[y] /\ result'[y] = result[y]
        <5>1. UNCHANGED <<started, status>>
          BY <3>2 DEF Prepare, StepMet, StepNotMet
        <5>2. /\ pc[x] \in {"main", "run"} /\ pc'[x] \in {"port", "run"}
              /\ pc[x] = "main" <=> pc'[x] = "port"
              /\ \A y \in Runner \ {x} : pc'[y] = pc[y]
          <6>. HIDE DEF EndInv, Done
          <6>1. CASE Prepare(x)
            BY <6>1 DEF Prepare
          <6>2. CASE StepMet(x) \/ StepNotMet(x)
            BY <6>2 DEF StepMet, StepNotMet
          <6>. QED BY <3>2, <6>1, <6>2
        <5>3. \E f : result' = [result EXCEPT ![x] = f]
          <6>. HIDE DEF EndInv, Done, ProcessTypeOK
          <6>1. CASE Prepare(x)
            BY <6>1 DEF Prepare
          <6>2. CASE StepNotMet(x)
            BY <6>2 DEF StepNotMet
          <6>3. CASE StepMet(x)
            <7>1. \/ \E f : result' = [result EXCEPT ![x][f] = "pass"]
                  \/ UNCHANGED result
              BY <6>3 DEF StepMet
            <7>. QED BY <7>1 DEF FixtureTypeOK
          <6>. QED BY <3>2, <6>1, <6>2, <6>3
        <5>4. \A y \in Runner \ {x} : result'[y] = result[y]
          BY <5>3 DEF FixtureTypeOK
        <5>. QED BY <5>1, <5>2, <5>4
      <4>2. \A y \in Runner \ {x} : Pending(y)' = Pending(y) /\ Failed(y)' = Failed(y)
        BY <4>1 DEF Pending, Failed
      <4>3. ~Done(x)'
        BY <4>1
      <4>. QED BY <4>1, <4>2, <4>3
    <3>. QED BY <3>1, <3>2, FixtureSteps
  <2>. QED BY <2>1, <2>2 DEF Next
<1>. QED BY <1>1, <1>2, ProcessTypes, Phases, FixtureTypes, PTL DEF Spec

\* Exit status 0 means what it should: each step of each selected fixture met its
\* expectation, and was answered unless a denial was expected.
THEOREM ExitZeroIsEarned == Spec => []SuccessMeansEveryStepMet
<1>1. FixtureTypeOK /\ HeardInv /\ EndInv => SuccessMeansEveryStepMet
  <2> SUFFICES ASSUME FixtureTypeOK, HeardInv, EndInv, NEW r \in Runner, status[r] = "success",
                      NEW f \in Fixture, result[r][f] # "skipped", NEW i \in DOMAIN Script[f]
               PROVE  StepHeard(r, f, i)
    BY DEF SuccessMeansEveryStepMet, StepHeard
  <2>1. f \notin Pending(r) /\ f \notin Failed(r)
    BY DEF EndInv, Done
  <2>2. result[r][f] = "pass"
    BY <2>1 DEF Pending, Failed, FixtureTypeOK, Verdict
  <2>. QED BY <2>2 DEF HeardInv
<1>. QED BY <1>1, FixtureTypes, VerdictsHeard, Ends, PTL

-----------------------------------------------------------------------------
(* The rest of the types.                                                  *)

\* The fixtures are run in the order of their ids, so there is a next one as long
\* as one is pending.
LEMMA CurrentIsFixture ==
    ASSUME NEW r \in Runner, Pending(r) # {}
    PROVE  Current(r) \in Pending(r)
<1> DEFINE R == {ss \in Nat \X Nat : ss[1] < ss[2]}
<1>1. IsWellFoundedOn(R, Nat)
  BY NatLessThanWellFounded DEF OpToRel
<1>2. Pending(r) \in SUBSET Nat
  BY HarnessAssumption DEF Pending, Fixture
<1>3. PICK f \in Pending(r) : \A g \in Pending(r) : ~(<<g, f>> \in R)
  <2>. HIDE DEF R
  <2>. QED BY <1>1, <1>2, WFMin
<1>4. ASSUME NEW g \in Pending(r) PROVE f <= g
  <2>1. g \in Nat /\ f \in Nat /\ ~(<<g, f>> \in R)
    BY <1>2, <1>3
  <2>. QED BY <2>1
<1>. QED BY <1>3, <1>4 DEF Current

WaitedTypeOK == waited \in [Runner -> 0 .. Deadline + ProbeTimeout]

VerdictTypeOK == \A r \in Runner : verdicts[r] \subseteq Fixture \X Nat \X (Runner \cup {Nobody})

\* Only a probe that failed before the deadline lets time pass.
LEMMA WaitedStep == ASSUME WaitedTypeOK, [Next]_vars PROVE WaitedTypeOK'
<1>1. CASE UNCHANGED waited
  BY <1>1 DEF WaitedTypeOK
<1>2. ASSUME NEW r \in Runner, Unhealthy(r) PROVE WaitedTypeOK'
  <2>1. PICK d \in 0 .. ProbeTimeout : waited' = [waited EXCEPT ![r] = waited[r] + d + 1]
    BY <1>2 DEF Unhealthy
  <2>2. waited[r] \in Nat /\ waited[r] < Deadline
    BY <1>2, HarnessAssumption DEF Unhealthy, WaitedTypeOK
  <2>3. waited[r] + d + 1 \in 0 .. Deadline + ProbeTimeout
    BY <2>2, HarnessAssumption
  <2>. QED BY <2>1, <2>3 DEF WaitedTypeOK
<1>3. ASSUME NEW r \in Runner, Main(r) \/ Bind(r) \/ Die(r), ~Unhealthy(r)
      PROVE  UNCHANGED waited
  <2> USE DEF processVars
  <2>1. CASE StartDaemon(r)
    BY <1>3, <2>1 DEF StartDaemon, FreePort, FreePortFails, StartRegistry, StartRegistryFails,
                      Spawn, SpawnFails, Healthy, GiveUp
  <2>2. CASE Stop(r)
    BY <2>2 DEF Stop, Kill, Wait, StopRegistry
  <2>3. CASE RunFixtures(r)
    BY <2>3 DEF RunFixtures, StepMet, StepNotMet, ReportFailures, ReportSuccess
  <2>4. CASE Prepare(r) \/ PrepareFails(r) \/ Fatal(r) \/ Bind(r) \/ Die(r)
    BY <2>4 DEF Prepare, PrepareFails, Fatal, Bind, Die
  <2>. QED BY <1>3, <2>1, <2>2, <2>3, <2>4 DEF Main
<1>. QED BY <1>1, <1>2, <1>3 DEF Next, vars

\* A verdict is on the current fixture, and names a runner's daemon or nobody.
LEMMA VerdictStep == ASSUME FixtureTypeOK, VerdictTypeOK, [Next]_vars PROVE VerdictTypeOK'
<1>1. CASE UNCHANGED verdicts
  BY <1>1 DEF VerdictTypeOK
<1>2. ASSUME NEW r \in Runner, StepMet(r) PROVE VerdictTypeOK'
  <2>1. PICK by \in Answerers(r) :
          verdicts' = [verdicts EXCEPT ![r] = verdicts[r] \cup {<<Current(r), step[r], by>>}]
    BY <1>2 DEF StepMet
  <2>2. Current(r) \in Fixture
    BY <1>2, CurrentIsFixture DEF StepMet, Pending
  <2>3. step[r] \in Nat /\ by \in Runner \cup {Nobody}
    BY <2>1 DEF FixtureTypeOK, Answerers, Listening
  <2>. QED BY <2>1, <2>2, <2>3 DEF VerdictTypeOK, FixtureTypeOK
<1>3. ASSUME NEW r \in Runner, Prepare(r) \/ StepNotMet(r) PROVE UNCHANGED verdicts
  BY <1>3 DEF Prepare, StepNotMet
<1>. QED BY <1>1, <1>2, <1>3, FixtureSteps DEF fixtureVars

\* Types are an invariant for any fixtures and any deadline: the time polled never
\* passes the deadline by more than one probe, and a verdict names a step and who
\* answered it.
THEOREM TypeCorrect == Spec => []TypeOK
<1> DEFINE Rest == WaitedTypeOK /\ VerdictTypeOK
<1>1. Init => Rest
  BY HarnessAssumption DEF Init, WaitedTypeOK, VerdictTypeOK
<1>2. FixtureTypeOK /\ Rest /\ [Next]_vars => Rest'
  BY WaitedStep, VerdictStep
<1>3. ProcessTypeOK /\ FixtureTypeOK /\ Rest => TypeOK
  BY DEF TypeOK, FixtureTypeOK, WaitedTypeOK, VerdictTypeOK
<1> HIDE DEF Rest
<1>. QED BY <1>1, <1>2, <1>3, ProcessTypes, FixtureTypes, PTL DEF Spec
=============================================================================

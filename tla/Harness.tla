------------------------------ MODULE Harness ------------------------------
(***************************************************************************)
(* The processes of a conformance run: conformance/runner/daemon.go,       *)
(* cmd/eidovela-conformance/main.go and the step loop of executor.go.      *)
(*                                                                         *)
(* Several runners share a machine, as two CI jobs do.  Each one looks for *)
(* a free port, starts a registry, starts a daemon as a child process,     *)
(* polls /healthz until a deadline, runs its fixtures and cleans up.  The  *)
(* ports are the shared state: a port is free again between the moment     *)
(* freePort closes its probe and the moment the daemon binds it.           *)
(*                                                                         *)
(* The daemon's own steps are external: it binds its port or exits, and it *)
(* may crash.  What it answers to a fixture's step is any answer; the      *)
(* model follows who answered, if anybody did.                             *)
(*                                                                         *)
(* A fixture's script has only the steps that call the daemon.  Those that *)
(* change the registry alone (suspend, revoke, terminate: executor.go:     *)
(* 144-158 and 188-192) always meet their expectation.                     *)
(***************************************************************************)
EXTENDS Naturals, Sequences

CONSTANTS
    Runner,        \* the conformance runners of the machine
    Port,          \* its loopback ports
    Nobody,        \* the answer of a port nobody serves
    Script,        \* the fixtures in the order of their ids: the kinds of their steps
    Matching,      \* for each -run flag, the fixtures whose id contains it
    Deadline,      \* how long StartDaemon polls, in pauses of 200 ms
    ProbeTimeout   \* how long one probe may take, in the same unit

StepKind == {"ok", "deny", "inactive"}

ASSUME HarnessAssumption ==
    /\ Nobody \notin Runner
    /\ Nobody \notin {"registry", "daemon"} \X Runner
    /\ Nobody \notin Port
    /\ Script \in Seq(Seq(StepKind))
    /\ \A f \in DOMAIN Script : Script[f] # << >>
    /\ Matching \in [DOMAIN Matching -> SUBSET DOMAIN Script]
    /\ Deadline \in Nat \ {0}
    /\ ProbeTimeout \in Nat

Fixture == DOMAIN Script

VARIABLES
    pc,        \* where main is
    port,      \* the port freePort returned
    holder,    \* the process that listens on each port
    registry,  \* the runner's FakeRegistry
    child,     \* the runner's daemon process
    waited,    \* time since the first probe
    started,   \* what StartDaemon returned
    result,    \* each fixture's verdict
    step,      \* the next step of the fixture being run
    verdicts,  \* history: the steps that met their expectation, and who answered
    status     \* the exit status

vars == <<pc, port, holder, registry, child, waited, started, result, step, verdicts, status>>

processVars == <<port, holder, registry, child, waited, started>>
fixtureVars == <<result, step, verdicts>>

Registry(r) == <<"registry", r>>
Daemon(r) == <<"daemon", r>>
Free(p) == holder[p] = Nobody
Released(owner) == [p \in Port |-> IF holder[p] = owner THEN Nobody ELSE holder[p]]

\* A child holds memory, files and maybe its port until it is dead.
Alive(r) == child[r] \in {"started", "serving", "killed"}

Listening(r) == {x \in Runner : port[r] # Nobody /\ holder[port[r]] = Daemon(x) /\ child[x] = "serving"}

Init ==
    /\ pc = [r \in Runner |-> "main"]
    /\ port = [r \in Runner |-> Nobody]
    /\ holder = [p \in Port |-> Nobody]
    /\ registry = [r \in Runner |-> "none"]
    /\ child = [r \in Runner |-> "none"]
    /\ waited = [r \in Runner |-> 0]
    /\ started = [r \in Runner |-> "none"]
    /\ result = [r \in Runner |-> [f \in Fixture |-> "skipped"]]
    /\ step = [r \in Runner |-> 1]
    /\ verdicts = [r \in Runner |-> {}]
    /\ status = [r \in Runner |-> "running"]

-----------------------------------------------------------------------------
(* main, up to StartDaemon.                                                *)

Goto(r, label) == pc' = [pc EXCEPT ![r] = label]

\* The process ends: its registry, a goroutine, ends with it; its child does not.
Exit(r, code) ==
    /\ Goto(r, "exited")
    /\ status' = [status EXCEPT ![r] = code]
    /\ registry' = [registry EXCEPT ![r] = IF @ = "up" THEN "stopped" ELSE @]
    /\ holder' = Released(Registry(r))

\* Without the flag every fixture is run; with it, those whose id contains it.
Selected(only) == IF only = "" THEN Fixture ELSE Matching[only]

\* The binary and the fixtures were found.
Prepare(r) ==
    /\ pc[r] = "main"
    /\ \E only \in {""} \cup DOMAIN Matching :
          result' = [result EXCEPT ![r] =
                       [f \in Fixture |-> IF f \in Selected(only) THEN "pending" ELSE "skipped"]]
    /\ step' = [step EXCEPT ![r] = 1]
    /\ Goto(r, "port")
    /\ UNCHANGED <<processVars, verdicts, status>>

\* No binary, unreadable fixtures or none at all: log.Fatal.
PrepareFails(r) ==
    /\ pc[r] = "main"
    /\ Exit(r, "failure")
    /\ UNCHANGED <<port, child, waited, started, fixtureVars>>

ReturnError(r) ==
    /\ Goto(r, "fatal")
    /\ started' = [started EXCEPT ![r] = "error"]

-----------------------------------------------------------------------------
(* Faulty variants: what the same code would be with one plausible error.  *)
(* No specification uses them.                                             *)

\* The error path of cmd.Start forgets the registry.
SpawnFailsLeavingRegistry(r) ==
    /\ pc[r] = "spawn"
    /\ ReturnError(r)
    /\ UNCHANGED <<port, holder, registry, child, waited, fixtureVars, status>>

\* The pause does not count: the deadline is taken anew each time.
UnhealthyNewDeadline(r) ==
    /\ pc[r] = "poll"
    /\ waited[r] < Deadline
    /\ UNCHANGED vars

\* The loop has no condition.
UnhealthyUnchecked(r) ==
    /\ pc[r] = "poll"
    /\ \E d \in 0 .. ProbeTimeout : waited' = [waited EXCEPT ![r] = @ + d + 1]
    /\ UNCHANGED <<pc, port, holder, registry, child, started, fixtureVars, status>>

\* stop() does not wait for the process it kills.
KillWithoutWaiting(r) ==
    /\ pc[r] = "kill"
    /\ child' = [child EXCEPT ![r] = IF @ = "exited" THEN @ ELSE "killed"]
    /\ Goto(r, "close")
    /\ UNCHANGED <<port, holder, registry, waited, started, fixtureVars, status>>

\* introspect() leaves its error to outcome().
MetByAnyError(kind, by, accepted) ==
    IF kind = "ok" THEN by # Nobody /\ accepted ELSE by = Nobody \/ ~accepted

-----------------------------------------------------------------------------
(* StartDaemon.                                                            *)

\* The port freePort returns was free a moment ago, and is not held for the daemon.
FreePort(r) ==
    /\ pc[r] = "port"
    /\ \E p \in Port : Free(p) /\ port' = [port EXCEPT ![r] = p]
    /\ Goto(r, "registry")
    /\ UNCHANGED <<holder, registry, child, waited, started, fixtureVars, status>>

FreePortFails(r) ==
    /\ pc[r] = "port"
    /\ ReturnError(r)
    /\ UNCHANGED <<port, holder, registry, child, waited, fixtureVars, status>>

\* StartFakeRegistry listens on any free port: even on the one just chosen.
StartRegistry(r) ==
    /\ pc[r] = "registry"
    /\ \E p \in Port : Free(p) /\ holder' = [holder EXCEPT ![p] = Registry(r)]
    /\ registry' = [registry EXCEPT ![r] = "up"]
    /\ Goto(r, "spawn")
    /\ UNCHANGED <<port, child, waited, started, fixtureVars, status>>

StartRegistryFails(r) ==
    /\ pc[r] = "registry"
    /\ ReturnError(r)
    /\ UNCHANGED <<port, holder, registry, child, waited, fixtureVars, status>>

Spawn(r) ==
    /\ pc[r] = "spawn"
    /\ child' = [child EXCEPT ![r] = "started"]
    /\ Goto(r, "poll")
    /\ UNCHANGED <<port, holder, registry, waited, started, fixtureVars, status>>

SpawnFails(r) ==
    /\ pc[r] = "spawn"
    /\ registry' = [registry EXCEPT ![r] = "stopped"]
    /\ holder' = Released(Registry(r))
    /\ ReturnError(r)
    /\ UNCHANGED <<port, child, waited, fixtureVars, status>>

\* healthy(): status 200 from whichever daemon listens on the port.
Healthy(r) ==
    /\ pc[r] = "poll"
    /\ waited[r] < Deadline
    /\ Listening(r) # {}
    /\ started' = [started EXCEPT ![r] = "ok"]
    /\ Goto(r, "run")
    /\ UNCHANGED <<port, holder, registry, child, waited, fixtureVars, status>>

\* Refused, 404, or no answer in time; then a pause.
Unhealthy(r) ==
    /\ pc[r] = "poll"
    /\ waited[r] < Deadline
    /\ \E d \in 0 .. ProbeTimeout : waited' = [waited EXCEPT ![r] = @ + d + 1]
    /\ UNCHANGED <<pc, port, holder, registry, child, started, fixtureVars, status>>

GiveUp(r) ==
    /\ pc[r] = "poll"
    /\ waited[r] >= Deadline
    /\ Goto(r, "kill")
    /\ UNCHANGED <<processVars, fixtureVars, status>>

-----------------------------------------------------------------------------
(* stop(): kill, wait, stop the registry.                                  *)

Kill(r) ==
    /\ pc[r] = "kill"
    /\ child' = [child EXCEPT ![r] = IF @ = "exited" THEN @ ELSE "killed"]
    /\ Goto(r, "wait")
    /\ UNCHANGED <<port, holder, registry, waited, started, fixtureVars, status>>

Wait(r) ==
    /\ pc[r] = "wait"
    /\ child[r] = "exited"
    /\ child' = [child EXCEPT ![r] = "reaped"]
    /\ Goto(r, "close")
    /\ UNCHANGED <<port, holder, registry, waited, started, fixtureVars, status>>

\* After a deadline StartDaemon returns an error; after the fixtures main ends.
StopRegistry(r) ==
    /\ pc[r] = "close"
    /\ registry' = [registry EXCEPT ![r] = "stopped"]
    /\ holder' = Released(Registry(r))
    /\ IF started[r] = "ok"
         THEN /\ Goto(r, "exited")
              /\ status' = [status EXCEPT ![r] = "success"]
              /\ UNCHANGED started
         ELSE /\ ReturnError(r)
              /\ UNCHANGED status
    /\ UNCHANGED <<port, child, waited, fixtureVars>>

\* main's log.Fatal on StartDaemon's error.
Fatal(r) ==
    /\ pc[r] = "fatal"
    /\ Exit(r, "failure")
    /\ UNCHANGED <<port, child, waited, started, fixtureVars>>

-----------------------------------------------------------------------------
(* The fixtures, in the order of their ids, each up to its first error.    *)

Pending(r) == {f \in Fixture : result[r][f] = "pending"}
Failed(r) == {f \in Fixture : result[r][f] = "fail"}
Current(r) == CHOOSE f \in Pending(r) : \A g \in Pending(r) : f <= g

\* Who may answer: a daemon that listens on the port, or nobody within the timeout.
Answerers(r) == {Nobody} \cup Listening(r)

\* outcome() takes any error for a denial; introspect() wants an answer.
Met(kind, by, accepted) ==
    \/ kind = "ok" /\ by # Nobody /\ accepted
    \/ kind = "deny" /\ (by = Nobody \/ ~accepted)
    \/ kind = "inactive" /\ by # Nobody /\ ~accepted

StepMet(r) ==
    /\ pc[r] = "run"
    /\ Pending(r) # {}
    /\ LET f == Current(r) IN
          /\ \E by \in Answerers(r), accepted \in BOOLEAN :
                /\ Met(Script[f][step[r]], by, accepted)
                /\ verdicts' = [verdicts EXCEPT ![r] = @ \cup {<<f, step[r], by>>}]
          /\ IF step[r] = Len(Script[f])
               THEN /\ result' = [result EXCEPT ![r][f] = "pass"]
                    /\ step' = [step EXCEPT ![r] = 1]
               ELSE /\ step' = [step EXCEPT ![r] = @ + 1]
                    /\ UNCHANGED result
    /\ UNCHANGED <<pc, processVars, status>>

StepNotMet(r) ==
    /\ pc[r] = "run"
    /\ Pending(r) # {}
    /\ LET f == Current(r) IN
          /\ \E by \in Answerers(r), accepted \in BOOLEAN : ~Met(Script[f][step[r]], by, accepted)
          /\ result' = [result EXCEPT ![r][f] = "fail"]
          /\ step' = [step EXCEPT ![r] = 1]
    /\ UNCHANGED <<pc, processVars, verdicts, status>>

\* os.Exit(1): deferred calls, stop among them, do not run.
ReportFailures(r) ==
    /\ pc[r] = "run"
    /\ Pending(r) = {}
    /\ Failed(r) # {}
    /\ Exit(r, "failure")
    /\ UNCHANGED <<port, child, waited, started, fixtureVars>>

\* main returns and runs the deferred stop.
ReportSuccess(r) ==
    /\ pc[r] = "run"
    /\ Pending(r) = {}
    /\ Failed(r) = {}
    /\ Goto(r, "kill")
    /\ UNCHANGED <<processVars, fixtureVars, status>>

-----------------------------------------------------------------------------
(* The daemon process, which is not part of the repository.                *)

\* It binds its address, or exits because another process has it.
Bind(r) ==
    /\ child[r] = "started"
    /\ IF Free(port[r])
         THEN /\ holder' = [holder EXCEPT ![port[r]] = Daemon(r)]
              /\ child' = [child EXCEPT ![r] = "serving"]
         ELSE /\ child' = [child EXCEPT ![r] = "exited"]
              /\ UNCHANGED holder
    /\ UNCHANGED <<pc, port, registry, waited, started, fixtureVars, status>>

\* A crash, or the death of a killed process.
Die(r) ==
    /\ Alive(r)
    /\ child' = [child EXCEPT ![r] = "exited"]
    /\ holder' = Released(Daemon(r))
    /\ UNCHANGED <<pc, port, registry, waited, started, fixtureVars, status>>

-----------------------------------------------------------------------------
(* The specification.                                                      *)

StartDaemon(r) ==
    \/ FreePort(r) \/ FreePortFails(r)
    \/ StartRegistry(r) \/ StartRegistryFails(r)
    \/ Spawn(r) \/ SpawnFails(r)
    \/ Healthy(r) \/ Unhealthy(r) \/ GiveUp(r)

Stop(r) == Kill(r) \/ Wait(r) \/ StopRegistry(r)

RunFixtures(r) == StepMet(r) \/ StepNotMet(r) \/ ReportFailures(r) \/ ReportSuccess(r)

Main(r) == Prepare(r) \/ PrepareFails(r) \/ StartDaemon(r) \/ Stop(r) \/ Fatal(r) \/ RunFixtures(r)

Next == \E r \in Runner : Main(r) \/ Bind(r) \/ Die(r)

Spec == Init /\ [][Next]_vars

\* A runner's own steps end: probes and requests have timeouts.  The daemon owes
\* nothing, but a killed process dies.
KilledDies(r) == child[r] = "killed" /\ Die(r)

FairSpec == Spec /\ \A r \in Runner : WF_vars(Main(r)) /\ WF_vars(KilledDies(r))

-----------------------------------------------------------------------------
(* Properties.                                                             *)

Label == {"main", "port", "registry", "spawn", "poll", "run", "kill", "wait", "close", "fatal", "exited"}

Verdict == {"skipped", "pending", "pass", "fail"}

\* Every variable has its type; the verdict on a step names the step and who answered.
ProcessTypeOK ==
    /\ pc \in [Runner -> Label]
    /\ port \in [Runner -> Port \cup {Nobody}]
    /\ holder \in [Port -> {Nobody} \cup ({"registry", "daemon"} \X Runner)]
    /\ registry \in [Runner -> {"none", "up", "stopped"}]
    /\ child \in [Runner -> {"none", "started", "serving", "killed", "exited", "reaped"}]
    /\ started \in [Runner -> {"none", "ok", "error"}]
    /\ status \in [Runner -> {"running", "success", "failure"}]

TypeOK ==
    /\ ProcessTypeOK
    /\ waited \in [Runner -> 0 .. Deadline + ProbeTimeout]
    /\ result \in [Runner -> [Fixture -> Verdict]]
    /\ step \in [Runner -> Nat]
    /\ \A r \in Runner : verdicts[r] \subseteq Fixture \X Nat \X (Runner \cup {Nobody})

\* stop() kills the daemon, waits for it and only then closes the registry: while
\* the runner's process lives, a daemon that lives has its registry.
RegistryOutlivesDaemon ==
    \A r \in Runner : pc[r] # "exited" /\ Alive(r) => registry[r] = "up"

\* A runner leaves its daemon behind only after failed fixtures: when StartDaemon
\* returned an error, by whichever of its paths, and when main ended and no fixture
\* failed, there is no process, no zombie, no listening registry and no port held.
OnlyFailedFixturesLeak ==
    \A r \in Runner : pc[r] = "fatal" \/ (pc[r] = "exited" /\ Failed(r) = {}) =>
        /\ child[r] \in {"none", "reaped"}
        /\ registry[r] # "up"
        /\ \A p \in Port : holder[p] \notin {Registry(r), Daemon(r)}

\* main exits with 0 only when every step of every selected fixture met its
\* expectation, and was answered by a daemon unless a denial was expected; whatever
\* dies between two steps.
SuccessMeansEveryStepMet ==
    \A r \in Runner : status[r] = "success" =>
        \A f \in Fixture : result[r][f] # "skipped" =>
            \A i \in DOMAIN Script[f] : \E by \in Runner \cup {Nobody} :
                /\ <<f, i, by>> \in verdicts[r]
                /\ by = Nobody => Script[f][i] = "deny"

\* A runner that started its daemon, or failed to, always ends: StartDaemon stops
\* polling, fixtures stop, a killed daemon is waited for and found dead.
RunEnds == \A r \in Runner : <>[](pc[r] = "exited")

-----------------------------------------------------------------------------
(* The inductive invariants behind the safety properties.                  *)

\* Where main is says what it has started.
StartedInv ==
    \A r \in Runner :
        /\ pc[r] \in {"main", "port", "registry"} =>
              child[r] = "none" /\ registry[r] = "none" /\ started[r] = "none"
        /\ pc[r] = "spawn" => child[r] = "none" /\ registry[r] = "up" /\ started[r] = "none"
        /\ pc[r] \in {"poll", "run", "kill"} =>
              child[r] \in {"started", "serving", "exited"} /\ registry[r] = "up"
        /\ pc[r] = "wait" => child[r] \in {"killed", "exited"} /\ registry[r] = "up"
        /\ pc[r] = "close" => child[r] = "reaped" /\ registry[r] = "up"
        /\ pc[r] = "fatal" => child[r] \in {"none", "reaped"} /\ registry[r] # "up"

\* A port is held by what is running.
HolderInv ==
    \A p \in Port, r \in Runner :
        /\ holder[p] = Registry(r) => registry[r] = "up"
        /\ holder[p] = Daemon(r) => child[r] \in {"serving", "killed"}

PhaseInv == StartedInv /\ HolderInv

\* Of the ways main ends only os.Exit(1), after a failed fixture, skips stop().
ExitedInv ==
    \A r \in Runner : pc[r] = "exited" =>
        /\ registry[r] # "up"
        /\ Failed(r) = {} => child[r] \in {"none", "reaped"}

StepHeard(r, f, i) ==
    \E by \in Runner \cup {Nobody} : <<f, i, by>> \in verdicts[r] /\ (by = Nobody => Script[f][i] = "deny")

\* The verdicts are complete: for each fixture that passed, and for the current
\* one up to its current step.
HeardInv ==
    \A r \in Runner :
        /\ \A f \in Fixture : result[r][f] = "pass" => \A i \in DOMAIN Script[f] : StepHeard(r, f, i)
        /\ Pending(r) # {} => \A i \in 1 .. step[r] - 1 : StepHeard(r, Current(r), i)

\* stop() runs for a daemon that served only when no fixture is left and none failed.
Done(r) == status[r] = "success" \/ (pc[r] \in {"kill", "wait", "close"} /\ started[r] = "ok")

EndInv ==
    \A r \in Runner :
        /\ pc[r] \in {"main", "port", "registry", "spawn", "poll"} => started[r] = "none"
        /\ Done(r) => Pending(r) = {} /\ Failed(r) = {}
        /\ status[r] = "success" => pc[r] = "exited"

VerdictInv == HeardInv /\ EndInv

-----------------------------------------------------------------------------
(* What the comments say and the code does not do.                         *)

\* "The runner manages both" (main.go:1-4): a runner that ended leaves no daemon.
DaemonNotLeaked ==
    \A r \in Runner : pc[r] = "exited" => ~Alive(r)

\* "Filter to one fixture family: ... -run O-" (conformance/README.md:62-67): a run
\* that exits with 0 ran a fixture.
SuccessMeansSomethingRan ==
    \A r \in Runner : status[r] = "success" => \E f \in Fixture : result[r][f] # "skipped"
=============================================================================

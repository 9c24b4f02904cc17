# EIDOVELA: models and proofs of the conformance harness, the SDK and the CLI

This directory holds TLA+ models of the code in this repository, the TLC
configurations that check them on small instances, and proofs that the TLA+
proof system checks for every value of the constants. `PROJECT.json` lists, for
each definition, the source lines it stands for; for each run its properties;
and for each property a mutated definition that breaks it.

## 1. Inventory

The repository has the contracts of an agent-identity system, the SDK and the
CLI that use it, and a conformance suite. The daemon that implements the
contracts, `eidovelad`, is **not** in the repository. Wherever it takes part it
is external: modelled from how the code here uses it, as nondeterministic as
the contracts allow.

| Part | Source | State | Operations |
|---|---|---|---|
| Fake registry | `conformance/runner/registry.go` | one mutex; current Agent and Identity with their epochs; maps of workloads and instances with order slices; one counter for all ids | mutators called by the runner; HTTP handlers called by the daemon |
| Daemon lifecycle | `conformance/runner/daemon.go` | a port, a registry, a child process | `StartDaemon`, `freePort`, `healthy`, `stop` |
| Conformance command | `cmd/eidovela-conformance/main.go` | the selected fixtures and their verdicts | prepare, select (`-run`), start, loop, end |
| Executor | `conformance/runner/executor.go` | `scenarioState`: agent, registration, challenge, instance, token in hand; a peer issuer | one operation per kind of fixture step; some only read |
| Fixtures | `conformance/runner/types.go` | none | `LoadFixtures` |
| Peer issuer | `conformance/runner/peers.go` | signing keys behind an RWMutex | mint, publish a JWKS |
| Attestation documents | `conformance/runner/spiffe.go`, end of `executor.go` | none | encode SVIDs and cloud documents |
| SDK v3, local verification | `sdk/go/eidovela/v3/verify.go` | none between calls | `Verify` |
| SDK v3, federated presentation | `sdk/go/eidovela/v3/presentation.go` | none between calls | `SignDPoP`, `IntrospectContext` |
| SDK v3 client | `sdk/go/eidovela/v3/client.go` | none | one HTTP request per method |
| SDK v2 (frozen) | `sdk/go/eidovela/*.go` | none | its own `Verify`, `SignDPoP`, `IntrospectContext`, client methods |
| CLI | `cmd/eidovela/main.go` | the arguments | one SDK call per command |
| Local loop example | `examples/local-loop` | none | a straight-line demonstration |
| Contracts and schemas | `contracts/`, `docs/` | not code | |

### How the parts interact

- The **runner's** goroutine calls the registry's mutators while the daemon's
  requests run in HTTP handler goroutines. They share memory under one mutex.
- The **runner** and the **daemon** are two processes. They share loopback
  ports, a process handle (kill, wait) and `/healthz`. Several runners may share
  a machine.
- The **executor** talks to the daemon by HTTP with a timeout of 15 s, and
  changes the registry directly. The daemon reads the registry by HTTP and
  commits instances to it.
- `Verify` fetches the key set of the deployment a token names. The deployment
  rotates keys, and the clock runs, while the call runs.
- `SignDPoP` makes single-use proofs. A gateway relays one, with its token, by
  `IntrospectContext` to the deployment, which keeps a ledger of used proofs.
- A **client method** of either SDK is one HTTP exchange with the authority. The
  network may lose, delay, redirect or cut short, and `net/http` follows
  redirects and repeats some requests by itself.
- The **CLI** turns a command line into one SDK call or an exit status.

### What is hard here, and what correctness means

- *Registry*: mutators write several fields; handlers read several, and send what
  they read later. Correct is that every answer shows one instant, that the pair of
  epochs determines the state (tokens carry only the epochs), that no answer is
  staler than what its reader knew when it asked, that an instance keeps its
  identity and only ages, and that no path keeps the mutex.
- *Harness*: ports are free again before the daemon binds them; processes die
  at any time; four error paths must each undo what was started. Correct is
  that clean-up is complete and ordered, that exit status 0 is earned, and that
  a run ends.
- *Scenario*: answers are lost and commits repeated; the registry and the daemon
  outlive a fixture, the scenario's state must not. Correct is that a lifecycle
  change is final for the tokens of before, that a fixture works with what is its
  own, and that the steps that read find it among what earlier fixtures left.
- *Verify*: keys rotate and time passes between the fetch and the check, and kids
  are not unique, not even within one deployment. Correct is to accept what was
  valid during the call and nothing else, and to return.
- *Presentation*: answers are late, lost, redirected or incomplete; proofs are
  single-use. Correct is that what is accepted is bound to the presentation and
  fresh, that revocation has a bounded window, and that a new proof suffices.
- *SDK client*: an error says nothing of whether a write was done, and the
  caller may try again while the first request is still under way; a redirect may
  lead a request anywhere. Correct is that no call is carried out twice, that
  success is true as long as no redirect led the call astray, that one challenge
  enrolls once, and that a deadline ends a call.
- *CLI*: Go's flag parser stops at the first operand. Correct is that a complete
  command line makes the call that was meant, and no other one is made.

The hazards, each at its line, are in `PROJECT.json`.

## 2. Modules

| Module | Models | Uses |
|---|---|---|
| `RegistryData` | the records and requests of the registry's wire format | |
| `FakeRegistry` | `registry.go` with its goroutines and its mutex | `RegistryData`; `AtomicRegistry` by `INSTANCE` |
| `AtomicRegistry` | what `registry.go` promises: the same operations at one instant each | `RegistryData` |
| `MCFakeRegistry` | symmetry of the handlers, for TLC | `FakeRegistry` |
| `FakeRegistryProofs` | proofs about the Agent and the Identity | `FakeRegistry` |
| `AtomicRegistryProofs` | proofs about the instances, and the refinement | `FakeRegistryProofs` |
| `Harness` | `daemon.go`, the conformance `main.go`, the step loop of `executor.go`, `LoadFixtures` | |
| `MCHarness` | two fixtures and two `-run` flags, for TLC | `Harness` |
| `HarnessProofs` | proofs | `Harness` |
| `Scenario` | the steps of `executor.go` with registry and daemon | `RegistryData`; `AtomicRegistry` by `INSTANCE` |
| `ScenarioProofs` | proofs | `Scenario` |
| `LocalVerify` | `v3/verify.go` and v2's `verify.go` | `VerifyPromise` by `INSTANCE` |
| `VerifyPromise` | what both packages' `Verify` promise: one look at a set of keys, one decision | |
| `MCLocalVerify` | two deployments of which one rotates, for TLC | `LocalVerify` |
| `LocalVerifyProofs` | proofs | `LocalVerify` |
| `Presentation` | `v3/presentation.go`, and v2's, which is the same code | |
| `PresentationProofs` | proofs | `Presentation` |
| `SdkClient` | `client.go` of both SDKs, every method | `RemoteCall` by `INSTANCE` |
| `RemoteCall` | what a caller may rely on, whatever the network does | |
| `MCSdkClient` | one call of each package, for TLC | `SdkClient` |
| `SdkClientProofs` | proofs | `SdkClient` |
| `Cli` | `cmd/eidovela/main.go` | |
| `MCCli` | texts, for TLC | `Cli` |
| `CliProofs` | proofs | `Cli` |

Most modules also contain *faulty variants* of some definitions: what the code
would be with one plausible slip. No specification uses them; each breaks one
of the properties.

### FakeRegistry and AtomicRegistry

A mutator that writes several fields is two actions, `XBegin` and `XEnd`. The
first takes `mu` and leaves it taken, so every interleaving that the mutex has
to exclude is there to be excluded. One that writes a single field or map entry
is one action (`Atomically`).

A handler is a goroutine `h`: `Send` gives it a request, one of the actions in
`ServeHTTP(h)` makes the reply, under the mutex where the code has it, and
`Deliver` sends it. Between the two anything may happen: the list handlers unlock
before they write the reply (`registry.go:228-229`, `238-239`, `251-252`,
`266-267`), and `net/http` may hold back what the others write until they return.
The Registry Context handler is also in two halves under the mutex.
`GET /v1/namespaces` reads without the mutex in the code; in the model it reads
while `SeedAgent` is half done and may see a torn string. Sent replies are kept in
a set, for the network may deliver them late, repeatedly or never; `known` is
history, what had been sent when a handler's request was.

A request may name any Agent seeded so far or none, any instance in
`AskedInstances`, whoever's it is, and any registration in `AskedWorkloads`, made
or not, as the handler takes them (`registry.go:279-283`). The handler compares
only the Agent with the current one, so an instance of a replaced Agent beside the
current Identity is an answer, and both 404s for what is unknown are. Ids are the
numbers that the code formats into them, and the contents of a workload, which
never change, are left out.

`AtomicRegistry` has no threads. `ImplementsAtomicRegistry` is the refinement:
a mutator takes effect when it takes the mutex (`EffectiveAgent`,
`EffectiveIdentity`), and the rest of it is a stutter. A reply is one of
`AtomicRegistry` when it is made (`Decided`), and sending it is a stutter.

### Harness

Each runner is a program counter that goes through `main`, `StartDaemon`, the
fixtures and `stop`. `holder` says which process listens on each port; it is
the state the runners share. `FreePort` chooses a port that is free *now*, and
the registry may be given the same one. A child binds its port, or exits
because it is taken, or dies. `Exit` models both `log.Fatal` and `os.Exit`:
the process ends, its in-process registry with it, and its child does not.
`Prepare` chooses the `-run` flag; `Matching` says which fixtures' ids contain
it, and the others stay *skipped*, as in the code, which never looks at them.
Answers to steps are any answers; the model records who answered, if anybody.

### Scenario

One executor runs any sequence of steps, fixture after fixture, against one
registry (`AtomicRegistry`, which `FakeRegistry` implements) and one daemon.
`Begin` is the start of a fixture: a new scenario state and a newly seeded
Agent. A call of the daemon has three outcomes: refused, done, or done with its
answer lost. A completion that has committed may leave the executor `waiting`,
as when the registry's 201 to the daemon was lost; then the daemon may commit
again (`CommitAgain`), which makes another instance (finding 1), in time for the
executor to learn of it or after it gave up (`GiveUp`), but not once the next
fixture has seeded its Agent. Evidence and outbox rows stand for any set of the
instances that has the one the executor was told of, since the daemon need not
know of a commit that was lost to it. A trust is registered with any status and
any audiences. `dead` is history: the tokens that some lifecycle change since
has stopped. The daemon judges a token by the epochs it carries (`LocalActive`),
as the contracts say, and never by what stopped it.

The steps that only read are predicates: what the step accepts, given what the
daemon shows of the registry and of its own enrollments. `ReadsShowScenario`
asks that they accept when they should, with what earlier fixtures left behind
in the same lists.

### LocalVerify

The two packages' `Verify` take the same steps; the constant `SDK` says which
ones are called, and `Principal` and `Epochless` are what differs: the frozen
package wants its one epoch to be there, be it 0, and v3 reads an absent one as 0.
`Profile` gives the epoch claims that tokens carry: both (the v3 profile), a single
one in the spelling that either package reads, the frozen package's as 0, or none
(brokered tokens).

A call has a fetch and a check, with the deployment's and the clock's steps
between them. A key is the deployment that made it and a number. Its kid is any
number: two deployments use equal kids, a deployment may give two of its keys one
kid, and a key set may have an entry of another type under the same kid. The checks
are a table in the order of the code, from the key to the epoch; the first that
fails decides. `seen` and `always` are history: the keys published at some moment,
and at every moment, of the call.

`VerifyPromise` has neither unusable entries nor an order of entries or of checks.
An issuer has a set of keys with kids; a call asks once whether the signer is the
one with the token's kid, to which the answer is open only if several keys have it,
and decides once, by that, by its arguments and by the clock. The refinement maps
the entries in hand to that one bit (`Genuine`) and the errors to what a caller may
conclude from them (`Told`): refused, or no answer from the issuer.

### Presentation

Time is counted in ticks, and `Timeout` is the code's cap of 10 s on the
caller's client. A call that is overdue ends before the clock ticks again, as
long as it waits for the network. Once the body is read (`Read`) there is no
timer. A proof may be relayed twice, or arrive after its call gave up. The
deployment consumes the proof before it looks at the token, which is what makes
a retry with the same proof fail. The fields of a context that are only
required to be there are one Boolean (`whole`); those that are compared are
separate. A call's `sole` is history: no other call has relayed its proof so far,
neither before it nor since. `NewProofSuffices` needs both, since another gateway
that relays the same proof later may still be the first to reach the deployment.

### SdkClient and RemoteCall

`Method` lists every method of the two clients with the verb and the path of
its request. A call is one exchange: sent, carried out or refused, answered,
redirected or broken, read. `net/http` and the authority are external. Since no
client sets `CheckRedirect`, `net/http` follows up to `MaxRedirects` redirects, as a
GET after 301, 302 and 303, and to wherever they lead: `place` says whether the
request goes to the method's own operation (*home*) or to another URL
(*elsewhere*), where any JSON object may be the answer. It repeats only a GET whose
connection broke. A request stays under way after its caller has given up.

Two methods sign a proof of possession, whose identifier the authority accepts
once; `Jti` is what makes a challenge complete once and a token request never
collide. The authority may use an identifier up also when it refuses the request
for another reason (`Refuse`), since it records it before anything is granted
(`contracts/v1/token-proof.md:15`).

`RemoteCall` is the promise to callers, with no network: a call is carried out
at most once, an error may still be, and a success was carried out unless a
redirect had led the call astray. The refinement maps `writes` to the calls whose
method is a POST and `astray` to those whose request is not the method's own any
more (`Astray`).

### Cli

An argument is a word, a flag, a flag attached to its value, or `--`. A text is
the sequence of its comma-separated parts, since `splitCSV` is the only thing
that looks into one; constants say which texts are timestamps and numbers.
`ParseOne` is one turn of Go's `FlagSet.Parse` (external), `main` the switch on
the command, and each command's own function is an action. What the user
*meant* (`Meant`) is defined from what was to be typed, not from how it is
parsed. Users also type what is no command; `Typed` asks that its operands do not
complete the name of one, since `blueprint` with the operand `list` *is* typed as
`blueprint list` and would have two meanings.

## 3. Runs

Deadlock is checked except where the program ends: in `Harness` (every runner
exits), `Cli` (one command), `SdkClient` (every call has returned) and
`Scenario` (no step is left at the bounds).

| Run | Instance | What it shows |
|---|---|---|
| `registry_identity` | 2 handlers, sequence 2, epochs and sequence up to 6 in sum, 2 replies | What the daemon is told is never torn, never staler than what it knew when it asked and never brings back what it knew to be stopped; epochs determine states; every request is answered; the registry implements the atomic one |
| `registry_instances` | 2 handlers, sequence 4, generation 2, 2 replies, symmetry, known and unknown instances and registrations | Instances keep their identity and only age; the registry implements the atomic one |
| `registry_commit` | 1 handler, sequence 4, 2 replies | *violation*: see Findings |
| `harness_runs` | 2 runners, 3 ports, 2 fixtures, deadline 1 | Only failed fixtures leave a child or a registry behind, stopping is ordered, exit status 0 is earned, runners end |
| `harness_leak` | 1 runner, deadline 2 | *violation*: see Findings |
| `harness_empty` | 1 runner, deadline 2, two `-run` flags | *violation*: see Findings |
| `scenario_lifecycle` | 1 audience, 1 peer, sequence 6, Agent epoch 3, Identity epoch and generation 2 | Stopped tokens stay stopped; a scenario's state is its own; the reading steps find it |
| `verify_calls` | 1 caller of either package, 2 deployments of which one rotates once, 2 audiences, 2 proof keys, 1 token with an epoch of 0 or none | Accepts what is valid and nothing else; returns; implements `VerifyPromise` |
| `cli_calls` | up to 2 flags and 2 operands, 3 texts | Flags first always reaches the call that was meant; no other call is made |
| `cli_usage` | the same | *violation*: see Findings |
| `presentation_calls` | 1 gateway, 2 keys, 2 audiences, 2 proofs, 1 token, cap 1, proof age 2, lifetime 2, time 2 | Accepted contexts are bound and fresh; a new proof suffices; calls return |
| `sdk_calls` | a call of each package, 1 challenge, 5 methods, 302 and 307 redirects to anywhere, at most 2 | Nothing is carried out twice; success is true unless a redirect led astray; one challenge enrolls once; a used proof is another's; calls implement `RemoteCall`; deadlines end them |

### Bounds, and why they are enough

All bounds are constants of the modules, and guards of the actions that count;
`MaxSettings` and `MaxRest` of `Cli` bound the command lines of `Init`.

- `FakeRegistry`: `MaxSequence` bounds the ids, `MaxChanges` the sum of the counter
  and the two epochs, `MaxGeneration` the terminations, `MaxReplies` the different
  replies together with the requests under way. `EpochDeterminesState` compares two
  replies and `NoStaleAnswer` one with those known before, so two replies and two
  handlers suffice. Two seedings (sequence 2) are the least that can mix, and a sum
  of 6 lets the Agent that was seeded second be suspended and then revoked, or its
  Identity be suspended too. Sequence 4 has an agent, a workload, an instance and
  one of them again. The two runs split the operations (`Ops`) and the mutators
  (`Mutators`), since the identity and the instance properties meet only in the
  context handler, which both have. In the second, requests name instance 3, which
  may be current, another Agent's or never made, and registration 2 likewise; 0 is
  none. Symmetry is used only in the run without liveness. The proofs remove the
  bounds from all but liveness.
- `Harness`: three ports are one more than two listeners of one runner need, so two
  runners collide on some and not on others. `TwoFixtures` has each kind of step, a
  second step after a first and a second fixture after a first. `Families` has the
  two flags that `conformance/README.md` shows, one that some ids contain and one
  that none does. With `Deadline` 1 and `ProbeTimeout` 1 a poll is answered, fails
  fast or fails slowly, once; the violation runs poll twice.
- `Scenario`: `MaxSequence` 6 allows an Agent, a registration, an instance, and
  the same again in the next fixture, or in one fixture two registrations or an
  instance committed again. The epochs let the Agent be suspended before and after
  it is revoked. One audience and one peer suffice for `StoppedNeverActive`, which
  the theorem then has for any number, and for any epochs. The two fixtures leave a
  row of another Agent in each list that the reading steps search.
- `LocalVerify`: two deployments are needed for equal kids; one of them makes a
  second key (`OneRotates`), for one rotation with its overlap and its end, with a
  new kid or the old one. One token is enough because a call has one; `MaxTime` 1
  and `Lifetime` 1 let it expire at each point of a call. A token with the frozen
  package's epoch of 0 and one with no epoch are the two that its check has to tell
  apart; the other profiles give the same verdicts. The theorems have all of them.
- `Presentation`: calls of one gateway share nothing with those of another but the
  ledger and the proofs, and late proofs of an earlier call stand for those in the
  run; the theorems are about any number of gateways. `Send` requires `now + Cap <=
  MaxTime`, so that a call is never cut off by the end of the clock.
  `ClientTimeouts` is `{0}` (no timeout): with `Cap` 1 every other value gives the
  same `Timeout`. Tokens are issued for one of the two keys and one of the two
  audiences, so that a presentation by the wrong key or for the wrong audience
  happens.
- `SdkClient`: two calls can meet only at the authority's record of used proofs,
  so two calls, one of each package, and one challenge suffice; either may be a
  completion, a token request, a write without a proof or a read. 302 stands for the
  redirects that make a GET of a request, and 307 for those that keep it. Two
  redirects let a request be led away and back, and then still be carried out. Both
  calls have a deadline.
- `Cli`: two flags have each order and each repetition; two operands are one
  more than any command takes. `SomeTexts` has an empty text, one that is a
  timestamp and a number at once, and a list of two empty parts. The theorems
  are about any texts, the names of commands among them, and any lengths.

### Fairness

- `FakeRegistry`: weak fairness of the end of a mutator the runner has begun
  (straight-line code), and strong fairness of a waiting handler, because
  `sync.Mutex` hands the lock to a waiter that has been starved for a
  millisecond. The daemon need not send, and the runner need not call.
- `Harness`: weak fairness of each runner's own steps (probes and requests have
  timeouts, so each ends) and of the death of a killed process. The daemon
  never has to bind, answer or crash.
- `LocalVerify`: weak fairness of the timeout, if the client has one, and of
  the check. The deployment owes no answer.
- `SdkClient`: weak fairness of the deadline of a call whose context has one. The
  network and the authority owe nothing; a call without a deadline need not
  return, as with `http.DefaultClient`.
- `Presentation`: weak fairness of the clock, the timeout and the check. The
  deployment owes no answer.
- `Scenario` and `Cli` have no liveness properties.

## 4. Findings

The violation runs show four places where the code does not do what its
comments and documents say. Their exact quotations are in `PROJECT.json`.

1. `registry_commit`: a commit that the daemon repeats after a lost 201 makes a
   second instance (`registry.go:367`), where `docs/conformance-claim-v2.md:22` and
   `:41` speak of a stable idempotency key and an idempotent commit. The registry of
   the suite reads no key, so no fixture can tell whether a daemon sends one.
2. `harness_leak` (code bug): a run with a failed fixture ends by `os.Exit(1)`
   (`cmd/eidovela-conformance/main.go:73`), which skips the deferred `stop()`,
   and leaves its daemon running.
3. `harness_empty`: `-run` with a text that no fixture's id contains runs nothing
   and exits with 0 (`main.go:54-57`, `71-75`). One of the two examples in
   `conformance/README.md:62-67`, `-run O-`, is such a text.
4. `cli_usage`: `federation-trust create` and `instance lease`, typed in the
   order their usage lines give, print the usage.

### Divergences seen, without a run of their own

Where a definition is named, the module shows it there:

- A deny step passes on any error (`executor.go:515`), so also when nobody
  answers because the daemon is dead; `conformance/README.md:3-4` speaks of
  checking the daemon. `SuccessMeansEveryStepMet` says precisely what is left of
  exit status 0 (`Met` in `Harness`).
- `Verify` with a nil client (`v3/verify.go:88-93`) uses one without a timeout
  and waits for ever for an issuer that does not answer, where
  `docs/consumer-integration-fp1.md:120` has verification fail on an outage. The
  constant `ClientTimeout` is FALSE for it, and `EveryCallReturns` is then false.
- `Verify` of v3 accepts a token without epochs and returns zeros for them
  (`v3/verify.go:147-155`, `PrincipalV3`), where the comment at `v3/verify.go:51-52`
  names both epochs among what it checks; the comment at `150-151` tolerates the
  single older one.
- `Verify` of v3 falls back on the claim `lifecycleEpoch` (`v3/verify.go:150-153`),
  but the frozen package reads, and its profile carries, `lifecycle_epoch`
  (`verify.go:112`): v3 accepts such a token with no epoch at all (`Claims`).
- A write behind a 301, 302 or 303 becomes a GET, and one behind any redirect may be
  led to another URL; `do` (`v3/client.go:520-544`; the frozen client has the same
  code) takes any 2xx answer with a JSON object and returns without an error, its
  missing fields empty. So `CreateFederationTrust` (`v3/client.go:393-398`) may
  return an empty trust with nothing created, and any other write likewise.
  `SuccessMeansDone` says exactly when success is true, and `Astray` when it says
  nothing.
- `evidence_events` and `evidence_since` accept the enrollment of any Agent
  (`executor.go:410`, `446`). `ReadsShowScenario` says that they miss none.
- The comment of `LeaseInstance` (`registry.go:188-189`) speaks of a lapsed lease;
  nothing ever sets an instance to expired, so a lapsed one can be renewed.
- The comment of `ListAgentsPage` (`client.go:451-453`) asks for a URL-escaped cursor,
  and `pageQuery` (`client.go:624`) escapes it.

### Smaller observations

No document in the repository says otherwise, or the code is a test double:

- A suspension after a revocation makes a retired Agent suspended again
  (`registry.go:153`). It cannot revive a token (`LifecycleIsFinal`).
- Two list replies may leave in the opposite order of their reading, since they are
  sent after the mutex is free: an answer is fresh for its own request only
  (`NoStaleAnswer`).
- The Registry Context never compares an instance's Agent with the one asked for
  (`registry.go:296-304`): asked for an instance of a replaced Agent with the
  current one, it shows that instance beside the current Identity.
- With two usable keys under one kid, `Verify` of either package tries the first
  only, and a token signed with the other is refused (`AcceptsEveryValid` names the
  condition).
- When the authority refuses a completion after it has recorded the proof, the retry
  with the same challenge is refused as used, although nobody enrolled
  (`SpentByAnother` says no more than that another call was sent).
- Federation trusts in the daemon outlive the fixture that registered them.
- The port that `freePort` found may be taken before the daemon binds it, also
  by the runner's own registry; `StartDaemon` then fails cleanly at its
  deadline, or talks to another runner's daemon.
- `evidence` and `federation-trust list` ignore operands, and a lone flag is
  taken for the operand by `suspend`, `revoke` and the commands without flags.
  `NoCallUnlessMeant` exempts exactly these.

## 5. Proofs

Each assumption on constants is in the module that declares them:
`ThreadsAssumption` and `DataAssumption` (the names of threads differ, attestations
and leases are positive numbers), `HarnessAssumption`, `ScenarioAssumption`,
`LocalVerifyAssumption`, `PresentationAssumption`, `SdkClientAssumption`, and for
`Cli` `TextAssumption` (a text has at least one part, and neither a timestamp nor a
number is empty) and `BoundAssumption`. They say that sentinels are not members of
the sets they stand beside, that scripts are not empty, that flags, packages,
profiles and redirects are of the kinds there are, and that bounds are numbers. The
theorems hold for every number of handlers, runners, ports, callers, gateways,
deployments, audiences and keys, every script, every text and command line, and
every value of the bounds.

Every invariant and every safety action property that a passing run checks is
stated by a theorem, and so are the three refinements.

### FakeRegistryProofs

`TypeCorrect`, then `ViewsCorrect`: the inductive invariant
`ViewsInv = MutexInv /\ WholeInv /\ SentInv /\ ReplyInv /\ NoStaleAnswer`.
*MutexInv* alone says nothing of replies; *SentInv*, that no reply that is made or
sent is newer than what is current, is not inductive without knowing that a handler
reads only outside a critical section and that what it holds is still current;
and *WholeInv*, that Agent and Identity belong together, holds only outside critical
sections. The proof has two halves. Handlers change nothing and reply what is
current (`HandlersReadCurrent`); mutators reply nothing and change the fields in
one of a few ways (`RunnerEffect`). From it follow `EpochsDetermineStates`,
`ContextsOfOneView` and `AnswersAreFresh`. For the last, *SentInv* also says that
what was shown as stopped is stopped still, as long as the Agent is the same, so
that a reply, being current when it is made, is not older than anything sent until
then; and *ReplyInv* that what was known when the request was sent is among it. A
reply stays fresh while it waits to be sent because what its reader knew is fixed.

### AtomicRegistryProofs

The other half of the registry, its maps, and the whole of it against
`AtomicRegistry`.

- `InstancesAge`: each step adds instances, or changes one in one of two ways
  (`Aged`).
- `StoreCorrect`: `StoreInv = OrderInv /\ StoredInv /\ ServedInv` is inductive on
  top of `ViewsInv`. The order slices list the maps; an instance is stored under
  its own id, with a registration that exists; and from its check of the agent to its
  reply the context handler serves the current one.
- `GenerationsDetermineInstances`, from `ShownInv`: what was sent of an instance
  is not ahead of it, and at its present generation differs from it in the lease
  alone. Ids are used once, because the counter that makes them only grows.
- `RegistryIsAtomic`: the initial states correspond, and every step is one of
  `AtomicRegistry` or a stutter. `EffectiveAgent` and `EffectiveIdentity` give the
  state a mutator is about to reach, so the first half of `RevokeAgent` is the
  whole of it there and the second half nothing. A handler runs outside critical
  sections (`MutexInv`), where both are what is stored; the context handler, which
  takes its decision in two halves, needs `StoreInv` for the second.

### HarnessProofs

`PhaseInv = StartedInv /\ HolderInv` ties where `main` is to what it has
started and to who holds which port; `StopOrder` follows. `ExitedInv`, that a
runner which ended without a failed fixture has no child, is inductive on top of
it, since nothing but the child's own steps moves what has ended.
`CleanUnlessFailed` follows from both: of all the ways `StartDaemon` and `main`
end, `os.Exit(1)` after a failed fixture (finding 1) is the only one that leaks.
`VerdictInv = HeardInv /\ EndInv` says that the verdicts are complete for every
passed fixture and for the current one up to its current step, and that the
deferred `stop` runs only when nothing failed; `ExitZeroIsEarned` follows.
`TypeCorrect` bounds the time polled: a poll starts before the deadline and takes
at most one probe.

### ScenarioProofs

`Inv = LifeInv /\ EnrollInv /\ OwnInv /\ EpochInv /\ RowsInv`.

- `LifecycleIsFinal`, from `LifeInv = StoreInv /\ HandInv /\ TokenInv /\ DeadInv`:
  no token is ahead of the registry, and a stopped one is *behind* it in one of
  four ways: its Agent has been replaced, one of its two epochs has passed, or
  its instance is terminated. A step of the registry can only go on
  (`StepGoesOn`), so what is behind stays behind. This is why no order of
  lifecycle steps, not even suspending after revoking, revives a token.
- `OwnState`, from `OwnInv`: ids grow, so what is greater than the scenario's
  Agent was made since it was seeded, in this fixture. That comparison is what
  makes "its own" inductive, since a registration does not name its Agent. A commit that
  is repeated names the same Agent and registration as the instance before it
  (`Commits`), so whichever answer arrives, the instance is the scenario's own.
- `ReadsShow`, from `EpochInv` and `RowsInv`: the current Agent's epochs are set,
  and among the rows of its own enrollments there is a first one to decide.
- `TypeCorrect` needs `LifeInv`, by which the instances in hand and in tokens
  exist, and `EnrollInv`, by which a challenge has its registration.

### LocalVerifyProofs

`TypeCorrect` and `AcceptedWasValid`, for either package. `SeenInv` says that what
is published is among the keys seen during a running call, and so are the keys
in hand once they are fetched. The check then gives the rest: if no check fails,
none of the seven faults is there.

`ValidWasAccepted` is the converse. `AlwaysInv` says that keys published at every
moment of a call are among those in hand. That is not enough, because the code
takes the first entry with the token's kid that holds a key; that no other usable
key was shown under that kid during the call makes it the signer's. Which entry
is the first is found by the well-foundedness of the numbers (`Least`).

`CallsKeepPromise` is the refinement of `VerifyPromise`, and stronger than the two
together: it says what a call answers, not only what it must not. The first entry
is one of those with the token's kid, so the bit is one of the answers the promise
leaves open; with it the checks find no fault exactly when the promise calls the
token valid; every other way to return is a refusal or no answer; and the
deployments' steps leave every token, and so every call's bit, as it was.

### SdkClientProofs

`Inv = TypeOK /\ EnrolledOnce /\ CallInv` for each call. A POST that is *pending*,
out or redirected and to be sent again, has not been carried out (*Once*): this is
why following a redirect, or giving up, cannot double a write. What was carried
out with a proof has its identifier on the authority's record, and two
completions of one challenge share theirs, so the second is refused. An answer to
the call's own request says that it was carried out (*Answers*), and once a call
has returned no step moves it but a broken connection, so `SuccessMeansDone` stays
true (*Recorded*). From these follow `TypeCorrect`, `CarriedOutAtMostOnce`,
`OneInstancePerChallenge` and `SuccessIsTrue`, for all redirects and all methods.

`RefusedOnlyForAnother` has `UsedInv` besides: a proof that is on the record while
its own call has not been judged yet was put there by another call with the same
challenge. A refused request adds its identifier, too, but its own call is then
judged and does not present it again.

`ImplementsCalls`: every step of `SdkClient` is a step of `RemoteCall` or a stutter.
The authority's steps lead no call astray, since they change neither the verb nor
the place of a request; following a redirect is the one step that does.

### PresentationProofs

`Inv = TypeOK /\ CallInv`: a waiting call is at most `Cap` old (*InTime*), and
a context that was returned was that of the token, true at some moment since
the call began (*Truthful*). `TypeCorrect`, `AcceptedContextsBound` and
`StalenessBounded` follow; the last needs both parts, since the context may
have been true only when the call began, and the answer is read at most `Cap`
later. `NothingGoesElsewhere` follows from where `Send` sends and from a redirect's
ending the call.

`NewProofIsEnough` has an invariant of its own, `NewInv`: a proof's jti is its own
number (`Numbered`, which is `SignDPoP`'s fresh jti), the proof of a call that is
sent and still `sole` is neither in the ledger nor late nor under way with another
call (`Unused`), and once the deployment has taken it, what comes back is the true
context (`Promised`).

### CliProofs

`IInv` has three parts. `TypeInv` strengthens `TypeOK`: what is left is what was
typed without its beginning, its elements included. While the program runs, `At`
says where it is: before main's flag (`AtServer`), before the command's name
(`AtCommand`), before the i-th flag with exactly the first i - 1 in the values
(`AtFlags`), or at operands that come first (`AtOperands`). Once it has ended,
`Suits` is the two properties together. The case of the operands first is needed
although `FlagsFirst` does not speak of it: `NothingButMeant` must show that such a
line ends in no call, unless it is one of the exempt.

Two facts about names carry the switch of `main`: no command's name begins
another's (`OneCommand`), so at most one action is possible, and a flag's value is
the one it was given last (`IsValue`, `HasRead`), in whatever order. `FlattenSeq`
is a fold; what it gives for the first i settings, and for those after i, is shown
by induction over the numbers up to their count, for a *set* of numbers (`UpTo`),
which follows from the well-foundedness of the numbers and needs no theorem with
an operator parameter.

### What is only model-checked

- Liveness (`EveryRequestAnswered`, `RunEnds`, both `EveryCallReturns`,
  `BoundedCallsReturn`): the proof system does not reason about fairness and
  `ENABLED`.
- The four violation runs, which show single behaviours.

### What the proofs found

Two properties held on the small instances and were false in general; both models
were corrected where they were wrong, and the code was right:

- `NewProofSuffices`, with a history that looked only at the moment of the call:
  false for two gateways, of which the second relays the first one's proof (see
  `sole` above).
- `NoCallUnlessMeant`, with command names among the texts: what is no command and
  its operands could together be one (see `Typed` above).

## 6. Not modelled

- **The daemon.** Not in the repository.
- **Attestation documents** (`spiffe.go`, the end of `executor.go`): encoding
  for verifiers that are in the daemon. `Scenario` takes an enrollment as
  accepted or refused.
- **Peer issuer**: a signed token and a key set that verifies it are one step of
  `Scenario` (`IssuePeerToken`). Its lock guards a map that is written once,
  before its server starts.
- **Paging** in the SDK clients: both leave the loop over pages to their callers,
  and the order of the entries is the server's, so nothing about a list that
  grows between two pages is decided by code in this repository.
- **Local loop example**: ten calls in a row, each fatal on an error. `SdkClient`
  has the calls; nothing in the example depends on an order but the data flow
  from one answer to the next request.
- **Dead code of the executor**: the blueprint steps, `suspendWithReason`,
  `evidenceLifecycleReason`, `cursorPageAgents` and `emptyPage` are called by no
  step.
- **Contracts, schemas, documents**: not code; quoted where the code disagrees.

## 7. Plan

Every component that holds state is modelled, and every safety property that a
run checks is proved. The order was that of importance: the registry decides what
the daemon believes, the harness what a verdict is worth, the scenario what the
fixtures mean, and the SDKs what an application accepts and may believe of its
calls.

What is left would be new statements rather than open ones:

1. `Scenario` uses `AtomicRegistry` and `FakeRegistry` implements it; a theorem
   that joins the two, with the daemon's requests between, would carry
   `LifecycleIsFinal` to the registry with its mutex.

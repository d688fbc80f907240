# A TLA+ verification project for capd

capd is a daemon that runs coding-agent CLIs (Codex, Claude Code, Gemini, OpenCode,
Cursor) behind one JSON-RPC protocol over WebSocket.  Clients create sessions, send
turns, follow the events of a session by their sequence number, disconnect and come
back; sessions outlive clients and, through a SQLite store, the daemon itself.

This directory holds TLA+ specifications of the parts of capd whose correctness
depends on the order in which things happen, TLC configurations that check them on
small instances, and TLAPS proofs.

## 1. Inventory

| component | state | operations | interacts with | what makes it hard | what makes it correct |
|---|---|---|---|---|---|
| **Session event log** `internal/session/manager.go` (`Session`), `store.go`, `server/router.go` (`subscribe`) | `nextSeq`, ring `buf`, `subs`, `ended`; tables `events`, `sessions`; one channel per subscriber | the pump's stamp / persist / broadcast, end of stream, `Subscribe`, the subscriber goroutine, revival of a log | adapter events in; store; client connections out | slow subscribers, writes that fail, crashes between write and broadcast, restarts, replay joining live | what a client gets is durable, in order, without holes; seqs are never reused for stored events |
| **Session registry** `manager.go` (`Manager`) | `sessions`, `reviving`; table `sessions` | `Create`, `Resolve`, `Fork`, `Close`, `forgetEnded` | adapters, store, pumps, all request handlers | every operation is several critical sections | revival is single-flight, no live session gets lost, a closed one is over |
| **Turn sessions** `internal/adapter/turn.go`, `proc/runner.go` | `busy`, `closed`, `cancelTurn`, `nativeID`, a WaitGroup, the events channel | `Send`, `runTurn`, `Cancel`, `Close` | agent processes, the pump | steps after the unlock, a full channel, close during a turn | one turn at a time, `task.done` after the slot is free, every close returns |
| **Codex engine** `internal/adapter/codex/appserver.go`, `rpc.go` | profile pool, `client`, `sessions` by thread, `pending` calls; per session `turnID`, `approvals`, `closed` | `ensureClient`, `register`, death, `Send`, `Steer`, `Cancel`, `Approve`, `Close`, notifications | one process shared by many sessions, registry, pump | death of the engine against everything else, answers that come late, non-blocking emits | every session of a dead engine ends, each approval is answered once, a steer names the running turn |
| **Account store** `internal/account/store.go` | tables for accounts, current account, quota, bindings, profiles, health | CRUD in and out of transactions | handlers, routing, the CLI (another process) | look-then-write without a transaction | no rows of deleted accounts, an account is current |
| **Account credentials** `account/codexauth`, `account/secret`, `server/accounts.go` | secret store, runtime projections, per-account locks | import, project, sync back, refresh quota, remove, migrate | account store, OS keyring, Codex | several stores without a common transaction, calls out between read and write | an account with a row has its credential, removal is not undone, the newest tokens win |
| **Account routing** `account/routing.go`, `server/agent_router.go` | none | score, penalties, freshness, tie break | quota and health rows | numbers at boundaries, facts that change during the selection | a total, stable choice; the least used account |
| **Client connections** `server/ws.go`, `server.go` | `out` queue, scope | enqueue, reply, notify, dispatch | subscribers, handlers | one queue for answers and events, cancellation | a client that loses a message loses its connection |
| **Router compositions** `server/router.go`, `review_multi.go` | none | `session/create` with account and binding, fork, `task/send`, `task/review` on several agents | registry, accounts | later steps failing, a client that is gone half way | nothing half done stays unnoticed |
| **Readiness** `server/accounts.go` (`accounts/check`), `cmd/capd/doctor.go`, `cmd/capd/accounts.go` (smoke), `repairplan`, `repairrunner` | none of their own | three checks of the same accounts, repair plans, bounded runs of plans | account store, secret stores, daemon, shell | three programs judge one state through different eyes | verdicts agree, plans lead to readiness, a run's summary is true |
| Adapters' translators, discovery, audit, secret backends, most of the CLI, daemon start-up, protocol types, consoles | little or none | parsing, rendering, pure I/O | | | not modelled, see section 7 |

`PROJECT.json` lists the components with their sources and the hazards with their
lines.

## 2. Modules

| module | models | proofs |
|---|---|---|
| `TailedLog` | abstract: what a session's event log promises its clients | `SessionLogProofs`: `SessionLog` implements it |
| `SessionLog` | the event log of one session, its subscribers, store, crashes, revival | `SessionLogProofs` |
| `SessionRegistry` | `Manager`: ids, Session objects, concurrent handlers | `SessionRegistryProofs` |
| `TurnSession` | `TurnSession`: turns, cancel, close, the channel | `TurnSessionProofs` |
| `CodexEngine` | one profile of the Codex app-server: engine processes, handshake, registration, routing, `Close`, death | `CodexEngineProofs` |
| `CodexTurns` | one thread of an app-server: calls and late answers, the turn id, approvals, the events channel | `CodexTurnsProofs` |
| `Accounts` | rows, credentials and projections under daemon and CLI at once | `AccountsProofs` |
| `Routing` | operators: agents by capability, accounts by score | through `Gateway` and `Readiness` |
| `Gateway` | requests from the connection to the session and back, composed with `Routing` | `GatewayProofs` |
| `Readiness` | the checks and repair plans, composed with `Routing` | `ReadinessProofs` |
| `MC*` | the constants of TLC's instances | |

`Gateway` and `Readiness` EXTEND `Routing`: what is chosen there is what the operators say.  The
components that share nothing but a session id meet at an interface that each models from its side:
`SessionRegistry` has a session's pump as two steps, `CodexEngine` has the manager's close,
`Gateway` has the manager as it looks to its callers, and `Accounts` has in steps the projection
that is one step in `Gateway`.  They are not composed outright, which has a price at one place.  `SessionLog` has one live
Session per log, and the registry can have two.  A second revival (finding 1 in section 4), a `Resolve` after a `Close` whose
`MarkEnded` failed, or one that reads the row before a `Close` under way marks it ended, leaves two pumps that number their
events alike, and `INSERT OR IGNORE` keeps the first event of each number.  What is said below of the log holds as long as that
does not happen; `LiveIsAccountedFor` says that nothing else makes two.

### How SessionLog corresponds to the code

The pump's handling of an event and `Subscribe` run with `s.mu` held and are one
action each: `PumpStored`, `PumpUnstored` (the write fails), `PumpEndStored`,
`PumpEndUnstored`, `Attach`.  An action holds all that the critical section does, in
its order: stamp, ring, write, native id, broadcast, the notice of a failed write.
`WriteFails` has two outcomes, because `afterWrite` (store.go:241) reports a failed
chmod as a failed write although the row is in.  `CrashInPersist` cuts the critical
section after the write, the only place where a crash leaves something that
`Crash` does not.  The subscriber goroutine is outside of the lock: `DeliverReplay`,
`DeliverLive`, `Drained`, `Overflowed`, `Disconnect` are the cases of its `select`.
`Revive` is the tail of `Resolve` (manager.go:182-189) with each of its reads
succeeding or failing; it needs `phase = "gone"`, which is the scope named above.

Data: an event is a record of its seq, its kind and an `id` that stands for its content.  The
table is a set, since `(session_id, seq)` is its key; the first `len(replay)`
places of a channel are the set `backlog` (`LoadEvents` orders by seq), the rest is
the sequence `ch`, and `cap` is the channel's capacity.  `seen`, `since` and
`lost` are history variables.  The five-thousand row pages of `Subscribe` read
under the lock and are one read here.

### How SessionRegistry corresponds to the code

Each request handler is a caller with a program counter.  A step is one critical
section of `m.mu` or `s.mu`, one store call or one adapter call, so that everything
the code allows to happen between two of them can.  `held` is the `*Session` a
caller has in hand or, while it waits, the caller that owns the `reviveCall`.  A
Session object has a state of its own (`obj`), since the code can have two live ones
for an id, and a `fate`, a history of how a live object came to be out of the
registry's reach.  `Fork` is `Resolve` followed by the steps of `Create`.  `StartSession` and
`Fork` of an adapter are one step that succeeds or fails, or is never taken (`AtAdapter`).  A `Create` begins with the return of its
`StartSession`: before that it has touched nothing that others see.

### How TurnSession corresponds to the code

The fields guarded by `s.mu` change in the critical sections (`Accept`,
`NativeRead`, `Release`, `Cancel`, `Close`), and what `Send`, `Cancel` and `Close` do after
the unlock are the actions `Launch`, `CancelFires`, `CloseCancels`, `Waited`, `CloseChannel`.
`stage` is the position of each turn's goroutine.  A cancel function is the turn
whose context it cancels.  `Receive` is the pump of `session.Manager`.  A send on the closed
channel is the action `Panic`, after which nothing moves.  A `task.done` printed by the
agent itself is withheld by `emit` and sent by the same `SendDone`, so that its
content is all that is abstracted.  A line with several events counts as several lines.

### How CodexEngine corresponds to the code

Three kinds of goroutine meet here.  A *starter* is a handler in `startAppSession` or
`Fork` (`start[c]`).  A *reader* is the read loop of one engine process (`reader[e]`): it answers calls,
routes notifications and, at the end of the process's output, fails what is pending (`EndOfLines`) and
calls `handleEngineDeath` (`Mourn`, then the sessions of the snapshot one by one).  The manager
closes sessions it was given.  `p.mu` guards single map accesses, which are one action each and need
`holder = None`; only `ensureClient` keeps it across steps, from `Launch` to `Install` or `Refuse`, and
`holder` is the starter that does.  `emit` is two actions, the check of `closed` and the send after the
unlock; so is every `Close` three: the flag, `unregister`, `close(s.events)`.  A send on a closed channel
is the action `ReaderPanics` or `StarterPanics`, after which nothing moves.

Data: an engine is the number of its start; a thread is whatever the process says, so an answer to
`thread/start`, `resume` or `fork` picks any thread, the thread of an older session included (that is what a
resume does).  `live` says that the manager was given the session.  `fate` is history: how an open session
came to be out of reach of its engine's death.  Adapters' fallback to a `TurnSession` is the return of the starter.

### How CodexTurns corresponds to the code

A connection handles one request at a time (`handler[c]`).  A call goes onto the engine's `stdin`,
its answer comes back on `wire`, in the order of what the process prints; the read loop takes one line at a
time.  The read loop puts an answer into the caller's channel (`ReadAnswer`), and the caller sets `s.turnID` when it
gets to run (`Wake`): between the two the loop may route the turn's start, its end and the start of the next turn.
`GiveUp` is a request whose context ends before the answer; its pending entry goes, and the answer is
dropped.  `Approve` takes the request out of `s.approvals` and `Respond` writes the answer, which may fail: two
steps, as in the code.  Both, and the calls, are possible after `Close`: a handler may have resolved the session before it.  `emit` drops an event when the channel is full, an approval request included, in which case
`ReadAsk` keeps the request in the map all the same.

Data: a text is the turn it comes from.  The app-server is external: it runs one turn at a time, prints
`turn/started` and `turn/completed`, and answers each call once.  `overlapped` is history: two calls that start
turns were under way at the same time, in which case the later answer wins whatever turn is running.

### How Accounts corresponds to the code

An operation (`op[s]`) is a request of the daemon or a command of the CLI, which is a process of its own.  Each
store call, each file operation and each call to the quota service is a step, and may fail: a write may also report
failure after it took effect, since `afterWrite` reports a failed chmod.  The daemon's locks per account
(accounts.go:78) are taken by projections, session starts and removals, and by nothing else; `Lockers` says so.
`CodexRefreshes` is the Codex process that rotates the tokens in the projected `auth.json` under capd's feet, the reason
for the sync back.

Data: a token is its `last_refresh`, 0 if it has none; a credential is its token; a projection is a directory, an
`auth.json` and a marker.  `raced`, `disturbed`, `unlocked`, `unset` and `stranded` are history: they name the windows that
the code leaves open, and the properties say that nothing goes wrong outside of them.

### How Routing, Gateway and Readiness correspond to the code

`Routing` is the arithmetic of `account/routing.go` and `quota.go`, in hundredths, and the order of preference of
`agent_router.go`.  A report with a window missing, with a percentage out of range, or checked in the future is
read as the code reads it.

In `Gateway` a handler is a row of store and agent calls.  The selection of an account is a loop over a list that was
read before it, with one read of quota and health per account: others may write in between (`calm` is history for
that).  A request about a session begins with `Resolve`: a live session is taken, one of which only the row is left (`open` without
`live`) is started again in the environment of its row (`env`), which may be that of an account removed since.  `Attach`, `Fork`
and `Send` go on from there with steps of their own; `Touch` stands for the five requests that only pass a call on.  Of these only
`session/attach` subscribes the connection to that session, and it is the one that a token for reading, `console:read`, may use (`Allowed`), so that
such a token can start an agent as well.  The manager is seen from its callers: `Close` without its `MarkEnded` leaves a run
*adrift*, alive outside of the registry, and the next `Resolve` makes another run of the session, which takes its place in the
model.  `Close` and `Resolve` are one step each here; what
comes between their parts is in `SessionRegistry`.  A handler whose Session ended under it goes on with one that is `gone`; a
later run of the id is not its session.
The failures of later steps take the paths they take in the code: a failed binding leaves the session alive; a review that cannot
start closes the session made for it, and those before it go on.  `fate` is history of the runs: woken by a request that does
not subscribe, dropped by one that failed, kept by a `Close` that failed; so is `apart`, of the sessions whose row and binding name
different accounts.  `Earlier` are the sessions a daemon before this one has left: a restart in between.  Answers and events share the
queue of the connection; a full queue cancels the connection's context, and every answer or event that follows is dropped.

In `Readiness` the state is the world that the checks look at: which processes run with which backend, rows,
credentials, stores that refuse, quotas.  A check is an operator on it.  A plan of `doctor` or of
`accounts/check` is a sequence of steps; it is followed by hand, or by `repair run` in one of its modes, which leaves
manual steps out and goes on after a failed step, which it reports (runner.go:42-87).  A plan of `accounts/check` is followed by hand only.
A step without a backend, `""` in the code, has `"any"`.  `Starts` is what the machine may hold at first.  `Faults` changes one
thing from outside, at most `MaxFaults` times, at any moment.

## 3. Runs

| run | shows | instance |
|---|---|---|
| `session_log` | 4 invariants, refinement of `TailedLog`, a subscriber gets on | 1 client, channel room 1, ring 2, 4 events, 1 revival, failing `append` and `native` |
| `session_registry` | 4 invariants, every call returns that no adapter holds | 2 callers, 2 ids, 2 Session objects |
| `session_registry_twice` | **violation**: concurrent Resolve starts a session once | same |
| `turn_session` | 5 invariants, a cancelled turn and a close end | 3 turns, 1 line, channel of 1 |
| `turn_session_panic` | **violation**: "Plain send is safe" | 2 turns |
| `codex_engine` | 4 invariants | 2 starters, 2 engines, 2 sessions, 1 thread |
| `codex_engine_live` | the death of an engine is handled | same, 1 session |
| `codex_engine_death` | **violation**: "every live session gets an error event and is closed" | as `codex_engine` |
| `codex_turns` | 3 invariants | 2 connections, 1 approval, 2 turns, 3 calls, channel of 2 |
| `accounts` | 6 invariants | 2 accounts, none imported before, 3 operations, 2 at a time, 1 token rotation |
| `gateway` | 4 invariants | 2 connections, 2 accounts (both in the profile), 2 agents, 2 requests, 2 sessions, one of them of the daemon before, 1 write by others, to one account, queue of 1 |
| `readiness` | 5 invariants | 2 accounts, 2 backends, 2 kinds of start (nothing stored; one account stored, but the store doctor is asked for is another and locked), 1 change from outside |

The properties, by what they protect:

* `SeqAheadOfLog`, `HandedIsDurable`: the store is never behind what clients were told.
* `NothingMissed`, `TailsLog`: a client that resumes after the last event it saw has been handed every
  stored event up to where it is.  The two exceptions the code has are spelled out in the property (a seq
  reused after a failed write; the end event after its own failure notice).
* `EventuallyHanded`: a subscriber that stays connected gets every stored event.
* `OneRevivalPerId`, `CallsReturn`: the single-flight map.  A call returns whatever fails and whatever is closed meanwhile, unless
  it is for ever in a call of its adapter, or waits for a revival that is.
* `LiveIsAccountedFor`, `ClosedIsOver`: registry, pumps and table agree; where the code lets a
  live session slip (published after a Close looked, replaced by a second revival, dropped by a Close that
  failed) the property names the case, and nothing else can slip.
* `OneTurnAtATime`, `SlotFreeAtDone`, `ConversationContinues`, `CloseWaits`, `CancelAndCloseEnd`: the
  turn slot, the conversation, and their ends.
* `RoutedToItsThread`, `ClosedOnce`, `DeathEndsSessions`, `DeathIsHandled`: what shares an engine process is kept
  apart, and when the process is gone its sessions are.  The sessions that a death cannot reach are named, and there
  are no others.
* `EachRequestInOnePlace`: an approval that the engine waits for is in one place, so that two clients who answer it
  do not both reach the engine and none is forgotten.
* `TurnIdIsCurrent`: `turnID` is that of the running turn through late answers and clients that do not wait, as long as no two
  calls that start turns overlap.
* `OrphansAreRaced`, `CurrentWhenStored`: rows refer to accounts that exist, and one of them is current.
* `TokensHaveCredential`, `ProjectionKeepsNewest`, `SettledAccountsAreWhole`: credentials, projections and rows agree.
* `ChoiceIsBest`: the account that the selection loop ends with is the best of all candidates, by a definition with quantifiers;
  the loop with its tie breaks is checked against it, whatever the order of the list.
* `StraysAreNamed`: a session that runs was subscribed to since it was started, reviews if it was made to, and runs in the environment
  of the account it is bound to.  The ways out of this that the code leaves are spelled out in the property, and there are no
  others: a request that does not subscribe woke it, the request that made it failed afterwards, the `Close` of an unsuccessful reviewer
  failed, its account was removed, or its row and its binding came apart.
* `AnswersArrive`: an answer is lost only together with its connection.
* `VerdictsAgree`, `FailureIsExplained`, `FourRoundsSuffice`, `RunMeansReady`: three checks do not contradict each other, a failure
  comes with a plan that has a step against each of its causes, and plans work, but for the troubles `BeyondPlans` lists.

Every property of a passing run has a mutant, an operator beside the definition it changes, under which TLC
finds the property violated.

### Bounds

* Clients of a session share nothing but the log: a step of one leaves the others' channels alone, so one client
  shows what any number does (the theorems are for every set of clients).  A channel with room for one event and a ring of
  two make overflow, trim and a partial replay happen within four events; four are enough for a failed write, its notice, a
  revival and an event that takes the reused seq.
* Two callers are enough for an owner with a waiter, a revival against a close and a late second revival; two objects for a
  session and its successor.  Creation stops when the objects run out (`Objects` bounds what one daemon process makes; a
  crash gives them back).
* Three turns are one that ended, one that runs and one that waits to be accepted; one line is enough to report a
  native id and to fill the channel.
* Two engines are one that dies and its successor; two starters are one that is held up anywhere between `ensureClient`
  and `register`, and one that goes past it; two sessions of one thread are a session and its revival.  More threads keep
  apart what the properties want to see meet.
* In `codex_turns` two turns and three calls let the answer of a turn's start come after its end, with a second turn
  under way; a channel of two drops events; one request is answered from both connections.
* In `accounts` three operations are an import and two that overlap over its account, and two accounts are one to remove and
  one to inherit; one rotation makes a projection newer than the store.
* In `gateway` a queue of one overflows at once; two requests of two connections and one write by others meet within the
  selection.  Two sessions are one that a request starts again and one that it makes, or forks from it; its account is the one that others may
  remove.  That takes 844 thousand states.  At first the two accounts have one score for a review and the second is current, so that the tie break decides;
  tasks of no class are scored in `readiness`.
* In `readiness` one change from outside may come before, between or during plans.  The two backends differ only in
  that the live preflight wants `native`.  Two accounts tell *one*, *several* and *all* apart.  Starts with nothing stored
  need two rounds in this instance; one with an account in the store that the shell uses, while doctor is asked for the other store and
  that is locked, needs four: daemon and shell, the store, the accounts, their quota.
* `CHECK_DEADLOCK FALSE` in all runs: events, turns, calls, objects, engines, operations, requests and faults are bounded, so behaviours end.
* Symmetry is used where no liveness property is checked, over clients, accounts and slots.

### Fairness

* `SessionLog`: weak fairness of each subscriber's goroutine, because the Go
  runtime keeps running a goroutine whose `select` has a ready case.  Nothing is assumed of
  agents, clients, crashes or store failures.
* `SessionRegistry`: weak fairness of the steps of a call, but of those that wait for an adapter (`AtAdapter`).  The others wait for
  the store, which answers, for the owner of a revival, or for the `Close` of an adapter, whose return `CancelAndCloseEnd` of `TurnSession`
  shows.  Of `StartSession` and `Fork` nothing is assumed: `thread/start`, `thread/resume` and `thread/fork` have no timeout
  (appserver.go:166, :173, :282), only the end of the engine or of the connection that asked ends them.
* `TurnSession`: weak fairness of goroutines, of `Close` and of the pump, and of the end of
  a process's output once its turn is cancelled (`proc.Start` kills it).  An agent left alone may
  stay silent for ever.  That the output ends with the killed process is an assumption: a
  grandchild that keeps the pipe open could delay it.
* `CodexEngine`: weak fairness of starters once they hold or need no answer, and of read loops.  This includes
  the handshake's timeout (appserver.go:63) and that a mutex is granted to who waits for it.  Weak fairness of the
  timeout is enough, since a handshake is pending until it ends.  A process may be silent for ever and never exit.
* The other modules state safety only: their steps wait for clients, for agents and for services that may never answer.

## 4. Disagreements found

Three runs violate what a comment or a test says; `PROJECT.json` has the quotations.

1. **Two revivals of one session** (`session_registry_twice`).  `Resolve` looks into
   `m.sessions` and `m.reviving` under separate acquisitions of the lock and does not look again.
2. **A send on a closed channel** (`turn_session_panic`).  `wg.Add(1)` follows the unlock in
   `Send`, so a `Close` in between waits for nobody.
3. **A session survives its engine unawares** (`codex_engine_death`).  Between `c.dead = true` and
   `handleEngineDeath` another handler's `ensureClient` replaces the engine and the map of sessions, so that the
   death handler finds the new map.  The session of the dead engine stays in the manager, its `Send` fails, and
   nothing ends or revives it.

Others were met while modelling.  The models contain them, and the properties make room for them where they apply; no
run is spent on them.

* manager.go:418 says "Adapter stream ended: tell subscribers and close them out."  The end event is dropped for a
  subscriber whose channel is full (manager.go:439) and its overflow signal is not given, so that
  router.go:539-542 drains the channel and returns: no `session.ended`, on a connection that stays up (`SendEnd`).
* README.md:401 says "reconnect with `session/attach {fromSeq}` and miss nothing".  An event whose write fails is
  broadcast with its seq (manager.go:396-397).  After a restart `Resolve` gives that seq out again (manager.go:185), and a client that
  resumes after it (docs/reference.md:572) never gets the event stored under it (`NothingMissed` names the case).
* `migrate-secrets` prints "after readiness passes, rerun with --delete-source" (cmd/capd/accounts.go), but a rerun skips
  the account, whose row names the target by then, as a source backend mismatch.
* `doctor`'s step `repair-secretstore` promises `secretUnreadableAccounts=0`, but its command, `capd secretstore check --roundtrip`, tests
  the store and not the accounts.  The plan is empty when only the daemon's backend is wrong, when the CLI is missing, when
  `--verify` and prompt-free exclude each other, or when the round trip fails with no accounts.  `accounts/check` that fails early
  judges by rows it has not looked at and adds the same step for nothing.  `BeyondPlans` lists what the plans do not mend.
* A `thread/resume` without an answer holds the request that revives a session until its connection ends, and all requests for that session with
  it: those wait for the owner and not for their own context (manager.go:140).  `CallsReturn` makes room for it (`Stuck`).
* README.md:401's "reconnect with `session/attach`" is the only request that subscribes.  After a restart `task/send`, or the parent's side of
  `session/fork`, starts a session that nobody subscribed to (router.go:392, manager.go:311), in the environment of its row,
  though its account may have been removed since (manager.go:168).  The row of a fork whose parent's row cannot be read has no
  environment, so that a revival runs it outside of its account (manager.go:335).
* `session/attach` is open to the scope `console:read` (router.go:485), and its `Resolve` starts an agent.
* The CLI's preview of a route (agents.go:378) only normalises the task class that the daemon would infer.

## 5. Proofs

TLAPS checks 37 theorems.  With them every invariant of the passing runs, and the refinement, is proved for every
value of the constants.  The assumptions are the modules' own (`ConstantsOK`, `BoundsOK`, `FactsOK`, `AccountsOK`, `StartsOK`, `TTLsOK` ...): finite sets,
numbers that are natural, first states of the right type.  TLC evaluates each of them on a run.  Theorems that need a hypothesis
of their own have it in the tables.  Each invariant is strengthened to an inductive one by lemmas of one
kind: *effects* (what an action does to one subscriber, session, starter or account, as a predicate of its own), *preservation* (one lemma
per conjunct and group of effects), and *implication* (the inductive invariant gives the property).

`SessionLogProofs`, about `SessionLog`:

| theorem | statement | inductive invariant |
|---|---|---|
| `TypeCorrect` | `Spec => []TypeOK` | `TypeInv`: a backlog is finite, stored and queued seqs are below `made` |
| `SeqAheadCorrect` | `"revive" \notin Faults => (Spec => []SeqAheadOfLog)` | inductive relative to `TypeInv`; the newest event of a log exists (`NewestExists`), and what follows the trimmed ring follows the log (`FollowsNewest`) |
| `HandedIsDurableCorrect`, `NativeIdStoredCorrect` | likewise | `DurableInv`: what is still queued is stored or lost as well |
| `TailsLogCorrect` | `"revive" \notin Faults /\ "replay" \notin Faults => (Spec => TailsLog)` | `TailInv`, below |
| `NothingMissedCorrect` | `"revive" \notin Faults /\ "replay" \notin Faults => (Spec => []NothingMissed)` | `WholeInv`, below |

The hypotheses are needed.  With the fault `"revive"` both reads of one revival fail, the session
starts again at seq 0 over an existing log and `INSERT OR IGNORE` drops its events.  With the fault `"replay"` a page of the replay
cannot be read, `Subscribe` ends the replay there without an error, and the client reads past a hole.

`TailsLogCorrect` is the refinement: initial states map to initial states, and every step is `Append`, `Read`, `ReadAside`, `Seek` or
a stutter of the abstract log, under the mapping that forgets all variables but `log`, `pos` and `seen`.  What carries it is that a
channel is a piece of the log (`Tailing`).  Its backlog is stored; its events come in order, but for the notice that precedes the end whose
write failed (`Sorted`); they are after the client's position (`After`); between the position and the last event it holds no stored event is
left out (`Gapless`); and as long as the subscriber is subscribed it holds all there are (`Complete`), which is what makes the next
broadcast continue it.  A subscriber that is cut or closed out loses `Complete` and keeps the rest.

`NothingMissedCorrect` rests on it, and says more than `TailsLog`: it looks at what the client has in its hands, over several attachments.  A
channel can jump over an event only if that is excused (`NoHoles`): its seq was reused after a failed write, or it is the end that its
own notice went ahead of.  What makes a reuse excused is that no seq was ever skipped: every seq below the next one, and every
seq up to a client's position, was given to an event that is stored or lost (`Dense`, in `Ground`).  So when a client's position is above a stored
event it has not seen, some lost event had that seq.

| module | theorem | inductive invariant |
|---|---|---|
| `TurnSessionProofs` | `TypeCorrect`, `OneTurnCorrect` | inductive as they stand, the second relative to the first; the WaitGroup is the cardinality of the set of counted turns |
| | `CloseWaitsCorrect` | `CloseInv`: where Close is, with `closed`, `open` and `panicked` |
| | `ConversationCorrect` | `Ordered`: turns are accepted in order, the slot is the last one's; `NativeInv`: the native id is the last one reported |
| | `SlotFreeCorrect` | `Ordered`, and `DoneInv`: a queued `task.done` is of a turn that is over |
| `SessionRegistryProofs` | `TypeCorrect` | inductive as it stands |
| | `RevivalCorrect` | the property itself, read from the map's entries and from the waiters |
| | `RegistryCorrect`, `ClosedCorrect` | `RegistryInv`: who makes, closes or drops which object, that registered objects have rows and pumps, and what a `Close` that has looked will still do |
| `CodexEngineProofs` | `TypeCorrect` | `Types`, with the engines that starters know |
| | `RoutedCorrect`, `ClosedOnceCorrect` | `SharedInv`: a session being started is its starter's alone, and a session being closed has one closer |
| | `DeathCorrect` | `DeathInv`: an open session that nobody lost is with its starter, in the map, or with a death handler; a session in the map whose engine's death came first is one that was registered late |
| `CodexTurnsProofs` | `TypeCorrect` | `CallInv`: call ids are distinct, notifications are of turns that were started |
| | `TurnIdCorrect` | `TurnInv`: calls, answers and turns keep their order, so that the last id set is the newest turn's |
| | `RequestsCorrect` | `AskInv`: at most one place, and one as soon as the engine has asked; the cardinality follows |
| `AccountsProofs` | `TypeCorrect` | `Ranges`, `Locking`: a lock is held by the operation that is in its locked part |
| | `CurrentCorrect` | inductive as it stands |
| | `OrphansCorrect` | `Flagged`: the writers that looked before a deletion and have not written are flagged by it |
| | `CredentialsCorrect` | `Credentials`: a projection past its read holds the lock under which the credential stays |
| | `FreshnessCorrect` | `Freshness`: the copy in hand is as new as the file, until Codex rotates it |
| | `SettledCorrect` | `KeptWhole`: for an account that nothing has disturbed, each operation under way is where its kind and the tables allow (`Fits`), no two of them clash (`Clear`), and row, credential and directory are there or one of them is about to see to it |
| `GatewayProofs` | `TypeCorrect`, `AnswersCorrect` | `TypeOK` with what a handler carries at each position (`Shapes`); what is owed is what is queued and what is being worked on |
| | `SessionsCorrect` | `AllGood`: of every session, who watches it, who still has it in hand and at which step, that nobody but its maker binds it (`Matched`, `Unbound`), and that a review has not let go of one it hired before it reviews (`Hiring`) |
| | `ChoiceCorrect` | `Selections`: the best of the accounts weighed so far, with its score as of facts nobody has written since; the order of the list does not matter because a tie is decided by current and id |
| `ReadinessProofs` | `TypeCorrect` | `Types`: a plan that is not empty ends with its check, and an `align` names a backend |
| | `VerdictsCorrect`, `ExplainedCorrect` | they follow from `Types`: the three checks are compared as operators, case by case |
| | `RunCorrect` | `RunLeads`: with `FitsDoctor`, what the steps left will mend is all that a run that has gone well so far has not mended |
| | `RoundsCorrect`: `Cardinality(Accounts) >= 2 => ...` | `Settled`: what each round has mended for good; `Leads`: the steps still to come that are to mend the next |

`CloseWaits`, `DeathEndsSessions`, `LiveIsAccountedFor` and `OrphansAreRaced` do not say that nothing goes wrong, which the code
does not give: they say exactly how it can, and the theorems that there is no other way.

`RoundsCorrect` needs its hypothesis: with one account doctor asks for a second for ever.  The proof corrected the model as well.  The property
said two rounds, and no run had contradicted it, because every behaviour began with nothing stored.  The attempt to prove two stuck at a store that
is locked and that the shell does not use; such a state is a start of the run now, and the bound is four (with three, TLC finds a violation).

Only model-checked: the liveness properties `EventuallyHanded`, `CallsReturn`, `CancelAndCloseEnd` and `DeathIsHandled`, since the prover has no
`ENABLED`.  Induction over data (what a recursive definition computes for all inputs) is out of its reach as well; the modules
use no RECURSIVE operator, and `ChoiceCorrect` gets by without because the selection loop is a loop of steps.

## 6. What could follow

* A lock order between `m.mu`, `s.mu` and `p.mu` as a property of a composition of `SessionRegistry` and `CodexEngine`.
* `account_health` as a table of `Accounts`, with the orphans its writers leave.
* Plans of `accounts/check` followed by `repair run`, in `Readiness`.

## 7. Not modelled, and why

* `List`, `Stats` and `History` read state and change none; so do the listings and summaries of accounts and profiles.
* The in-memory mode without a store (`store == nil`) exists for tests.
* The fault `"replay"` (a page of the replay cannot be read) and the fault `"revive"` (both reads of a revival fail) are
  actions of `SessionLog`, but are left out of its passing run: the code gives no promise for them.
* The panic of `emit` on a channel that a `Close` closes between its check and its send (appserver.go:230) is in `CodexEngine`
  (`ReaderPanics`, `StarterPanics`); no property excludes it, because the code does not.
* Translators, discovery, audit, secret store backends, daemon start-up, consoles, protocol types: parsing, rendering and I/O
  without state that concurrent steps share.  Secret stores appear in `Accounts` and `Readiness` as calls that may
  fail, discovery in `Gateway` as any set of agents.
* The commands of the CLI that send one request to the daemon and print its answer.
* The pool of profiles (`appServer.profiles`): a profile is made once per environment under one mutex, and
  profiles share nothing.
* In `CodexEngine` the pending table by request ids: a caller has one call at a time, so that its place in `start` is
  its entry (`CodexTurns` has the table).  A notification or an approval request without a session is dropped or denied without a change
  of state.
* Of a connection: the `initialize` gate, pings and metrics.  Of requests: the decoding of parameters, and in `Gateway` what
  steers, rollbacks, reviews, approvals and cancels do after their `Resolve`.
* The timeouts of repair steps and what they print.
* Metrics, logging, wording and layout.

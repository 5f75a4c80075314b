# comms-server: models, checks and proofs

TLA+ models of comms-server (Go): the WebSocket signaling server, its call
log, both together, the message queue with its cleanup, accounts with their
devices and contacts, call routing and triage, the SIP bridge, the server's
configuration and its life from start to shutdown, and the `register`, `dial` and
`answer` commands of the command line client.  TLC checks each on small
instances; TLAPS proves the safety properties of all but the client for every
instance.  Paths are relative to `src/`; `PROJECT.json` maps each definition to
the lines it models.

## 1. The system

| Component | State | Operations | Talks to |
| --- | --- | --- | --- |
| signaling server (`internal/signaling`) | `peers` (key -> connection) under `mu`, `internalPeers` under `internalMu`, one handler goroutine per WebSocket | `handleWS` (authenticate, take the key over, read loop, deferred clean-up), `relay`, `SendMessage`, `RegisterInternalPeer`, `Stop` | WebSocket clients; in-process bridges by callback; call tracking inside `relay` |
| call tracking (same file) | `activeCalls` (pair -> row id) under `callMu`; table `call_log` | `trackCallStart`, `trackCallEnd` | handlers of offers and hangups; the API (account deletion), the cleanup (pruning) |
| message queue (`internal/api`, `internal/cleanup`) | tables `messages`, `storage_usage` | send, fetch, acknowledge; expired / delivered / usage passes | API clients; the cleanup loop |
| accounts, devices, contacts API (`internal/api`) | `users`, `devices`, `contacts` | create, update, delete, list | every table by `ON DELETE CASCADE` |
| authentication (`internal/api/auth.go`) | none (`users.last_seen`) | check key, time and signature | every API handler |
| call routing (`internal/api`) and triage (`internal/triage`) | `routing_rules`, `ai_config` | rule create, update, delete; `SetConfig`; `Evaluate` | API clients |
| SIP bridge (`internal/sip`) | `activeCalls` under `mu`; `call_log`, `dids` | webhooks `call.initiated`, `.answered`, `.hangup`; originate, hang up | the VoIP provider, by HTTP both ways |
| cleanup service (`internal/cleanup`) | goroutine, ticker, `done` | `Start`, `Stop`, the passes | the database |
| server lifecycle (`internal/server`, `cmd/server`) | list of services, `db`, identity | `New`, `Run`, `shutdown` | all services, signals |
| identity (`internal/identity`) | `server.key`, `server.pub` | `Load`, `Save`, `LoadOrGenerate`; sign, verify | the file system |
| store (`internal/store`) | SQLite, one connection, foreign keys on | `Open`, schema | all of the above |
| client calls (`cmd/comms-cli/commands.go`) | context, WebSocket, peer connection, channels | `dial`, `answer`, the call session | server, bridge |
| client `register` (`cmd/comms-cli/commands.go`) | a profile: key and account id | generate a key, create the account, save the profile | the API |
| configuration (`internal/config`, `cmd/server`) | `config.yaml` | `Load`: defaults, file, environment, flags; `setup` | the file system, the environment |
| client other commands, dashboard, crypto | none that lasts | requests, rendering, pure functions | - |

What is hard about it:

* **Goroutines and locks.** A handler touches the registry in short critical
  sections and works with copies between them; writes to other clients happen
  outside every lock and have no deadline.
* **Statements instead of transactions.** The database has one connection
  (`store/db.go:30`), so each statement is atomic and no sequence of them is.
* **Row ids.** `INTEGER PRIMARY KEY` without `AUTOINCREMENT` gives the ids of
  deleted newest rows out again, and ids are remembered in memory and by clients.
* **Crashes.** The maps are lost, the tables and key files stay, the files
  perhaps half written.
* **Repeated and late requests**: webhooks, acknowledgements, hangups, a lost
  answer to a registration.
* **Layers**: a setting can come from four places, some of which cannot make it.

What makes each component correct is stated as properties in section 4; each
line of the code where something can go wrong is under `hazards` in
`PROJECT.json` with the properties that would show it.

## 2. Modules

| Module | Models | State and actions in the code |
| --- | --- | --- |
| `Presence` | what the registry promises | abstract: `online`, `opened`, `ended`; `Login`, `End`, `Shutdown` |
| `Signaling` | signaling server | `pc` is where a goroutine is between two points at which others can run; `Register`, `Unregister`, `Lookup` and `StopClear` are critical sections of `mu`; `Send`, `AuthOk`, `Reply` one write; `peers`, `internal`, `ctx`, `target` as in the code; `link` and `inbox` are the socket |
| `Tables` | SQLite row ids | a table is a function from ids to rows, `NextRowid` the id of the next one |
| `SignalingCalls` | signaling server with its call log | `Signaling` with `TrackCall` in the place of `Track`; `TrackCall` is made of the actions of `CallTracking`, whose `Procs` are the handlers and bridges |
| `CallTracking` | `trackCallStart`/`End` | `callMu` is held from `StartLock` to `StartInsert`; `EndTake` is under it, `EndUpdate` is not; `Restart`, `Prune`, `DeleteUser` come in between |
| `MessageQueue` | queue and cleanup | one action per SQL statement; `op` is what a handler has read and will use, `cleaner` the statement the loop runs next; a row remembers the key its sender named (`to`), and `stale`, `strayed` which handlers and messages had an account deleted between two statements |
| `Accounts` | users, devices, contacts behind the middleware; `register` | a request (`req`) is three statements: `Authenticate` finds the account of its key, `TouchLastSeen`, the handler, which works on whatever account or row the client names; `cmd` is a run of `register`, which may lose its answer or be killed; `profile` is what clients keep |
| `CallRouting` | rules, settings, `Evaluate` | one action per statement: a PUT is an `UpdateField` per field in the code's order, an evaluation is `EvaluateRules`, then `EvaluateConfig` |
| `SipBridge` | webhooks | `stage` is the call as the provider sees it; webhooks arrive in any order, as often as they like, several at once, and `work` is what each handler is in the middle of; `Resolve`, `Store`, `FindOwner`, `Insert`, `Take`, `Update` are the handlers' statements and critical sections |
| `ServerLifecycle` | identity, New, Run, shutdown, cleanup loop | `at` walks through `runServer`; `SavePriv`/`SavePub` are the creation and the writing of each file; `req` is an HTTP request of a service, or the WebSocket session that `Upgrade` makes of it, for which `Drained` does not wait; `Kill` may come anywhere |
| `Config` | the layers of the configuration | functions, named as in the code; one setting for each way settings are treated |
| `CallSession` | `dial` and `answer` | `at` is the select or call the command is in; each case of a select is a disjunct or an action |
| `MC*` | instances | symmetry sets and the callers, rules and calls of a run (modules that need neither are run as they are); `MCServerLifecycle` joins `Config` to the start it configures |
| `TablesProofs` and a `...Proofs` module each for `Signaling` (with `SignalingCalls`), `CallTracking`, `MessageQueue`, `Accounts`, `CallRouting`, `SipBridge`, `ServerLifecycle` (with `Config`) | theorems | section 6 |

What is abstracted: keys are model values, messages carry type, sender, number
and addressee, payloads and signatures nothing; timestamps are whatever makes a
row old or not; errors of SQLite other than a failed constraint, and of JSON
other than "not an object", are left out.  In `Signaling` the frames the
server writes itself (`auth_ok`, pongs, errors) take their step and their time
but are not recorded in `inbox`, and a bridge sends under the key of an internal
peer, as the comment of `SendMessage` has it.

## 3. How the parts share state

`relay` tracks a call before it looks the recipient up.  `Signaling` has that as
one step without effect (`Track`); `SignalingCalls` has it as it is, with
`callMu` and the statements: a handler or a bridge that waits for `callMu` holds
its message back, whether it is for a session or for an internal peer.  It is
proved to implement both `Signaling` and `CallTracking` (section 6), so what is checked and proved of either holds of the two together,
and each can be checked in its own, larger instance.  `CallTracking` alone has
in addition what relaying does not cause: accounts that go, pruning, restarts.

`call_log` belongs to `CallTracking` (internal calls) and `SipBridge` (calls
from the telephone network); the two never touch each other's rows, the first
updating by id, the second by caller phone and callee key of open rows.
`users` is in every module with a table that refers to it, with the cascade that
concerns it; `Accounts` has the requests that write it, as they come through the
middleware.  The cleanup's passes are in the module of their table, its
goroutine in `ServerLifecycle`.

## 4. Runs

| Run | Bounds | Shows |
| --- | --- | --- |
| `signaling_safety` | 2 keys, 2 connections, 1 bridge, 2 frames, 1 internal peer | the session that is alive is the registered one; frames reach their addressee, once, in order; refines `Presence` |
| `signaling_liveness` | 2 connections, one of which may stop reading | a superseded handler leaves, a departure is noticed |
| `signaling_ghost` (violated) | 1 key | an entry outlives its handler |
| `sessions` | 2 users, one with an account and an internal peer, 1 connection, 1 bridge, 2 frames | what a user is told of a call is in the log before; refines `CallTracking` |
| `calls` | 2 users, 2 goroutines, 3 calls, 1 restart | one call per pair, no open row without somebody to end it |
| `queue` | 2 users, 2 handlers, 2 messages, the clock advances once | nothing is lost to whom it was sent, clients read only their own mail, ids of accounts inherit nothing |
| `queue_late_ack` (violated) | 2 messages | a late acknowledgement loses a message |
| `accounts` | 3 keys, 1 profile name, 2 runs of `register`, 2 requests, 1 device and 1 contact key, ids 1 to 3, row ids up to 2 | a profile goes with the account of its key; devices and contacts stay with the account they were made for |
| `routing` | 1 account, 2 rules, 2 requests, 3 callers | an answer is right at one moment; rules are switched on whole |
| `sip` | 3 calls on two lines, 2 handlers, 2 rows, 1 restart | calls that are up are shown, calls that are over are not and have no open row, but for webhooks that come too late and for the crash |
| `lifecycle` | 3 keypairs, 2 requests, SIP on; 4 files, 192 environments, 4 command lines | one whole identity; the database outlives the work; shutdown ends unless a request of signaling holds it; a start has each setting from the first layer that makes it |
| `cli` | one command | a call with audio is hung up; hangup and Ctrl+C end the command |

Why the bounds are enough.  The races of the registry are between one handler
and its successor, with a third party that holds a target: two connections on
two keys and a bridge give each of these.  A frame to be told of a call and one
to end it, or one from each side, is what can go wrong between relay and log, and
a handler and a bridge are two goroutines that want `callMu` (the proofs of
section 6 have any number of each).  A
pair's call needs a second goroutine to race with and a third row to get a reused
id.  The queue needs a message that is cleaned up and one that is not; when the
clock advances it makes any of them an hour old and any of those expired.  The
second account takes the id of the first between the two statements of a handler,
and the other handler sends or fetches meanwhile.  An id is given out again with
two accounts, and a third has the answer that was meant for another; one request
deletes an account under the other.  An evaluation has two
statements: one rule to match and one to come before it.  A webhook race needs
two handlers, which may have the same call, two calls of one line and a third of
another.  Three keypairs are one generated,
one interrupted and one that would be a second identity.  The layers are
functions of one setting at a time, and each way of treating settings is there
with values that are absent, legal and not understood.

Where `CHECK_DEADLOCK FALSE` is set, frames, calls, keys or starts run out (the
bound stops the model, not the server), or the process has ended.

Each property has a mutant: a definition of the model changed as a plausible
slip would change the code, under which TLC finds the property violated.

### Fairness

* `Signaling`: every goroutine that can go on does.  `ReadError` is strongly
  fair: a read under a cancelled context does not for ever find one more
  buffered frame.  `Send` is strongly fair: a write to a client that drains its
  socket again and again goes through.  Nothing is assumed of clients, which may
  stay silent or stop reading for ever; the properties therefore except a
  handler that is blocked in a write to one.
* `CallTracking`: a goroutine that has begun an INSERT or UPDATE finishes it.
* `SignalingCalls` (`CallsFairSpec`, used by the proofs): the fairness of the
  handlers in `Signaling`; whoever holds `callMu`, or is past it, finishes its
  statement; and `sync.Mutex` starves nobody who waits for it (strong fairness of
  `EnterLock`: a waiter of more than a millisecond is handed the lock).
* `ServerLifecycle`: the main goroutine and the cleanup go on; a request of the API
  or the SIP server ends, because its connection times out (`api.go:43-45`,
  `sip.go:91-92`) and its statements end; one of signaling need not, since that
  server has no timeouts (`signaling.go:97-100`), and the property excepts it;
  a Go select that finds two channels ready again and again takes each sooner
  or later (it chooses at random), hence strong fairness of `LeaveLoop`.
* `CallSession`: the command goes on when a case of its select is ready, timers
  fire and requests end.  Audio, media and the other side need not do anything.

## 5. Where code and documents disagree

1. `signaling.go:245`: a failed `auth_ok` write leaves the entry in `peers`; the
   user counts as online for ever (`signaling_ghost`).
2. `api.go:492`: a late acknowledgement of a cleaned-up message marks the message
   that has its id (`queue_late_ack`).

Seen while modelling and not made into runs:

* Ids given out again.  The row id remembered for a call may belong to another
  call by the time the hangup uses it (`signaling.go:425`; rows go with
  accounts, `db.go:144`, and with the pruning, `cleanup.go:111`).  A message whose
  recipient is deleted and replaced between the two statements of
  `handleSendMessage` is queued for the account that got the id (`api.go:424`,
  `431`), and a fetch during which the same happens reads the mail of that account,
  which its client can then acknowledge (`api.go:445-460`).  `MessageQueue` calls
  these messages `strayed`; its properties except them and no others.
* `user_id` in a body or path is never compared with the user the middleware has
  authenticated (`api.go:299`, `332`, `562`), and tests rely on that
  (`api_test.go:244-261`, `366-380`): a request of one account makes rows of
  another.  `Accounts` lets every request name any account.
* A `call.initiated` that is handled after or during the hangup of its call puts
  the call back into `activeCalls`, where nothing removes it, and may open a row
  (`sip.go:219-221`).  `late` has these calls.  The hangup of one call closes the
  rows of every call between the same numbers (`sip.go:279`).
* `Stop` of signaling waits for its HTTP requests with no limit of time
  (`signaling.go:97-100`, `132`; `server.go:98-99`, `124`), so one that never ends
  holds the shutdown (`HeldBySignaling`).
* A call the server has given no id, or whose id the bridge did not pass on, is not
  hung up there (`commands.go:821`).
* "Use Ctrl+C to hang up" (`commands.go:584`) holds only once the audio runs: before
  that (702, 727, 751, 769) the command ends and the call stays up.
* `relay` writes without the sender's context, so a superseded handler can
  outlast what the comment at `signaling.go:231` suggests (the liveness properties
  except it); `Stop` does not reach a handler that has not registered yet; a user
  who disconnects without a hangup leaves the pair tracked, and the pair's next
  offer is not logged as a call of its own.
* The age of a delivered message is counted from its creation (`cleanup.go:98`);
  the usage of an account without pending messages is never set back to zero
  (`cleanup.go:125`).
* `PUT /api/v1/routing/{id}` drops the error of an UPDATE the table refuses and
  answers 200 (`api.go:762`); `PUT /api/v1/users/{id}` is two UPDATEs of which the
  second may fail (`api.go:282-291`); a suspended account is served like any
  other; registering a known device answers `LastInsertId`, which is then the id
  of whatever row was inserted last (`api.go:346`).
* A file given by `-config` that is not there is no error (`config.go:91`), and
  `setup` overwrites a `config.yaml` that is (`main.go:165`).

## 6. Proofs

TLAPS proves the following for every value of the constants.  Each module of
theorems states types first (`TypeInd`, or `IInv`: more than `TypeInv`, what a
goroutine in each place carries), then one invariant per subject, each proved
from the ones before it, with one step per action.

`TablesProofs` is what the others know of `Tables`: that a table is a function on
a bounded set of numbers (`IsTable`) is kept by INSERT and DELETE, and the id an
INSERT gives out is in use by no row.  The largest member of a bounded set comes
from the well-foundedness of `<`, because the library's induction over finite
sets takes an operator as its parameter.

`SignalingProofs` (any keys, connections, bridges, number of messages):

* `TypeCorrect`, and that a writing goroutine has a connection to write to.
* `LiveSessionsAreRegistered`: `LiveSessionIsRegistered` is not inductive alone;
  `RegistryInv` adds that an entry of `peers` is a connection that authenticated
  that key.  Then `Register` cancels exactly the session it replaces, and
  `Unregister` removes only its own entry.
* `ImplementsPresence`: the refinement, step by step.
* `MessagesReachTheirAddressee`: `DeliveryInv` follows a message from the read
  loop over `target` to the inbox.
* `MessagesArriveOnceInOrder`: `OrderInv` numbers what is read; what a goroutine
  has in hand is newer than what of its own has arrived anywhere, and no two
  goroutines have the same number in hand.  A step lets things as they are, takes
  a frame up or lets one arrive (`OrderCalm`, `OrderTake`, `OrderArrive`).

The server together with its call log, in the second half of the same module
(the same constants, and any set of keys that have an account; the bound on calls
is such that no offer is held up by it):

* `ImplementsSignaling`, `ImplementsCallTracking`: a step of the composition is a
  step or a stutter of each part; for the second a goroutine that relays must have
  a frame with two keys, which is `TypeInd` of `Signaling`, and holds by the first.
  `LogOfTheServer` draws the conclusion: the promises of `CallTracking` about its
  log hold of the one behind the server.
* `DeliveredIsTracked` needs what is known of both parts.  `TellInv` says of each
  frame that is past its tracking, delivered or not, that the log knows of it
  (`AllInLog`), and of a goroutine between its two critical sections which frame
  it is busy with (`MidTracking`).  The history `known` numbers the calls that a
  hangup can mean (`KnownInv`): a call that is tracked again behind the back of a
  hangup is a later one.  That every other call of the pair is ended or has
  another hangup at work is the invariant of `CallTracking` (`LogInv`); that a
  goroutine's number is its own is `OrderInv`.  What a step adds to the log never
  takes back what was told (`LogGrows`).

`CallTrackingProofs` (any users, goroutines, calls, restarts): `TypeCorrect`,
`OpenRowsTracked`, `OneCallOfEachPair`, `EndsItsOwnCall`.  None of the properties
is inductive: `IInv` adds that calls are numbered, that an entry of `activeCalls`
or a hangup that has taken one is the only holder of its call and knows its row,
and that between the look into `activeCalls` and the INSERT nobody else tracks
the pair, which is what `callMu` is for.  For the last theorem `HeldRowsAreOpen`
adds that no row has been removed.

`MessageQueueProofs` (any finite set of users, any handlers and messages):
`TypeCorrect`, `NewAccountsStartEmpty` (mail and usage have an account, so a fresh
id has none), `MailStaysOwn`, `NothingGetsLost`.  `OwnInv`: a handler whose account
was not deleted holds the id of the account of its key, and what is queued for an id
was sent to the key of the account or has strayed.  The last theorem has the hypothesis `~LateAcks`: clients
acknowledge what is still queued.  Without it the run `queue_late_ack` shows the
opposite.  `RoomToInsert` counts the handlers about to insert against `MaxMsgs`.

`AccountsProofs` (any keys, names, runs of `register`, requests): `TypeCorrect`
(types, uniqueness, owners that exist), `ProfilesNameTheirAccounts`,
`RowsStayWithTheirAccount`.  `KeysInv`: a key that a run of `register` has
generated and not sent yet is known to nobody else, so the account it gets is the
only one ever to have it, and whoever has the key has that id.  `RowsInv`: rows are
of the key their account has, and the middleware holds the account of the key of
the request, or that was deleted under it (`RequestsAreOwn`).

`CallRoutingProofs` (any users, callers, rules, changes, evaluations and updates at
once):

* `TypeCorrect`: a rule keeps all its fields and their types through partial
  updates, and it and the settings go with their user.
* `SwitchedOnAsAsked`: `OwnInv`: of a rule nobody else has touched, each field the
  PUT has no longer to write is as asked or was refused; and once `enabled` is
  written nothing is left to write, so a rule that was off and is on is whole.
* `DecisionIsOfOneMoment`: the loop's answer is first a right one by the
  declarative `RightDecisions` (`RightByRule`, `RightByDefault`, which need that
  the ids of the table are numbers).  `EvalOK` then follows an evaluation that has
  found no rule: the default by the settings of now was right at some moment, or
  two changes have fallen into it.  The step that matters is a change of the
  settings after rules have come: `DefaultChanges` says that it leaves the rules
  alone or takes all of the user's away.

`SipBridgeProofs` (any calls, lines, handlers, restarts): `TypeCorrect`,
`OtherCallsStayOver`, `UpCallsStayTracked`, `OverCallsGetClosed`, `RowsEndByHangup`.
`LinesInv`: what is known of a call is known under its own line; `StageInv`: which
handlers can be at work at which stage of a call, and where it is tracked then,
unless it is `late` or `forgotten`; `ClosedInv`: a hung up call that is tracked no
longer has its rows closed, or a handler is about to close them; `EndedInv`.

`ServerLifecycleProofs` (any keypairs, requests, starts; SIP on or off):

* `OneIdentity`, `WholeIdentity`: `IdentityInv` relates the two files, the
  keypair being saved and the identity in memory: the private key is complete
  before the public one is begun, and nothing serves before both are.
* `DatabaseOutlivesWork`: `WorkInv`: services above the one being stopped are
  stopped, and a stopped one has no request and no run at work.
* `TypeCorrect`: `StartInv`: services before the one being started have started.
* `LoadIsPrecedence`, for any file of known settings, environment and command line,
  and with it `EveryStartIsConfigured`: the passes of `Load`, each of which may skip
  a setting, come to the layers put one over the other.

Assumptions are the named `ASSUME`s of the modules: names are distinct, bounds
are numbers, ids that clients name are not 0, the set of users of the queue is finite (its initial accounts are
counted), the rules and changes that requests ask for have the types the JSON
decoder lets through.

### Liveness

Five liveness properties the runs check, and three of the server with its call
tracking, are proved too, from the fairness of the runs (`FairSpec`, `CallsFairSpec`)
and one kind of hypothesis: the prover cannot expand `ENABLED`, so each theorem
says `[]H` of a state predicate `H` that relates a place in the program to the
`ENABLED` of the step that leaves it (`CanGoOn`, `LoopCanGoOn`, `MainCanGoOn`,
`ServerCanGoOn`).  Nothing else is in `H`; that nobody gets in the way of such a
step, and that enough of them lead to the end, is what is proved.  On the
instances of the runs TLC finds each `H` true of every reachable state when the
predicate is put into the module and listed as an invariant.

* `HangupsEndCalls`: between the two steps of a hangup nobody else ends, renumbers
  or moves its row (`EndingStays`, from `IInv`), so that its UPDATE is the end
  (`UpdateIsEnd`).
* `CleanupGoesOn`: nothing but `Stop` cancels the loop's context (`LoopInv`).
* `ShutdownEnds`: `StopEnds`, for each service, that its `Stop` ends and the one
  below it is next; `LoopLeaves` for the cleanup, whose select may take the tick
  only so often, `RequestsLeave` for the API and the SIP server,
  `SignalingLeavesOrHolds` for the third.  There are at most four
  services, so their chain is put together without induction.  The hypothesis
  `RequestsEnd`, that the requests of the API or the SIP server end once it is shut
  down, follows from `FairRequest` by counting them: an induction the prover cannot do.
* `SupersededSessionsLeave`, `DeparturesAreNoticed`: one lemma for each place in a
  handler that says where it goes from there (`RelayEnds`, `ReplyEnds`,
  `AuthOkEnds`, `UnregisterEnds`); `LeavingSteps` says that a cancelled context or
  a closed connection remains one; what is left is a write to somebody who does
  not read (`Blocked`), which the properties except.  They are proved from
  `Proceeds(c)`, which says of a handler no more than is needed, so that they serve
  for the composition too.
* `TrackingLetsGo`: the holder of `callMu` waits for nothing but its statement, so
  the lock comes free again and again (`LockComesFree`), and who waits gets it.
* `SessionsEndDespiteTracking`: hence every handler `Proceeds`, and replaced sessions
  and departed clients leave although they wait for `callMu` behind others.
* `HangupsEndCallsOfTheServer`: the same of the calls in the log behind the server.

Model-checked only: that each `H` and `RequestsEnd` hold (`ENABLED`, counting), and
`CallSession`: it has no constants, TLC visits every state there is, and a theorem
would say no more than its run does.  `HangupIsNoticed` and `CtrlCEndsCommand` are
among that.

## 7. Not modelled

* Dashboard and crypto keep no state; the informational client commands change
  nothing but through the request they send.
* Signatures, the clock skew and the public routes of the middleware: a request in
  `Accounts` is signed with the key of some account.  A client that uses the API
  without `register`, and registers a key again after its account was deleted, is
  left out.  `SaveProfile` is one step, its code not being in the repository.
* `Validate` and the directories of the configuration, and the writing of the
  file: `setup` is what it leaves behind.
* Originating and hanging up a SIP call are one HTTP request to the provider and
  keep no state.  `SipBridge` assumes of the provider only that it does not report a
  call, or a hangup, before it has happened.
* `LogConversation` and `TimeOfDay` of the triage engine have no caller.
* The client's HTTP, WebSocket, WebRTC and audio code is not in the repository:
  `CallSession` has it as the outside world.
* Errors of SQLite other than a failed constraint, of the file system other than
  what a kill leaves, and of a port that is taken beyond the log line.

## 8. Plan

Order: the registry and relay, since everything else hangs on who is online;
then the tables with races (calls, queue, SIP); then start and stop; then
routing and the client; then accounts, the composition of sessions with the call
log, and the configuration; with the proofs after each.  All of these are here.

Left: the `ENABLED` facts of section 6, when the prover learns to expand them; and
theorems about `CallSession`, should the command get parameters.

# WinOs API layer: a TLA+ verification project

The repository is a local API server over the desktop: it turns applications into
"virtual APIs", verifies them, publishes them, runs them behind an execution
gateway, and ships with an installer and an updater. This directory holds TLA+
models of its stateful core, the TLC configurations that check them, and proofs that
TLAPS checks. Paths below are relative to `src/windows_os_api/`.

## 1. The system

| Component | State | Operations | Talks to |
|---|---|---|---|
| Request admission: `core/security/rate_limit.py`, middleware in `core/runtime/app.py` | a deque of hits per key, slots in flight in total and per principal | `allow`, `try_acquire`, `release` | every HTTP request passes it |
| Event bus: `core/events/bus.py`, consumer in `api/websocket/bus.py` | subscriber queues, byte budget, stop flag, bound loop, counters | `publish`, `publish_sync`, `subscribe`, `stop` | called by handlers in worker threads and on the event loop; feeds WebSockets and webhooks |
| Webhooks: `core/events/webhooks.py`, `api/rest/webhooks.py` | destinations, pairs of destination and event already delivered | register, remove, fan out, post with retries | called inside the bus fan-out, on the thread that published |
| Instance lock: `core/runtime/instance_lock.py` | the lock file | `acquire`, `_discard_stale`, `release` | server start and stop |
| API registry: `apps/api_registry/*`, `api/rest/apis.py` | records, ledger of issued verification ids, store files | create, test, verify, publish, disable, demote, load, save | gateway, adapters, catalog, MCP |
| Execution gateway: `apps/api_registry/gateway.py` | none | authorize, then invoke | registry and adapters |
| Update manager: `update/manager.py` | install tree, backups, `update_state.json` | apply, transactional apply, rollback | hooks that stop, start and probe the service |
| Adapters: `apps/adapters/*` | adapters in memory, manifests on disk, verification locks | create, rebind, invoke, verify, load | registry (demotion), UI backends, trust |
| Trust: `apps/trust/*` | trusted and revoked keys | trust, revoke, sign, check | adapters |
| Surfaces: `apps/catalog`, `apps/openapi_export`, `apps/mcp_tools`, `api/mcp/*` | the lists an MCP session has shown | list, read, call, export | registry, gateway; MCP over stdio is a process of its own with its own copy of the registry |
| Audit: `core/security/audit.py` | hash-chained log with rotated segments | append, rotate, verify, page | everybody |
| Authentication: `core/security/auth.py`, `api/rest/security_routes.py` | revoked keys, overlay roles, scopes, sessions | authenticate, rotate, revoke, issue session | REST, WebSocket, workflow player |
| AI settings: `apps/ai/*`, `api/rest/ai.py` | settings and their file, a shared client, the bridge of the reasoner | PUT, reset, test, ask | remote providers; two locks |
| Workflows: `apps/workflows/*`, `apps/agent/gate.py` | the recording in progress, stored workflows | record, generate, replay, roll back | adapters |
| Processes: `os/processes/*` | recorded identities | start, terminate a tree, restart | backends |
| Services: `os/services`, `backends/*_services.py` | none; the service manager has it | start, stop, restart, status | audit log |
| Files: `os/filesystem/*` | none; the tree under the root has it | read, write, delete, stat, list | backends |
| Desktop: `os/input`, `os/windows`, `backends/windows.py`, `linux.py` | none; keys, buttons and windows of the session | type, press, chord, drag, click, focus, close, move | backends |
| Sound: `os/audio`, `backends/*_audio.py` | none; the default output has it | volume, mute | backends |
| Release: `scripts/*`, `installer/release_attestation.py`, `update/checksum_manifest.py` | artifacts, manifests, attestations | build, package, sign, attest, verify | release workflow, update discovery |
| Update discovery: `update/discovery.py` | the staging directory | discover, download, check, stage | update manager |
| Agent loop, analysis, other OS services, REST routes, observability, CLI | little or none | see `PROJECT.json` | |

The server is one process with an asyncio loop; synchronous route handlers run in a
thread pool, so two requests interleave at any point outside a lock. Files are
shared between processes (instance lock) and between runs (registry store, update
state, audit log).

What is hard in it:

* **interleavings**: handlers that read a record, do something slow and write their
  copy back (API test, publish, demotion); threads and the loop on the same queues
  (bus); two servers on the same lock file;
* **requests that outlive their permission**: a play or a stream goes on while its
  key is rotated or revoked, a client while its settings change;
* **partial failure against the outside**: an event in the middle of a chord, a
  readback after a set, the stop half of a restart, a format of a release;
* **crashes**: between the two renames of a registry save, in the middle of an
  update, between creating the lock and writing it;
* **files shared without a lock**: the one tmp name of the registry store;
* **limits**: full queues, the byte budget, gate quotas, window edges;
* **staleness**: evidence that ages, clocks read early, a stop flag read before it
  is used.

`PROJECT.json` lists these hazards one by one at the line where they bite, with the
properties that cover them.

What makes each part correct, in short. Admission: the gate counts the requests that
are inside it, and one caller cannot use up the share of others. Bus: order, budget,
and a stop that reaches everybody. Lock: one live server per store, no deadlock
after a crash. Registry: `VERIFIED` only on fresh evidence of a real test; a
withdrawal holds; what was acknowledged survives. Updater: all or nothing. Adapters:
what is stored and published is what was verified. Audit: a chain that verifies
across rotations and restarts, and that drops nothing but its oldest part.
Authentication: a revoked key stays out, and a rotation leaves one heir with the
same rights. Surfaces: what one shows, another runs. Webhooks: signed for their
receiver, nobody left out. AI settings: the file and the process agree, and what was
replaced is silent. Workflows: a replay says what it did. Processes: only what was
meant is killed. Machine: success is said of what was seen, and what was begun is
cleared up. Releases and downloads: what is vouched for was verified and belongs
together.

## 2. Modules

| Module | Models | State and actions |
|---|---|---|
| `RequestAdmission` | `RateLimiter`, `ConcurrencyGate`, the middleware | `hits`, `inFlight`, `perPrincipal`; `RateLimited`, `Admit`, `Refuse`, `ReleaseSlot`, `Tick` |
| `EventBus` | `EventBus`, the WebSocket consumer | queues, `pending` sizes, `queuedBytes`, `callbacks` of the loop, `thread` (a foreign publisher between accept, scheduling, fan-out and size record), `pc` of each subscriber |
| `InstanceLock` | `acquire`, `_discard_stale`, `release` | one action per system call on the file; the file knows who created it and what it says |
| `DurableSet` | the promise of the registry store | `mem`, what is `durable`, what is acknowledged |
| `RegistryStore` | `save_registry`, `load_registry`, `PersistentApiRegistry` | inodes behind the names primary, bak and tmp; one action per file operation |
| `ApiRegistry` | `model.py`, `api_test.py`, `trust_sync.py`, routes of `apis.py`, status gate of `gateway.py` | `recs`, `issued` (proof ledger), `op` (what each worker has read); a handler is split where it reads and where it writes back |
| `UpdateManager` | `UpdateManager` | `tree`, `backup`, `state`, `saved`, `service`; one action per member removed or copied, per hook and per save |
| `AuditLog` | `AuditLogger`, `get_audit_logger` | lines of the file and of `.1`, the logger of each process (last HMAC, count, status); one action per file operation |
| `AccessControl` | `AuthRegistry`, the security routes, the checks inside plays and streams | `revoked`, `overlay`, `sessions`, `scopes`, one `call` for each worker; every section of `_lock` is a step |
| `AdapterEngine` | `engine.py`, the verification, the manifest store, trust changes, a restart | adapter objects, the one in memory, the manifest, the control on screen, the locks of each object and of the store |
| `Webhooks` | `WebhookManager`, its routes | `dests`, `delivered`, one `fan` for each publishing thread |
| `Workflows` | recorder, player, generator, routes, the gate of the agent | `wfs`, `recording`, one `request` for each caller |
| `AiSettings` | `settings_store.py`, `provider.py`, the reasoner's bridge | settings, file, client and bridge as numbers of settings; both locks |
| `Exposure` | catalog, OpenAPI and SDK export, MCP server, lookup and execution of the gateway | records of the REST and of the MCP process, the file, scopes, the snapshot of a session |
| `ProcessTree` | `os/processes/*` with the Linux backend | processes by birth under reusable numbers, the registry, one `call` for each thread |
| `ServiceControl` | service control of both backends and the service above them | state and instance of each service, one `job` for each client |
| `FileSpace` | `paths.py`, `service.py` | a folder and a file under the root or elsewhere, one `op` for each request |
| `DesktopInput` | keyboard, mouse and window calls of both backends | keys held, windows, one `act` for each request |
| `AudioControl` | volume and mute of both backends | level of each output, the default one, one `call` for each caller |
| `ReleasePipeline` | the build, package, sign, attest and verify commands | artifacts as build, version and signature; manifests; attestations |
| `UpdateDiscovery` | `discovery.py`, `discover_and_stage` | the channel, the staging directory and its manifest, one `get` for each run |
| `Activities`, `System` | six components each that share no state, side by side | `part` says which of them a behaviour is about |
| `EventBus_proofs`, `ApiRegistry_proofs`, `AuditLog_proofs`, `AccessControl_proofs`, `AdapterEngine_proofs` | theorems about the module of that name, and the lemmas they rest on | |
| `Runtime_proofs` | theorems about `RequestAdmission`, `InstanceLock` and `RegistryStore` | |
| `Activities_proofs`, `System_proofs` | theorems about the components of `Activities` and of `System` | |

`MC<Module>` gives the constants that a configuration cannot write down (sizes of
events, members of versions, symmetry sets). Each module starts with the
abstractions it makes. Three conventions hold everywhere:

* a `history` variable is not part of the program; it records what a property needs
  to know of the past;
* constants that begin with `Max` and are commented `bound` only keep TLC's state
  space finite; theorems hold for every value of them;
* operators commented `Mutated form of X` are not used: each is what `X` would be
  with a plausible bug, and shows that a property notices it.

`Activities` (webhooks, workflows, AI settings, surfaces, desktop, sound) and `System`
(updater, processes, releases, downloads, services, files) each put six components
that share no state into one specification: the variable `part` is chosen in the
initial state, and a behaviour is about that component alone. Both leave every
constant open; `MCActivities` and `MCSystem` choose the values for TLC. The conjuncts of a property `part = "x" => ...` are the
properties of the module, by name. Where two modules use a name for different state,
it is renamed in the `WITH` clause.

### Request admission

`allow` and `try_acquire` run on the event loop without awaiting, so each is one
step with the refusal or admission that follows; `release` runs in the `finally` of
the middleware whatever became of the handler. Two principals may share a rate
bucket (the limiter looks at the first characters of a key) but not a quota (the
gate looks at the digest of the whole key).

### Event bus

The loop executes a callback, or the code between two awaits, as one step. A foreign
thread that calls `publish_sync` is preempted after accepting the event, after
reading `_stopped` and `_loop`, and, holding the bus lock, between filling the
queues and recording the sizes: `asyncio.Queue.get` takes no bus lock and may come
in between. A subscriber that stops iterating stays in `_subs` until its generator
is closed.

### Instance lock

Every system call is a step; a creator keeps writing to the inode it created, even
if the name has been moved away. `Disruptions` switches on what the environment
does: crashes, releases, creators slower than the 50 ms window, unreadable
leftovers, I/O errors.

### Registry and store

`ApiRegistry` takes persistence as atomic and interleaves the handlers;
`RegistryStore` opens up persistence and takes a mutation as a number. The gate
(`Authoritative`, `Authorized`) is translated once and used by every handler that
registers. The clock a test uses is captured at its start, as in the code. All APIs
of an instance belong to one application, because a demotion is by application.

### Update manager

Members are removed and copied in any order (directory order is arbitrary); a failed
or killed operation may leave the member in hand half treated, and
`update_state.json` unreadable if it was being written. A version's members carry
its name, so that "the tree is that of version v" is a comparison. Hooks answer
`None`, yes, no, something vague, or raise.

### Audit log

An entry is a number that is also its HMAC, since two entries never share one, so
that a chain of hashes is a chain of numbers. A line also remembers which entries
have bytes in it, because a write behind a cut line ends up in that line. The
threads of a process share one logger and its lock covers a whole write, so a
process is one actor; the server and `winos-api diagnose --before-restart` are two
processes on one file. Lines longer than the buffer reach the file in pieces.
`os.replace` is the one of Windows, which fails while another process has the file
open. Readers (`verify_integrity`, `read_page`) change nothing: what they compute is
defined on the file of any state, and `Checked`, `Verifies` and `LastHmac` are those
computations. The history variable `damaged` records that a write stopped inside a
line, that a start could not read the file, or that two loggers wrote to it.
Redaction, correlation ids and the paging of results are left out.

### Access control

Each method of `AuthRegistry` takes `_lock` for itself, so a request and a rotation
meet between any two of them: `rotate_key` is `RotateResolve`, `RotateOverlay`,
`RotateRevoke`, `RotateRegister` and `RotateCopy`, and a play re-checks key, session
and scopes before each step while an effect that has passed the check still happens.
What the code keeps only without overlapping rotations is guarded by `contested`
(two rotations of one key) and `Pending` (an heir is registered and has not got the
scopes yet: it is unrestricted for so long). `Restart` forgets what is only in
memory.

### Adapters

`create_adapter` puts a new object in the place of the old one and does not wait for
a verification of it; each object has its own lock. The probe of a verification
types a value, looks whether it is shown, and writes the old one back; the
application shows a value late or not at all. `raced` records that a creation
overlapped another call, `unsaved` that a write of the manifest failed or somebody
edited it.

### Webhooks, workflows, AI settings

`fan_out` copies the destinations and then looks each of them up again; the test of
`_delivered`, each post and the mark are separate sections. The player iterates over
the list of steps itself, so steps recorded meanwhile are played. There is one
recording for the process: `record_step` reads `_recording` twice. A PUT holds the
settings lock while it resolves a name, writes the file and waits for the client
lock.

### Surfaces

Statuses, ages and scopes of the records are given by any handler (`Given`), as
`ApiRegistry` has their life; catalog, export, tools, resources and gateway are the
filters the code has, one operator each. The MCP server is either the REST process
or a process of its own with the registry it read when it started.

### Processes, services, files, desktop, sound

All five talk to something that changes by itself, so their actions alternate with
those of the outside: `Fork` and `Exit`; `Settle`, `Others` of a service; folders
that become links; users who move and close windows; outputs that come and go. A
process is known by its birth, a service start by its number, so that a property can
tell an old one from a new one. Both backends are in the model where they differ, as
a variable chosen in the initial state.

### Releases and downloads

The commands of the release run in any order and each may stop half way; the bytes
of an artifact are the build it holds, the version it says and its signature, and
equal bytes have equal hashes. The updater's download writes, hashes, checks the
signature and records as separate steps, with failures, deaths and a channel that
moves on between them.

## 3. Runs

| Run | Bounds | Shows |
|---|---|---|
| `admission` | 5 requests, 3 principals, 2 buckets, limit 3, quota 2 | gate counts requests, no noisy neighbour, sliding window |
| `bus` | 2 subscribers, 1 thread, queue 2, 3 events, 2 stops, fairness | byte budget, order, nothing behind the stop, drops counted; a stop ends every subscription |
| `lock` | 3 processes, every disruption, fairness | one holder until a contender with a rival discards a lock; a lone start gets the lock; every start decides |
| `lock_stolen` (violated) | 3 processes and a leftover | two recoverers steal a live lock |
| `store` | one saver at a time, 4 changes, crashes | acknowledged changes survive; implements `DurableSet` |
| `registry` | 2 APIs, 2 workers, clock 3, age 1, 2 tests, restarts | evidence is genuine; VERIFIED is earned; a settled withdrawal sticks |
| `audit` | 2 processes, 2 lines per file, 4 entries, 2 I/O errors or deaths | an undamaged chain verifies and respects its bound; retention drops the oldest |
| `access` | 4 keys (2 spare), 2 workers, 1 application, 3 calls, 2 sessions, 1 restart | one late effect at most; one heir of the same rights; a configured key stays revoked |
| `adapters` | 2 threads, 2 contents, 2 attempts, 2 calls, 2 objects, 1 outside change | a verdict was proved and undone; the manifest follows; no circle of locks |
| `activities` | see below | six components of the server beside the registry |
| `system` | see below | six components that work on the machine |
| `ai_locks` (violated) | 2 threads | the two locks of the AI settings are taken in both orders |

`activities`, by `part`:

| Part | Bounds | Shows |
|---|---|---|
| webhooks | 2 publishers, 1 event, 1 destination, 2 attempts, 2 fan-outs, 3 changes | `SecretStaysWithUrl`, `DeliveredIsAccepted`, `NotDeliveredAgain`, `EveryoneIsTried` |
| workflows | a user and an administrator, 2 workflows, 2 steps, 3 requests | `OkMeansPlayed`, `FailureIsTheEnd`, `ListedIsPlayable`, `AgentOnlyPlans` |
| ai | 2 threads, 3 settings, 3 calls, restarts | `FileIsRuntime`, `OldSettingsAreSilent` |
| exposure | 3 records (two of one action, one of no application), 2 principals, both homes of MCP, 5 steps | `ExportedIsRunnable`, `ReadIsListed`, `ChangeIsTold`, `WithheldIsNotRun` |
| desktop | 2 requests, 1 window, 2 calls, 2 faults, both backends | `NothingStaysDown`, `SuccessMeansAccepted`, `VerifiedWasSeen`, `MovesKeepTheRest` |
| audio | 2 callers, 2 outputs, 2 changes, 2 events, both backends | `VerifiedIsHeard`, `RestoredIsAsBefore`, `FailuresHaveReasons` |

`system`, by `part`:

| Part | Bounds | Shows |
|---|---|---|
| update | 2 versions, 3 members, 3 calls, 1 mishap, 1 crash | `AllOrNothing`, `UndoAlwaysPossible`, `OutcomeIsHonest` |
| processes | 2 callers, 3 numbers, 3 births (the second of another user), 2 calls | `KillsAreIdentified`, `TeardownIsComplete`, `RecordsAreOwn` |
| release | both platforms, 1 key, 5 commands or changes | `AttestedVerifies`, `AuthenticodeIsReal`, `OnePackaging` |
| discovery | 1 run, 2 payloads, 2 names, 1 key, 2 events, 1 fault | `StagedIsVerified`, `NothingUnverifiedStays`, no unasked downgrade |
| services | 2 clients, 1 service, 2 calls, 2 events, both backends | `RestartIsNew`, `AbortedRestartStartsNothing`, `DenialsTouchNothing` |
| files | 2 requests, 3 calls, 2 changes of the tree | `BytesStayInside`, `AloneIsTold` |

Some properties are guarded, because the code keeps them only up to an event that
breaks them: `AtMostOneHolder` by `contested` (`lock_stolen` shows what may follow),
`WithdrawalSticks` by `settled`, `ChainVerifies` and `FileBounded` by `damaged`,
`OneHeir` by `contested`, `HeirIsRestricted` by the window of the copy,
`ManifestFollows` and `VerifiedIsProven` by `raced` and `unsaved`, the Windows half of `MovesKeepTheRest` and the answers
of `AudioControl` by interference. Section 4 says what happens beyond each guard.
`RetentionKeepsNewest` needs none: it holds with two writers and after faults.

**Why the bounds are enough.** Two interleaved handlers, savers or recoverers
suffice for every stale write-back and shared-file race in this code, since each
involves one reader and one writer; a third lock process lets a bystander watch.
Queues of two hold an event and a sentinel, with events of sizes one and two so that
the budget runs out before and after the queue. A clock of three with an age of one
has evidence that is fresh, at the limit and stale. Two versions that share one
member and own one each exercise keep, remove and add; three calls allow an update,
a failed retry and a rollback. Four entries with two lines to a file fill a file,
rotate it, and rotate again over the first one; two faults are a cut line and a
second fault that meets it. Two spare keys allow a rotation and a chained or
overlapping one; three calls put a play beside it. Two adapter objects are an old one
under verification and its replacement, and two calls the verification and what
comes between. Two attempts and three registrations let a
destination be removed and come back between the attempts. Three births are a tree
of root, child and grandchild, or a tree and a stranger. Five release commands are a
build, packaging, signing and attestation and one more of any kind that may fail.
Two service calls are the one that is told and another that disturbs it. Two outputs
let the default change hands between the steps of one change. Symmetry is used only
where no liveness is checked.

**Deadlock** checking is off where a behaviour really ends: all processes have
stopped, all events are published, all calls are used up. In `admission` it is on.

**Fairness.** `EventBus`: the loop runs its callbacks and wakes getters, a consumer
returns from its send (the socket times out), a thread leaves the lock.
`InstanceLock`: a process that runs keeps running, and the mid-write window of 50 ms
passes. The other modules state none: their properties are of safety.

## 4. Disagreements between code and documentation

The runs marked violated each check one sentence of the repository, quoted in
`PROJECT.json` with the lines of code that do otherwise: the lock of a live server
can be renamed away by a second recoverer, and a PUT of the AI settings beside a
test of the connection leaves both waiting for ever.

The others are visible in the models, at the definition named, and have no run of
their own.

Registry, store and updater:

* `save_registry` promises to "Atomically persist"
  (`apps/api_registry/store.py:107-110`, "A crash mid-write leaves the previous
  primary (or bak) intact"), but two requests that save share one tmp name outside
  the registry lock (line 117): with `MaxSavers = 2` `AcknowledgedSurvives` fails;
* disabling or demoting "sets registry status DISABLED… gateway then fail-closes"
  (`api/rest/apis.py:10-11`), but a test or a publish that read the record before
  writes its old copy back (`api_test.py:401`, `:417`, `apis.py:557`); `settled`
  names the records no such copy can reach;
* "recovery = re-verify…then publish" (`apis.py:469`, `api_test.py:412`) cannot
  leave DISABLED: the gateway refuses to run a DISABLED record
  (`gateway.py:194-203`), so its test fails before it is tested;
* "Restore latest backup" (`update/manager.py:452`): line 125 removes the earlier
  backup of the version before the new one is complete, so a rollback after a death
  there restores a part and reports success; `UndoAlwaysPossible` speaks of the
  backup on record;
* a save moves an unreadable current file over a good backup (`path.replace(bak)` at
  `apps/api_registry/store.py:122` looks at nothing; line 107 speaks of the previous
  good file);
* a health hook that returns `None` counts as healthy (`Succeeded`;
  `update/manager.py:43-44` has ambiguous health as a failure).

Bus and audit log:

* the event that makes way for the stop sentinel is not counted as dropped
  (`InjectStop`; `core/events/bus.py:6-7` promises observable drops);
* `winos-api diagnose --before-restart` logs from a process of its own
  (`observability/diagnose.py:793`). The server still holds the HMAC from before, so
  its next entry forks the chain and every verification fails until the file is
  rotated (`Put` with a rival sets `damaged`);
* a logger that starts on a file whose last line was cut appends behind it, and an
  acknowledged entry becomes part of an unreadable line (`Added`). The comment at
  `core/security/audit.py:201-202` has new writes continue "only if we can parse
  trailing valid prefix", else from genesis after a rotation;
* if the cut falls inside a multibyte character, the constructor raises
  `UnicodeDecodeError` each time it is called (status `unbuilt`);
* `_bootstrap_chain` means to mark the log unavailable when the file cannot be read
  (line 208), but both functions it calls swallow the `OSError`: the chain starts
  from genesis in the middle of the file (`StartUnread`).

Access and adapters:

* the heir of a rotation has no restriction until the scopes are copied, and loses
  it for good when the new key is itself rotated in that window; two overlapping
  rotations leave two heirs; a rotation onto an overlay key in force overwrites its
  role (`RotateRegister`);
* a request that passed the check may still mint a session after its key is revoked;
  the route that revokes a session does not ask again (`RevokeSession`). No scopes
  mean no restriction for REST and no application for a stream;
* a rotation leaves the workflows of the old key without an owner who can reach
  them; a restart brings a revoked key of the settings back, since revocations
  are in memory only;
* a verdict withdrawn for a loss of trust is not saved; a policy change in the
  middle of a probe leaves the typed value on screen (ROLLBACK_FAILED); the reason
  ACTION_FP_CHANGED cannot be reached.

Webhooks, workflows, AI settings, surfaces:

* `deliver` retries only what it gets an answer to: a timeout or network error is
  wrapped and ends the delivery, against its own comment "timeout / network";
* a step recorded by one caller lands in the recording of another, a stop answers
  with another's workflow, and what the generator made has no owner at first and,
  when a plan or the agent made it, never (`docs/roadmap_traceability.md:267` of the
  repository promises isolation of owners);
* after two overlapping PUTs the reasoner may keep a client that is closed; a base
  URL that does not resolve at a restart is dropped and the next PUT saves the loss;
  a change of provider keeps the old key;
* MCP over stdio has its own copy of the registry: a record disabled over REST is
  shown and run there until it restarts, and its own demotion saves the older view
  over the file;
* the tool and resource lists show a VERIFIED record too old for the gateway;
  `tools/call` does not look at the scopes that filter the list; execution by id
  ignores a DISABLED duplicate; the one snapshot of a session with two principals
  makes notifications spurious; scoped callers see records of no
  application in the export; one collision of paths refuses the whole export.

Machine:

* `recovered_to: "stopped"` is said of a restart whose start merely timed out; a
  restart whose stop times out may leave the service to stop later with nobody to
  start it; the audit outcome of a failed change of a service or of the volume is
  "success";
* a write opens its file with O_CREAT and O_TRUNC before it looks where the open
  file is: the bytes never land elsewhere (`BytesStayInside`), but an empty file may
  be made or a file emptied; unlink and stat look only once; a short `os.write` is
  answered ok;
* "A modifier left stuck down turns every later keystroke into a shortcut"
  (`hotkey`) is kept for chords only: the Windows `key_press` and `mouse_drag` have
  no `finally`, and a batch of which only part was accepted may leave a key or
  button down; the Windows chord answers ok before its releases; Windows clicks and
  the older Linux calls do not look at all the answers;
* a window whose geometry cannot be read counts as closed (`Observed`); the Windows
  move writes back a size read earlier and undoes a resize in between;
* each step of a volume change looks up the default output anew, so the old values
  of one output may be restored onto another; overlapping changes undo each other's
  verified values; Linux does not read back.

Releases and downloads:

* `release.yml:62-63` signs and then writes the default checksums, which refuse two
  files of one name: RELEASE_ATTESTATION.json lies in both folders; elsewhere it
  attests after the sums that list the attestation, so that they are stale when
  published;
* `sign_pe` claims authenticode when the verification failed, against the docstring
  of `release_attestation.py` ("Never mark authenticode / signed without
  verification evidence"); verification with `require_authenticode` looks for itself
  (`AuthenticodeIsReal`);
* verify-release in dist/ (docs/roadmap_traceability.md:536-538) fails when artifacts lie
  in both folders; the installer and the portable archive hold the unsigned
  executable; packages say the version of the tree and not of the binary; without
  dist/winos-api another file of that name may be packaged as the binary;
* a failed download removes or overwrites a file of the same name that was staged
  and verified before; two updaters at once may vouch for each other's bytes.

## 5. Proofs

Every safety and action property of every passing run is proved here for all values
of the constants, but for three restrictions named below (one saver of the registry
store, one run of the updater, no recycled process numbers). A theorem is about the specification that the runs check. For the
components of `Activities` and `System` the invariant of each is shown to be kept by
its own steps, and `[](part = "x" => Inv)` follows, since the others leave its
variables alone.

`Runtime_proofs`, request admission:

* `AdmissionTypeCorrect`: types, by induction on steps;
* `GateCorrect`: the counters equal the cardinalities of the sets of running
  requests. The invariant adds that `running` is finite, so that cardinalities are
  numbers and change by one with `Admit` and `ReleaseSlot`;
* `SlidingWindowCorrect`: over the history of granted hits of a key, the deque is a
  suffix of the history and every hit before it is stale now. This is what makes the
  invariant inductive: the limiter forgets hits, and the claim is about all.
  `PoppedProperties` shows that the `while` loop stops at the first hit that is not
  stale;
* `NoisyNeighbourHolds`, an action property: a principal with nothing in flight is
  refused only if the process is full, and then the running requests, at most `Quota`
  for each principal that has some, number at least `Limit`. That a set whose parts
  have at most `q` members has at most `q` for each part (`CountByValue`) is an
  induction over finite sets, done as a smallest set that refutes it.

`EventBus_proofs`, for any subscribers, threads, sizes and caps:

* `BusSound`: `BusInv`. `Membership` relates the list of subscribers to where each of
  them stands; `OneCharges` says that at most one thread is between filling the
  queues and recording the sizes, and has the lock; `StopsKnown` which queues can
  hold a sentinel; `FannedOnce` that an event is fanned out once, and that what a
  thread or a callback of the loop still carries has not been. `Ordered` is the order of
  each queue and of each subscriber's history, in the positions of the fan-outs.
  `RecordsFit` says that a queue is some events followed by sentinels and that its
  record ends with the sizes of those events. This is inductive only if the record
  counts what the thread in the lock still owes (`Recorded`): `asyncio.Queue.get`
  takes no lock, so an event can be taken before its size is recorded. `BytesAddUp`
  says that the budget is the sum over the subscribers of what is recorded so;
* `BusTypeCorrect`, `StopComesLast`, `DeliveryInOrder`, `BudgetIsSound`, and the action
  property `DropsAreObservable`, for which every step is shown to deprive exactly the
  subscribers that it counts.

The sums over queues and subscribers are those of the community modules, defined by
recursion over sets. What they do when an element is added, removed or changed
(`SumExists` and the lemmas after it) is again an induction over finite sets in the
form of a smallest one. `DropsAreCounted` counts both events and sentinels, since
no sentinel is queued while the bus runs.

`Runtime_proofs`, the instance lock, for any processes and any number of attempts from
two on:

* `LockSound`: `LockInv`. `MeetingsNoted` says that two processes that are in the way
  of each other are on record as such. `OwnersHaveTheFile`, while no process with a
  rival has discarded a file: whoever has created the file and not given it up still
  has it, and a process about to discard one without a rival is the only one near it.
  `AloneSucceeds`: a process that met nobody spends at most one attempt, on the file
  of a dead process, and finds none after it;
* `LockTypeCorrect`, `MutualExclusion`, `NoLeftoverKeepsOut`.

`ApiRegistry_proofs`:

* `RegistryTypeCorrect`;
* `EvidenceCorrect`: `EvidenceIsGenuine` alone is not inductive, since a publish
  writes back evidence it read earlier, and a test mints evidence for the record it
  works on. `EvidenceInv` adds that a publish in flight holds genuine evidence for
  the one record it is about, and that a test is about one record. `EvidenceKept`
  treats all steps that forget nothing alike; `Restart`, which forgets the ledger
  and fills it again from the store, is a case of its own;
* `VerifiedCorrect`: the action property, from `VerifiedStep` (only the gate writes
  VERIFIED) and `EvidenceInv`;
* `WithdrawalCorrect`: `SettledInv` adds to `WithdrawalSticks` that whoever holds a
  copy of a settled record is a test before the gateway or a demotion. The gateway
  stops the one, the other writes DISABLED; `SettledKept` covers the steps that
  write no settled record, `WithdrawalKept` those that withdraw one.

`Runtime_proofs`, the registry store, for `MaxSavers = 1` (one save at a time; any
number of threads and changes):

* `StoreTypeCorrect`;
* `StoreCorrect`: `AcknowledgedSurvives` says nothing of memory, but the next save
  writes memory and nothing else, so `AckedInv` has what was acknowledged in both.
  `StoreInv` says where the one saver stands: its snapshot is all of memory, the tmp
  file is torn while it is written and complete after, no name but tmp leads to a
  torn file, and no two names to the same inode;
* `StoreImplementsDurableSet`: every file operation leaves what a start would load
  as it is, except the last rename, which makes it all of memory (`StepRefines`).

`AuditLog_proofs`:

* `AuditTypeCorrect`, for which `CheckedType` and `LastHmacType` show that the
  constructor computes a number and an HMAC from any file;
* `ChainCorrect` and `FileCorrect`: the chain is no induction over the file but over
  steps. `ChainInv` says that each logger of an undamaged file stands at its end
  (`Behind`: its last HMAC is the last line's, its count their number), or is one
  line behind while it writes (`Writing`), so that the next line links and a full
  file is noticed. `CheckedIs` and `LastHmacIs` show that a new logger computes just
  that from a file whose lines verify;
* `RetentionCorrect` needs no file to be undamaged. `RetentionInv` says of any two
  entries that the older one is kept only if the newer one is, in the file alone and
  in both files together; that is inductive since a rotation moves a whole file, and a
  write adds the newest entry. Whoever is about to write the rest of a line has
  already put its entry there.

`AccessControl_proofs`, for any keys, roles in the lists, applications and threads:

* `AccessSound`: `AccessInv`. `CallOK` says what a call knows at each stage, also
  that a rotation carries the role of the Settings key at the head of its line;
  `Bound` that a call is bound to a session of its own key, which is dead for good
  once the call is cut off, and that a call which has had a late effect is back at
  the gate; `OverlayOK` that an overlay role is that of the Settings key it descends
  from. `LineOK`, for a credential that no two rotations were after, counts heirs
  along a rotation: at most one; the key in hand before the first lock section; none
  between the first and the second; the new key after it. `NarrowOK` says who is
  about to restrict a restricted key that has no scopes yet. Steps are grouped by
  what they leave alone (`QuietStep`, `OwnStep`, `BroadStep`, `EndStep`); the five
  steps of a rotation have a lemma each;
* `OneLateEffect`, `RotationHolds` and the action property `RevocationHolds`.

`AdapterEngine_proofs`, for any threads, contents, attempts and adapter objects. The
three properties need one invariant after the other, each proved with the ones
before it:

* `Base`: types, where every kind of job may stand (`Stages`), and that a lock of an
  adapter object is held exactly as often as the jobs of its holder say
  (`LocksAddUp`; the locks are reentrant). `CircularWaitNever` follows: a thread that
  holds the lock of one object only ever waits for that of a newer one
  (`WaitsUpward`), so that in a circle there would be no newest;
* `Generation`, as long as no creation overlapped another call (`raced`): whoever
  creates or verifies works on the object in memory, and a creation has it alone;
* `Fresh`: the value of a probe is used once, by one verification and one attempt. No
  value of a later attempt is on screen or on its way, which is what makes a value
  that is seen a proof;
* `Undo`: a verification that will say VERIFIED has its value on screen and the old one
  next to be written, or the old one is back. `Probes`: a stamp is on an object, in the
  manifest or in the hands of a job only when a probe of that content was seen.
  `VerifiedGenuineAlways` is both;
* `Following`: a manifest that somebody is about to write, or the one on disk when
  nobody is, is a copy of the object in memory. `ManifestFollowsAlways` is the case in
  which all threads are idle.

`Activities_proofs`:

* `DeliveriesAlwaysSound`: `HookInv`. A fan-out that is about to post has found the
  pair unmarked, and what is owed to a destination is served, still to do or in hand;
* `ReplaysAlwaysSound`: `FlowInv`. A replay in the list has played all of it so far,
  one in the rollback has just failed in the list or is well on its way back; lists
  of steps only grow (`Grown`), so that a replay that reaches the end of its list has
  played at least what there was when it began. The log is a chain (`Chained`), which
  each step lengthens by one link;
* `SettingsAlwaysFaithful`: `AiInv`. Whoever writes, applies or resets has the lock of
  the settings; the file may be ahead only between the write and the end, the client
  behind only between the new settings and the reset, and a client that somebody
  still holds is the shared one or closed;
* `SurfacesAlwaysAgree`: `ViewInv`, of which two conjuncts are about time (the lists of
  a session, and what ran); the other two properties compare the filters of the
  surfaces with the gateway in a single state, which takes the ranks of statuses and
  one fact about cardinalities;
* `DesktopAlwaysHonest`: `DeskInv` says who owes the release of every key and button
  that is down (`Released`), that what a call has left to send is of the kinds its
  gesture allows, and what a window answer saw that nobody has disturbed since.
  `SoundInv` says of a change that nobody else interfered with that the default
  output has the old reading before it is set, and the new one in the one field
  after (`Alone`, `Carries`).

`System_proofs`:

* `UpdateSound`, for any versions with any members: `UpdateInv`, of which the other
  three are consequences. None of them is inductive: they speak of the time between calls or of transactions, and an
  update goes through ten stages, each a loop over members in any order.
  `Progress` says what each loop has treated (what is no longer in `todo`) and what
  the stage before it left behind; `BackupsComplete` that every backup on record is
  complete but the one being made anew; `CanUndo` that the last one is that of the
  version found. All three are claimed only while no exception or death has cut a
  call short (`spoiled`); the types, and which calls pass through which stages, hold
  always;
* `AllOrNothingHolds`, `UndoHolds`, and the action property `OutcomeHolds`;
* `TeardownsAlwaysSound`: `ProcInv`, while no number changes hands under a call
  (`MayRecycle = FALSE`). Until it kills, whatever is alive under a number of the call
  is meant; when it has killed its process, that one is down; and a number that was
  spawned carries a launched process or none until it is recorded. All of it is kept
  by the steps of others, since these only end processes (`Settles`) or bear them
  under numbers the call does not use (`Kept`);
* `SuppliesAlwaysSound`: `ReleaseInv` says that attestations not older than the last
  change agree with the artifacts on disk, and that the Linux packages of one manifest
  were made together. `FoundInv`, for one run of the updater at a time: from its
  download on the file is what the run hashed, then it has the hash of the release,
  then it was accepted; without a fault every staged file is accepted, or is the one
  in hand;
* `ControlAlwaysHonest`: `ServiceInv` says that the start half of a restart follows a
  moment in which the service was down: it is down still, or was started since.
  `FileInv` says that a call past its second look has a file under the root, and that
  before anybody moves a folder so has one past its first; and what one who is alone
  has been told of the file.

Assumptions: only the named `ASSUME`s on constants, the one saver of the registry
store, the one run of the updater and the numbers that do not change hands.
`BusAssumption` asks for queues of at least one place; `LockAssumption` for two
attempts (the code makes twenty); `AdapterAssumption` for one attempt and for contents
and threads that are not called like the mark of their absence. Those of
`UpdateManager` and `AccessControl` say that a backup directory is named for one
version (`backups/<version>`), that no version is called like the mark of an absent
member, and that no application is called like the mark of absent scopes.
`ActivitiesAssumption` gives the environment's AI settings, the statuses and the bound
on steps their types, makes the records finitely many, and keeps marks apart from
threads, records and outputs. `PassesAgain` is used by no proof: it says that a URL the registration let
pass is not refused at the delivery, which looks at it again but resolves no name, and so
justifies that the model leaves the second look out. It mentions no constant, and TLC
evaluates it. The theorems hold for any number of
requests, keys, APIs, workers, tests, subscribers, threads, versions, processes,
adapters, workflows, records, windows, outputs, services and requests for files; the
bounds of the runs play no part.

Model-checked only are liveness (`StopReleasesEverySubscriber`, `StartDecides`), which
is out of the prover's reach; the violated runs; and what lies beyond the guards of
section 3, of which section 4 speaks. With several savers of the registry, several
updaters at once or recycled process numbers the theorems do not hold, and TLC shows
how (sections 4 and 6). What recursive definitions compute for every input is not
stated anywhere: the models have none that the proofs need, but for the sums of the
bus.

## 6. Not modelled, and the plan

Left out for good: the event schema, the privilege probe, the heuristics that read a
UI tree or a screen image, the sandbox of single UI actions, the routes that only
check, call and audit, counters and support bundles, and the command line: functions
of their arguments or single calls. Text generation (OpenAPI documents, SDK code,
prompts) is represented by which records it is about.

Inside the modelled parts: the body cap and loopback guard of the middleware, the
history of the bus, reuse of process ids by the lock file, updates from a single
file, key files of the trust store, the limits of a process tree and the policy of
what may be started, the loop of the agent, paging and search of the catalog,
projections (nothing calls them), Wayland, clipboard and screenshots, listing of
directories, the registry of Windows, the terminal, displays, devices, printers and
users. Two parts have no caller in the source besides the tests, and are modelled
all the same: `rebind_adapter` and `UpdateManager`.

`ProcessTree` is checked with `MayRecycle = FALSE`: the numbers of a snapshot are
killed without another look, and with recycling inside one call `KillsAreIdentified`
fails. Processes that fork after the snapshot survive a teardown, which
`TeardownIsComplete` allows.

Components are composed only where the code lets them meet on shared state inside
one module (gateway and registry, trust and adapters, roles and calls). Still to
come:

1. Start, requests and stop composed from lock, bus and admission;
   adapters composed with `ApiRegistry` through the demotion.
2. Pure algorithms against reference definitions: comparison of versions, sandbox
   checks.

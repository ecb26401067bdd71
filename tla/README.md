# Avalon: models, checks and proofs

Avalon is a proxy client: a Flutter application (`src/app`), a configuration library
(`src/packages/av_core`) and a Go bridge around the sing-box core (`src/core`). This
directory holds TLA+ models of the parts of it whose correctness depends on the order in
which things happen, the TLC configurations that check them, and proofs that TLAPS checks.

Contents

1. [The system](#1-the-system)
2. [Modules](#2-modules)
3. [What the runs check](#3-what-the-runs-check)
4. [Bounds](#4-bounds)
5. [Fairness](#5-fairness)
6. [What is proved](#6-what-is-proved)
7. [Where code and documents differ](#7-where-code-and-documents-differ)
8. [What is not modelled](#8-what-is-not-modelled)
9. [Plan](#9-plan)
10. [Running it](#10-running-it)

`PROJECT.json` maps every definition that models code to its lines, lists the hazards with
the properties that watch over them, and gives for every checked property a plausible wrong
version of one definition under which TLC finds the property violated.

## 1. The system

### 1.1 Components

| Component | Source | State it keeps | Operations |
|---|---|---|---|
| Cloud sync | `app/lib/cloud/sync_engine.dart`, `data/repositories/sync_repository.dart`, `sync_projection.dart` | database: one document per record (content, edit time, mirror of the server's record, PENDING and IN-FLIGHT envelope), cursor, bound generation, rebuild attempt with its frozen entries and control request, staged pull; memory: the worker's epoch, the lifecycle read last, the intent a user confirmed | save and delete content, reconcile, pull a page, bind candidates, prepare a push, commit its results, leave and resume the account; adopt, rebuild, take over and fully pull a generation; explicit merge |
| Cloud session | `cloud/auth_service.dart`, `data/repositories/cloud_session_repository.dart` | database: the session row with its refresh token and guard, queue of revocation proofs; memory: sign-in generation, one refresh future per session, the drain | sign in, sign out, authorised request, refresh, revoke, drain |
| Revocation retry | `cloud/cloud_revocation_retry.dart` | foreground flag, timer, the run under way, the status shown | resume, pause, trigger, timer, run |
| Runtime coordinator | `runtime/runtime_coordinator.dart`, `runtime_state.dart`, `host_gateway.dart` | phase and snapshot shown, intent, command queue, session id and plan hash remembered, `plan.next.json` and `plan.json` | attach, connect, disconnect, tailnet on and off, sync, stop all, refresh, write back a panel's choice |
| Engine bridge | `core/bridge/engine.go`, `results.go`, `traffic.go`, `logs.go`, `urltest.go`, `choices.go` | state, session, plan hash and controller address under `mu`; the lifecycle lock; the daemon's instance; the day's record and its file; remembered results by request id; a ring of log lines | start, reload, stop, close, urlTest and validate under the lifecycle lock; setMode, select, fetch and the commands that only use the instance; snapshot, queryCommand, getLogs; the 30-second traffic writer |
| Network guard | `core/bridge/public_network.go`, `fetch.go` | none: one walk over a plan, one download at a time | prepare a plan from the cloud, fetch a cloud resource |
| Native hosts | `app/android/.../AvalonVpnService.kt`, `HostFiles.kt`, `app/ios/PacketTunnel` | the note of the hash that runs | restart by the system, revocation of the VPN |
| Desktop system proxy | `app/desktop_proxy_controller.dart`, `platform/desktop/system_proxy.dart`, `app/windows/runner/desktop_channels.cpp` | durable recovery record, request queue, last intent, state shown | reconcile, takeover, restore, inspect, exit |
| Windows host migration | `runtime/host/windows_host.dart` and its neighbours | which helper is the service, which one is prepared; the marker `host-location.json` | discover, prepare, call, migrate, release |
| Privileged helper | `core/cmd/avalon-helper/{pipe,platform}_windows.go`, `core/internal/windowshost/policy.go` | per helper: process, engine session, handle on the tunnel's global name, private files, the commands waiting for its pipe | start, reload, stop; export, import, shut down |
| Subscriptions | `services/import_service.dart`, `app/subscription_updates.dart`, `services/download/fetcher.dart` | configurations, their source secret | import, refresh, schedule |
| Rule-set resources, plans | `services/resource_service.dart`, `services/plan_service.dart` | content-addressed files and cache rows | fetch, prune, compile |
| Secrets and vault | `data/vault/*` | encrypted rows, their owners | put, get, delete orphans |
| Backup | `data/backup/*` | one sealed file | export, import |
| Database | `data/database/*` | tables and migrations | — |
| Configuration pipeline | `packages/av_core/lib/src/pipeline/*` | none (pure) | resolve members, convert rule sets, build a plan |
| API client and wire models | `cloud/api_client.dart`, `cloud/sync_models.dart` | none | requests |
| Views | `features/*`, `app/*` | presentation | calls into the above |

### 1.2 How they interact

- Views and services save content through repositories; saving marks a document dirty in the
  same transaction (`SyncOutbox!EditBound`, `EditUnbound`) and, while a session runs, changes
  an input the coordinator listens to (`RuntimeHost!Edit`, `Choose`).
- The sync worker sends authorised requests, which share one refresh per session
  (`CloudSession!AskRefresh`). A sign-out moves the worker's epoch: whatever a run had in hand
  is refused by its next transaction (`SyncOutbox!SignOut`).
- A run of the worker first brings the device into the account's current generation
  (`SyncGeneration`), then does what `SyncOutbox` does: the one module is built on the actions of
  the other.
- Leaving a session queues a proof (`CloudSession!Park`) that the retry controller works off
  while the application is in view (`RevocationRetry`).
- The coordinator serialises commands and carries each to the host process as one request; the
  bridge serialises the requests again under its lifecycle lock. The application follows the
  host only through snapshots, which overlap the commands.
- Inside the host, commands, snapshots and the traffic writer meet on one engine (`CoreEngine`);
  `RuntimeHost!exec` is the sequential summary of its lifecycle lock as the coordinator sees it.
  A plan that came from the cloud passes the guard before it starts, and so does a download the
  application asks the host for (`CoreEngine!Prepared`, `Fetch`, which are steps of `PublicNetwork`).
- On Windows the host is one of two helpers; the application moves its private files from one to
  the other when TUN is switched (`WindowsHost!Migrate` and the steps after it), and helpers of several accounts compete
  for the one tunnel (`OneTunnel`).
- The port of the plan the host runs (`RuntimeHost!attested`) is what the system proxy points
  at (`SystemProxy!session`).

### 1.3 What is hard about each part, and what makes it correct

**Sync.** A push may be committed by the service and its answer lost; the user edits while a
version is on the wire; answers arrive after a pull has already seen their revision; pages and
batches are cut at any record; the account is left and resumed in between; device clocks may be
wrong. Correct means: a request of unknown outcome is held until the service has ruled on it; a
mirror is always what the service published; the cursor leaves nothing behind; content yields
only to a newer record or to a verdict; devices converge.

**Generations.** The service ends a space and opens another; one device rebuilds it from its own
content, over many requests, while others take over, wait or edit. Correct means: what a user wrote
and no service ever had stays, and stays marked; nothing of the old space is taken for a record of
the new one; an attempt that broke off, lost its owner or its receipt comes to an end by itself.

**Session.** A refresh consumes its token, and presenting one twice ends the session. Correct
means: no token is presented twice, even after a lost answer or a killed process; only an
unknown outcome costs the user a sign-in; a late answer neither revives a session that was left
nor drops another; a session that was left is revoked or accounted for.

**Revocation retry.** Resume, manual retry, timer and sign-out interleave with a run. Correct
means: one run at a time, silence in the background, no denial lost, the queue watched until it
is empty.

**Runtime.** Two queues in two processes, polls that overlap commands, a panel that switches
modes from outside, hosts that stop and start by themselves. Correct means: what is shown and
attested is what runs; a stop beats a start that waits for consent; the plan kept for a restart
was accepted by a core; only a panel's choice is written back; the last intent is carried out.

**Engine.** Any thread calls in at any time; the lifecycle lock is held over the slow work, `mu`
only over single reads and writes, and the daemon keeps the old instance visible while it makes
the next. Correct means: what is called running is the open instance of that session and that
plan; a snapshot never pairs two sessions; of what an ended session carried, nothing is missed but
what came after the last look at its total, also across a kill; a fresh session has the choices of its plan and not those the core remembers;
full buffers lose the oldest entry first and pages never skip one.

**Network guard.** Groups, detours and endpoint tags form a graph the cloud chooses; DNS and
redirects are chosen by strangers. Correct means: an accepted plan has been pinned and checked in
everything its cloud endpoints lead to, and free of cycles there; a refused one had a reason; a
download connects to public addresses only, on every hop.

**Windows.** Two helpers and the application die independently; answers are lost; another account
wants the same tunnel. Correct means: at most one tunnel; a name held only for a tunnel or by a
command at work; an import that is whole or nothing; a session that starts on the whole state of
the last one.

**System proxy.** The settings belong to the user, who edits them at any time; the process dies
between two of their keys, or between comparing and writing them. Correct means: the original values are in
force or durably recorded; another program's proxy is not overwritten, unless it was chosen after
the last comparison began; the settings are given back in the end.

## 2. Modules

Each component is a module; its small instances are in `MC<module>.tla` and the `.cfg` files,
its proofs in modules of their own. Every action is one repository transaction, one handler, the
code between two `await`s, or in Go the code of one critical section. An operator whose comment begins "Mutated form of" is no part of
a specification: it is a plausible wrong version of the definition it precedes.

### 2.1 `SyncOutbox`

One account on several devices, the sync worker of each, and the record store of the service.
`slot[d][r]` is one row of `sync_documents` with its `sync_meta`:

| Field | In the code |
|---|---|
| `val`, `at`, `merge` | local content, `local_edited_at`, `pending_merge` |
| `rval`, `rat`, `rrev` | the mirror: the newest server record observed |
| `pend`, `fly` | PENDING (replaceable) and IN-FLIGHT (outcome unknown) envelope |
| `n` | stands for fresh mutation identities |
| `cand` | content of the business row that no account document owns |

`pc`, `page` and `batch` are where `SyncEngine._run` stands and what it has in hand; they vanish
with a crash, a failed exchange or a sign-out (`FailRun`, `SignOut`), the database does not.
`StartRun` reconciles; `PullPage`/`CommitPullPage` loop over pages cut anywhere;
`CompleteBootstrap` binds candidates; `PreparePush` seals the IN-FLIGHT slots in one transaction
and puts the request on the wire; `CommitPushPrefix` applies a prefix of its results. Every
transaction that projects ends with `Project`, as in the code. `wire` is never emptied: a request may
be delivered at any later time, any number of times, and its stored `verdict` is what a resend
gets. The service (`ApplyMutation`, `SupersedeMutation`) is external: it is taken from how the
client uses it and from `docs/CLOUD_SYNC.md`. `Lifecycle` chooses protocol 2, in which content
retained from before the account stays out of the outbox until an explicit merge (`merge`).

### 2.2 `SyncGeneration`

The same devices and records across generations. It declares the variables of `SyncOutbox` again and
takes that module as `Outbox == INSTANCE SyncOutbox`, so that row, envelope, page and push steps are the same
definitions; `space`, `scope`, `entries` and `stage` are what generations add:

| Variable | In the code |
|---|---|
| `space`, `done`, `mail` | the service: generation, origin, backup state, attempt and its staging area; committed control operations; control requests that may arrive, again or late |
| `scope[d]` | `sync_state`: generation, `backup_state`, `bootstrap_completed`, local and confirmed attempt, the frozen control request |
| `entries[d]` | `sync_rebuild_entries`: content frozen for the attempt, acknowledged or not |
| `stage[d]` | `sync_pull_stages` and its entries |
| `life`, `then`, `hand`, `seen`, `intent` | where the run stands in `_prepareLifecycle` and its helpers, and what it has in hand; lost when it ends |

A run reads the status, adopts the generation (`Adopt`: the same, a continued protocol 1, or a new one
that archives the old scope), activates it, sends a control request left over from before
(`Activate`), puts an abandoned attempt away (`Quarantine`), carries out a confirmed intent
(`CancelRebuild`, `BeginRebuild` and `OpenAttempt`, `Resume`, `Refuse`), uploads (`StagePush`,
`CommitStaged`, `Progress`, `CompleteAttempt`), and pulls the whole space into a staging area
(`FullPage`, `ConfirmPull`, `PublishFullPull`). `AnswerControl`, `RejectControl`, `Verify` and
`Settle` are the answers of control requests: a receipt says what happened first, and only the
status read after it says what holds. The service is external, from how the client uses it and
`docs/api/drafts/0.3.0/SYNC_PROTOCOL.md`. `own` is history: content a user made and no service has
had or ruled on. Content that protocol 1 only queued, without retaining it, leaves `own` when an
observed record that is not older replaces it: that is last-write-wins. Nor does an edit count that
returns to content the service has had (`Had`): a record of the space, the mirror a device of protocol 1
still has, or the manifest of the device's own attempt once that was published. Section 7 says what
becomes of such an edit.

The revisions of a publication are given in some order (`Published` takes any of `Orders`), and `head`
is the current revision of each record (`HeadsOf`). `IsStart` says which situations a behaviour may
begin in: rows that are well formed, mirrors of protocol 1 that are records of a space that
continues it, with a cursor that passed nothing unmirrored, and devices in earlier generations
with whatever they have. TLC evaluates it on every start of the run; the proofs assume no more.

### 2.3 `CloudSession`

`session` is the service's view (newest token `k`, newest expired access and refresh token
`dead` and `lapsed`), `row` the database's (`unc` is `refresh_uncertain`, the guard). Each sign-in
(`VerifyBegins` … `VerifyDiscards`), the sign-out, each refresh task (`RefreshReads`,
`RefreshClaims`, `ServeRefresh`, `RefreshKeeps` …) and each authorised request is a small process
whose position says which `await` it stands at, with what it read before. `TaskEnds` is the
completion of the shared future: everyone who joined goes on or fails. `Crash` empties everything
but the database and the service. `fate`, `floor` and `replayed` are history: what became of a
session, which sign-ins a committed sign-out leaves behind, whether a live session was presented
a consumed token.

### 2.4 `RevocationRetry`

The controller of the same name with `retryPendingRevocations` as its run: count, list, send each
proof, end, recount. `CloudSession` models what proofs revoke; here they are only queued and
settled. The two share the queue: `SessionIsLeft` and `LogoutEnds` are what `Park` and
`RevokeEnds` do to it.

### 2.5 `SystemProxy`

`os` is the group of proxy settings, `journal` the durable record, `job` the request under way
with the key it reads or writes next and what it expects to find. On `Grouped` desktops (Windows)
one call reads all keys and one call writes them; the native write first reads the group once more
and compares it (`Compare`), then sets it (`Set`), in two system calls. On others (GNOME) each key is
read and set by a command of its own. On both the user may change a setting between the comparison
and the write. `EnterApply`, `EnterRestore`, `Restored`
are the calls of `apply()` and `restore()`; the bodies are `Read` and the steps after it.
`CommandFails`, `CompareFails` (the native write could not read the group and answers as if it had
changed), `WriteIgnored`, `LateWrite` and `Restart` are what the code handles. `own`, `touched`,
`blind` and `raced` are history: the settings the last takeover found, what the user changed
since, whether a restore gave up because its comparison was not answered, and what the user
changed since the last comparison before a write began.

### 2.6 `RuntimeHost`

Coordinator, gateway, bridge and native host in one module, because every interesting behaviour
crosses them. `job` is the command under way (`_serially`), `queue` the ones behind it, `look` the
shared snapshot query (`_refreshing`, with `fresh` for "same epoch"), `wire` the requests that were
sent, `exec` the one that holds the bridge's lifecycle lock. A plan stands for its hash and is a
record of the two intents and the content it was compiled from; the outbound mode stands for all
choices a running session can switch without a reload. `Between` is the event loop: commands
follow each other within one turn. `AnswerLost` covers an unreachable host and a wait that ended
without a verdict; the request may then still be taken up (`Orphan`). `accepted`, `missed`, `halted`
and `cancelled` are history: the plans a core has run, whether an edit went unheard, whether a poll
showed that the session ended and since then nobody asked for one and none was seen to run, and
whether stop was pressed while consent was asked for.

### 2.7 `PublicNetwork`

`walk` is one call of `preparePublicPlan`: `Prepare` takes a plan, `Pin` judges an outbound when
the recursion enters it (a proxy is resolved and pinned there), `Descend` goes on to its members
and detours in the code's order and `Leave` returns (`visiting` and `done` are the two maps of the
recursion, `stack` its frames). `get` is one call of `fetch`: each hop is resolved, checked and connected on its own, up to `MaxRedirects`.
An address is what the guard asks of it, its family and whether the prefix table calls it public;
an outbound is its type, its ways on, its server, its TLS and transport names, and whether all
its option keys are on the list the guard covers. DNS answers are any set of addresses.

### 2.8 `CoreEngine`

`facts` is what `mu` protects, `lifecycle` the lock that commands queue for, `job[t]` where each
calling thread stands. A section under `mu`, or under the lock of the day's record, is one step;
between two of them any other caller, the traffic writer or a kill may come. The daemon is
external: it closes the instance it has, which stays visible, before it makes the next; each step
of a start may fail; it remembers the last choice made in any instance (`memory`). Choices are one
number for the mode and the selected members. Traffic is counted in one direction. `getConnections`,
`closeConnection`, tests inside a session and the tailnet account commands pass the same guard and
touch nothing modelled: they are the one action `Use`. Only `setMode` and `select` (`Choose`) mark
the session as touched. A probe that cannot be closed answers all the same (`Probed`).
`planOf`, `outcome`, `due` and `carried` are history: the plan of every session, the true outcome of
every command, and what the day's record owes. Of `due`, `sum` is what sessions had carried when
the daemon closed them, `slipped` what of it came after the last look at their total (`Carry` adds
it), `owed` says that the session that runs counts at its end, and `whole` that the record has
kept its date since the command that started the session noted the end of the one before.

### 2.9 `WindowsHost`, `OneTunnel`

`host[h]` is a helper: `up`, its engine's `session`, its `handle` on the global name. `inbox[h]` are
the commands that wait for `mu` and `lifecycle`, in order, because Go hands a contended mutex to
whoever waited longest; `job[h]` is the one carried out. `app` is `WindowsHostTransport` with the
step of a migration whose answer it waits for (`Migrate`, `AskExport`, `AskImport`, `Mark`,
`AskShutdown`, `AskStart`), `marker` the file. A file's content is
the number of the session that last wrote it. A core that errors on closing is taken to have given
up its interface. A helper, the application, a step or an answer may fail wherever a budget allows.
`OneTunnel` is what the helpers of all accounts promise together; `WindowsHost` is shown to
implement it with `tunnels` mapped to the helpers whose session runs a TUN interface
(`AtMostOneTunnel`).

### 2.10 Abstractions common to all

Payloads, plans, ports and tokens are model values or small numbers; JSON, encryption, logging and
wording are left out. Revisions and tokens are natural numbers because their order matters. Edit
times are `1..MaxTime`. Request identities are what their generator makes them: fresh.

## 3. What the runs check

Times are for two workers. "pass" runs are exhaustive over their instance.

| Run | Distinct states | Question | Answer |
|---|---|---|---|
| `legacy` | 1.10 M, 2.5 min | Two records, protocol 1: do page cuts, partial batches, lost answers and sign-outs leave the cursor, the envelopes and the edits consistent? | `CursorLeavesNoHole`, `NothingRegresses` hold |
| `lifecycle` | 0.34 M, 2 min | Protocol 2, arbitrary device clocks: are mirrors what the service published, and do devices converge? | `MirrorIsPublished`, `UnknownResultIsHeld`, `RunKnowsEveryEdit`, `EditYieldsOnlyToAVerdict`, `Converges` hold |
| `rebuild` | 0.28 M, 3 min | A space that is replaced, rebuilt, taken over, cancelled, edited during, interrupted, replaced again: is every edit kept, every mirror of this generation, and does it end? | `EditsAreKept`, `ScopeIsClean`, `Settles` hold |
| `session` | 1.32 M, 2 min | Shared refreshes and overtaking sign-ins under lost answers, crashes, expiries and a wrong clock | `NoReplay`, `OutcomeIsKnown`, `LeftStaysLeft`, `LeftSessionIsAccountedFor` hold |
| `revocation` | 24 k, 7 s | Does the retry keep its promises under pauses, restarts and failures? | `TimerIsQuiet`, `DenialIsShown`, `KeepsWatch`, `DrainsUntilEmpty` hold |
| `desktops` | 1.31 M, 3 min | Windows and GNOME, edits by the user also between comparison and write, failures of commands and of the native comparison, crashes, late and ignored commands | `Recoverable`, `ActiveIsIntended`, `ForeignGroupIsKept`, `Cleanup` hold |
| `host_safety` | 1.37 M, 2 min | Four kinds of trouble: panels, tailnets, hosts that start and stop, refusals and full disks | `Agrees`, `InLine`, `NoUnwantedStart`, `KeptWasAccepted` hold |
| `host_live` | 0.42 M, 1.5 min | Do modes meet, intents get carried out, ended sessions get noticed, also when answers are lost and files cannot be written? | `ModesMeet`, `IntentIsCarriedOut`, `ShownMeansRuns` hold |
| `host_stuck` | violation | Does a busy phase mean that something is under way? | `BusyMeansUnderWay` fails, see 7 |
| `engine` | 1.65 M, 3.5 min | Callers, snapshots and the traffic writer on one engine; plans and downloads before the guard | `RunningIsServed`, `SnapshotIsOfOneSession`, `EndedTrafficIsCounted`, `PlanChoicesHold`, `NewestIsKept`, `VerdictIsRight`, `DownloadIsGuarded` hold |
| `recount` | violation | Is the day's traffic counted once? | `DayCountsOnce` fails, see 7 |
| `windows` | 1.06 M, 2 min | A session moved between two helpers that die, fail and lose answers, beside another account's | `HandleFollowsTunnel`, `ImportIsWhole`, `AtMostOneTunnel` (the refinement of `OneTunnel`), `NewestStateRuns` hold |

Some properties are claimed under a condition that the module names and that is part of the
formula, because the code does not promise more:

- `Recoverable`, and what `Cleanup` says of the settings (`GivenBack`), need that what a takeover
  changed can be traced (`Traceable`): no restore gave its record up because its comparison was not
  answered, and off Windows commands end when they time out and do what they report. That no
  record and no request is left in the end, `Cleanup` says without condition. Section 7 says how
  the settings stay ours otherwise.
- `ForeignGroupIsKept` exempts values the user chose after the comparison before the write had
  begun (`raced`): neither WinINet nor GNOME has a compare-and-set. It leaves out desktops whose
  commands outlive their timeout, as a late write compares nothing.
- `EditYieldsOnlyToAVerdict` lets retained content that nothing is queued for yield to the verdict on an
  older version of it; section 7 says how that happens. Its theorem (6.1) has the same exemption.
- `EditsAreKept` is about content the service never had, as `Had` and `Settled` define it (2.2).
- `LeftSessionIsAccountedFor` exempts a session the device's own clock took for expired, one
  whose renewed access the service refused, and one whose proof it denied: the code forgets them.
- `Agrees`, `InLine`, `ModesMeet` and `IntentIsCarriedOut` are about behaviours in which nobody but
  the coordinator and a panel touched the session and every answer arrived (`Undisturbed`);
  `IntentIsCarriedOut` and `InLine` also need that nothing was refused (`NothingRefused`).
  The half of `Agrees` about the attested plan only needs the answers and the files (`Told`).
  `KeptWasAccepted` needs that no request was left behind by a coordinator that had given up on it
  (`Delivered`: no lost answer, no application that was killed and opened again); section 7 says
  what such a request may do. `NoUnwantedStart` needs none of this.
- `ShownMeansRuns` says of the phase `running`, without condition, that something runs in the end. Of
  the other phases shown as connected it says so when every file could be written: a reload that
  ends with a file error leaves its phase behind (section 7).
- `InLine` and `ModesMeet` exempt an edit nobody heard (`missed`); section 7 says when that happens.
- `NoUnwantedStart` starts, for a host that stopped by itself, with a poll that saw the session end;
  section 7 says what happens when a command's own follow-up is the first to see it.
- `PlanChoicesHold` exempts a session that a command has touched: the command may be late and have
  been meant for the session before.
- `EndedTrafficIsCounted` is about sessions that began and ended while the record kept its date, from
  the moment the command that started them noted the end of the one before; of what they carried
  it exempts what came after the command that ended them had read their total (section 7).
- `ImportIsWhole` exempts a helper that died while it replaced its files, or that says it is
  unusable; `NewestStateRuns` shows that no session of the user starts on such a mixture.

## 4. Bounds

Bounds are constants named where they are declared. An exhaustive run over all kinds of trouble
at once is out of reach for the larger modules, so each takes a set of **budgets**: records saying
how often each kind of event may happen. One run explores all its budgets, chosen so that those
kinds meet that interact in the code.

- **SyncOutbox**: two devices; two edits on one and one on the other; two times; one fault. One
  device's two edits are what the two envelope slots are for (one version on the wire, one behind
  it); the other's edit is what they race with. One fault separates a sent body from its result,
  after which every resend is a fault-free run. Two records (`legacy`) are enough for a cut between
  records: pages and batches are prefixes, and what lies behind the cut is one record or none.
- **SyncGeneration**: two devices, one to rebuild and one to take over, wait or publish first; two
  records, so that uploads, publications and pulls can be cut between them. Five starts with budgets
  of their own: a space that must be rebuilt, with two confirmed actions and a failure (start, then take over or
  cancel or resume, with the run dying at any step); the same with two records and an expired receipt; the
  same with an edit at any moment of the rebuild; a space another device has published that ends
  again while this one joins; and a space continued from protocol 1 that ends. Devices begin with rows in sync
  with the old space, an edit sent and never answered, a queued deletion, and content of no account.
  The edit budget is one because `own` compares content and not its age.
- **CloudSession**: two calls are one that refreshes and one that joins; two sign-ins and a
  sign-out are every order of overtaking; two rotations tell the newest token from the one before
  and the one before that; two faults allow a loss and a crash after it.
- **RevocationRetry**: three proofs, so that a drain has one before and one after the one that
  fails; three faults. Pauses, resumes and restarts are unbounded.
- **SystemProxy**: two settings (endpoint and mode) are the smallest group that can be written by
  half; two ports make a takeover of one over another; the user's values overlap with ours in the
  mode and with the original in both, which is where ownership by value is delicate. The queue of
  three holds the forced and unforced request of one preference change and one more. There are
  three desktops: a grouped one whose writes may have no effect, with and without edits by the user;
  one by keys whose commands do what they report; and one by keys whose commands may outlive
  their timeout or have no effect.
- **CoreEngine** with **PublicNetwork**: two callers and the traffic writer, two choices, room for
  two results and three log lines, one redirect. Seven workloads: `Replacing` (start, reload, stop
  and a probe around a snapshot), `Commanding` (a reload between commands that passed their session
  check), `Counting` (midnight, a kill, the writer and a failed close or start around an ending session), `Closing` (a start
  behind a close, a validation), `Fetching`, `Logging` (seven lines turn a ring of three twice), and
  `Planning`: every plan of a grid of groups, proxies and a third outbound over three tags, with
  cycles through members and detours, missing members, and every answer of DNS from addresses of each
  family and one that is not public. Three tags are a cycle through something that is not on it.
- **WindowsHost**: two files, so that a crash leaves one of them; the two helpers of one user and one
  service of another; five workloads (there and back with crashes, with failing steps, with lost
  answers, with all three, and beside the other account).
- **RuntimeHost**: three contents of which one does not compile, two modes, and the budgets of
  `MCRuntimeHost`. Two presses are a start and the stop that overtakes it. The liveness run has four
  budgets of its own: modes switched from both sides; lost answers, a host that stops and an
  application that is killed; delayed answers and a refusing core; and a file that cannot be
  written while the tailnet is switched and the host stops (`Disks`). In it the
  queue is longer than the budgets can fill, so that a full queue never stands in for a scheduler.

Symmetry is used in safety runs only (`session`: calls; `host_safety`: the two contents that
compile, the modes; `engine`, `recount`: callers). `CHECK_DEADLOCK FALSE` is set where users, cores
and budgets may all come to rest; `SyncOutbox`, `RevocationRetry` and `CoreEngine` (whose loggers and
tickers rest only with everyone else, `AtRest`) are checked for deadlock.

## 5. Fairness

- `SyncOutbox`: the worker of a device (weak), because the periodic, edit and retry triggers of
  `SyncEngine` keep starting runs while the account is signed in and the event loop runs each
  continuation; and the service's ruling on what it has received, because it is assumed reachable
  once the faults are used up. Users, sign-ins and clocks owe nothing.
- `SyncGeneration`: each device's run, for the same reason, and the service's answer to the control
  requests and pushes it received. Users, failures, the expiry of receipts and the subscription owe
  nothing; budgets bound how often they act, and `Settles` speaks of what follows.
- `RevocationRetry`: the run's own steps and the timer. `Resume`, `Pause`, sign-outs and restarts are
  not fair.
- `SystemProxy`: the requests' steps (commands return or time out after five seconds), the inspection
  that is under way, and the retry of a failed cleanup by the inspection timer.
- `RuntimeHost`: the coordinator's continuations, the debounce timer, the poll while connected, the
  query and its answer, the bridge's lifecycle. The continuation of an answer needs strong fairness
  because an undelayed answer waits for a query that was answered before it (`Arrives`), which
  polling disables again and again without end.
- `CloudSession`, `CoreEngine` and `WindowsHost` state no fairness: nothing in them promises that a
  caller, a core or a helper goes on, and their properties are about what steps may do.

## 6. What is proved

Theorems are about any value of the constants, from the assumption the module names. Each rests on
an inductive invariant stated in its proof module.

| Module | Assumption | Theorems | For any |
|---|---|---|---|
| `SyncOutboxProofs` | `ConstantsAssumption` | `TypeCorrect`, `HeldUntilRuled`, `SpecMirrorIsPublished`, `SpecCursorLeavesNoHole`, `SpecNothingRegresses`, `SpecRunKnowsEveryEdit`, `SpecEditYieldsOnlyToAVerdict` | devices, records, payloads, bounds, both protocols, any clocks |
| `SyncGenerationProofs` | `GenerationAssumption` | `Typed`, `Clean`, `Kept` | devices, records, payloads, starts, edits, faults, takeovers, replacements |
| `CloudSessionProofs` | `SessionAssumption` | `SpecNoReplay`, `SpecOutcomeIsKnown`, `SpecLeftStaysLeft`, `SpecLeftSessionIsAccountedFor` | requests, sign-ins, rotations, sign-outs, losses, crashes, clocks |
| `RevocationProofs` | `FaultsAssumption` | `Quiet`, `Denials`, `Watching` | proofs, failures, pauses, restarts |
| `SystemProxyProofs` | `ConstantsAssumption` | `Typed`, `Recovering`, `Intending`, `Keeping` | settings, ports, requests, edits by the user, failures, crashes |
| `RuntimeHostProofs` | `ConstantsAssumption` | `Typed`, `Agreeing`, `InStep`, `NotUnwanted`, `Kept` | contents, modes, commands, and any mixture of all kinds of trouble |
| `CoreEngineProofs` | `EngineAssumption`, `AddressAssumption` | `Typed`, `Running`, `Choosing`, `Showing`, `Counting`, `Keeping`, `Judging`, `Downloading` | callers, events, plans of any size and shape, answers of DNS |
| `WindowsHostProofs` | `HostAssumption` | `Typed`, `HandleFollows`, `OneTunnelAtATime`, `ImportsAreWhole`, `NewestRuns` | accounts, files, failures |

### 6.1 Sync

`SyncOutboxProofs` proves, for any sets of devices, records and payloads, any bounds, both protocols
and any clocks — from `ConstantsAssumption` alone — seven theorems:

| Theorem | Property |
|---|---|
| `TypeCorrect` | `Spec => []TypeOK` |
| `HeldUntilRuled` | `Spec => []UnknownResultIsHeld` |
| `SpecMirrorIsPublished` | `Spec => []MirrorIsPublished` |
| `SpecCursorLeavesNoHole` | `Spec => []CursorLeavesNoHole` |
| `SpecNothingRegresses` | `Spec => NothingRegresses` |
| `SpecRunKnowsEveryEdit` | `Spec => []RunKnowsEveryEdit` |
| `SpecEditYieldsOnlyToAVerdict` | `Spec => EditYieldsOnlyToAVerdict` |

None of the properties is inductive by itself. The inductive invariant `IInv` has five layers, each
preserved with the help of those below it:

1. `TypeInv`: `TypeOK`, `LogOK` (every revision held anywhere is one the service has published:
   handlers read the log at revisions they were given, so the type of what they store depends on
   it) and `SlotsGood` (content has a time, and the pending envelope is the newest frozen one).
2. `WireInv`: one identity, one body. A mirror is rebuilt from the body the device sent; that this is the
   body the service ruled on needs that requests, IN-FLIGHT slots and the batch in hand never
   disagree about an identity, in particular that a pending envelope which is already on the
   wire is the one in flight.
3. `ServerInv`: heads, revisions and stored results agree. An applied result names the revision
   that holds the body of its request.
4. `MirrorIsPublished`: by 2 and 3 for an acknowledged push, by 3 for a page.
5. `CursorInv`: the cursor property with what makes it inductive, the contents of a page in hand
   (`PageSound`): every record whose head lies between the cursor and the page's end is in the page;
   one that changed since the page was read has its head beyond that end.

The module first states what each transaction on a record does (`FreezeGood`,
`SaveLocalGood`, `ReconcileGood`, `ObserveGood`, `BindGood`, `AcknowledgeGood` …), then classifies
steps (`StepKinds`): a step is *quiet* — it moves no mirror, request, result or cursor — or one of
`CommitPullPage`, `PreparePush`, `CommitPushPrefix`, and a ruling of the service. Each layer is then
preserved by one case for quiet steps and one per remaining kind. `NothingRegresses` follows from
the invariant and the same classification.

`HeldUntilRuled` needs only `TypeInv`: identities are numbered by their device, and an IN-FLIGHT slot is
emptied only by the result of its own number.

The last two theorems are about what becomes of edits. They rest on `TypeInv` and
`EditInv`: in protocol 2 a document without a mirror is retained (`Retained`), so the enqueue pass
never skips one it should look at; a running worker's account is signed in, so an edit made during the run is queued at once; the run knows every
record (`Known`, the property itself); and the envelope in the worker's hands is the one in flight
(`HeldEnvelope`), so the result that settles a record nothing is queued for is the one of the
version in flight. The bounds of `lifecycle` leave too few edits and times for content to yield to
an older version's result; the theorem covers them.

`SyncGenerationProofs` proves, from `GenerationAssumption` (finitely many records, a tombstone among the
payloads, starts as `IsStart` describes them; TLC evaluates it), for any devices and
payloads and with no bound on edits, faults, expiries, takeovers or replacements:

| Theorem | Property |
|---|---|
| `Typed` | `Spec => []TypeOK` |
| `Clean` | `Spec => []ScopeIsClean` |
| `Kept` | `Spec => []EditsAreKept` |

The inductive invariant `IInv` has ten parts. None is inductive alone; a step of a device and a step of
the service keep each with the help of those before it.

1. `TypeOK`, with `WellFormed` rows: what is queued is the row's content under its newest number.
2. `PhaseInv`: what a device may know at each step of its run. A device that is part of its generation
   saw the space ready, and once ready a generation stays so; a control request is open only where one
   is waited for; only a rebuilt space has attempts.
3. `AttemptInv`: attempts are numbered, every request, receipt and staging area is about the attempt it
   names, and what is staged is what the device froze.
4. `CompleteInv`: an attempt whose publication was not asked for has no such request on its way
   and no such receipt. Without it a late request might publish content that has since become
   an edit's again.
5. `QueueInv`: in a generation nothing is queued or sent before the device is part of it and knows the
   backup ready; that is why `BeginRebuild` and `CompleteRebuild` may forget envelopes.
6. `WireInv` and 7. `VerdictInv`: one identity, one body, requests only of the current generation, and a
   ruling names the revision that has the body.
8. `HeadInv`: `head` is the last revision of each record.
9. `MirrorInv`: in the current generation (or before the first, if it continues protocol 1: `Of`) mirrors are
   records of the log; the cursor of a device that is part of it passed no head that is not mirrored; a page
   in hand and a staged pull have, up to where they reach, every head; and while the space is not
   ready nobody in it has a mirror or a stage, so a publication starts from nothing.
10. `EditInv`: content in `own` is the row's content, marked, or queued and different from the mirror; and an
    envelope in flight is never alone (`Holds`). Content the device's own published attempt has is not
    in `own`, so `CompleteRebuild` may unmark exactly what equals its entry.

Rows come first, as in `SyncOutboxProofs`, whose lemmas are used for rows alone: `RowStep` lists the eight ways
in which a step changes a row, and mirrors and edits are then cases of that list. A publication (`Completes`), a
replacement (`Retire`) and adoption are the steps at which the meaning of a revision changes:
there 9 holds because nobody is `Of` the new space with a mirror of the old one.

### 6.2 Cloud session

The four properties of run `session` are proved together, because each keeps the others. Next to the
types the invariant of `CloudSessionProofs` has six parts:

1. `Ordered`: a sign-in that nothing has overtaken is the newest one, and newer than every sign-out,
   committed or called; this is what the one comparison with `_generation` buys.
2. `NothingBefore`: such a sign-in, once it has parked the session before it, finds no session when it
   stores its own, so storing overwrites nothing.
3. `Fresh`: until a sign-in is over nothing knows its session: no row, task, token, proof or request.
4. `Guards`: while a refresh request is out the row is guarded and the token on the wire is the newest
   of its session; an answer in hand tells what became of it, and no token of the session is on the
   wire any more; a stored token without a guard is the newest.
5. `Joined`: whoever waits for a refresh waits for one under way, and a request clears a session only
   when the service has revoked it.
6. `RuledOut`: a proof is reported as revoked only when its session is.

`NoReplay` and `OutcomeIsKnown` come from 4 and 5, `LeftStaysLeft` from 1 and 3 with `HeldLess` (only
leaving the active session makes a proof of a session), `LeftSessionIsAccountedFor` from 2, 4, 5, 6 and
`StaysRevoked` (only a sign-in brings a session to life). The steps of one task, sign-in or request are
summed up first (`Done`, `Aged`, `Asked`, `Moved`); each part then has one step per action.

### 6.3 Revocation retry

`TimerIsQuiet` and `DenialIsShown` become inductive with `Reported`, which says where a run may carry an
error: a run that has only counted or listed has met none, and one that recounts has put a denial on
the status already. `KeepsWatch` is an action property that needs only these.

### 6.4 Engine

Nearly everything depends on who holds the lifecycle lock. The invariant says, for its holder
(`Held`), what the engine's facts, the daemon's instance and the thread's own record may be at each
line of `run`, `stop`, `Close` and `urlTest`, and for everyone else (`Locked`) that they stand
outside those lines. A second part (`Counted`) relates the record of the day to the totals of the
instance: with what the holder has read and is about to hand in, and with what slipped by, the
day's sum covers all that closed sessions carried; and once the session that runs ends, what it
has carried too. A look by anyone else may only add to it; what a session carries between the
holder's look and the close is what `slipped` grows by. A step is the holder's (`SoleStep`,
one lemma per line) or another's (`OtherStep`, which must leave the holder's case alone).

`NewestIsKept` has an invariant of its own, for each of its halves. `ResultsKept`: the remembered
results are the newest entries of the true outcomes (`Newest`), whoever else is still at work, so an
eviction takes the oldest. `LinesKept`: the line of sequence number `nextSeq - count + k` lies in
the ring's slot `Slot(start, count, k)`, on either side of the turn.

### 6.5 Network guard

`Judging` is a proof about a depth-first search, for plans of any size. Its invariant: tags that
are done are closed under members and detours and contain no cycle; the tags under a visit form a
path along those edges, the innermost on top; everything either set holds is reached from the
endpoint tags. So a tag met under a visit closes a cycle (the refusal had a reason), and when the
walk ends the tags done are exactly the least closed set, without cycles. `Least`
restates `Reached` as membership in every closed set; the cycle lemma gives a subset without a
last element to a path that closes. Pinning is an invariant per outbound: untouched, or pinned to
an address the guard calls public under which the server is still asked for by its own name.

### 6.6 Windows

Per helper, `Sound` says what its process, session and handle may be at each step of its command
(while the engine works, the helper knows what it had before);
`OneHolder` says that at most one helper has the handle. A step of a helper changes its own row
only (`LocalStep`), so the first follows helper by helper and the second from the admission, which
looks at all others. With both, every step maps to `Open`, `Close` or a stutter of `OneTunnel`.

`ImportIsWhole` and `NewestStateRuns` need to know where a migration stands. Of the user's helpers,
only the one the marker names takes sessions and exports, and only the other takes imports, which
carry whole contents; the command the application waits for is the last in its helper's queue, and
nothing shuts a helper down behind an import. From the export to the mark the helper that is left is
quiet: no session runs there and none can begin, so what was exported stays the newest. Names of
operations and of helpers are taken to be different from `None` (`HostAssumption`).

### 6.7 System proxy

`Fits` relates the request under way to the record: nothing is written without one, and what a
write expects is, key by key, the user's value or ours. `Intact` speaks of
behaviours in which the user changed nothing since the takeover and commands do what they report
(`Clean`): what is in force is the user's or what the record says we wrote (`Recorded`), and what the
request has read is still there (`Knows`). `Recoverable` is `Recorded`, and
needs `Knows` to last: a record is dropped, and a value given back, only on what was read. The one
step that drops a record on nothing read is the answer to an unread comparison, which makes `blind` true.
`ActiveIsIntended` follows from `Viewed`: whatever is newly shown outdates the inspection under way.
`ForeignGroupIsKept` is an action property. It rests on `Compared`: a setting that differs from what
the write expects, once it was compared, was changed since the comparison began, so it is in
`raced`; what is expected is accounted for by the record (`Fits`). That a native call has no timeout is part of `ConstantsAssumption`.

### 6.8 Runtime host

The invariant has eight layers; the later ones lean on the earlier ones and hold under conditions on
what went wrong. Budgets only grow, so a condition that holds after a step held before it
(`Grows`): a layer is preserved by the steps that leave its condition true.

1. `Base`: types, and what belongs together: what a command knows at each of its places (`JobOK`), what
   the shared query can be (`LookOK`), the lifecycle lock with the state it guards (`EngineOK`).
2. `OneRequest`: at most one request is the one the command under way waits for; it carries that
   command's plan, and no one replaces `plan.next.json` while it is under way.
3. `KeptOK`: every hash the coordinator, the host or the note on disk holds is of a plan a core has
   run, unless a request was left behind (`Delivered`).
4. `StartOK`: after the user's stop, or after the end of a session was seen, no command that is under way
   or queued starts the proxy.
5. `NoteOK` (while `Told`): the coordinator, an answer and a snapshot agree with the note on disk,
   except between the answer to a start or reload and the step that takes it in.
6. `PlaceOK` (while `Undisturbed`): where coordinator and host stand at each place of a command: the host
   runs what it was sent (`Filed`), a snapshot that will be used is still true (`SeenOK`), and
   phase, session and hash are what that place allows (`Placed`). `Agrees` is its case for no command.
7. `Heard` and 8. `Compiled` (while also no core refused, `Calm`): whoever is connected listens for
   edits, and with nothing pending, what was compiled is what is saved.

`KeptWasAccepted` comes from 3, `NoUnwantedStart` from 4, `Agrees` from 5 and 6, `InLine` from all.
No bound of the runs is used: any number of commands, polls, restarts and failures may meet.

### 6.9 Only model-checked

All liveness (fairness and `ENABLED` are beyond the prover): `Converges`, `Settles`,
`DrainsUntilEmpty`, `Cleanup`, `ModesMeet`, `IntentIsCarriedOut`, `ShownMeansRuns`. Of safety, nothing
a passing run checks.

## 7. Where code and documents differ

Kept as runs that find a violation (`PROJECT.json`, `findings`):

- **`host_stuck`.** A stop whose answer is lost leaves the phase at `stopping` with nothing under way
  (`runtime_coordinator.dart:436`); `runtime_state.dart:116` says "Something is under way".
- **`recount`.** The totals of a session are read before the lock of the day's record is taken
  (`engine.go:134`). Two looks that overlap may hand them in the wrong order; the record then takes
  the smaller one for a new beginning and adds what lies between a second time. `traffic.go:11-15`
  speaks of the sum of the day.

Further disagreements that modelling showed and no run keeps:

- A pulled record rewrites the row of an unbound singleton edit before anything compares edit times
  (`sync_projection.dart:1049`, `:670`); `DATA_MODEL.md:115` has last-write-wins as the only rule.
- Ownership of the proxy is decided by value: a manual proxy pointed back at the original address
  while connected is taken for a half-finished write, and restoring switches the proxy off
  (`system_proxy.dart:114`); `RUNTIME_HOST.md:139` promises the opposite.
- An edit between the compilation of a start and the first listener is heard by nobody
  (`runtime_coordinator.dart:519`); the class comment at `:51` says that a session is kept in line
  with what the user changes.
- An edit undone while signed out looks unchanged when the account is resumed, keeps its old place
  in the queue or none, and may lose to a remote edit made between its two times
  (`sync_repository.dart:1346`; `DATA_MODEL.md:115`). If an older version of it is still in flight, the
  result of that version settles the record (`:1671`), whatever was retained since; the comment at
  `:1510` says that only its exact result may clear a mutation.
- An edit of a device still on protocol 1 that returns to the content of its mirror is queued, but it leaves no
  mark, and the adoption of a space another device rebuilt compares content with the mirror only
  (`sync_repository.dart:470`): the edit is not retained and the queued envelope goes with the old
  generation, so the full pull may show older content, although the edit was the account's newest. In a generation every edit is
  marked where it is made (`:1198`, `:1211`), so only the passage from protocol 1 is concerned. An edit
  made while the device's own attempt is being published, back to what the manifest has, is unmarked when the
  attempt completes (`:916`), whatever other devices have pushed since. Proving `EditsAreKept` showed both; the
  history variable `own` leaves them out by `Had`, in the model's terms content the service has had.
- `SYNC_PROTOCOL.md:79` lists 404 among the answers after which a control request may be put away; the
  client keeps it (`sync_engine.dart:728`) and sends it again with every run.
- A start whose receipt came too late puts its attempt away and leaves `rebuildRequired` in the database
  (`sync_engine.dart:777`). If the status read next already shows another device's publication, the
  run goes on with it, and `reconcileAccount` queues nothing (`sync_repository.dart:1329`): the run ends
  as a success without the device's edits; the next one queues them (`StartUnready`).
- The refresh path drops a session its own clock takes for expired, without a proof
  (`auth_service.dart:346`); of proofs, `_revoke` says a skewed clock must not discard one (`:250`).
- A `gsettings` command given up after five seconds is not killed and may write after its takeover
  was undone and the record dropped (`system_proxy.dart:296`); a `set` that reports success without
  effect can drop the record of a half-written group (`:127`–`:130`, `:285`). On Windows a write whose
  own reading of the settings fails answers `system_proxy_changed` (`desktop_channels.cpp:299`, `:318`);
  a restore takes that for a change by somebody else and drops the record with our values in force
  (`system_proxy.dart:127-129`). `RUNTIME_HOST.md:138` promises a recoverable record. `Recoverable` and
  `Cleanup` leave out the first two off Windows and the third everywhere.
- The Windows write reads, compares and sets in separate WinINet calls (`desktop_channels.cpp:299-327`), and
  GNOME's in separate commands: a proxy another program sets in between is overwritten
  (`RUNTIME_HOST.md:139`). `ForeignGroupIsKept` leaves out exactly these values.
- A reload ended by a `FileSystemException` of `_writePlan` or `_keepPlan`
  (`runtime_coordinator.dart:502-511`, `:628-635`; only `HostException` is caught) leaves the phase at
  `reloading`, which `_adopt` respects (`:436`): if the host stops after that, the session is shown as
  connected until the next command. `ShownMeansRuns` leaves this out.
- A follow-up shares a poll sent after its own command began (`runtime_coordinator.dart:358`); the
  comment at `:373` says that its own snapshot confirms the result.
- When a command's follow-up is the first to see that the host stopped, the intent stays on
  (`runtime_coordinator.dart:446`) and the next command starts the proxy again; `RUNTIME_HOST.md:84`
  says it is not reconnected.
- A reload that took effect but whose answer was lost leaves the old port attested
  (`runtime_coordinator.dart:664`; `runtime_state.dart:86`).
- On Android plan and hash note are written by two processes; a restart between the two pairs an
  old plan with a new hash (`AvalonVpnService.kt:145`, `HostFiles.kt:43`), and an edit that restores
  that hash is not sent.
- `RUNTIME_HOST.md:80` has a new intent cancel queued reloads; the queue has no such step.
- A request taken up late reads whatever `plan.next.json` holds by then (`engine.go:309`), under the
  hash it was sent with. When the user's edits return to that hash, a mere mode switch follows and
  keeps a plan no core has run. The proof of `KeptWasAccepted` failed on this case; the property now names
  it (`Delivered`).
- A command checks its session and then acts on whatever instance there is: a `setMode`, `select`,
  `closeConnection` or download that was overtaken by a reload acts on the next session
  (`engine.go:586`; the comment above it says that it is refused).
- `Snapshot` reads mode and rates after it has left the lock (`engine.go:530-546`): they may be the
  next instance's, and a rate may be computed from totals of two instances.
- When closing the daemon fails the session stays in the day's count and is counted again once it is
  closed for good.
- What a session carries after `countTraffic` has read its total (`engine.go:330`, `:437`) and before it
  is closed is in no sum, though the comment at `:329` says that what it carried is counted. A session
  whose close failed may be closed by a later probe (`urltest.go:83`), which counts nothing. And a look
  that samples the old session after a command noted its end (`:331`) and before `setOffset` turns the
  record to a new date (`:332-334`) leaves the old total under the new date: traffic of the next
  session up to that total is missed. `EndedTrafficIsCounted` leaves out the first as `slipped`, the second
  as no longer `owed`, and the third by `whole`.
- A latency test notes a tag it does not find without the lock the tests already under way write
  their results under (`urltest.go:123-124`); the Go runtime ends a process that catches two writers
  of a map, and `engine.go:143-144` says that the bridge never panics its host.
- Two helpers on a Unix socket that start at once both find nobody, and the later one removes the
  earlier one's socket (`serve.go:25-29`, which means to refuse the second).

## 8. What is not modelled

`PROJECT.json` states the reason for every component. In short: imports and
rule-set resources are concurrent and are planned (section 9). Backups and database
migrations are single transactions. The `av_core` pipeline is sequential and pure; the part worth
checking is its member resolution. Tunnels and views are platform calls and presentation. Within
modelled components:

- `SyncGeneration` leaves out the states in which the service refuses everything (retained, retired,
  verification pending, no space), the explicit merge of retained content by its user, the size limits
  of a manifest, and an attempt confirmed twice under different identifiers. Retention of archives is
  bookkeeping that nothing reads back. No start has a space of origin `initial`; at generation 0 the
  code takes such a space over or refuses it (`sync_repository.dart:407-414`), where `Adopt` would retire.
- `SyncOutbox` begins with a bound generation whose backup is ready; expiry of idempotency records,
  back-off and trigger coalescing are left out. Record types are told apart only where identities
  meet (singletons).
- `CloudSession` leaves out profile fields, account deletion beyond its effect on the session, and
  the installation id.
- `RuntimeHost` leaves out TUN and per-app preferences, selector members (they behave as the mode does),
  snapshot revisions, `configure`. The eviction of remembered results is `CoreEngine`'s: here
  `queryCommand` answers unknown only through `AnswerLost`.
- `CoreEngine` leaves out rates, the filter of log levels, local dates that come back (a clock set
  back), the error text of the core, and what the external core and tailscale libraries do within a
  command.
- `WindowsHost` leaves out installing and updating the service, the checks of peers and images, the
  rewriting of a plan (one flag: whether it needs the tunnel), the copy of rule sets, and the Unix
  socket loop, which serves one connection after the other without private state to move.
- `SystemProxy` has one group of two keys; macOS sets no system proxy from the application.

## 9. Plan

Done, in this order: `SyncOutbox` and its proofs, `CloudSession`, `RevocationRetry`, `SystemProxy`,
`RuntimeHost`, `PublicNetwork`, `CoreEngine`, `WindowsHost` with `OneTunnel`, the proofs of the
last three, of `RevocationRetry` and of `CloudSession`, `SyncGeneration`, and the proofs of
`SystemProxy`, `RuntimeHost` and `SyncGeneration`.

Next, modelling:

1. In `SyncGeneration`, the explicit merge of retained content, deciding each record once.
2. `OutboxContract`: the abstract store a user sees (the newest accepted edit of each record, seen
   by each device in order), with `SyncOutbox` shown to implement it by a refinement mapping.
3. `SourceRefresh`: downloads racing with edits and deletions of their source
   (`import_service.dart` 143–200, `subscription_updates.dart`), with the rule-set cache and its
   pruning against the running plan (`resource_service.dart` 64–285). Property: no result is stored
   under a source it was not downloaded from; no file of a running plan is pruned.
4. Snapshot revisions across a restart of the host process, and `av_core`'s member resolution as
   operators against a reference definition.

Then, proofs: the refinement of `OutboxContract`, and a property of the explicit merge with the
invariant of `SyncGenerationProofs`, of which `EditInv` is the part that would change.

## 10. Running it

    tlc -workers 2 -config MCSyncOutbox_legacy.cfg MCSyncOutbox.tla
    tlc -workers 2 -config MCCoreEngine_all.cfg MCCoreEngine.tla
    for m in SyncOutboxProofs SyncGenerationProofs CloudSessionProofs RevocationProofs \
             SystemProxyProofs RuntimeHostProofs CoreEngineProofs WindowsHostProofs; do tlapm $m.tla; done

Each `.cfg` names its bounds; the pairs of module and configuration are the `runs` of
`PROJECT.json`. The longest run takes three to four minutes on two cores, the proofs of a module a few
minutes, those of `CoreEngine` about five, of `RuntimeHost` about eight and those of `SyncGeneration` about seventeen.

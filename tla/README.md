# Cyber Sentinel AI backend: specifications

TLA+ models of the state-changing core of the FastAPI backend under `src/app`: sign-in and
sessions, roles and permissions, packet capture, intrusion detection, the store of sniffed
credentials, the database file with its backups and reports, and the AI scans. TLC checks small
instances; TLAPS proves the central properties for all values of the constants. Citations
are `file:line` below `src/app` unless they start with `tests/`.

## 1. The system

One process: uvicorn with FastAPI. Handlers are plain functions, so Starlette runs them in a
thread pool, each with a SQLAlchemy session of its own (`database.py:29`). A handler takes no
lock; its transactions are a few SELECTs and commits. Packet capture runs in daemon threads
of the same process and shares Python objects with the handlers.

| Component | State | Operations | What is hard |
|---|---|---|---|
| Authentication (`routers/auth.py`) | users, devices, sessions, audit rows; tokens at clients | register, verify-email, login, refresh, logout, forgot/reset-password | requests interleave between reading a row and committing; a request may die between two commits; locks and tokens expire |
| Roles and permissions (`core/deps.py`, `routers/admin.py`, `seed.py`, `models/role.py`) | roles, permissions and their pairs, role and is_active of users | start-up seeds, permission check, update_user, create_role, update_role | a start cut off between two commits; overlapping updates that write differences to stale rows |
| Intrusion detection (`services/ids_engine.py`) | sliding windows per detector and key, ARP and DNS tables | process_event | windows pruned at the head, cleared on alerts; an alert that fails to be stored ends the call halfway |
| Packet capture (`services/packet_capture.py`, `routers/network_monitor.py`) | is_running, interface, stop event, two counters, packet rows | start, stop, clear, the sniff loop | unlocked check-then-set; a stop event seen only after a packet; lost counter updates |
| Credential and service store (`routers/credentials.py`) | two lists of at most 500 entries | record, list | unlocked test and pop by several threads; lists that move below a reader |
| Alerts, notifications, settings (routers of those names) | rows of one table each | resolve, mark read, create, update | check-then-insert; a row that is gone when it is written |
| Backups and reports (`routers/backups.py`, `routers/reports.py`) | the database file, its copies, CSV files next to rows | create, restore, generate | files named by the second; copies that heed no lock; a restore under open connections |
| AI scans (`routers/ai_security.py`, `ml/*_predictor.py`) | two lazily loaded models, temporary and quarantined files, prediction rows | phishing check, malware scan | every step between upload and answer may raise |
| Worker, schemas, configuration | none | | |

Interactions: every handler goes through the permission check and ends in `log_action`, which
commits whatever the session still holds. Sessions issued by the authentication router are
checked against `is_active`, which the admin router writes. The sniff loop turns packets into
events (`packet_to_event`), stores them, feeds the engine, and adds the alerts the engine
returns to a counter; the engine stores its alerts through the loop's database session. Two
sniffing threads share one engine. A restore replaces the file under everyone's connections.

What makes each part correct:

* Authentication: a refresh token is replaced, never multiplied by one request; a successor
  exists only for a revoked session; a disabled account gains nothing; failures lock the
  account for a while as long as they do not overlap; a used reset token is dead for every
  request that comes after; a logged-out session is refused; every login is audited.
* Roles: the server is never up without its built-in roles; overlapping updates invent and
  lose no permission; starting again leaves accounts alone.
* Detection: a window is exactly what was seen within its seconds since its last alert; an
  alarm is raised at the threshold and not lost when the database fails.
* Capture: status tells the truth, stopping stops, counters count.
* Credential store: the lists stay at their limit, hold the latest entries, and a page is newest
  first.
* Rows and files: a listed report has its whole file unless another took its name; only a restore takes a committed change back.
* AI scans: an upload leaves no temporary file; the answer is true about the quarantine.

## 2. Modules

| Module | Models | Used by |
|---|---|---|
| `SessionLedger` | abstract: what the session table promises | `Auth` (`Ledger == INSTANCE`) |
| `Auth` | the authentication router, `update_user`'s account switch, audit rows | `MCAuth`, proofs |
| `AuthHistory` | `Auth` with history: wrong passwords, redeemed tokens, whether requests about one account have overlapped | `MCAuthHistory`, proofs |
| `Rbac` | seeds, permission check, user and role administration | `MCRbac`, proofs |
| `PacketEvent` | `packet_to_event` as an operator | `IDSEngine`, `Credentials` |
| `IDSEngine` | `process_event` and its sixteen detectors | `IDSHistory` |
| `IDSHistory` | `IDSEngine` beside a log of all events | `MCIDS`, proofs |
| `SharedWindow` | one detector's block and its window, call by call, under several threads | `MCSharedWindow`, proofs |
| `CaptureSession` | the capture singleton, its callers and its threads | `MCCapture`, proofs |
| `Credentials` | the two bounded lists, the threads that fill and trim them, the requests that read them | `MCCredentials`, proofs |
| `Storage` | the SQLite file, connections that cache it, backups, reports, requests that change rows | `MCStorage`, proofs |
| `Scan` | malware scans and phishing checks, their files, models, rows and answers | `MCScan`, proofs |
| `*_proofs` | theorems about the module of that name; `Auth_proofs` about `Auth` and `AuthHistory`, `IDSHistory_proofs` about `IDSEngine` and `IDSHistory`, `Capture_proofs` about `CaptureSession` | |

### Auth

A step is what no other thread can split: a SELECT with the checks on it, or a commit. `req[w]`
is what the handler that thread `w` runs remembers in between. Names follow the handler:
`LoginRight`, `LoginDevice`, `LoginNewDevice`, `LoginSuccess`, `LoginIssue`, `LoginAudit`,
`Reply` are login (`auth.py:112-181`) from its first SELECT to its answer; `LoginWrong`,
`WrongPassword`, `FailureAudit` its failing branch; `RefreshRead`, `RefreshUser`,
`RefreshRotate`, `RefreshIssue` the rotation (`auth.py:185-220`), whose revocation and
successor are separate commits. `Abort` (endpoint `crash`) is a handler that ends at any point,
be it an exception or the process. A refused request changes nothing and has no action. Audit
rows keep what a property tells apart: action and user, and for a login or logout also the session,
which the row does not name but which makes each login's row its own. The row of `update_user` is
the administrator's and carries neither.

Abstractions. A JWT, a fingerprint and a reset token are model values. An instant is the time
left until it, so `lock = -1` is NULL, `0` has run out, and `Tick` counts down. Reset tokens
past their expiry and NULL are the same (`Null`). A commit writes the columns whose value
differs from the one loaded, as SQLAlchemy does: `lockSet` and `failed` of a request keep
what it has loaded. `AdminWrite` merges the read and the commit of `update_user`:
`is_active` is named in the UPDATE only if it differs from the value read, so the pair acts
like one write at the commit or none. Bcrypt, rate limits and response bodies are left out.

### Rbac

`SeedRoles` and `SeedAdmin` are the two commits of a start (`seed.py:97-99`); `phase` is
"roles" between them; `Stop` ends the process anywhere. A request reads the caller
(`Authenticate`), the permissions of the caller's role (`Permit`), the target (`LoadUser`,
`LoadRole`, `CheckName`), the role to assign (`FindRole`), commits and audits. `self`, `seen` and `old` are what its database
session has in its identity map: an administrator's own row and role are not read again after
the check. `CommitRole` deletes and inserts the pairs that differ from those loaded; it fails
when one to delete is gone or one to insert is there (the StaleDataError and IntegrityError of
SQLAlchemy). `asked` and `wanted` are ghosts that a start sets to the permissions it leaves,
whichever these are: what a start does to permissions is `StartOnlyInserts`' subject alone. Descriptions and full names are left out: an
update of them alone changes no modelled state but the audit row.

### IDSEngine, IDSHistory, PacketEvent

`ProcessEvent(e, broken)` is one call. It visits the detectors in `Order`; `broken` is the
detector whose alert could not be stored, after which the rest of the call does not happen
(`Reached`, `Done`). A window entry carries its age. Packets have a length (`EventAssumption`,
`packet_capture.py:45`), which the rate detector sums up. `IDSHistory` logs the calls; its
properties compare windows with the log: `Recent` are the events a window should still hold. The model has the engine called by one thread at a
time, which is what its code assumes.

### SharedWindow

What that assumption costs: `CaptureSession` shows two threads alive after a quick stop and
start, and both hold the same engine. The SYN-flood block (`ids_engine.py:150-157`) stands for
the blocks with a window, which all add, prune, walk and clear; one destination, one deque. A
step is what the GIL of CPython 3.11 does not split, switching at calls and backward jumps: an
append, a test of prune's loop, a popleft, the making of an iterator, the end of a walk, a
commit, a clear. A walk of `values()` raises RuntimeError when the deque has changed since its
iterator was made (`changed`); a change before that is walked like any entry. So the second
walk, for the alert's text, describes what the deque holds by then, which may be less than was
counted, or nothing. `slowest` (ghost) is the longest time between the stamp of a packet and its
append.

### CaptureSession

Callers run `start()`, `stop()` and clear with the audit row their route writes after them;
sniffers run scapy's loop and `_handle_packet`. A step is one access to a field of the singleton
or one commit; `Return` is the route's line after the call. Under the GIL of CPython 3.11 a
thread is switched at calls and backward jumps, so `packets_captured += 1` is one step (`Count`)
and `alerts_raised += len(alerts)` two (`LoadRaised`, `AddRaised`). How many alerts an event
raises is arbitrary here: that is IDSEngine's subject. An exception before the try of
`_handle_packet` ends the loop as one of `sniff` does: `is_running` stays set and the thread's
place is `"failed"`, which `StatusIsTrue` tolerates. `Thread.start()` may raise
(`StartThreadFails`) once the event is cleared: `is_running` is not set, no new thread runs, and
one that had been told to stop may stay. `StatusIsTrue` says nothing then, until the next call.
The credential sniffer's two branches are in `Credentials`: they touch only its lists.
`cleared`, `late`, `alone` and `calm` are ghosts: `calm` says that the last start or stop to end
had no other beside it and, if a start, found its thread.

### Credentials

`Record`, `Test` and `Pop` are the append and the loop `while len(...) > 500: pop(0)` of a
sniffing thread, one step for each call; `Slice` and `Scan`/`ScanEnd` are what a request does
with a list, at once or entry by entry through an iterator that holds an index; `Answer` ends
it. An entry is its number and its service, and `recorded` counts them (ghost). `ServiceOf` and
`CredentialField` stand for the keyword tables. `Page(q, n)` is `q[-n:][::-1]` for every integer
`n`, since the routes bound `limit` from above only. `total` is left out. Whether a packet is
recorded does not depend on the state of the rest of `_handle_packet`, and a failure there after
the append leaves the entry in place, so the module stands beside `CaptureSession` without it.

### Storage

The default database is one SQLite file, and each request has a pooled connection. A connection
keeps pages between requests as long as the change counter in the file's header is the one it
knows (`Knows`); a commit writes its pages, changed, and raises the counter. That is SQLite's
doing and external; rows of all tables stand on one page. `Authenticate` opens a request of any
route by reading tables that are not modelled. `ReportOpen`, `ReportWrite` and `Insert` are
`generate_report` with `_generate_csv`; `BackupOpen`/`BackupFill` and
`RestoreOpen`/`RestoreFill` are `shutil.copy2`, which first empties its target and takes no
lock; a copy that overlaps a commit may be `Broken`. `CheckKey` and `CreateSetting` are
`create_setting`; `Load` and `Save` are `update_setting`, `resolve_alert` and `mark_read`, which
all load a row, change it and commit; the last writes no audit row, so `Save` either audits or
ends. `MarkAll` is `mark_all_read`. A report that is opened while another handle writes the same
file leaves it `"mixed"`: whose bytes end up where is left open. `again` (ghost) holds the names
that more than one report took. `Fail` ends a request anywhere with an exception, `Crash` the
process, `Start` is `init_db`. A name made from the second stands for all seconds in which it
can be made: any two requests may come to the same one. A row is its number, its report file,
whether it is the setting with the contested key, and whether something was done to it.

### Scan

The steps are the handler's, in its order: the temporary file, the model (`LoadModel`), the
prediction, `quarantine_file` as a rename or as a copy and an unlink (`Move`, `Unlink`), `Chmod`,
the finally clause (`Finally`), the stored prediction (`Insert`) and `log_action` with the answer
(`Audit`). A `check_phishing_url` takes the same way without a file. What a model answers is
arbitrary. Predictions are kept per scan, in a set, since nothing updates them.

## 3. Runs

Deadlock is checked except in `rbac`, `rbac_restart`, `shared_window`, `storage`,
`storage_restore` and `scan`, where a bound on starts, events, commits or scans ends the behaviour.

| Run | Asks | Instance |
|---|---|---|
| `auth_sessions` | rotation, devices, audit order, logout, draining of a disabled account, refinement of `SessionLedger` under every interleaving | 1 user, 2 threads, 3 sessions, 1 device; login, refresh, logout, admin, crash |
| `auth_accounts` | row types; lock and failures agree until requests overlap; a redeemed reset token; locks run out, with overlapping logins, failures and resets | 1 user, 2 threads, 2 reset tokens, 1 session, 2 failures to a lock of 2 ticks; handlers run to their end |
| `auth_rotation_race` | finding: two refreshes fork a session | 2 threads |
| `rbac` | seeds, grants and accounts around two starts and overlapping administration | 2 accounts, 3 roles, 2 codes, 2 threads, 2 starts, 3 requests |
| `rbac_restart` | finding: a start takes back permissions that update_role gave | as `rbac` |
| `ids_windows` | windows against the log, thresholds, failing alerts, all detectors | 12 packets, logs of 3 events, windows of 1 tick, thresholds 2 and 3 |
| `capture` | two callers race start, stop and clear, two threads sniff, commits and `sniff` fail: status, counters, draining | 2 callers, 2 sniffers, 1 interface, 1 packet bound, 1 alert |
| `shared_window` | the block's loops, walks and clears interleave: no alarm missed or doubled, counts almost recent | 3 threads, 3 events, threshold 2, window 1, 4 clock values |
| `storage` | rows, backups and reports under overlapping, failing and crashing requests | 2 connections, 1 file name, 2 commits, 1 restart |
| `storage_restore` | finding: a connection that outlives a restore reads what the restore took back | as `storage`, without restart |
| `scan` | temporary files and answers when each step may raise | 2 threads, 3 scans, 1 crash |
| `credentials` | bounds, order and pages of the two lists under threads that trim and a request that reads | limit 2, 2 sniffers, 1 reader, 5 entries per list, 2 services, page limits -1, 0, 2 |

Bounds, and why they are enough.

* Sessions: three rows give a login, its successor and a rival successor or a chain of two.
  Threads: the properties compare two requests; a third only repeats one of the roles (and the
  proofs have any number).
* Ticks: lifetimes are 0 or 1 tick and ages stop one past the longest, so a session or token is
  live, at its last instant and past it. A lock of 2 ticks can be extended after one has passed,
  by a request that is past the lock check; with 1 it could not. `MaxFailed = 2` separates the
  first failure from the one that locks.
* Events: threshold 2 with windows of one tick makes alert, clear, refill and expiry happen
  within three events. `AgeCap = 2` is one past the window.
* `rbac`: two starts let one be cut off and the next one finish; three requests let one
  grant a permission that another one uses against the third.
* Capture: the bound on packets is asked when a packet comes in, so both threads can be past it
  and store one each: they race on both counters. One interface is enough for TLC's part of
  `StatusIsTrue`; the theorem has any number.
* Shared window: three threads let a walk, an append and a clear of three threads meet; a window of
  one second and a clock of four let entries go stale while their thread waits.
* Storage: with one name every two reports or backups are of the same second, the case that
  matters. Two commits and two connections are a change, a backup between them and the change that
  a stale connection writes back.
* Scan: three scans let a thread's second one follow a failure while the other goes on.
* Credentials: five entries let two threads overfill a list of two, and trim it to one.

`LockMatchesCounter` and `LockAfterMaxFailed` speak of behaviours up to the first overlap of two
requests about one account (`overlapped`): between a check and its commit another request may
commit, and from then on both can fail; the races are listed as hazards. `LoggedOutIsFinal` and
`RedeemedIsDead` need no such condition, but leave out what overlapping can do: a refresh that is
past its check when a logout commits still gets a successor, and two resets past the check
(`auth.py:253`) both redeem one token.

Symmetry is used where threads, sessions or tokens are interchangeable and no liveness property
is checked. The passing runs of `AuthHistory` have a VIEW that drops what neither an action's
guard nor a property of the run reads: audit rows other than those of logins, devices and
logouts in `auth_sessions`; all audit rows, mails without a token and what a session row says
(it is issued and never used) in `auth_accounts`. `HNext` repeats the disjuncts of `Next`, so
that TLC counts each handler's step by itself: each is taken in one of the two runs.

### Fairness

* `Auth`: `WF(Tick)`, time passes; `WF(Continue(w))` per thread, a handler once accepted is run
  on by its thread, or dies. No fairness for clients. `LockRunsOut` needs no more: a failure
  extends a lock only if its request had passed the lock check before, and only finitely
  many have; a login that did not ask (its mutant) extends it for ever.
* `CaptureSession`: `WF` of each route and of each loop but for `Arrive`: nobody owes the interface
  a packet, and scapy looks at the stop event only after one. `StopDrains` therefore has a
  hypothesis, `PacketsKeepComing(s)`; on a silent interface the thread indeed stays.
* No other module has fairness: nothing is promised there to happen.

## 4. Findings

1. `auth_rotation_race` (`auth.py:196`): `is_revoked` is checked in one statement and set by a
   later, unconditional UPDATE; two overlapping refreshes of a token both get a successor.
   `OneSuccessorPerThread` is what remains true.
2. `storage_restore` (`routers/backups.py:94`): under "Close all connections and restore" the file
   is overwritten with all connections open. A connection that read the file before, at a change
   counter the restored file comes to again by later commits, takes its old pages for current ones,
   and a commit of it writes rows back that the restore took away.
3. `rbac_restart` (`seed.py:66`): a start assigns the permissions of the built-in roles again and so
   takes back what `update_role` has given them, while `seed.py:5` says that it only inserts what is
   missing.

Seen while modelling, without a run of their own:

* Overlapping wrong passwords are lost from the counter (`auth.py:129`), so the maximum can be
  passed without a lock: `LockAfterMaxFailed` fails with two threads.
* Without SMTP `register` verifies the account at once (`auth.py:81`), while
  `tests/test_auth.py:21` and `:45` expect it unverified and its login refused.
* Two overlapping resets with one token both set the password, and a reset clears the newer token of
  a request that came between (`auth.py:253-262`).
* Two reports of one second write one file through two handles (`reports.py:50-54`): both rows may
  name a mixture of them.
* `register` stores a verification token only when SMTP is *not* configured (`auth.py:82`): with
  SMTP the mail of `services/email.py:44` has no code to show, and the account cannot be verified.
* A start soon after a stop leaves the old thread sniffing beside the new one
  (`packet_capture.py:177`); `packet_capture.py:92` speaks of a single thread. `StatusIsTrue`,
  `SharedWindow` and the counters' properties say what remains true then.
* An upload's double extension is never seen by the malware features: the temporary file keeps the
  last suffix only (`ai_security.py:76`), unlike the file of
  `tests/test_malware_predictor.py:34-38`.

## 5. Proofs

All theorems hold for any constants that satisfy the named assumptions of the modules.

* `Auth_proofs`, for every interleaving of any number of threads. `TypeCorrect`: `TypeOK` alone is
  not inductive, since a commit uses what the request carries. `Carried` adds what is non-NULL at
  each stage; one lemma per action. `ParentRevokedCorrect` and `OneSuccessorPerThreadCorrect` from
  `RotationInv`: a thread between its two commits (`Rotating`) holds a session that is revoked
  and has no successor of its own making. `SessionHasDeviceCorrect` from `DeviceInv`: at each
  stage of a login the device row is there, or pending with the audit row that goes with it.
  `LoginAuditedFirstCorrect` from `AuditedInv`, login by login. `DeactivationDrainsCorrect` follows from the
  type invariant, action by action. `LedgerCorrect` is the refinement: initial states map to
  initial states, each action to one of the ledger's or to a stutter, with `RotationInv` for the
  guard of `Succeed`. `LoggedOutIsFinalCorrect` from `LogoutInv`: a session whose logout is
  audited, or about to be, is revoked, and a refresh begins with a live one. `RedeemedIsDeadCorrect`
  from `TokenInv`: a token is in one row at most, and one that a reset carries has been mailed
  and is in no row but, until the password is written, its user's. `Dead` (mailed, and in no
  row) is kept, because `ForgotWrite` stores fresh tokens only; so a thread that has redeemed a token
  never passes the check with it again (`RedeemedInv`).
* `Auth_proofs`, on requests that do not overlap. `LockMatchesCounterCorrect` and
  `LockAfterMaxFailedCorrect` hold of every behaviour of `AuthHistory`, up to the first overlap of
  two requests about one account; requests about other accounts, any number of them, do no harm.
  The invariant is `Recalls`: what a handler has read from the row is what the row still holds.
  `StrikeInv` then bounds the strikes by the counter. `OneSuccessorCorrect`, the property that
  finding 1 violates, has a hypothesis on the behaviour instead: no two requests in flight show the
  same refresh token (`TokensApart`; `Unredeemed`). `HistoryImplementsAuth`: `AuthHistory` only
  observes.
* `IDSHistory_proofs`: `TypeCorrect`; `CountsRecentCorrect` from `WindowsOrdered`: deques are
  ordered by age, so the first young entry is followed by young ones only. Lemmas about `Prune`,
  `Append` and `Older` carry it through. `WindowIsRecentCorrect` from `WindowInv`: an
  order-preserving matching of the entries of a window with positions of the log (`Matched`) says that
  a window holds the events it should and no others, in their order. `AlarmKeptCorrect`: a
  window is at its threshold only if the last call to reach it failed to store its alert. A call
  that adds to a window tests it, and time alone brings none to its threshold (`OlderTrips`):
  the three measures of a window, its length, its distinct values and its sum of bytes, do not
  grow when a prefix is pruned (`MeasureSuffix`). The sum is a recursive function; that it
  exists and shrinks is shown by a least counterexample. `HistoryImplementsEngine`: the log only
  observes.
* `Credentials_proofs`: `LatestCorrect` is inductive given the types: append and pop are the
  only steps of a list. `BoundedCorrect` counts the threads at a list. `KeepsLimitCorrect` needs
  `Kept`, which counts the threads that are about to pop as if they had. `NewestFirstCorrect`
  needs `Scanned`: what a scan has found is older than the entry it comes to next, because a
  list only ever moves towards the head. `PageType` and `PageOrder` are about `Page` for any list
  and any integer.
* `Rbac_proofs`: `Inv` joins the types with what a request in flight relies on (`ReqOK`), with
  `Quiet` (only a server that is up serves) and with `Started` (what the first seed leaves for
  the second). `UpIsSeededCorrect` is a part of it; `GrantsFollowRequestsCorrect` is inductive
  given the types, whatever a start makes of the built-in roles; `StartKeepsAccountsCorrect` uses `Quiet`.
* `Capture_proofs`: `Typed` adds to the types what a thread between two steps carries.
  `OneMorePacketCorrect`: a thread that has taken up a packet after the stop event stands before
  `Filter`, unless a start has cleared the event. `PacketsCountedCorrect` counts the threads at
  `Count`. `AlertsNotOvercountedCorrect`: the hard case is two threads that both loaded the counter,
  where what one adds must not be in what the other read; `Ledger` names, thread by
  thread, the stored alerts not yet added, and bounds the counter and every value read by the rest.
  `StatusIsTrueCorrect` from `Undisturbed`: what a call that is alone knows at each of its steps.
* `SharedWindow_proofs`: `NoAlarmMissedCorrect` from `AlarmDue`: while the window is at its
  threshold, some thread has yet to walk it, or walks it undisturbed, or is about to alert.
  `OneAlertPerThreadCorrect`: an event is in the deque once, and what a thread has counted is gone
  from it when the thread adds the next. `CountsAlmostRecentCorrect`: an entry may stand before an
  older one, but by no more than `slowest` (`Past`).
* `Storage_proofs`: `StepContents` reduces every step to one of five effects on file, caches and
  backups: it reads, commits, forgets, copies or restores. `OnlyRestoreTakesBackCorrect` from
  `Current`: until a restore, no cache is ahead of the file, and one with its counter has its rows.
  `ReportHasFileCorrect` from `Written` (a file in part has one writer, every other writer's name is
  taken again, and a request about to insert has its file whole or its name taken again) and
  `AllFiled` (so have the rows of the file, of caches and of backups); it holds across restores
  because only a report of the same name can harm a file and none is ever removed. `ReadsAreCurrentCorrect` is about
  finding 2: if no connection had pages of the file while a restore replaces it (`Closed`, what the
  comment promises), every read would be current (`Coherent`), across any restores and crashes. A
  restore in a process whose connections have not read yet satisfies it.
* `Scan_proofs`: `TempCleanedCorrect` and `AnswerIsTrueCorrect` from `ScanInv`: `Typed`, `Owned`
  (a scan has one thread and one answer) and `Placed` (what a request knows, at each stage, of
  where its file is and of its row).

Only model-checked: `LockRunsOut` and `StopDrains`, which are liveness properties and need fairness;
the prover reasons about neither `ENABLED` nor fairness. Every other property of the passing runs
is stated by a theorem.

## 6. Mutants

A definition named after another one with a suffix, commented "Mutant:", is a plausible mistake
in the code that the definition stands for; `PROJECT.json` says which property notices it.

## 7. Not modelled

Possible next: `Storage` composed with `Auth`, where a restore brings back sessions that were revoked
after the backup; that `SharedWindow` with one thread implements one window of `IDSEngine`.

Left out for good: feature extraction, password scoring and training (pure functions and
floating-point numbers), alert texts, CSV layout, listings and downloads that only read, name
lookups and vendor tables of the network monitor, the Celery worker (one health task that nothing
calls), the static single-page application, the growth of the detectors' dictionaries by a key per
address (`ids_engine.py:72`), and PostgreSQL, for which backups answer 501.

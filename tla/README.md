# A TLA+ verification of AfterClaw

AfterClaw (`src/app.py` and the packages `fcc`, `ddns`, `naming`, `shareclip`)
is one Python process on a home server. A `ThreadingHTTPServer` gives every
connection a thread; the threads share class attributes of `AppHandler` under a
handful of locks, a few JSON files on disk, the descriptors of the web
terminal's ptys, and services outside the process (docker, systemd, torrent
clients, DNS providers). What can go wrong is what the threads do to each other,
what a failing call leaves behind, and what a restart finds. A second program,
`scripts/managed_ddns_service.py`, has the same shape with a SQLite database.

This directory models those parts in TLA+, checks them with TLC on small
instances, and proves the main safety properties with TLAPS for every value of
the constants.

## Inventory

| Component | State it keeps | Operations | What is hard | Modelled in |
|---|---|---|---|---|
| Downloads, `GET /http-files/` (app.py 9189-9242, 12592-12770, 12913-12939) | `active_http_download_slots` and its per-address map, `active_transfers`, `http_cut_epoch`, `downloads_enabled` | gate, access check, acquire, stream, release; cut and enable from the settings; the status page's snapshot | many exits from one handler, three locks taken one after another, a switch thrown while requests are under way | `HttpDownloads`, `DownloadSlots` |
| Range requests (app.py 12592-12659) | none | parse `Range`, choose the interval | boundaries, empty files, suffix ranges | `HttpRange` |
| Web terminal (app.py 11424-11752, fcc/modules/terminal) | `terminal_sessions`, ptys, ssh processes, history | start, read, write, resize, list, close, clean-up by age | a descriptor is used by number after the lock is released; half-finished starts; dead and idle sessions | `TerminalSessions` |
| Access policy (fcc/http_access.py) | part of the config | normalise, expire, decide | windows that nobody closes | `HttpAccess` |
| Config file (app.py 1639-1973) | one JSON file | load, edit, save by every settings request, key upload, pool sync | no lock, truncate before write, copies kept over a network fetch, restarts | `AppConfig` |
| Self-upgrade and restart (app.py 538-626, 1160-1250, 11755-12163) | `upgrade_status.json`, `upgrade_running`, `restart_queued` | start, stages, hook, status request with repair, restart | the status outlives the process, the flag does not | `Upgrade` |
| Docker upgrade with rollback (fcc/modules/docker) | containers of the docker daemon | snapshot, pull, stop, rename, create, roll back | every docker call may fail; two upgrades at once; a restart half-way | `DockerUpgrade` |
| Built-in DDNS (ddns/, fcc/modules/ddns) | settings file, last addresses and error, the provider's records | worker cycle, update by request, settings, service action | two updates between each other's calls, calls that fail with their effect, addresses that change meanwhile | `DdnsProviders`, `Ddns` |
| Member accounts (app.py 8034-8293, fcc/modules/member) | session secret, accounts file | log in, update profile, reserve a name | first requests race on the secret; load, check and save without a lock | `Members` |
| Managed DDNS (scripts/managed_ddns_service.py) | SQLite: tokens, processed messages | webhook, update, issue, revoke, expire-scan | one connection and its transaction for all threads; deliveries are repeated; crashes | `ManagedDdns` |
| ShareClip (shareclip/app.py) | state file, a file per image or attachment, settings | send, delete, read, configure | file and list change one after the other; embedded and standalone use different locks | `ShareClip` |
| Naming and subtitles (naming/, fcc/subtitle_*.py) | the tree of files | plan, show, apply, align, upload | a plan is applied later than it is made; check, then rename | `FileTools` |
| Torrent client control (app.py 9359-10502, 11034-11139, fcc/modules/qbt, services) | the client, its settings file, cached figures | start, stop, restart, quit, fix, optimize, status | the client writes its file when it ends; steps fail between stop and start | `TorrentControl` |
| Samplers (app.py 12365-12536, fcc/modules/monitor) | cached snapshots | refresh when stale | caches read by many threads | no: see below |
| Backup (fcc/modules/backup) | hashes, snapshots on disk | incremental copy | interrupted runs | no: not in use by app.py |
| Web UI, installers, vendored JavaScript | - | - | presentation | no |

The components interact in four ways: settings requests rewrite the config file
that every other component loads; switching the HTTP module off closes the gate
and raises the cut epoch that streams compare; the installer and the restart
request end the process and all its threads (each model whose state outlives the
process has that step); everything else is requests on shared class attributes and
shared files. A caller's effect on another component is therefore an action of that
component's module: the administrators' requests in `HttpDownloads`, the access
policy in `AppConfig`, the status poll in `Upgrade` and `TorrentControl`.

## Modules

**`HttpDownloads`** - one connection thread per element of `Threads`, each with a
control point (`pc`) between two places where another thread can be seen: the
gate, the two config loads, the slot lock, the headers, the epoch lock, the
registry lock, `open`, the head of the loop, one chunk, the inner and the outer
`finally`. `closing` is `close_connection`, `seenEpoch` the local `cut_epoch`.
Administrators save the settings (load, truncate, write, then switch off and
cut), and enable or close the gate. `Snapshot` prunes old finished entries. A
config load during a write may see the truncated file and get the default
(`ModuleReads`). Sizes are chunks, contents and speeds are left out, and an
access check may give any answer (`HttpAccess` says which).

**`DownloadSlots`** - what the slots promise, without counters: a set of leases
within two limits, each of them given back. `HttpDownloads!Pool` maps a thread
between acquire and release to a lease.

**`TerminalSessions`** - the table, the kernel's descriptors (`fdOf` says whose
pty a number refers to), the processes, and the requests: a start is three steps
(check under the lock, spawn without it, insert under it), an I/O request two (look up
under the lock, use the number without it). Every request but close runs the
clean-up first. Ages are booleans that time may set at any moment.

**`HttpAccess`** - the policy as pure operators, with 0 for Python's `None`.

**`AppConfig`** - the file is its last contents and whether they are whole,
truncated or garbled by two writers. A request loads (`Begin`), may wait for the
network (`SyncFetched`), truncates and writes. Three sections stand for all:
`access`, `pools`, `key`. `Kill` restarts the process wherever its requests are.

**`Upgrade`** - the task, stage by stage, the status file, the flag, status
requests in three steps (read the file, read the flag, write the repair), restart
threads, and restarts of the process at any point. The writes of a start, of a failing task
and of the repair may raise (`StartFails`, `Fails`, `RepairFails`); `supported` says whether this
installation can upgrade itself, otherwise a request only writes an error (`Refuse`).

**`HttpRange`** - one kept-alive connection: a request with any `Range` header, the
interval the code computes for it (`Start`, `End`, `Refused`) beside what the header
means (`Wanted`), the chunks, and the client, which counts the announced bytes. The
content of a file is the positions of its bytes; another program may append to it or
truncate it at any moment.

**`DockerUpgrade`** - the names, the containers they refer to, and one docker call per
step of `upgrade_container_with_rollback`. A call is a relation on the daemon's state
and on what it answered (`Sets`, `Renames`, `Removes`, `Creates`): with `Flaky` it may
fail after it had its effect. Other requests start, stop and install containers, and any
number of upgrades run at the same time; removals by the user are left out, since no upgrade can
answer for them. `overlapped` only watches: it is set when an upgrade begins beside another, and
reset by the next one that begins alone and finds a complete container.

**`DdnsProviders`** - what each provider module does, without any state: which
updates it refuses, which calls it makes in which order (`run_update`), what one call
does to the records of a name (`update_one`), and what the check of the settings
accepts (`validate_config`). Domain lists are short sequences of names; whether
credentials are there is a boolean. The older fields that some providers fall
back to are `own`, `nested4` and `nested6`. A name in `Unsplit` is one that `split_fqdn` cannot
split, such as `nas`: an update comes as far as the first of them and raises (`ComesTo`).

**`Ddns`** - the worker thread and requests (`Updaters`), one network call per action:
detect IPv4, detect IPv6, then for each name a `Read` of the records and a `Write` that
may fail before or after its effect. A refused reading ends the update, or counts as no record where
the provider's module does not look (`checks`); `misread` remembers for which names it did. The
settings request truncates and writes the file
in two steps. `Move` changes the line's addresses, `Kill` restarts the process.

**`Members`** - the secret is read without the lock, and again under it before a new key
is made (`ReadSecret`, `LockSecret`, `Mint`); a token remembers the key it was signed
with. A request for a name loads and checks (`LoadAccounts`), truncates and writes. A
file that two writers garbled loads as no accounts. Passwords and profiles are a remote
service's: it confirms or refuses.

**`ManagedDdns`** - `db` is what the shared connection sees, `disk` what is committed,
`open` whether a transaction is. A commit by any thread commits everything. The webhook
is check, rows, one step per row, insert, commit; the commands are other processes that
a transaction keeps out. Times are small numbers, 0 stands for NULL.

**`ShareClip`** - one profile: the list in the state file, which is replaced as a whole,
the files beside it, the settings. `embedded` says which locks there are: inside AfterClaw
the dispatch lock covers a whole request, standalone only `LOCK` the middle of it. A file whose
`unlink` fails stays (`left`), and the request goes on, as in the code.

**`FileTools`** - a name is a sequence of words and an extension, a tree a function from
paths to contents. The cleaning rules, the plan, the matching of subtitles with videos,
and the shortening of what follows the episode are operators; showing a plan, each
check and rename of its rows, the choice of a free name and the write of an upload are
actions. Archives hold members with paths of their own, which are flattened; the entries of a zip
are opened by name (`Opened`), unsafe paths are skipped (`_safe_member_rel`), and what an outside
program unpacks (rar, 7z) has a different path for each file. There are no symbolic links: `.resolve()`
(clean_names.py:176, 185, 227) might list one file under two paths. Four variables only
watch: `data`, what must be in the tree; `raced`, whether a call relied on a check that another
request had made stale; `gone`, whether a row lost its source; `plain`, whether names
have always been such that alignment can tell the languages from them.

**`TorrentControl`** - the client (down, starting, serving, ending) in each of the forms it may be
installed in, its settings file, the settings it runs with, and the requests step by
step: `fix` and `optimize` with every place they can fail, the other clients' shorter
way, the page's start, stop, restart and quit, and the poll with its cache of four
seconds. AfterClaw learns of a service command only an exit status or an exception
(`Effect`): one that is taken to have failed may have had its effect, none, or half of a restart.
The same goes for requests to the client's WebUI (`Told`), which may also not be answered though the
client serves. A write that fails may leave an empty file, as opening it does (`Unwritten`, `Raises`).
AfterClaw itself may die between any two steps, and in the middle of a write.

`MC*` modules only add the symmetry sets and the small functions and sets of the runs.

**`Filter`** - a list comprehension over a list: what is kept, in its order. The library's
`SelectSeq` is a recursive definition, about which nothing can be proved; `Filter` is a
recursive function, used by `Members`, `ShareClip` and `FileTools`.

The theorems are in modules of their own, some of which speak of two components:
`FilesProofs` (`HttpDownloads`, `HttpRange`, `FileTools`), `TerminalDockerProofs` (`TerminalSessions`,
`DockerUpgrade`), `ConsoleProofs` (`AppConfig`, `Upgrade`), `DdnsProofs` (`ManagedDdns`, `Ddns`
with `DdnsProviders`), `MembersProofs`, `ShareClipProofs`, `TorrentControlProofs` and, for lists,
`FilterProofs`. Where a proof module extends two components, the second one's `Init`, `Next`,
`Spec`, `TypeOK` and `vars` carry its name (`RangeInit`, `FileInit`, `DockerInit`, `UpgradeInit`,
`DdnsInit`, ..).

## Runs

| Run | Question | Bounds |
|---|---|---|
| `downloads` | Are the slot counters exact on every path and a real lease? Does a cut stop what it was made for, does the snapshot keep live entries? | 2 threads, 2 clients, 1 slot, 2 chunks, 1 administrator, 2 cuts: a stream can be cut at each control point, a second cut can follow, and the slot is fought for. That the limit of one address binds below the limit of all is left to the theorems `CapsHold` and `ImplementsPool`. |
| `terminal_sessions` | Are ptys and processes neither lost nor shared? | 2 workers, 3 sessions, 3 descriptors, limit 2: a number is reused while another worker still holds it |
| `app_config` | Can torn or stale copies let anybody in, or harm other sections? | 2 workers, 3 requests, clock 0..2 with restarts: an old copy can be written back after a window has elapsed |
| `upgrade` | One task, one restart, no false success, repaired status? | 3 tasks, 1 poller, 2 restart threads; failing writes (of a start, of a task, of the repair), installations with and without support, restarts |
| `http_range` | Is each range answered with what it asks for, received in order, and by nobody awaited for ever? | sizes, suffixes and ends up to 4, chunks of 2: ranges of one, two and three reads, before, at and past the end |
| `docker_upgrade` | Is a complete container always left, and are answers true? | 2 requests for upgrades, also at the same time, 2 backup names, 3 containers: a backup that could not be removed meets the next upgrade, and an upgrade that begins alone after two that overlapped finds what they left |
| `ddns` | Are there ever two records of a name, is what the status shows published, are accepted settings served, and does all come right in the end? | worker and 1 request, 3 names of which 1 cannot be split, 2 IPv4 and 1 IPv6 address, eleven first configurations and three changes that between them use every provider, 2 disturbances (failing calls, refused readings, changes of address or settings, restarts) in any mixture |
| `members` | Are names unique, do sessions hold, does the yearly limit? | 2 threads, 2 members, 2 names under 4 spellings, 5 requests, clock 0..2 with a window of 1 and a limit of 1: a change can fall before, at and past the boundary |
| `managed_ddns` | Is a recorded payment credited, once, and never to the payer's loss? | 2 threads, 2 tokens of 1 donor, 1 payment delivered as often as it is not answered (2 times), 2 updates, clock 1..3 |
| `shareclip` | Are answered clips kept, files and list together, settings kept? | 2 threads, 4 clips of which 2 have files and 1 is of an older installation, history of 2, 5 requests, 1 fault (a crash, a failing write, read or unlink): the history overflows twice |
| `file_tools` | Is no file lost, no row of a plan, no language? | 2 threads, 3 requests, 1 fault, trees with a directory, two videos that clean to one name, two subtitles of one video, an upload, a zip with one path twice, another archive with one name in two folders and an unsafe path |
| `torrent_control` | Does the client come back with the new settings, and is it verified that it has? | 2 threads, 2 requests, 2 troubles (a command that is said to have failed, with or without its effect; a request the client does not answer; a file that cannot be written; a user who starts or stops the service; a restart of AfterClaw), 2 settings of users, 4 kinds of client |

Deadlock is checked in the runs of the first six components and in `members`. It is not in
`ddns`, `managed_ddns`, `shareclip`, `file_tools` and `torrent_control`: their requests and
disturbances are bounded, and when the bounds are used up nothing need be left to do.

The type invariants of `AppConfig`, `Upgrade`, `DockerUpgrade`, `ShareClip` and `Ddns` are theorems
and are not repeated in runs; those of the other modules are checked in a run (`downloads`,
`terminal_sessions`), or stand in the module as documentation that was checked while it was
written. For `TorrentControl` the proof has a sharper one of its own (`TypeInv`).

### Where the code and its documents disagree

These are properties of the modules that do not hold. No run keeps them; each counterexample is
found at once when the property is put in the place of the invariants of the run named.

1. `InterruptedOnDisable` (`downloads`): the answer to switching the HTTP module off says that this
   program's uploads were interrupted (appconfig/api.py:243). A request already past
   the gate reads the epoch after the cut (app.py:12690) and streams its whole body.
2. `NotRefusedForStale` (`terminal_sessions`): the "second-pass cleanup" (app.py:11538-11545) looks for a key
   `alive` that no session has. A dead session keeps its place for 180 s after
   somebody has first noticed that it is dead.
3. `PublicUntilClosed` (`app_config`, also with `Restarts = FALSE`): "remains public until manually closed" (http_access.py:8-9) is
   undone by a settings request that loaded the file earlier, or while it was truncated.
4. `UnknownMeansRestart` (`upgrade`): the status request reads the file before the flag (app.py:11846)
   and can replace the task's own result by "Update task triggered a service
   restart" (app.py:11856) without a restart.
5. `Kept` (`docker_upgrade`), which is `GoodKept` without `~overlapped`:
   docs/docker-replan-2026-05-26.md:107 promises that a failed creation is rolled back to the original container. Two upgrades of one container
   whose creations fail can delete it: the `docker rm -f` of one (service.py:516)
   removes the container that the other has just given its name back.
6. `CreditedOnce` (`managed_ddns`, without `SYMMETRY`): docs/managed-ddns-service.md:25 says
   "`webhook_events` (idempotency / dedup by `message_id`)". Two deliveries of one message at the
   same time both find it new (managed_ddns_service.py:384), both extend the tokens, and the
   commit of either thread, or of an update, keeps both extensions.

What the models show besides, on which no document takes a position or one is only touched:

* docs/upgrade-script-source.md:68-69 promises `hook_state=skip` when no script
  candidate matches; `_fetch_upgrade_script_payload` raises instead (app.py:1247) and the
  upgrade ends as an error (`Upgrade`, after the installer has succeeded).
* Upgrade: a start whose first status write fails (app.py:11944) leaves `upgrade_running` set without
  a task. Until the process is restarted every further start is refused, and a status of "running"
  that an earlier process left is repaired by nobody (`RunningIsRepaired` names this exception). A
  request that is refused for lack of support writes its error without looking at the flag.
* Terminal: an operation on a session that is closed after the lock was released and before its
  descriptor is used may reach another session's pty that got the same number (app.py:11625);
  `IoOwnPty` says that there is no other way.
* `_send_file` sends the headers before it opens the file (app.py:12726). A file that may
  be stat'ed but not read is answered with 200 or 206, and the page of the error
  (app.py:12770) is received as the first bytes of the announced body: `Foreign` in
  `HttpRange`, which `Resumable` and `Complete` have to set aside.
* DDNS: aliyun and dnspod never look at what the provider answers, so a refused call counts
  as done (`OkIsPublished` sets them aside); a list read before the other update's add makes a
  second record of a name, which is never corrected (`OneRecordIfAlone` is about updates that
  do not overlap). aliyun, dnspod and cloudflare (aliyun.py:49-53, dnspod.py:27-31,
  cloudflare.py:27-30) take a refused or empty answer to the reading for "no record" and add one: a lone
  update leaves a second record (`misread`, which the property sets aside). A list with a name like
  `nas` is accepted by `validate_config` and refused in each round when its turn comes, after the
  names before it were set; `AcceptedIsServed` is about names that can be split. With only an IPv6 list
  and IPv6 switched off, the settings are accepted and nothing is updated. `IP_FAIL_BACKOFF`
  (service.py:239) is only used after exceptions that `do_update_once` lets through; a failing IPv4 detection is not reported when IPv6 succeeds;
  `trafficroute.domains.ipv4` is accepted by the check and used by nobody; duckdns and Cloudflare's
  older fields are accepted without IPv4, which they need; a settings request that reads
  the truncated file saves the defaults.
* Members: two overlapping requests of a member can both pass the yearly limit, and the
  later save undoes the earlier change of another member.
* Managed DDNS: an insertion that fails leaves the transaction open, and the commands fail with
  "database is locked" until somebody commits; a payment puts an end to a token that had none and
  revives a revoked one; of two different payments at the same time one can be lost;
  failed updates are not rate-limited.
* ShareClip: a state file that cannot be read for a moment is replaced by the older
  installation's clips or by an empty history; a crash after `delete_asset` and before the save
  leaves clips without files; an `unlink` that fails is passed over (shareclip/app.py:237-241), the
  deletion is answered with ok and the file stays, listed by nobody (`left`); the standalone
  server loses one of two overlapping settings. What `load_config` falls back to when config.json
  cannot be read at a start is outside the model.
* Files: a second alignment drops the language when the video's name goes on after the episode, or
  when an upload got a number ("zh.1"); two requests between check and rename overwrite a file; an
  archive that fails half-way is answered with `ok` false although files were written. Of two entries of a
  zip with the same path the first is lost under an ok answer, since both are opened by name and give
  the last one's content (subtitle_uploads.py:172, 183); `NothingLost` owes a zip only the last entry
  of each path. Members with `.` or `..` in their path are skipped, and the answer is ok.
* Torrent client: a `stop` that worked but was reported as failed leaves the service down, since
  `stopped` is still false (app.py:10047-10051, 10139-10141): this and a failing last start are the
  exceptions of `ServiceComesBack`. A write in place (app.py:9656, 9675) or of the temporary file that
  fails may leave it empty. Transmission's and deluge's file is edited while they run and written back by
  them when they are restarted. `optimize` of these and of rtorrent ignores how the restart went
  (app.py:9680-9683) and answers ok: rtorrent may keep running with its old limits, which
  `SettingsInForce` sets aside (`came`). A status request that asked the client before the restart may
  store its figures after the cache was reset (app.py:11136), and the verification reads them:
  `VerifiedIsTrue` is about a request that met no other, an overlapping status poll included. The status
  page acts on a container, fix and optimize on the systemd unit, when both exist; `optimize`
  ignores that the start failed; a restart of AfterClaw between stop and start leaves the client down.

### Fairness

`HttpDownloads` assumes weak fairness of each connection thread: locks are held for
a few statements, and a socket write returns or times out after
`DEFAULT_HTTP_STREAM_WRITE_TIMEOUT_SEC`. `Upgrade` assumes it of the task (its
downloads have time-outs and the installer ends) and of status requests (the
settings page repeats them every two seconds while an upgrade runs). `HttpRange`
assumes it of the thread that serves and of the keep-alive timeout that `setup` puts
on the socket (app.py:8534-8554); a thread that finds the file shorter than announced
leaves the connection to that timeout. `DockerUpgrade` assumes none: `docker stop` and
`docker start` run without a timeout (service.py:108). `Ddns` assumes it of the worker
(each call has a timeout, and `_worker` loops without an end) and of the write that follows the
truncation of the settings file, not of updates by request; `Converges` then needs the
disturbances to stop, which their bound says. `Members`,
`ManagedDdns`, `ShareClip`, `FileTools` and `TorrentControl` have only safety properties and assume none. Nobody has to
start anything: no fairness is assumed of requests that begin something, of
administrators or of restarts.

## Proofs

Nearly every theorem is of the form `Spec => []P`, for any sets of threads, clients,
sessions, tasks, and any limits within the named assumptions on constants.

* **Downloads.** `TypeCorrect` is inductive only with `SlotsExact`: the counters stay
  below their limits because they count the holders. The proof carries both through
  each action; the counting steps rest on lemmas on the cardinality of a finite set
  that gains or loses one element. `CapsHold` follows from the two. `ImplementsPool`
  maps each action to `Admit`, `Leave` or a stutter. `CutStopsRegistered`
  needs an invariant that ties `late` to the control point: a stream that
  has sent a chunk after the cut is about to look at the epoch, or has closed.
* **Terminal.** `DescriptorsExact` is strengthened with the uniqueness of the session
  ids under way (`used`), without which two starts could share an id.
  `IoReachesOwnPty` follows with the local number tied to `sfd`.
* **Config.** `AccessIsGranted` is not inductive over the file alone: the copies in
  the workers' frames will be written later, so the invariant says of every copy
  and of the file that their windows were opened and their addresses allowed.
* **Upgrade.** `OneUpgradeAtATime` is inductive; `SuccessNeverFalse` is strengthened
  with what the status says while the task started last is under way.
* **Ranges.** `RangeAnswered` is about the operators alone: for all integers, the
  computed interval is `Wanted`. `ResumableAlways` and `CompleteAlways`
  rest on an invariant (`Flow`) in which the position of the open file
  separates what the client has from what it waits for.
* **Docker.** `KeepsGood` and `AnswersHold` hold for any number of upgrades, at the same time or not;
  what they say is about states with `~overlapped`, and item 5 above shows why. As long as that holds,
  at most one upgrade is under way: the others are idle. `GoodKept` alone is not inductive: the
  invariant `Phase` adds that a complete container has another name while `Main` is
  about to be cleared, that `Main` is complete while the backup is about to be dropped,
  and where the old container is at each step.

* **Members.** `NamesUnique` is about the file, but what a request holds between its check and
  its write will be the file: `NamesInv` says of the file and of every such copy that its
  names are unique. It is the check of the whole copy that makes the missing lock harmless here.
  `SessionsHoldAlways` rests on `SessInv`: who makes a key holds the lock, there is no key then
  and no token yet. `YearlyLimitAlways` (as long as no two requests
  that save overlapped) rests on `YearInv`: the history on file, and in the copy that is about to be
  written, ends with every change of the year past, and there are no more of them than the limit
  allows. A change drops the times that are older; since times only grow along the list, what is
  kept is its end (`FilterIsSuffix`), and nothing is lost that a later year contains.

* **Lists.** What a recursive function computes for a list of any length needs an induction, and the
  induction principles of the library have an operator as a parameter, which the provers cannot
  instantiate. `SetInduction` is the same principle for a property given as a set of
  numbers, proved from the least element of a set (`LeastNat`), itself from `WFMin`.
  `FilterKeeps` says by it what `Filter` keeps, and that the order stays.

* **Managed DDNS.** A commit by one thread commits the steps of all, so the invariant is about the
  tables of the connection and those on disk alike: `Credited` of both, `Ready` for each request
  between reading the rows and inserting the message. A crash returns to the tables on disk, which
  satisfy the same; a command starts from them, since it is refused while a transaction is open
  (`~open => db = disk`). Tokens that a message is due to are issued and stay so.
  `CreditedOnceAlone` and `PaidIsExtended` are about webhook requests beside which no other
  request ran (`~together`): `Calm` says that then a webhook request is the only one at work, that no token has
  two credits of a message, and that only the message being worked on may have credits without
  being on record (`Pending`), none of them for a token still to be visited (`Steady`).

* **Built-in DDNS.** First without any state: `RunUpdatePlan` and `AcceptedPlan` say, provider by
  provider, that `run_update` refuses or plans a call for each name of the enabled lists, and
  that it does not refuse what `validate_config` accepts; `AcceptedIsServedAlways` follows with the
  type of whatever configuration gets on file. The invariant `DdnsInv` then says of each update
  under way that its addresses belong to families switched on, and that each call of its plan is
  done or still to be made (`Planned`), from which `OkIsPublishedAlways` follows at the only step
  that can show an address as reached. `PlanNames` says that a plan of accepted settings calls only
  names of the lists, or `Own`: when these can be split, `ComesTo` is the whole plan.
  `OneRecordIfAloneAlways` needs `RecordsInv`: as long as no
  two updates were at the provider together there is only one there, and when it is about to add a
  record because it found none (`FoundNone`) there is still none, or the reading was refused and the
  name is in `misread`. A failing call that had
  its effect, a restart and a change of provider are steps of that proof like the others.

* **ShareClip.** `AnswersKept` and `SettingsKept` are not inductive. `Inv` adds who holds which lock at
  which point (`LockInv`), that the list an edit is about to write is still the one on disk with a
  clip in front, or with fewer clips (`Pushed`, `Thinned`), that a clip being sent is nowhere else
  yet (`FreshInv`), and that a clip has at least as many later ones as stand before it
  (`KeptInv`), so that only `MAX_HISTORY` later ones push it out, for any `MAX_HISTORY`. A failing `unlink` moves a
  file from `assets` to `left` and disturbs none of these.

* **Torrent client.** The properties are about a `fix` or `optimize` that met nobody else. `SoundInv`
  says for each point of its way what it may rely on: the users' settings are in the running client or in
  the file it would start with (`Kept`), the service it found running will run again on every
  path that is left (`Owed`), what was written is in force or will be (`Way`), and what the
  answer will call verified was seen so (`Seen`). A failing command that had its effect is a step of the
  same proof; `came` records the two that the code cannot make good. There are three kinds of steps: the request itself
  takes the assertion from one point to the next (`GoesOn`), the client and its users go on
  beside it (`GoesBeside`), everything else that touches the service ends its being alone
  (`Disturbs`). The invariant was checked by TLC before it was proved. `SettingsInForce`
  leaves transmission out, whose file is edited while it runs (see above): there it does not hold.

* **Files and names.** `FileInv` carries `NothingLost` and `NoRowGone`: the tree is a tree, a row
  renames within its directory, has its source to itself and, as long as nobody interfered, finds it;
  the row at hand is the deepest, so that what is left of a plan is not inside what it moves
  (`RenamedFacts`: a rename takes along what is inside, leaves the rest, and loses only a target
  that was there); what has been checked and not changed since is free. `LanguageKept` needs `NameInv`:
  while names are plain, every file, row and upload under way has a name that tells its languages.
  That rests on lemmas about words: cleaning drops none of what follows the episode
  (`FilterKeepsEnd`), and a season moved before the year is followed by the year, so that
  such a name is not plain (`CleanedName`); alignment puts what followed the subtitle's episode behind
  that of the video (`AlignedName`); a number that makes a name unique comes after the languages
  (`CopyName`). Assumed are only the kinds of words: a language is no episode or year and is not
  what the user removes (`FileToolsAssumption`). Both invariants were checked by TLC before.

What stays with TLC:

* Liveness (`SlotPool`'s fairness part, `RunningIsRepaired`, `NoHang`, `Converges`), and everything
  about `ENABLED`: out of the prover's reach.
* The type invariants of `Members` and `ManagedDdns`, beyond what the proofs above use of them.

Every invariant of a run is also a theorem.

## Not modelled

* The samplers of speeds and metrics: caches that are replaced as a whole under one lock; the one
  that a decision rests on, the torrent client's, is in `TorrentControl`.
* The backup module: no route of the running application leads to it.
* The files module and the routing of requests: listings, no state.
* The web interface, the installers and vendored code: presentation, or run once.
* Services other than the torrent client: one systemctl call per request, no state here.
* Within the modelled components: contents of files, speeds and sources of transfers, the terminal's
  command history, the normalisation of single settings, the stages of an upgrade that
  only differ in their messages, images, logs and the operation history of docker, profiles of
  ShareClip other than one, mounts of the torrent client's container, ddns-go (a program of its
  own), the remote member service.

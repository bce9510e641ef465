# CipherStation in TLA+

CipherStation (`src/`) is a self-hosted station: a FastAPI process that stores
posts on the local IPFS node, lists them in a manifest, seals their keys to
followers, and makes its state findable under an IPNS name.  This directory
models its core logic in TLA+, checks the models with TLC on small instances
and proves the main invariants with TLAPS for all instances.

Paths below are relative to `src/cipher_station/` unless they start with
`PROTOCOL.md`, `scripts/` or `cipher_cli/`.

## 1. Inventory

The station is one process.  Synchronous routes run on the threads of anyio's
pool, so they interleave at any point; asynchronous ones (`/inbox`, the
authentication dependencies) run on the event loop and never await between a
read and a write, so each is atomic with respect to the others.  Daemon threads
publish to IPNS and watch the tunnel.  State lives in JSON files replaced
atomically (`storage.py:45-63`), in SQLite with a connection per thread
(`database.py:11-18`), and in the pins of the IPFS node.  Two further programs
work on the station's files without any lock of its own: the daily backup with
its restore, and the updater.

| Component | State it keeps | Operations | What makes it correct |
|---|---|---|---|
| Post index (`manifest.py`, `posts.py`, `profile.py`) | `manifest.json`, `manifest_pointer` in `public.json`, pins | post, delete, re-share, profile edits | no stored post is lost, no deleted one returns, the pointer follows the index, pins follow the index |
| Followers and re-wrapping (`followers.py`, `rewrap_envelopes.py`, `graph.py`, `inbox.py`) | followers table, envelopes documents, encrypted graphs | follow request, approve, remove, re-wrap, rebuild | envelopes go to the audience and to approved people only, and follow approvals and removals |
| Privacy flip (`privacy.py`) | the posts of one client, its `account_privacy` | flip to private, to public | no content lost on the way, nothing of the old kind left, old plain text unpinned |
| `public.json` and IPNS (`ipns_publisher.py`, `ipfs_client.py:500-558`) | `public.json`, an event, the IPNS record | five writers of one part each; one publisher | no writer undoes another, every change is published, never an older document after a newer one |
| Tunnel monitor (`tunnel.py`) | `endpoint` in `public.json` | poll cloudflared, update | the endpoint follows the tunnel while the monitor lives |
| Pairing (`pairing.py`, `main.py:915-948`) | `pairing_sessions`, `pairing_failures`, device rows | start, confirm | attempts, failures and open sessions stay near their limits; a paired session is spent |
| Authentication (`auth.py`, `main.py:86-111`) | `auth_nonces`, time of the last clean-up | check a signed request | each request is carried out at most once and refused for a cause only |
| Identity (`identity.py`) | two key files, `public.json` | bootstrap, load | a station that has served keeps its identity wherever it is killed |
| Backup and restore (`backup.py`) | archives of all of the above, the disk they lie on | choose a destination, create, restore | an archive is the station beside which it was made and outlives its disk; a restore rebuilds it |
| Updater (`scripts/cipher-updater.sh`, `install.sh`) | a git checkout, a pin, a lock, the running process | decide, check out, install, health check, roll back | a finished run leaves a healthy station that runs what is checked out; a pin that stays is reached |
| Content and fetch routes (`main.py:307-509`) | a bounded semaphore | stream content | every slot comes back |
| Follower devices (`inbox.py`, `followers.py`) | rows per device | follow request, approve, remove | the device cap; requests never change a known device |
| Following list (`following.py`) | rows per followed uid | add, list, remove | one row per uid |
| Panel, CLI, tray, installers, configuration, cryptography | none of their own | call the above, read, pure functions | - |

What is hard here, and what the models are for: reads outside `STATE_LOCK`
followed by a write under it; several statements that are atomic one by one
only; IPFS calls that fail half way; a restart between two writes; requests
that clients send again; a publication that fails while the file it published
moves on; files copied one by one under a station that writes them; a drive that
goes away; an update that dies half way.  `PROJECT.json` lists each such place at its line under `hazards`.

## 2. Modules

| Module | Models | Runs |
|---|---|---|
| `PostStore` | post index, followers, re-wrap, graph, statement by statement | `posts_*`, `rewrap_loses_post` |
| `PostIndex` | abstract specification: an index changed atomically, one row, one profile or all envelopes at a time | refined in `posts_locked` |
| `PrivacyFlip` | flips on top of atomic entry operations | `flip` |
| `PublicJson` | `public.json`, its writers, the publisher, the monitor | `ipns` |
| `Pairing` | both pairing routes, one step per SQL statement | `pairing` |
| `Auth` | the check of signed requests | `auth` |
| `Devices` | follow requests entry by entry, rows per device | `devices` |
| `StationFiles` | identity, database file and log, backup, restore, loss of a disk | `files` |
| `BackupDest` | paths, mount points, the choice and refusal of a destination; operators only | through `StationFiles` |
| `Updater` | the updater's runs beside the station's process | `updater`, `updater_selfhost` |
| `*_proofs` | theorems about the module they are named after | - |
| `MC*` | symmetry sets and, for `StationFiles`, a layout of disks | - |

How they fit: `PostStore` shows that the lock makes every edit of the manifest
one step (`ActsAsAtomicIndex`), re-wraps that race with a save excepted; `PrivacyFlip` builds on that and takes appending
and removing as steps.  `PublicJson` abstracts the manifest pointer of
`PostStore` to a version and adds the file's other writers and its publication.
`Pairing` adds the devices whose requests `Auth` checks.  `Devices` splits the one
row per uid of `PostStore` into rows per device.  `StationFiles` takes the writes
that the other modules make to a file as one replacement each, and adds what
happens to the files as files; `BackupDest` is the part of it that is a pure
function.  `Updater` stands beside them all: it restarts the process.

### PostStore

`pc[t]` names the next step of a request on thread `t`; the header lists the
steps of each operation.  A handler is cut where another thread, a failing IPFS
call or a crash can come between two effects: before `STATE_LOCK` is taken,
between saving and publishing, between publishing and unpinning.  The re-wrap
loads the manifest outside the lock (`rewrap_envelopes.py:124`), as in the code.

Abstractions: one followers row per uid; the station's own row is always Allowed
(startup inserts it, `main.py:144-154`); envelopes documents are identified by
the sealing that made them; profile fields are "set or not"; unpinning and
garbage collection are one step; which bucket of the manifest comes first is
left open; the following list, metadata and timestamps are absent; the database
does not fail.  `ReadFaults` lets `load_manifest` answer an empty manifest, as it
does for an unreadable file (`manifest.py:78-86`).

`Publish` either moves the pointer or, when `public.json` is missing or cannot be read,
skips it without telling anybody (`manifest.py:108-115`): the request is then answered, or
goes on to unpin or to rebuild the graph, exactly as if it had been published, and the
history variable `behind` says so until the next publication.

### PrivacyFlip

A post's bytes are `[plain, blob]`: blob 0 is the plain text, blob n the station's nth
encryption, and a member of `Sealings` a ciphertext that a client made and the station
stores as it was sent (`posts.py:226-230`).  The first and the last have one CID however
often they are posted, a client's retry included; the second is always new.  `shared`
remembers the CIDs that were uploaded while an entry, an upload or a pending unpin had them
already.  A flip takes its snapshot, then
fetches, uploads, appends, removes and unpins post by post; an error is recorded
and the next post follows, but a failed unpin is logged only and the post counts as
migrated (`UnpinFails`, `manifest.py:503-508`); the account setting is written last.  Deletes name the
CID of a listed entry.  Left out: re-shares and re-wraps, and a
`manifest.json` that cannot be read (all in `PostStore`), deletes without a client, and a
ciphertext posted as public.

### PublicJson

Values are versions, one per part of the file.  Each writer holds the lock from
parsing to replacing, then asks; the publisher wakes, clears the event, parses,
may add the node's names, and publishes.  A publication that raises, or is cut by
a restart, may have moved the name all the same.  A writer that cannot read or write the
file gives up without asking.  For the monitor a failed read is skipped and the next check
tries again (`tunnel.py:71-76`), while a failed write, which nothing in its thread catches
(`tunnel.py:84, 106, 122`), ends it: `pc` is then `dead` until a restart.  The model starts from a station
that was published once; what startup writes before the threads run, and the
single write of a permanent `CIPHER_PUBLIC_URL`, are left out.  A check of the
monitor that learns nothing is no step.

### Pairing

Every SQL statement is a step, and the slow PIN hash lies between two of them.
Whether a PIN is right is chosen when the row is read.  `at[t]` is the time the
handler read once and uses throughout, while the clock moves on.

### Auth

A message is signed once; copies of it arrive any number of times.  The check is
one step because the dependency never awaits.  Guarded paths are judged by the
time of arrival, the others by the time of the check (`auth.py:80-83`).  One device;
bad signatures and body hashes are refused without a change of state and left
out.  Two assumptions are constants of the module: the clock does not go back, and a
request arrives completely within `MaxTransfer`.

### Devices

A request of the new form is a sequence of entries; the old form is a sequence of
one, whose device is the uid.  The rows of the follower are read once
(`inbox.py:119-128`), then each entry is a step: a known device is passed over, one
more than the cap is refused, a malformed one ends the request with the earlier ones
kept, the others are inserted and committed.  Approvals and removals of one device or
of all go on in between.  The station's own uid is refused and therefore not among the
followers.  What a grant or a removal makes of envelopes and graph is in `PostStore`.

### StationFiles and BackupDest

The database is two variables: the file, numbered by its newest commit, and the log,
which names the file it belongs to.  A log over another file gives `Mixed`.  A key file
is `Torn` between truncating and filling it, and so is a file a restore was copying
when it died.  `stage` is the archive being made; it is renamed into place in one step.

`known`, `alone`, `clean`, `over` and `rebuilt` are history variables: the identity the
station last served with; whether a restore has run beside it; whether anything has
disturbed the restore; whether the restore found a log, or files, that the archive
does not replace.

Abstractions: the values of the pointers in `public.json` are left to `PublicJson` and
`PostStore`; the `.env` file, encryption and file modes are left out.  The newest archive
is kept, or the one being restored; a backup that finishes during a restore is dropped
from the model.  What a station has under way when a restore begins goes on, but new
requests wait for the end of the restore.  A disk is lost between a backup and a
restore, drives come and go while a backup runs: at other times nobody looks.
`rglob` gives the files at the top first and then directory by directory in any order,
which is the order `Listed` allows.  A database file that a restore has cut is refused by
SQLite, or read as empty; a `Torn` key file ends the process (`LoadFails`).  The restore
does not stop a running station (`backup.py:668-731`), and neither does the model.  A loss
of power that takes back what was written is not modelled: nothing here calls `fsync`.

In `BackupDest` a path is a sequence of names; the file system it lies on is that of the
longest mount point above it.  `MCStationFiles` has a data volume at `/mnt/data`, which
holds the station and IPFS, a drive at `/mnt/usb` whose directory stays when it is
unmounted, and a home directory on the root disk.

### Updater

One action per stage of the script: it takes the lock, reads what is checked out and what
is desired, checks out, installs, asks `/health`, and goes back.  Fetches, checkouts,
installations and health checks may fail (`MaxFaults`), a run or the machine may die
(`MaxDeaths`).  A commit is good or bad: a station started from a bad one does not answer
`/health`.  `Hosted` decides whether the installer restarts a running station
(`install.sh:1165-1176`).  `alarm` is set when the way back failed and the script asks for
manual intervention; `cut` when a run died after its checkout.

## 3. Runs

| Run | Question | Bounds | Outcome |
|---|---|---|---|
| `posts_locked` | with failures and a restart, are posts, deletes and profile edits atomic, do pins follow the index, and is every request answered? | 2 threads, no re-wraps | holds |
| `posts_concurrent` | what survives when re-wraps work on stale documents and reads fail? | 2 threads, all operations | holds |
| `posts_sequential` | do envelopes and graph follow approvals exactly? | 1 thread, 2 followers, no failures | holds |
| `rewrap_loses_post` | is an answered post safe from a concurrent re-wrap? | 2 threads | violated |
| `flip` | are flips safe beside posts, deletes and other flips, with failures and a restart? | 2 threads, 4 requests, 1 content and 1 client ciphertext of it (equal bytes are the hard case), 1 restart | holds |
| `ipns` | are `public.json`'s writers and its publisher right, safety and liveness? | 2 pool threads and the monitor, 2 changes, 1 URL, 1 failure, 1 restart | holds |
| `pairing` | do the three limits hold under races, and stays a paired session spent? | 2 threads, 3 sessions, clock to 2, 1 restart; limits 1 and 2 | holds |
| `auth` | at most once, and refused for a cause? | 2 messages, 2 copies in flight, clock to 5 with lifetime 3, 1 restart | holds |
| `devices` | is the cap kept, and does no request change a registered device? | 1 follower, 3 devices, cap 2, requests of 3 entries, 4 requests, approvals and removals | holds |
| `files` | is the identity kept, is an archive the station, does a restore rebuild it, does it lie on another disk? | 3 identities, 2 requests, 1 post, 1 end of the station, 1 backup, 2 restores, 1 lost disk | holds |
| `updater` | does a finished run leave a healthy station that runs what is checked out, and is a pin that stays reached? | 2 runs, 3 releases of which 1 is bad, 2 failures, 1 death, 2 changes of the pin | holds |
| `updater_selfhost` | the first question on a self-hosted station | the same | violated |

Why the bounds are enough: every interference in this code is between two
requests, so two threads and enough requests for one to overtake the other
produce it; limits of 1 and 2 are reached and exceeded; the clocks run past every
period; one failure or restart is allowed at every step.  The proofs in section 4
lift most of the properties to all bounds.  In `files` the second restore is the one
over what a first one left half done, the third identity is the one a start makes when it
finds only one key file, and one backup suffices because only the newest archive is kept.
In `flip` no flip to private asks for a public audience,
which the code accepts and which only multiplies the states; the theorems cover it.
In `updater` two runs and two changes of the pin let the second begin at a commit the
first has left.

`CHECK_DEADLOCK FALSE` is stated everywhere because the bounded system stops once
its requests are used up.  Symmetry is used in runs without liveness only.

Fairness: weak fairness on the steps of each thread that has work (a scheduler
that runs every runnable thread, `STATE_LOCK` given back after bounded work), none
on clients, the owner, cloudflared or crashes.  In `PublicJson` the monitor's check
is fair because it polls for ever (`tunnel.py:118-122`), as long as its thread lives.  In `Updater` the timer fires for
ever (`install.sh:1271-1272`), a run that has begun goes on, and systemd starts a
station that is down (`Restart=on-failure`, `install.sh:1066`); pins, failures and deaths
are not fair.

### What the violated properties show

- `rewrap_loses_post`: a re-wrap saves the manifest it loaded before taking the
  lock; a post answered meanwhile disappears (`rewrap_envelopes.py:124, 256-260`).
- `updater_selfhost`: on a self-hosted station the installer calls `systemctl start`, which
  leaves a running station alone (`install.sh:1165-1176`).  The health check asks the old
  process, the update counts as done, and a bad release is found at the next restart only;
  `cipher-updater.sh:20-24` promises the restart and the way back for both modes.

### Known to fail

The models also reach the following states.  The properties that hold are stated so
that they except them; no run is spent on showing them.

- Re-sharing removes the entry, which unpins its content, and lists the same content
  again without adding it (`posts.py:394-405`): a listed post may be collected.
- Posts with equal bytes share a CID, public ones (`posts.py:205-206`) as well as a client's
  ciphertext that was sent twice (`posts.py:226-236`); migrating, deleting or late unpinning
  one unpins the other, which can no longer be fetched (`manifest.py:499-510`,
  `privacy.py:72`).  This is the `shared` of `ListedIsHeld`.
- While `public.json` is missing or unreadable, posts and deletes are answered as done though
  the pointer stays (`manifest.py:108-115`): followers see the older index until something
  else is published.  This is the `behind` of `PointerIsCurrent`.
- After one failed publication the monitor sees `public.json` up to date and never asks
  again (`tunnel.py:78-81`, `ipfs_client.py:556-558`): a new URL reaches IPNS only with the
  next change.
- One failed write of `public.json` ends the monitor's thread: nothing between
  `tunnel.py:84` and its top (`tunnel.py:106, 122`) catches the exception.  The new URL, and
  every later one, does not reach `public.json` until the station restarts, though the
  thread's docstring says that it keeps the URL up to date (`tunnel.py:89-94`).  This is the
  `dead` of `EndpointFollowsTunnel`.
- `PROTOCOL.md:812` says the fifth failure locks a pairing session; the code locks it at the
  next attempt (`pairing.py:202-205`).
- A restore with `--force` over a station replaces the files the archive has and leaves the
  others, the database's log included (`backup.py:668-731`): the log of the old database is
  replayed over the restored one.  This is the `over` of `RestoreRebuilds`.
- A drive that is unmounted while a backup runs leaves its directory, and the archive lands
  on the disk below it (`backup.py:633`).
- A follow request that names a device twice replaces the row it has just inserted, even
  when the owner has approved it in between: the known devices are read before the loop
  (`inbox.py:119-156`, against the comment at 140-146).
- An updater that dies between the checkout and the health check is never rolled back, for
  the next run finds the new commit checked out (`cipher-updater.sh:81`); a pin at a bad
  release is tried and rolled back again at every run of the timer.

## 4. Proofs

All theorems are checked by TLAPS to the last leaf.  Each module proves an
inductive invariant `Init => Inv`, `Inv /\ [Next]_vars => Inv'` and derives the
listed properties.

- `PostStore_proofs`: `TypeOK`, `PointerIsCurrent` (no publication failed or skipped), `StationCanReopen` and
  `AudienceRespected` for all constants.  The properties are not inductive: a thread in the middle of
  its cycle holds a document, and only the lock keeps it equal to the file.  The
  invariant therefore says who holds the lock at which step, that the holder's
  document is the manifest before it saves and after it saves, and that what it
  publishes is what it saved.  Then `ContentPinnedUnlessErased` for all constants: whatever
  document a thread holds, old ones included, lists content that was pinned once, and only
  an erasure of that content unpins it.

  A re-wrap is the only writer that loads before it takes the lock, and the theorems say
  which harm each race can do, with approvals, removals, failures, crashes and any number of
  threads.  `NoPostSavedOver`, `NoRemovalSavedOver` and `NothingSavedOver` are conditions on
  steps: no post, no removal, nothing at all is saved while a re-wrap stands between its load
  and its write.  `AckedPostsListed` needs the first only, `ErasedStaysErased` and
  `EnvelopesPinned` the second only, and the refinement `ActsAsAtomicIndex` the third; the
  first and the last also need a manifest that can be read.  None can be left out or swapped
  (`rewrap_loses_post` violates the first property without its condition).  The invariant says
  what a waiting re-wrap holds:
  every listed post, no erased one, or exactly the rows of the index with other envelopes.
  `EnvelopesPinned` follows every sealing to the one entry that has it: listed, erased, about to be
  appended, waiting to be written by a re-wrap, or superseded by it and about to be unpinned.
  `LockIsEnoughAlone` and `EnvelopesStayPinnedAlone` discharge the conditions where the
  constants do: one thread, or no approvals and removals.

  `AccessFollowsMembership` holds under two conditions, again with any threads and with
  everything else free to overlap, fail or be cut by a restart.  `RegrantsApart`: an approval or a
  removal overlaps no other one and no post or re-share for all, whose recipients may have been
  read before.  `RegrantsWhole`: it runs to its end and re-seals every entry it can open.  TLC
  finds the property violated when either is weakened.  The invariant says what of the posts
  and of the graph is up to date at each step of such a request.  `AccessAlwaysFollows` is the
  case of one thread and nothing failing, where both conditions hold by themselves.

  Of the liveness, the part that is a matter of single steps.  `HolderGoesOn`: a busy thread can
  take its next step, or waits for the lock and the holder can.  `RequestsRunOut`: `Rank` counts
  the steps a request has before it; each of its own steps lowers it, failures included,
  nobody else's raises it, and it is at most eleven.  `CanGoOn` spells out when a
  thread's step is enabled, and TLC found it equal to `ENABLED` of the actions in every reachable
  state of a small instance.
- `PublicJson_proofs`: `TypeOK`, `NoChangeUndone`, `IpnsNeverGoesBack`,
  `NothingForgotten`.  The invariant says which thread may hold the lock, that its
  parsed object is the file, that the name is at most the document being published
  and that at most the file, and that a publisher with nothing asked of it has the
  file in hand.  `WaitersAreServed`: whoever holds the lock stands at the step that gives it
  back, and a cycle or a pass that has begun only gets shorter.
- `Pairing_proofs`: `TypeOK`, `AttemptsBounded`, `FailuresBounded`, `PendingBounded`,
  `PairedIsSpent`.  A check and the write it allows are two statements, so the limits
  are exceeded by the threads between them.  The invariant counts them: what the table
  holds plus the threads past the check is at most the limit plus k, when never more than
  k + 1 of them are past the check at once.  So `AttemptsFollowOverlap` and its two siblings say
  what the overlap costs, nothing at all for one request at a time, and the properties of the run
  follow with all threads of the pool.  For the failures it also shows that pruning by a handler's older clock drops
  nothing that still counts.
- `Auth_proofs`: `TypeOK`, `AcceptedOnce`, `RefusedForCause`, from the assumption that
  skew and transfer time fit in a nonce's lifetime.  An accepted message is remembered
  or so old that its nonce was pruned; a copy still in transfer is then stale by its
  own time of arrival.

- `PrivacyFlip_proofs`: all five properties of `PrivacyFlip`.  For `HeldIsAccounted` what is
  held is followed from hand to hand.  `ListedIsHeld` rests on two invariants: what is not
  `shared` has one owner, the entry that lists it, the upload that made it, or the removal that
  took it out, and is pinned while it is one of the first two; and the station's encryptions
  are numbered upwards, so that they are never shared.  A client's ciphertext has no such
  number, and for it the theorem promises nothing once it was sent twice.
  `FlipLeavesNoneBehind` needs that an entry of the snapshot which is still listed is still
  ahead of the flip, and that equal entries before it are in the snapshot too.
  `FlipsLoseNothing` counts: per client and content, the entries stored, plus the copies that
  still owe the removal of their original, are at most the entries listed plus those deleted.
- `StationFiles_proofs`: `KeepsIdentity`, `RestoreRebuilds`, `BackupOutlivesDisk`,
  `ArchiveIsStation`.  The first
  from what each step of the start-up code finds on disk: until a restore, a second key file
  is never there without its first, and a start that makes keys has never served before.  The
  second from what a restore has done so far: each file is as in the archive or still to be
  copied.  The third, for every layout of disks, from the refusal of destinations that
  contain a data directory: such a path is no mount point above one, whatever is mounted
  later.  The fourth from what a backup has collected so far: every file is the identity's or
  still to be copied, commits are numbered upwards through the log and its checkpoints, a
  station that serves has a whole database, and what the copied manifest lists is pinned,
  still to be exported, or exported.  With these, `TypeOK` of every variable.
- `Updater_proofs`: `TypeOK`, which says that only the lock's holder is at work, and
  `DoneMeansRunning`: nobody moves the checkout under a run, so each stage knows what is checked
  out.  `UpdatesTakeEffect` has it for every station under the condition that an installation
  leaves the station on what is checked out, and `StationRunsCheckout` says that between updates
  what runs is then what is checked out; a hosted station ensures the condition
  (`HostedUpdatesTakeEffect`), and `SelfHostedRunsOn` shows why a self-hosted one does not: no
  step of the updater changes what runs there.  `RunsRunOut`: no lock is left behind, and a run
  has at most seven steps to go.
- `Devices_proofs`: `TypeOK` with the cap, and `RegisteredUntouched`.  A request counts rows it
  read at its start; what it can have missed are removals only, so it has counted at least the
  rows there are.

Assumptions are named where the constants are declared (`ConstantTypes`, `Limits`, `Periods`
and the others): kinds of the constants, for `Auth` the relation of its periods, for `StationFiles` that paths are
sequences of names.

Only model-checked: the liveness properties (`RequestsAnswered`, `ChangesArePublished`,
`EndpointFollowsTunnel`, `Converges`), which are out of the prover's reach together with
`ENABLED`.  Their safety halves that are proved are named above: that nobody waits for one who
cannot go on, and that what has begun has a bounded number of steps left.

## 5. Not modelled

Cryptography is taken as perfect and pure.  Reading routes (`/profile`, `/content`,
`rewrap.py`) change nothing.  The semaphore of `/fetch` (`main.py:399-509`) is given back by
the generator that streams the response; whether it always is depends on when the server
finalises a generator nobody reads, which is outside this code.  The following list is one
row per uid written by single statements, and the rebuild that follows is in `PostStore`.
The panel calls modelled operations and edits configuration files.  The CLI, the tray and
the installers start, stop and show the station; of `install.sh` only its restart of the
services is in `Updater`.  Encryption and file modes of archives, creation and migration of
the database schema are left out.  Retries inside one IPFS call are part of that call.

## 6. Plan

Done: `PostStore` with `PostIndex`, `PublicJson`, `Pairing`, `Auth`, `PrivacyFlip`,
`StationFiles` with `BackupDest`, `Updater`, `Devices`, in the order of what the station
promises its owner, and a module of theorems for each of them.

Left: nothing of the safety properties.

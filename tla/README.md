# Spin the Wheel, in TLA+

Formal models of `spin_the_wheel`: a Go server with a PostgreSQL database, and the
pages it serves (an editor for the owners of wheels, and a wheel embedded in an
iframe that any visitor may spin). The models are checked with TLC on small
instances and their main safety properties are proved with TLAPS for every value
of the constants.

## 1. The system

| part | source | state it keeps | operations |
|---|---|---|---|
| image library | `api/images.go`, `store/images.go`, janitor in `cmd/server/main.go` | table `images`, files `<id>.png` and `<id>.png.tmp` on a volume | upload, list, serve, purge of orphans (every hour) |
| wheels and segments | `api/wheels.go`, `store/wheels.go` | tables `wheels`, `segments` | create, patch, replace all segments, soft delete, read |
| access control | `auth/handlers.go`, `auth/session.go`, `store/users.go` | tables `allowed_emails`, `users`, `oauth_states`, `sessions`; cookies | start a login, callback, resolve a session, logout, add to and remove from the whitelist, bootstrap at start |
| rate limiter | `httpx/ratelimit.go` | a map of token buckets under a mutex, bounded | Allow, purge |
| public wheel | `api/embed.go`, `store/wheels.go` | table `spins` | read a published wheel, spin |
| embedded page | `static/js/embed.js`, `wheel.js` | its copy of the segments, the rotation, the announcement | load, spin, reload, animate, announce |
| editor page | `static/js/edit.js` | its copy of the segments, title, published flag | move, remove, upload, save |
| other pages | `app.js`, `accounts.js`, `session.js`, `api.js`, `dom.js`, `confetti.js` | the account they display, a cached CSRF token; the cookie they share | load, request, log out |
| server process, migrations | `cmd/server/main.go`, `store/store.go` | where it is in its start; `schema_migrations` | start, migrate, serve, stop, drain; delete expired rows |
| routing and middleware | `api/router.go`, `httpx/middleware.go`, `auth/handlers.go` | the context of a request | limit, Resolve, RequireUser, CSRF |
| configuration | `config/config.go` | none | Load |
| identifiers, images, validation | `uid`, `imgproc`, `api/validate.go` | none | pure functions |
| Google identity, logs, audit | `auth/google.go`, `logging`, `store/audit.go` | none that others read back | one external exchange, output |

How they interact. Every HTTP request is a goroutine; several run at once, and
the janitor beside them. There is no state in the process but the limiters:
what two requests share is the database (a pool of connections, default READ
COMMITTED, mostly one autocommitted statement at a time, with two transactions,
`ReplaceSegments` and `DeleteAllowedEmail`), and the volume of images, which no
transaction covers. The pages hold copies of what they have read, for hours, and
nothing invalidates them. Requests and answers may be lost, the process may die
between any two steps.

What is hard, and which property looks at it, is the list `hazards` of
`PROJECT.json`; in short: the janitor against saves and uploads; two stores that
fail separately (row and file); checks that are separated from the writes they
guard (quotas, whitelist, hourly cap); times read before a lock; stale copies in
pages; and the order of the partial steps of a login.

## 2. Modules

| module | models | abstracts |
|---|---|---|
| `ImageStore` | uploads, saves of segments, soft deletion, the janitor, crashes, on rows and files | a segment is the image it shows |
| `AccessControl` | whitelist, Google logins, sessions, restarts | a token is unguessable: it is only held by whom it was sent to |
| `Limiter` | one `Limiter` of `httpx/ratelimit.go` | time and tokens are integers in one unit |
| `WheelGeometry` | the angles of `wheel.js` | a turn is `Circle` integer units |
| `PublicWheel` | the two public requests, the draws, the embedded pages | a segment is its content (label and image) |
| `Editor` | the owner's tabs against `GET`, `PATCH`, `PUT` and `DELETE` of a wheel | a list is its length and the edits that made it |
| `Gallery` | what the image library promises: abstract | files, rows, locks, goroutines |
| `Draws` | what a wheel promises its visitors: abstract | statements, lists in pages, reloads, lost messages |
| `Config` | `Load`, and the cookie and headers of an accepted environment | a text is the class `Load` tells apart |
| `Startup` | processes that start, migrate, serve, drain, die and are started again | a migration is its place in the order of names |
| `Service` | `Startup`, and the browser of a visitor: pages, cookie, requests through the chains of the router | a CSRF token is the session it was drawn with |
| `Uid` | UUIDv7: `NewAt`, `Time`, and the order PostgreSQL gives them | the textual form |
| `ImageOrder` | the rows of `ImageStore` under the identifiers of `Uid` | |
| `Text` | `cleanText`, `validText` | a character is its class, in a numbered place |
| `Imaging` | the checks of `Process` and the sides of its output | the pixels |
| `MC...` | the instances for TLC | |
| `ImageStoreProofs`, `AccessControlProofs`, `LimiterProofs`, `WheelGeometryProofs`, `PublicWheelProofs`, `EditorProofs`, `ServiceProofs`, `ValuesProofs` | theorems | |

`PublicWheel` extends `WheelGeometry`: a page that lands uses its `Landing`, and the
property of the pointer its `UnderPointer`. `Service` extends `Startup`, which extends
`Config`: a process starts if its environment is accepted, and a request is handled by
a process that serves. `ImageStore` instantiates
`Gallery`, and `PublicWheel` `Draws`, which they implement.
`ImageOrder` puts `ImageStore`, which numbers images in the order of their identifiers,
and `Uid`, which makes them, together; `Text` and `Imaging` are about values only, and
are proved about without a run.

### ImageStore

`wheel`, `segs`, `row`, `owner` are the tables as committed, `age` is the time since
`created_at`, `file` the volume; `upload`, `save` and `purge` are the goroutines,
with the statement they are about to run. An upload (`api/images.go:67-197`) is
`UploadCount`, `UploadWrite`, `UploadRename`, `CreateImage`, and `UploadFail` or
`UploadUndo` on its failure paths. A save (`ReplaceSegments`) is a transaction:
`SaveBegin` takes the row lock of the wheel, each `SaveInsert` checks the owner of
the image and takes the key-share lock of its row (the foreign key does), and
`SaveCommit` publishes the list. Locks are not variables: who holds one follows
from the progress of the transactions (`WheelLocked`, `KeyShared`), and a wait is a
guard. The purge lists orphans (`PurgeList`, oldest first, limited), then, image by
image, evaluates the condition of its DELETE (`PurgeDelete`), waits for the lock
(`PurgeLock`), sets the references to NULL and commits (`PurgeCommit`) and removes
the file (`PurgeUnlink`, or `UnlinkFails`: nobody tries again,
`api/images.go:269-272`).

PostgreSQL is modelled as READ COMMITTED works: a statement sees what was committed
when it began; a DELETE that waited for a lock re-evaluates its condition only if
the row was *updated* meanwhile, and a key-share lock does not update it. Two
transactions that wait for each other are detected (`PurgeDeadlocked`,
`DeadlockVictim`), and either may be the victim.

### AccessControl

`Start` issues a state and the browser's state cookie. A callback is
`Callback` (cookie against parameter), `ConsumeOAuthState`, `CheckAllowed`,
`UpsertUser`, `CreateSession`, each a committed statement, with `FailLogin` at any of
them. A removal is the transaction `DeleteRow`, `RevokeSessions`, `CommitRemoval`,
with its row locks. `Restart` runs `BootstrapAllowedEmails`. The history variable
`late` collects the sessions that a removal's UPDATE could not see, and `passed` the
accounts and addresses whose callback was past the whitelist lookup while a removal of
the address ran: those the UPDATE finds (`Passing`), and those looked up between it and the
COMMIT (`Closed`). `ExpireState`
and `ExpireSession` are the passing of time; `PurgeExpired` removes only rows that no
lookup accepts any more and is not an action.

### Limiter

`Enter` reads the clock before the lock (`ratelimit.go:63`), `Allow` is the critical
section at any later time up to `MaxDelay`, `Janitor` the periodic purge. One unit
of time restores one unit of tokens and a request costs `Cost` units. The rounding of
float64 is left out. `from` and `spent` are history variables: the start of an
arbitrary window and what each key was granted in it.

### PublicWheel and WheelGeometry

`list` is the committed list of segments with the number of the write that
committed it; `spins` is the table in the order of insertion and `old` how many of
its rows are older than an hour. A request (`visit`) goes through `FindWheel`,
`ReadList` (a load ends there), or `ReadListToSpin`, `CountSpins`, `InsertSpin`; it
can `Break` at any point, before or after it has done its work on the server. A page
goes through `Open`, `Loaded`, `Click`, `Receive`, possibly `Reloaded`, and `Land`.
`GiveUp` is the `catch` and `finally` of `tourner`. Opening the page again is possible at
any time; the requests of the former page go on, and a request is forgotten once
nothing is left of it but an answer to nobody. The audit line of a spin is left out,
and the per-address rate limiter is one of the causes of `Break`.

`Landing` follows `spinTo`: any number of whole turns plus the distance to the
target, which puts the middle of the segment under the pointer; `UnderPointer` reads
back, from how `render` paints the arcs, the segment that is under the pointer. With
`Circle` a multiple of twice the number of segments and of four, all angles are
integers.

### Editor

`row` and `list` are the wheel and its segments, each with the number of the save that
wrote it; a page has its local list, and edits are numbered so that one can tell
whether an edit is in a list. A request is a record that goes through the server's
statements (`GetWheelOwned`, `ListSegments`, `UpdateWheel`, `ReplaceSegments`,
`ReadSaved`, `SoftDeleteWheel`, `UploadImage`) and comes back to a callback of the page
(`Loaded`, `Televerse`, `SendSegments`, `Saved`, `Failure`). The buttons work from `Open`
on, before the first answer, as in `edit.js:333-342`; only `Enregistrer` is disabled
while its own requests run. `Enregistrer` fixes title and publication at the click,
`SendSegments` takes the list when the PATCH has answered. `Break` is a failure on the
server; `Lose` is one that only the page sees, the request going on without it; `Leave` is
the navigation after a deletion, or a tab that is closed. `mixed` is a history variable:
the saves that ran beside another one or ended badly. The index kept by an upload is
modelled (`Televerser`, `Televerse`): an index that is gone loses the image. Since the
editor always sends both fields, the merge of `patchWheel` with the row it has read
leaves no trace; a client that sent one of them could lose another's update.

### Gallery

The library as its users see it: each account has a set of images (`library`), a wheel
is absent, live or deleted and shows a list, and an image that was collected is `gone`.
`Add`, `Create`, `Save`, `Delete` and `Collect` are its steps. `ImageStore` maps `library`
to the committed rows with their published file, `gone` to the deleted rows and `shown`
to the committed lists; every other step, the writing of files, locks, the
janitor's rounds, crashes, is a stutter. What a reader learns from it, and from no
single invariant: an image becomes usable and stops being so in one step,
an image that is gone never comes back, and a list changes by a save, as a
whole, or by the loss of an image that goes at the same moment.

### Draws

The wheel as its visitors see it: each request sees the list of one moment (`seen`), draws
one segment of it once (`spins`), and the page that asked is owed that draw (`owed`) until it
announces it (`shown`), at most once, or drops it. `PublicWheel` maps `seen` to the list
that a request past `ReadListToSpin` holds, and `owed` to the answer on its way to the
page together with what the page has received (`Owed`): the answer, a reload and the
animation are stutters; so are loads, and a page that is opened again drops what it was owed
while its former requests still draw, for nobody. Beyond `AnnouncedIsRecorded` it says that a
request never inserts twice, that a draw is of the list the request read whatever was saved
since, that no draw goes to two pages and none is announced again after a reload.

### Config, Startup and Service

`Accepted` is `Load`, `Cookie` is `setCookie`, `Headers` the two headers of the router
that depend on the configuration. A process (`process[p].pc`) goes `down`, `opening`,
`table`, `reading`, `migrating`, `serving`: `Start`, `Open`, `CreateTable`, `ReadVersions`,
one `Apply` for each file, `Serve`. Each is one statement of `store.go:69-143`; the body
of a file and its version row are one implicit transaction, since they are sent as one
simple query. A process that read the versions before another one applied a file finds
the objects and the row there, fails, and Docker starts it again (`Conflicts`).
`CREATE TABLE IF NOT EXISTS` may fail too when two run it at once (`CreateTableTwice`).
`Stop` is SIGTERM, `Exit` the end of `Shutdown`, whether or not its 20 seconds were
enough, `Die` a death at any point; a process that ends takes its requests with it
(`Cut`). Docker's own delay (10 s, `docker-compose.yml` sets no `stop_grace_period`) is
shorter than those 20 seconds: `Exit` at any time covers both.

The pages of the browser share the cookie (`jar`). `Sent` fixes what a request carries:
the cookie of that moment, the token its page was given, and, for the property, the
account the page displays. `Chain` composes the stages of `api/router.go:103-168` in the
order of each route: the uploads are limited by account after `Resolve`, the others by
address before it. `Resolve` reads the session table once; whether a later revocation
stops a handler that has started is decided by that. `write` stands for every
authenticated route that changes something but the uploads and the logout. The other
readings are left out: they pass the chain of a writing, except that CSRF asks them for no
token (`handlers.go:322-326`), and leave the browser as `/api/me` does. `After` is what the callbacks of the pages make of each answer.
`SignIn` summarises a login, whose statements are `AccessControl`'s; `EndSession` a
removal or an expiry.

### Uid, Text, Imaging

Functions without state. `NewAt` writes octet by octet what `uid.go:48-68` writes, with
the shifts as quotients; `Before` is `memcmp`. `cleanText` is `strings.Map` followed by
`TrimSpace` on classes of characters: the direction marks are those the code lists and the
one it does not (U+061C), and what has no width but is neither a control character nor a
space for Go (U+200B, U+2060) is a class of its own. A text is a function from places to
characters, so that removing some is a restriction, and needs no induction. `Process` takes what a header announces and what a
decoder finds to the sides of the output.

## 3. Runs

| run | instance | shows |
|---|---|---|
| `images_safety` | 3 images, 2 accounts, 1 wheel, 2 uploads, 2 saves, janitor | `LiveImageServed`, `OwnImagesOnly`, `QuotaOvershoot`, `NoStripOutsideRace`; `ListedAsCreated` |
| `images_faults` | 1 image, 2 wheels, 2 saves, 1 upload, 1 fault; fair | `TypeOK`, `RowHasFile`, `NoLeakedFile`, `DeletedWheelFrozen`, `OrphanCollected`, `EverySaveEnds`, `ImplementsGallery` |
| `images_race` (violation) | 1 image, 2 wheels | a DELETE of the janitor strips a live wheel |
| `images_lost_insert` (violation) | the same, an INSERT may commit and report an error | a displayed image without its file |
| `access_safety` | 2 browsers, 2 accounts, 2 states, 2 callbacks, 2 whitelist requests, 2 addresses | `TypeOK`, `LateSessionsOnly`, `OneSessionPerState`, `BrowserBound`, `EscapedHadPassed` |
| `access_removal` (violation) | 1 login against 1 removal | `NoAccessAfterRemoval` fails |
| `access_restart` (violation) | 1 removal, then a restart | `OnlyAccountsAdd` fails |
| `limiter_window` | 3 keys, a table of 2 buckets, 2 callers, 8 units of time | `TypeOK`, `WindowBound`, `TableBounded`, `RefusedByActiveOnly` |
| `public_draws` | 1 page, 2 requests at a time, 3 draws, 2 writes of lists of two and three segments, 1 draw older than an hour; fair | `TypeOK`, `PointerOffOnlyWhenEdited`, `AnnouncedIsRecorded`, `SpinCapOvershoot`, `ButtonComesBack`, `ImplementsDraws` |
| `public_resync` (violation) | 1 page, 1 request, 1 draw | `ReceivedIsAnnounced` fails |
| `editor_tabs` | 2 tabs, 3 requests at a time, 1 edit, 2 saves, lists of up to 2 segments | `TypeOK`, `StoredListComplete`, `SavedKeepsEdits`, `TornOnlyWhenMixed`, `DeletedForGood` |
| `service` | 2 processes, 2 migration files, 4 environments, 2 pages, 2 sessions of 2 accounts, 1 incident; fair | `TypeOK`, `MigratedOnce`, `ReadyToServe`, `WritesAsDisplayed`, `AccountKnown`, `CookieLossExplained`, `EventuallyServes`, `WaitEnds` |

Why the bounds are enough. The races here are between two or three actors over one
object: each instance has every pair of actors the code can bring together, an
object to compete for, and one more object or actor than a property needs to be
violated (a third image for the purge limit, a third key for a full table, a
third draw for a cap of one). `MaxAge` is the first age at which an image is older
than both delays. `MaxFaults` 1 places a crash, a failed deletion or a cancelled
save at every point of a run. `MCOneHour` lets one draw of `public_draws` become old: the cap opens again once.
`MaxDraws`, `MaxEdits`, `MaxTime` cut off behaviours
that only repeat: lists are replaced as a whole, so that a second write already makes
a stale copy, one edit is made before, during or after either of the two saves of
`editor_tabs`, and the limiter's window starts anywhere in the eight units, of which a
bucket takes more than five to be forgotten. A larger fair instance of `ImageStore` (two
images, two wheels, two saves, `PurgeLimit` 2; 635,000 states) was run by hand and
passes. The inductive strengthenings were checked as invariants before they were proved:
those of `ImageStore` also with `"lost"` among the outcomes of an INSERT and with two
faults (8,770,000 states), those of `Editor` also with two edits and lists of three
segments (2,423,000 states), those of `AccessControl` on the instance of `access_safety`
(794,000 states), `IndInv` of `PublicWheelProofs` also with two pages.

The instance of `service`. Two processes and two files are what a race for a migration
needs, with one file left for the loser to find; two pages and two accounts, with a
login of each, are what a stale page needs. One incident is spent anywhere: a stop, a
death, an unanswered query, a lost answer. `MCOneServer` keeps the two halves of the
product apart: the second process runs only while no page is open, and requests
meet the first one in every state of its life, draining and dead included; with
Docker there is one server at a time but for the moment of a deployment. `MCFirstLogin`
opens the first of two interchangeable sessions first (a symmetry, written as a
constraint because the properties are temporal), and `MCLastStays` keeps the second
one to the end: what an end does to the pages, the first one shows. The environments are one that is
accepted and three that `Load` refuses for one reason each. The theorems of
`ServiceProofs` need none of these bounds. The images of `images_safety` are uploaded at the
milliseconds 255, 256 and 257, on both sides of a carry and side by side after one, with the
extreme draws; the theorem has no such limit.

Limits that show in the instances. `CHECK_DEADLOCK FALSE` is in the runs of
`ImageStore`, `Editor` and `Service`, where a system whose images are all deleted, or whose
tabs are all closed, or whose configuration is refused, has nothing left to do. `SYMMETRY` (of uploads and of saves; of browsers, states,
sessions, callbacks and whitelist requests; of tabs and of requests; of keys and of callers) is
used in runs without liveness only. In `service` a process that a deployment replaces while a
page waits is met through deaths and restarts of the first process alone (`MCOneServer`).
`OrphanCollected` needs `PurgeLimit` no smaller than the number of orphans that cannot
go: `ORDER BY id LIMIT 200` always lists the oldest first, and 200 images whose
deletion fails for ever would hide the younger ones.

### Fairness

- A handler that runs goes on (`WF` on `UploadStep`): a goroutine is scheduled and its
  statements return. `Tick` is the clock.
- A save and the janitor's lock waits have `SF`: PostgreSQL queues the waiters of a
  lock, so that one whose lock is free again and again gets it; between two
  attempts another transaction may hold it.
- `PurgeStep` is the janitor's ticker, which fires for as long as the process lives.
- In `PublicWheel` a request is answered or its connection breaks, and the browser
  runs the callbacks of the page and its animation. Nobody is obliged to click, to
  save or to close an announcement.

- In `Service`, `WF` on `BootsOn(p)`: Docker starts again what failed (`restart:
  unless-stopped`) and a start that nothing stops goes on; and `WF` on `Handle(g)`:
  net/http runs a request to its end and a browser gives its page an answer or an
  error. Incidents, clicks and the operator's `StartAgain` are never obliged, so that
  `EventuallyServes` accepts a process that was told to stop.

### Findings

- `images_race`: `store/images.go:128-132` repeats the condition in the DELETE so that an
  image put into service meanwhile survives; under READ COMMITTED it does not when the
  save commits while the DELETE waits for the lock of the row.
- `images_lost_insert`: `api/images.go:173` takes an error of the INSERT for the absence
  of the row.
- `access_removal`: a login in progress opens its session after the removal that
  should have closed all of them. `EscapedHadPassed`, in `access_safety`, says that this race is the
  only way: whoever has access after a removal had a callback past the lookup while it ran.
- `access_restart`: the bootstrap whitelist is applied at every start, not the first.
- `public_resync`: a reload that fails makes `embed.js` drop the announcement of a draw
  that is recorded, against its own comment at line 127.
- Proved rather than run, since `Text` is about values: the comment `validate.go:31-36` says that
  the direction marks are taken out, since they disguise a label. The list at lines 44-47 lacks
  U+061C, which is stored where it was written, and so are the characters without width
  (`UnlistedMarksStay`).

## 4. Proofs

All by induction on steps: an invariant that holds initially and is kept by every
action, and `PTL` for the last step. The constants are arbitrary up to the named
assumptions of the modules.

- `ImageStoreProofs`. `TypeCorrect` first; the others use it.
  `ImagesStayWithOwner`: `OwnImagesOnly` speaks of committed lists only and is not
  inductive; `RefsInv` adds that the references of open transactions are usable too
  and that the janitor never holds a row that an open save has locked, which is what
  keeps a checked image from going away before the commit.
  `RowsHaveFiles` (with `"lost" \notin InsertOutcomes`, the condition the finding above is
  about): `FilesInv` adds that two uploads never handle the same image and that the
  janitor removes the file of a deleted row only. `LiveImagesServed` combines the two.
  `StripsOnlyInRace` and `DeletedWheelsStayFrozen` are action properties, from
  `RacedInv` (the wheels that reference the image the janitor deletes were
  saved since its snapshot) and `WheelsInv` (an open save holds a live wheel).
  `FilesAccounted` (`NoLeakedFile`) needs no proviso on `InsertOutcomes`: `HoldInv` says what an
  upload holds (its own image, a pending row, a published file once renamed), so that an
  error path always knows what to undo, and the janitor's file follows from its row.
  `QuotaOvershootBounded`: the images charged to an account and its uploads that have passed
  the check stay together below the quota and the other uploads (`QuotaInv`, a count over the
  finite set of `UploadersAssumption`); `AgedInv` is why no purge makes room in the count.
- `AccessControlProofs`. `RemovalClosesSessions`: `RemovalInv` follows an open removal
  from its UPDATE on: each session of the address is a victim or late.
  `RemovalMissesPassedOnly`: `EscapeInv` says what `EscapedHadPassed` leaves out, the time before the
  COMMIT: from its UPDATE on, a removal has locked each valid session of the address or has
  met a callback of its account, and every callback that bears the address, as its own or as
  that of its account (`Bears`), was met; no other removal has the row meanwhile (`RowInv`).
  A history of the callbacks by their own address alone would not do: an account may
  change its address between two callbacks, and TLC finds the 17 steps.
  `StatesAreSingleUse`: `StatesInv` gives each login past `ConsumeOAuthState` the
  exclusive hold of its state. `LoginsStayInTheirBrowser`: `BrowserInv`.
- `LimiterProofs`. `WindowsBounded`: `PaidInv` is the account of a key, what it was
  granted plus what it holds against burst and refills; it needs `IdleAssumption`
  (a bucket is forgotten only after the time it takes to fill), which the six
  limiters of `api/router.go:73-78` satisfy. `TableStaysBounded` counts the table.
  `RefusalsAreJustified`, an action property: a caller is refused for want of room only by
  a table full of keys that were used since it read its clock, less the idle time.
- `WheelGeometryProofs`. `LandsUnderPointer`: `UnderPointer` undoes `Landing`. The
  rotation at which a spin stops differs from the target by whole turns, so that the
  distance from the pointer is index arcs and half an arc, which the division by the
  arc takes back. It needs `CircleAssumption`: arcs and half arcs are whole units.
- `PublicWheelProofs`. One invariant, `IndInv`, for all of it, since even the types
  depend on the protocol: a page that turns has a list only because its reload answered
  with a list at least as new as the draw. `RequestsInv`: a page waits for one request,
  of the kind its state says, so that no answer reaches the wrong callback.
  `VersionsInv` and `PointerInv` follow a draw from the list it came from to the list
  that turns: the same save, with the same content at the index, or a later one.
  `RecordedInv`: what is on its way to a page is in the table. `CapInv` counts with the
  recent draws the requests that have passed the check. Every step of a page is an
  instance of one lemma (`PageStepKeeps`), every step of a request but the draw of
  another (`QuietKeeps`). `PointerRight` meets `LandsUnderPointer` in `LandKeeps`.

- `ServiceProofs`. `StartInv` is about the processes: a process that migrates knows every
  file that is not recorded (`ProcessInv`), which is why the smallest name it has left is the
  next one for the database too, and why one that has none left may serve. The requests
  never disturb it (`StartUndisturbed`). `BrowserInv` is about one request at a time
  (`RequestOk`, `CookieOk`): its token came with the account of its page, what passed its
  chain has the account of its token, and a request that clears a cookie came with one
  whose session is over. Sessions only advance (`Advanced`), so that all of this
  survives what other requests do; the stages of the chains are one lemma each and
  `ChainIs` composes them. `AcceptedIsSound` is about `Load` alone, for every environment,
  and gives `ServingIsReady` its second half.
- `ValuesProofs`. `IdsFollowClock`: the octets of a time are the digits of its quotients
  (`Octets`), two times differ first at the octet where their quotients do (`Ordered`),
  and the digits give the time back (`RoundTrip`); it assumes that the clock fits 48 bits,
  and gives `ListsFollowUploads`. `StoredTextsComeBack`: a mapped text maps to itself, and a
  trimmed one trims to itself, since what is seen of it is what was seen before.
  `UnlistedMarksStay`: what the mapping leaves and is no space, the trimming leaves too.
  `ProcessedWellSized`: the output of `Process` has sides that the table accepts.
- `LibraryImplementsGallery` (in `ImageStoreProofs`): `TypeOK`, `RefsInv` and `FilesInv` are the
  invariants under which each step of `ImageStore` maps to one of `Gallery` or to none,
  with the same proviso on `InsertOutcomes`.
- `WheelImplementsDraws` (in `PublicWheelProofs`), under `IndInv`: `Alone` gives a page one request
  at most, so that what it is owed (`Owed`) has one place; a step of a request is
  `QuietDraws` or `InsertDraws`, a step of a page an instance of `PageDraws`, which says when it
  is a stutter, `Drop` or `Announce`.
- `EditorProofs`. One invariant, `EditorInv`. `SavesInv`: two saves that run together, and one
  whose page is gone, are mixed, so that at most one save at a time is clean. `CleanSaves` says how
  far the clean one has come and what the tables hold by then, which gives
  `AnswersKeepEdits`; `TornInv` puts it between the title and the segments, which gives
  `TornSavesAreMixed`. `EditsReserved` keeps the numbers of edits in their type while uploads
  are under way. Every step is first described by its effects (`Effects`, `StepEffects`): all but
  four leave the tables and the place of the clean save alone, and only those four, the
  title, the segments, the reading back and the PUT sent after the PATCH, are treated one by one.
  `DeletedWheelsStay` is an action property.

Only model-checked: liveness (`OrphanCollected`, `EverySaveEnds`,
`ButtonComesBack`, `EventuallyServes`, `WaitEnds`): fairness and ENABLED are out of the
prover's reach. Every other property of a passing run is a theorem.

## 5. Not modelled

- `auth/google.go`: an exchange with an external service; `AccessControl` takes its outcome
  (an address or a refusal) as an input of the callback.
- `store/audit.go`: an INSERT after the effect, whose error is logged and ignored, and which
  nothing reads back. A crash or a cancelled request between the two loses the line,
  although `README.md:202` of the repository promises one for each action.
- `logging/logging.go`, request identifiers and access log: output.
- Security headers other than the two of `Config`, body limits, static files, the health
  probe: they keep no state and decide on the request alone.
- The textual form of identifiers, colours, addresses and the strictness of the JSON
  decoder: formats, with unit tests of their own.
- Drawing, confetti and the contents of the lists in the pages; the pixels of an image.

## 6. Plan

1. Done: `ImageStore`, `AccessControl`, `Limiter`, `PublicWheel`, in that order, for they
   hold the concurrency that matters most; theorems for all of them.
2. Done: `Editor`, the tabs of an owner against the owner's requests.
3. Done: `Gallery` and the refinement; `Config`, `Startup` and `Service` with their theorems;
   `Uid`, `Text` and `Imaging`.
4. Done: the properties of `Editor`; `NoLeakedFile`, `QuotaOvershoot` and `RefusedByActiveOnly`;
   `Draws`, and `PublicWheel` shown to implement it.
5. Still worth having: an abstract specification of what a session promises (who is logged
   in, and until when), and `AccessControl` shown to implement it.

# A verification project for the C-Gate server container

The repository packages C-Gate, a closed-source home-automation server, in a
container and puts a bridge of its own beside it: `src/web/main.go`, a Go
program that keeps one command connection to C-Gate, streams its two event
ports to browsers, answers health probes, and lets a user list, download and
replace C-Gate's project databases. This directory holds TLA+ models of that
program, the TLC configurations that check them, and proofs that TLAPS checks.

File and line references are to `src/web/main.go` unless another file is named.

## 1. The system

### Parts, their state and their operations

| Part | Code | State | Operations |
|------|------|-------|------------|
| Command session | 184-341 | `s.mu`, `s.conn`, `s.reader`, the atomic `commandUp` | `connect`, `drop`, `maintain`, `send`, `sendWithin` |
| `/cgate` handler | 343-376 | none | one `send`, then broadcasts of the command and its lines |
| WebSocket hub | 63-98, 1189-1199 | `h.clients` under a `sync.RWMutex`; one handler per browser | `add`, `remove`, `broadcast`, `handleWS` |
| Streams | 112-182 | two connections, `eventStreamUp`, `statusStreamUp` | `dialCGateForever`, `streamPort` |
| Health and readiness | 1201-1242 | none (reads the three flags) | `handleHealth`, `handleReady`, `writeStatus` |
| Project uploads | 928-1153 | the project's place on disk, `.bak` beside it, staging directories and temporary files | `handleTagUpload`, `uploadDatabase`, `uploadArchive` |
| C-Gate commands of an upload | 568-605, 1155-1187 | abandoned goroutines | `cgateRun`, `cgateTry`, `cgateProject`, `closeInCGate`, `openInCGate`, `loadInCGate` |
| Archives | 742-925 | the staging directory | `sniff`, `entryPath`, `writeEntry`, `unpackZip`, `unpackTar`, `projectInArchive` |
| Active project and list | 426-556, 618-624 | `activeCached` under `activeMu` | `activeProject`, `projectFromUseReply`, `listProjects`, `handleTagList` |
| Downloads | 626-738 | none | `handleTagDownload`, `handleTagArchive` |
| Browser console | `src/web/console.html` | a WebSocket, a history | commands, the backup button (save, then download) |
| Supervisor | `src/entrypoint.sh` | none | restarts the bridge two seconds after it dies |
| Image | `src/Dockerfile` 20-118 | none | chooses the C-Gate distribution at build time |
| C-Gate | not in source form | projects in memory, four TCP ports | the environment of everything above |

How they interact. Every HTTP handler and every `cgateRun` goroutine shares the
one command session through `s.mu`, and so does `maintain`, its heartbeat
included. `commandUp` is written with the mutex held and read without it by
`maintain`, by `cgateRun` and by the probes. Streams and `/cgate` handlers share
the hub. An upload sends PROJECT commands through the session between its steps
on the disk, which C-Gate reads and writes too. C-Gate's death closes the
session and both streams at once; the bridge's death forgets the session, the
streams and every upload under way, and leaves the disk and C-Gate as they are.

### What is hard, and what must hold

* *Session.* Senders wait for one mutex under which one of them may dial for
  five seconds and drain a banner for two. Replies carry no identity: whose line
  it is follows only from the order on the connection. Deadlines cut replies
  short and a failed write is retried, a failed read is not. It must hold that a
  command reaches C-Gate at most once and not after its caller was refused, that
  a reply belongs to its command, that the flag tells the truth, that nobody
  waits out an outage, and that the session comes back by itself.
* *Hub.* Any number of goroutines may find a client dead while others write to
  it. Nothing may be written to a client after it is closed, it is closed once,
  nobody is left in the map for good, and a broadcast ends.
* *Streams and probes.* Three flags, loaded one at a time, written by others.
  A 200 must have been earned, and the probes must follow C-Gate up and down.
* *Uploads.* Two renames that can fail or be cut off by a crash, with C-Gate
  holding the same files, commands that may be skipped, refused, or run long
  after the handler gave up on them, and no mutual exclusion between uploads. A
  complete copy must survive everything, a failure must restore what was there,
  a success must be what C-Gate serves.
* *Archives.* Entry names that climb out, budgets at their limit, and the name
  of the project taken from what was unpacked. What is accepted must be exactly
  what can be a project, installed as it came, and nothing may be written beside
  the staging directory or above the limit.
* *Active project.* A cache that is never dropped, a mutex held across a query
  of C-Gate, and a time limit outside the session's own. All answers must agree,
  failures must not be cached, a listing must be answered whatever C-Gate does.
* *Downloads and listings.* They look at a disk that uploads change between any
  two looks. What they hand out must be one version, and whole.

`PROJECT.json` lists the hazards with their lines, and for each the properties
that would catch it or the reason why none does.

## 2. The modules

| Module | Models | Abstracted |
|--------|--------|------------|
| `CommandService` | what `send` promises a caller | connection, mutex, reconnects |
| `CommandSession` | the session, its callers, `maintain`, C-Gate on the command port | contents of commands; times |
| `CommandSessionProofs` | theorems about `CommandSession` | |
| `Bridge` | `CommandSession`, both streams and the probes over one C-Gate | contents of lines |
| `BridgeProofs` | theorems about `Bridge` | |
| `WsHub` | the hub, its RWMutex, the handlers, the browsers | contents of messages |
| `WsHubProofs` | theorems about `WsHub` | |
| `ProjectStore` | what an upload promises about the copies of a project | staging, renames, C-Gate, the bridge's death |
| `ProjectUpload` | uploads, the disk, the PROJECT commands, C-Gate's memory | contents of projects, file names |
| `ProjectUploadProofs` | theorems about `ProjectUpload` | |
| `ProjectReads` | `ProjectUpload`, and downloads and listings beside it | contents of files, the zip format |
| `ProjectReadsProofs` | theorems about `ProjectReads` | |
| `ActiveProject` | `CommandSession` with a clock, and the calls of `activeProject` through `cgateRun` | text of the replies |
| `ActiveProjectProofs` | theorems about `ActiveProject` | |
| `Archive` | unpacking, the choice of the name, and the way back out | contents of files, the formats |
| `ArchiveLemmas` | what the operators of `Archive` compute, proved | |
| `ArchiveProofs` | theorems about `Archive` | |
| `MC...` | the instances TLC checks | |

Operators named "Mutant of X" stand in front of the action X. They are plausible
mistakes, used in no specification: substituting one for X must make TLC refute
the property that `PROJECT.json` pairs it with.

### CommandSession

A step is what the code does between two points where another goroutine or
C-Gate can come in. A caller is a request (one `send`) or the maintainer;
`pc[c]` is where it is: waiting in `s.mu.Lock` (`lock`, or `relock` for the
rebuild), in `dialCGate` (`dial`), in the banner loop (`drain`), before
`Fprintf` (`write`), in the read loop (`read`). `site` tells the two calls of
`connect` in `sendWithin` and the one in `maintain` apart. `conn` is `s.conn`,
with "closed" for a connection whose far end is gone, which the bridge does not
know until it reads or writes.

C-Gate is a queue: `pending` holds the banner and the commands it has yet to
answer, in order, and `inbox` the lines that wait in the socket or in
`s.reader`. A line remembers whose command it answers and whether it is the last
(no dash after the code, 332-335). While C-Gate is "up" it answers before the
deadlines; "hung" is C-Gate slower than a deadline, and `Resume` lets the late
lines come. `Crash` closes the connection and may let the lines on their way
arrive or not; a write into a closed connection may succeed or fail
(`WriteIsLost`, `WriteFails`), as TCP has it.

`outcome`, `answer`, `delivered` and `skewed` are history. `skewed` marks a
connection on which the code went on although lines of an earlier command (or
the banner) may still come.

`CommandService` is the same without any of this: `Ask`, at most one `Deliver`,
`Answer`, where a dial or write error excludes a delivery and nothing is
delivered after the answer. `RefinesService` maps it with
`asked <- {r : pc[r] # "idle"}`.

### Bridge

`Bridge` extends `CommandSession` with the two goroutines of `streamPort`, one
`stage` each, and one probe at a time, which loads one flag per step as
`handleReady` (with its short-circuit) and `writeStatus` do. `SessionStep` is
any step of `CommandSession`; if in it C-Gate dies, both streams lose their
connection in the same step. `earned` is history: the flags that were up at some
time since the readiness probe came in.

### WsHub

The `sync.RWMutex` is the one of Go: a writer first announces itself and then
waits for the readers, readers that come later queue, and its unlock lets them
in before the next writer (`Announce`, `Exclusive`, `Unlock`). `broadcast` is
`Broadcast` (RLock), `WriteTo`, `WriteSucceeds` or `WriteFails` per client and
`Sent` (RUnlock); a failed write adds a goroutine to `removers`. `remove` is the
part under the lock (`Remove`) and `ws.Close` after it (`Close`). A browser
reads, stalls (writes to it block) or is gone (reads and writes fail).

### ProjectUpload

A behaviour has uploads of one project and one kind: a directory or its
database file. `dest` and `backup` are what is at the project's place and at its
`.bak`; a version is the upload it came from, so "the disk holds what was
uploaded" can be said. Each `os` call from the swap on is a step that may fail,
`os.Stat` included: the code takes any error of it for an empty place, so the
upload goes on without a backup (`StatDest`, and `blind` in the history), fails
on a directory and replaces a file. Each PROJECT
command is a step that C-Gate answers, never gets, or runs late (`Sends`,
`RunsLate`). C-Gate holds the project closed, stopped or running, with the
version it loaded. `Lossy` admits behaviours in which commands are lost,
`Serial` restricts to one upload at a time, and `Save` is an operator's
`project save`. `Crash` is the bridge dying and `entrypoint.sh` starting it
again. A rename onto a directory that exists fails, one onto a file replaces it;
a `RemoveAll` that fails or is cut off leaves the directory `Torn`.

`ProjectStore` has two copies, the newest and the one kept behind it, and an
upload that replaces the newest in one step (`Swap`), at most once and never after
its answer. What it replaces becomes the copy behind (`kept` are the swaps that
report so), unless the upload failed to see that there was something to replace
(`Overlook`, `unseen`), and then it must not report a backup. An upload that has not come
to that may cost the copy behind (`DropSpare`; the code removes the old backup
before the swap, and a failed upload does not bring it back), never the newest.
`RefinesStore` maps it with `newest <- Newest`: what is at the project's place or,
while that is empty between the two renames, what is in the backup; `unseen` is
`blind`, and `kept` the installed uploads whose `backedUp` is set.

### ProjectReads

`ProjectReads` extends `ProjectUpload` with one reader at a time: readers change
nothing, so they cannot see each other. A reader is a request of
`handleTagDownload`, `handleTagArchive` or one directory of `listProjects`
(`ask`), and takes one step per call that looks at the disk (`at`): `os.Open`,
`os.Stat`, the `ReadDir` of a walk, the visit of a file, its `Open` and copy.
`Files` and `VersionOf` say what is there at that moment; `got` is what has been
read so far, with its version. Between two looks anything of `ProjectUpload` may
happen (`Others`). `cut` and `central` are the end of a zip: whether the walk
ended in an error, and whether the deferred `zw.Close` wrote its directory.
`met` and `stirred` are history: what was in place during the request, and
whether the disk changed at all.

### ActiveProject

`ActiveProject` extends `CommandSession`, whose requests become the calls of
`activeProject`: `call` is where the handler is (before `activeMu`, or in the
`select` of `cgateRun`) and `pc` where the goroutine is that `cgateRun` starts.
`done` is the buffered channel. Time is counted: `timer` is what the holder of
the session has left of a dial, a drain or a read, and `patience` what the
handler has left before `time.After` fires. The steps of the session are those of
`CommandSession`, restricted by the clock (`InTime`): a dial that hangs, a drain
and a read end in failure only when their time is over. Time passes (`Second`)
only when every goroutine waits for the network, a mutex or the clock (`Quiet`).
`Use` puts another project in use in C-Gate, `told` is the name a reply carries.
`hindered` and `well` are history: whether a call had to wait for the session, to
dial or to read several lines; and whether the session was in order throughout.

### Archive

An archive is a sequence of entries, each a kind, a path as a sequence of parts
and a size. One step is one turn of the loop of `unpackZip` or `unpackTar`
(`Skip`, `WriteEntry` and the refusals), and then the choice of the name
(`Accept`, `RefuseName`). `Clean` is `path.Clean`, one part after the other
(`Take`), `EntryPath` is `entryPath` with its two tests, `staging` maps the paths that exist to their sizes. The
reference (`Climbs`, `Lands`, `Unpackable`, `Installs`) reads the same off the
list of entries at once, by counting the parts that go up and down, without a
stack, a budget or an order. `Downloads` is what `handleTagArchive` makes of the
installed files, as an archive again. The code lists the files in the order of
the walk; the model takes every order, since nothing here depends on it.

## 3. The runs

| Run | Bounds | Shows |
|-----|--------|-------|
| `session` | 2 requests and `maintain`, 3 faults, 1 continuation line | `TypeOK`, `FlagTellsSession`, `AtMostOnce`, `ReplyIsOwed`, `CleanConnectionAnswersOwn`, `RefinesService`, `RequestsAnswered`, `Recovers` |
| `bridge` | no request (an idle console), `maintain`, 2 streams, 1 fault | `BridgeTypeOK`, `ReadyIsEarned`, `BecomesReady`, `OutageShows` |
| `hub` | 2 browsers, 2 broadcasters with 1 line each, 1 stall | `TypeOK`, `NoWriteAfterClose`, `ClosedOnce`, `RegisteredIsWatched`, `BroadcastEnds`, `GoneIsClosed` |
| `commands` | 2 calls and `maintain`, 2 projects, 1 fault, 1 load, 1 continuation line, scaled time limits | `CallsTypeOK`, `AnswersAgree`, `GivingUpIsEarned`, `NamedWhenHealthy`, `CallsEnd` |
| `projects` | 3 uploads in turn, either kind, 2 disk faults, 1 crash, 1 save, a reader at any time, uploads symmetric | `BackupIsPrevious`, `HeldIsOnDisk`, `RefinesStore`, `AnsweredSwapsReleasedProject`, `FailureKeepsProject`, `SuccessServesUpload`, `ReadsTypeOK`, `DownloadIsOneVersion`, `ArchiveIsWhole`, `ListingIsEarned` |
| `archive` | all archives of up to 3 entries out of 24, limits of 2 bytes and 3 entries, every name in the form | `TypeOK`, `InsideStaging`, `DiskIsBounded`, `AcceptedExactly`, `UnpacksWhatItHolds`, `AcceptedIsProject`, `GoesStraightBackIn` |
| `session_replies`, `hub_stall`, `giving_up`, `upload_swap`, `upload_concurrent`, `download_opens` | the smallest that reach it | one disagreement each, section 5 |

Why the bounds suffice. In the session two senders and the maintainer give every
pair of callers that can meet at the mutex, and three faults allow a crash that a
sender finds in its write, a second one under its resend and a hang in between.
One continuation line is enough to cut a reply short in its middle. In `bridge`
one fault takes C-Gate from up to down (and back) or from up to hung; that the
session under load behaves is the matter of the session's own runs. In `hub` one
broadcaster can write to a client that the other has just found dead while its
handler removes it, and a writer can wait behind the one and before the other.
In `projects` the third upload meets what a crash in the first and a failure
in the second have left, two faults are a failed step and its failed rollback,
and one reader can see the states before, between and after the two renames of
one upload and of the next. `LossyReads` is FALSE there: reads are made only in
the behaviours that lose no C-Gate command, which keeps the run small. To a
reader a lost command shows at most as a save that puts an old version back, and
the theorems on the readers hold with it. In `commands` a dial takes 2, the
drain 1, a read 2 and the grace 2 units: with these, as with the real 5, 2, 5
and 5 seconds, one read ends before the caller gives up and a wait of a read
before it, or two reads, need not; `giving_up` runs with the real numbers, and
the theorems hold for any. In `archive` the sizes 0 to 3 lie below, at and above
the limit of 2, three entries are a file, one over it or in its way and one after
it, and one more than three are too many.
The theorems of section 4 hold without these bounds.

Deadlock is checked in the runs of the session, of `Bridge` and of
`ActiveProject`. In `WsHub` the lines and stalls are used up, in `ProjectUpload`
and `ProjectReads` the uploads, and an archive is done with once it is accepted
or refused: there a system at rest is no error, and deadlock is not checked.

### Fairness, and what justifies it

* Goroutines are scheduled, and every dial and read in the session has a
  deadline: weak fairness of `Step`, and of the polls of `maintain`.
* A `sync.Mutex` hands itself to a waiter that has starved for a millisecond:
  strong fairness of `Acquire` and `BeginRebuild`. The hub's writers queue on the
  mutex inside the `RWMutex`: strong fairness of `Announce`.
* C-Gate sends the next line while it is up (`Emit`). That it hangs, resumes,
  dies or starts is not promised: the liveness properties say what follows *if*
  it stays up or stays down, or hold whatever it does (`RequestsAnswered`).
* In `Bridge` a connection that is gone has finitely many lines left (strong
  fairness of `ScanEnds`) and the hub's broadcasts end, which is `BroadcastEnds`
  of `WsHub`. That probes come is not promised.
* In `ActiveProject` weak fairness is enough for everything, mutexes included:
  `maintain` sleeps before it takes the session again, and each call takes it
  once, so nobody is overtaken forever. Time passes when all wait.
* `StallsEnd`, only in run `hub`: a browser that stalls reads on or its TCP
  connection is given up. `hub_stall` drops it.

## 4. The theorems

All of them hold for every value of the constants that the named assumptions
admit: any number of requests, faults, continuation lines, clients, broadcasters.

`CommandSessionProofs`. The properties are not inductive by themselves. That the
flag agrees with the connection when the mutex is free needs to know where both
stand at each stage of the holder (`FlagInv`), which needs that the stages inside
the mutex are those of its one holder (`MutexInv`), and that only the maintainer
rebuilds (`SiteInv`), since a rebuild ends where a send goes on. At-most-once
needs what is settled about a request at each stage (`DeliveryInv`), and that a
reply read so far belongs to this call (`FreshReplyInv`). That a clean connection
answers with the caller's own lines needs that nothing is in flight between two
commands and exactly one reply during one, its last line at its end (`CleanInv`,
`LinkInv`). `IInv` is their conjunction; one lemma per conjunct proves that every
step preserves it, one step of the proof per action. From it follow

| Theorem | Property |
|---------|----------|
| `TypeCorrect` | `TypeOK` |
| `FlagIsTruthful` | `FlagTellsSession` |
| `DeliveredAtMostOnce` | `AtMostOnce` |
| `ReplyAlwaysOwed` | `ReplyIsOwed` |
| `CleanAnswers` | `CleanConnectionAnswersOwn` |
| `Refinement` | `RefinesService`: every step maps to a step of `CommandService` or a stutter |

`BridgeProofs`. `ReadyEarned` proves `ReadyIsEarned` from `ProbeInv`: while
`handleReady` has found no flag down, those it has loaded are earned. It does not
depend on the session, so it holds beside any number of requests.
`SessionIsUndisturbed` proves that every step of `Bridge` is a step of
`CommandSession` or a stutter, so that all theorems above hold in `Bridge`, and
`BridgeTypeCorrect` adds the types of the streams and probes (`BridgeTypeOK`).

`WsHubProofs`. A broadcast only has clients of the map before it, because the
read lock keeps writers out while it loops (`RangeInv`, `AloneInside`), and
nothing in the map is closed or about to be (`OpenInv`), because only the
goroutine that takes a client out of the map closes it. That a client is added
before anything else happens to it (`FreshInv`, `SlotInv`) completes the
induction.

| Theorem | Property |
|---------|----------|
| `TypeCorrect` | `TypeOK` |
| `WritesOnlyToOpen` | `NoWriteAfterClose` |
| `ClosesOnce` | `ClosedOnce` |
| `NobodyIsForgotten` | `RegisteredIsWatched` |

`ProjectUploadProofs`. Type correctness holds for uploads at the same time. The
others assume `Serial`, one upload at a time, and `upload_concurrent` shows that
some of them fail without it; the code does not enforce it. Under it the disk
stands fixed at each stage of the one upload (`StageInv`, with `AloneInv` and
`WholeInv`: something is in place before the second rename only if `os.Stat`
failed over it, and then nothing was moved), so does what C-Gate holds as long as it answers (`AnswerInv`), and
the version an upload found is in the backup if it was moved there, and
otherwise in its place, until the upload's own is installed (`KeepInv`). That the uploads implement `ProjectStore` needs in
addition, in `CopiesInv`: what is staged is so until it is installed, and no upload
is answered before (`DecidedInv`); a backup is torn only behind a project in place,
so that an empty place never hides a torn copy (`TornInv`); and what is on disk or
in C-Gate's memory was there at first or was swapped in, so that a save brings
back no version that never was the newest (`OriginInv`). One lemma per kind of
step then shows which step of `ProjectStore` it is.

| Theorem | Property |
|---------|----------|
| `TypeCorrect` | `TypeOK` (in `ReadsTypeOK`) |
| `BackupHolds` | `BackupIsPrevious` |
| `Refinement` | `RefinesStore`: whatever `os` call fails, `os.Stat` included, every step maps to a step of `ProjectStore` or a stutter |
| `NothingIsLost` | `NeverLost`, which `RefinesStore` entails: no step of `ProjectStore` makes the newest copy disappear |
| `SwapsAreSafe` | `AnsweredSwapsReleasedProject` |
| `FailuresRollBack` | `FailureKeepsProject` |
| `SuccessesServe` | `SuccessServesUpload` |
| `HeldStaysOnDisk` | `HeldIsOnDisk` |

`ProjectReadsProofs`. A reader's step leaves the uploads alone
(`UploadsAreUndisturbed`), so the invariant of `ProjectUpload` holds beside it
and says that what is in place is a version or nothing. For the reader itself,
what is in place belongs to its history (`MetInv`) and what it took from there
was in place (`SourceInv`); on a disk left alone the files read, being read and
still to be read are the directory (`QuietInv`); and while one version stays in
place, none of its own files is missed (`SameInv`). Like the theorems on uploads
these need uploads one at a time (`ReadsAreOfSerialUploads`).

| Theorem | Property |
|---------|----------|
| `ReadsTypeCorrect` | `ReadsTypeOK` |
| `DownloadsAreSound` | `DownloadIsOneVersion` |
| `ArchivesAreWhole` | `ArchiveIsWhole` |
| `ListingsAreEarned` | `ListingIsEarned` |

`ActiveProjectProofs`. The calls move the session by its own steps only
(`SessionServesCalls`), so `IInv` of the session holds beneath them. Names agree
because only the holder of `activeMu` caches one and finds none there
(`CacheInv`). An unhindered call that reads has more patience left than the read
has time (`PatienceInv`): both clocks run together, and neither runs while the
goroutine could act. For a call whose session is in order no time passes at all
(`NoTimePasses`, from `ReplyIsOwed`), so it is not given up, and the reply it reads
is its own (`CleanInv`) and names a project (`WellInv`).

| Theorem | Property |
|---------|----------|
| `CallsTypeCorrect` | `CallsTypeOK` |
| `OneNameOnly` | `AnswersAgree` |
| `AbandonedWereHindered` | `GivingUpIsEarned` |
| `HealthyCallsAreNamed` | `NamedWhenHealthy` |

`ArchiveLemmas` and `ArchiveProofs`. All of what `archive` checks, for archives
and paths of any length and any limits. The difficulty is that the model says
these things twice, and both sides are data: `Clean` folds over the parts of a
path and the reference counts them; the loop adds up sizes and the reference sums
over sets of entries. The library's induction theorems take an operator as their
hypothesis, which the provers cannot instantiate, so `ArchiveLemmas` first states
induction for the members of a set (`NatSetInduction`, `SubsetInduction`, both
from well-foundedness of the naturals and from facts on finite sets), and uses
it as follows.

* A recursion that takes one element after the other out of a finite set has one
  solution (`FoldExists`, `FoldUnique`). The folds of the community modules are
  such recursions: hence a sum is a natural, does not depend on the order
  (`SumTakes`), grows with its set (`SumOfPart`) and does not change when its
  elements are renamed (`SumRenamed`); and `Clean` is the last of the paths that
  `Take` makes one part after the other (`CleanRuns`).
* After any number of parts, `Clean` has one ".." for each part that has climbed
  out and then the parts that nothing after them takes away (`CleanBuilds`):
  the balance of parts down and parts up since a kept part is its height on the
  stack. So `EntryPath` skips, refuses and writes what the reference says, and to
  the path that it says (`EntryPathRead`).

The invariant (`Holding`) is `Frame` and `Loop`. `Frame` speaks of the staging
directory alone: its files lie below it (`StagedInv`), none where another needs a
directory (`FlatInv`), they hold no more bytes than were counted, but for the one
byte that shows the limit is exceeded (`BytesInv`), and are no more than the
entries read (`CountInv`, without which no limit on the entries of a download
follows). `Loop` relates it to the reference: what is counted is the sum over the
entries before the next, they can all be unpacked, and the files are the last of
their entries for each path (`LoopInv`, with `TarInv` and `DoneInv` for the two
places where the number of entries is checked). None of the properties is
inductive without these: a refusal is exact only because all that was accepted
before it was read as the reference reads it. The rename of the generic database
leaves one database because different projects have different database names. A
download holds the kept files in some order; that it is accepted again needs that
paths without ".." are clean (`CleanKeeps`) and that a sum over files is the sum
over the entries that stand for them.

| Theorem | Property |
|---------|----------|
| `TypeCorrect` | `TypeOK` |
| `WritesBelowStaging` | `InsideStaging` |
| `BoundsTheDisk` | `DiskIsBounded` |
| `AcceptsExactly` | `AcceptedExactly` |
| `UnpacksAll` | `UnpacksWhatItHolds` |
| `InstallsProjects` | `AcceptedIsProject` |
| `DownloadsGoBack` | `GoesStraightBackIn` |

Assumptions: `CallersDistinct`, `BoundsAreNaturals` of `CommandSession`,
`NoValuesAreDistinct`, `BoundsAreNaturals` of `WsHub`, `ValuesAreDistinct`,
`SettingsAreBooleans`, `BoundsAreNaturals` of `ProjectUpload`,
`LossyReadsIsBoolean`, `NamesAreDistinct`, `ReadsAreOfSerialUploads` of
`ProjectReads`, `NoNameIsNoProject`, `LimitsAreNaturals` of `ActiveProject`,
`PartsAreDistinct`, `NamesAreDistinct`, `DatabasesAreNoBackups`,
`ArchivesHoldEntries`, `LimitsAreNaturals` of `Archive`. TLC evaluates them in every run of those modules.

Only model-checked: the liveness properties `RequestsAnswered`, `Recovers`,
`BecomesReady`, `OutageShows`, `BroadcastEnds`, `GoneIsClosed` and `CallsEnd`,
because liveness under fairness and ENABLED are beyond the prover. Every safety
property of a passing run is a theorem. Those on uploads and readers are theorems
of uploads one at a time, as in their run.

## 5. Where the code and its words part

* `session_replies`: a banner later than the drain's two seconds, or the rest of
  a reply that was cut short, is taken for the reply to the next command, and
  from then on every reply is one command late, while the console shows "the
  response" (`README.md` 32). `CleanConnectionAnswersOwn` says that there is no
  other way to get there.
* `hub_stall`: one browser that stops reading stops the streams of all.
* `giving_up`: `cgateRun` gives up on a command that has the session. "The
  session's own deadline should fire first" (593) holds for a call that nothing
  hinders (`GivingUpIsEarned`), not for one that waited, dialled, or reads a reply
  of several lines.
* `upload_swap`: without an answer to PROJECT LIST, or with STOP or CLOSE
  failing, the files are swapped under a project C-Gate holds.
* `upload_concurrent`: of two uploads of one project at a time one can destroy
  the backup the other has just made and reports.
* `download_opens`: an archive whose walk was cut ends in a central directory all
  the same, so it opens and lacks files, while 695-696 says it will not open.

Met on the way, and not worth a run each:

* `maintain` reads `commandUp` before it takes the mutex: a session that a
  sender has rebuilt in between is dropped and rebuilt once more.
* `/ready` loads the flags twice: it can answer 200 with a body that says
  degraded.
* An error of `os.Stat` that does not say that the file is missing (1006, 1118)
  counts as nothing in place. An archive upload then fails on the directory that
  is there and leaves it. A database upload replaces the file without keeping
  it, although "the previous database is kept alongside as `<project>.db.bak`"
  (962), and answers `backup=false`; a backup of an earlier version stays where
  it was. `RefinesStore` has this as `Overlook`: it is the only way to replace a
  copy without keeping it, and the upload never reports that it kept one.
* An upload that fails after closing the project leaves it closed in C-Gate. One
  that fails after it has removed the old backup, or moved the project and back,
  leaves no backup behind.
* An archive whose unpacked files are exactly `maxUnpackedBytes` long is accepted,
  but not if an empty file follows: `writeEntry` refuses when no budget is left
  before it looks at the size (846). A download in which such a file comes last
  does not go back in.
* A request may be 64 MB long (`maxUploadBytes`, 934) and an archive may unpack to
  256 MB, so a large project can be downloaded as an archive that is refused on
  its way back for its length alone.
* `maintain` polls the flag every `dialRetryInterval`, but a connection that died in
  silence keeps it up until somebody writes, at the latest the heartbeat after
  two minutes.
* A database upload cut off by the death of the bridge leaves its temporary file
  in the project's directory, and later archives and listings include it.
* The active project is the first one a query named, for the life of the bridge.

## 6. What is not modelled, and why

* Time, except in `ActiveProject`. Elsewhere deadlines are nondeterministic:
  "hung" is slower than any of them, and `ProjectUpload` lets `cgateRun` give up
  at any time, which `ActiveProject` shows it can.
* In `ActiveProject` the code itself takes no time, and C-Gate answers at once
  while it is up: slow answers are "hung" for a while. `CGATE_PROJECT`, which
  names the project without a query, is not set.
* Lines arrive whole. `ReadString` discards the bytes of a partial line on a
  timeout; the models have no partial lines. A stream line above one megabyte,
  which ends its connection, is left out.
* What C-Gate does with a LOAD of a project it holds is not documented; both
  outcomes are allowed. It does not write a project whose place is empty, and its
  save replaces the file as a whole.
* Uploads of both kinds, or of different projects, in one behaviour. Different
  projects share nothing but the session.
* Readers beside uploads that run at the same time: what such uploads do to the
  disk is the matter of `upload_concurrent`.
* The formats: `sniff`, the checksums and headers of zip, tar and gzip, the
  cleaning of a form's file name. A damaged entry is one whose header
  (`RefuseDamaged`) or contents (`RefuseBroken`, which leaves a part of the file
  in the staging directory) cannot be read.
  Symbolic links and directories are entries of another kind, which are skipped.
* The length of a request (`maxUploadBytes`, 934): `GoesStraightBackIn` is about
  unpacking and the choice of the name. A database file without a name, ".db",
  is one of the names outside the form in `Archive`.
* The choice of the C-Gate version in the `Dockerfile`: shell that runs once,
  while the image is built, and keeps no state.
* The order of broadcasts of different requests in the console (354): the code
  promises none.
* The console's page, whose backup is a PROJECT SAVE and then a download, both of
  them in the models; JSON, HTTP headers, logging; the image's configuration.

## 7. Plan

Done: the session with its abstract service, the hub, the uploads with their
abstract store, the bridge with its probes; then the readers, the active project
with its clock, the archives, and theorems about each, which now state every
safety property. What is left:

1. `ProjectUpload` over the clock of `ActiveProject` in place of `Sends`: which
   late orders of PROJECT commands the time limits still allow.
2. The bridge restarting (`entrypoint.sh`) in `Bridge`: a fresh session and fresh
   streams while C-Gate still works on what the old ones sent.
3. Readers beside uploads at the same time, and of both kinds.

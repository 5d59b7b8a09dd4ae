# usp-adapters: formal specification

TLA+ models of the LimaCharlie USP adapters (`src/`, Go), the TLC runs that
check them on small instances, and TLAPS proofs of the results that hold for
every size. `PROJECT.json` lists the components, the runs, the source lines
behind every definition, the hazards and the findings.

    tlc -workers 2 -config Pipeliner.cfg MCPipeliner     # a run
    tlapm PipelinerProofs.tla                           # the proofs

## 1. The system

An adapter process reads a configuration, starts one or more *adapters* and
waits until one stops or a signal arrives. An adapter pulls or receives events
from one source (a bucket, a directory, a SaaS API, a socket) and hands them to
`uspclient.Client.Ship`, which sends them to LimaCharlie. All adapters share the
same outer contract: `NewXAdapter` starts the goroutines and returns the adapter
with a channel that is closed when they end; `Close` stops them, waits, drains
the client and closes it. `Ship` blocks up to 10 s, is retried once with one
hour when the buffer is full, and any other failure is reported and, in most
adapters, stops the adapter.

### Inventory

| Component | State it keeps | Operations | What is hard | What makes it correct |
|---|---|---|---|---|
| `utils/pipeliner.go` | two channels, a semaphore, a reordering array, two events | `it`, mapping, placing, generator, close | n+4 goroutines; results arrive in any order; close at any time; failure of `it` | results in order, none lost or doubled; no panic; calls return |
| `utils/event.go` | flag, condition variable, slice of waiter channels | Set, Clear, IsSet, Wait, WaitFor | a timer goroutine per WaitFor that outlives it; sends under a mutex | Set wakes everybody, never blocks, leaks nobody |
| `utils/deduping.go` | ring of buckets | CheckAndAdd, rotation, Close | index wrap, nil maps, ageing | a key is known for exactly `nBuckets` rotations |
| `utils/stream_tokenizer.go` | remainder of the last buffer | Add | buffers cut anywhere, size limit | messages do not depend on how the stream was cut |
| `file/client.go` | `tailFiles` map, tails and handlers, Parquet decodes, mutex, two wait groups, context, semaphore | poll cycle, decode, handler, Close | files are rewritten, rotated, removed while they are read; Close overtakes the poll | every line and every version shipped once, in order; Close returns, nothing ships after it |
| `s3/client.go`, `gcs/client.go` | listing, pipeline, shared error variable, stop flag | list, download, ship, delete, Close | one of four remote calls fails; deletes run in goroutines | nothing is deleted unshipped, nothing is ingested twice, Close returns |
| `sqs-files/client.go`, `sqs/client.go` | queue messages, unbuffered channel, workers, stop flag | receive, download, ship, delete, Close | workers end on errors; the receiver blocks; messages come back after 60 s; Close does not wait (`sqs`) | no message is deleted before it is taken care of; Close returns |
| `containers/general/tool.go`, `conf_update.go` | list of clients, monitors, updated configuration | start, monitor, update, shut down | an update replaces an adapter while monitors and the main goroutine use the list | every running adapter is listed, watched and closed |
| `k8s_pods/` | tree of watchers with their event queues, tails, the channel of lines | pod, container and log events, read, ship, Close | file system events in any order; directories that appear while a watcher starts; three unbuffered hand-overs in a row | one open log per container, every line once, no panic, Close returns |
| `syslog`, `stdin` | listener, connections over the tokenizer, `isRunning` | accept, read, ship, Close | reads cut the stream anywhere; Close while handlers ship | one message per line, in order; Close ends the adapter |
| `sentinelone/s1.go` | per endpoint: time of the last event, page, attempts; a shared stop event | window, page, retry with back-off, ship, Close | attempts run out between pages; one endpoint ends all | every window shipped, nothing twice; a stop reaches every endpoint |
| window pollers (`okta`, `bitwarden` and ten more) | time window, dedupe map or last id | one request cycle, ship, Close | failures between pages, overlapping windows | every event shipped, at most once while the windows overlap |
| cursor pollers (`1password`, `box`, `slack`, `duo`, `wiz`, `sophos`, `itglue`) | cursor or time of the last item | one request cycle, ship, Close | what is kept when a request fails, ties, order of the answer | the same |
| `cato/client.go` | marker, in memory and in `config.txt` | query, ship, save, start again | the process dies between any two of them | no event before the saved marker is missing |
| `harmony`, `o365`, `cylance`, `imap` | windows, tasks, dedupe maps, UIDs | one cycle, ship, Close | as for the pollers | as for the pollers (not modelled, see section 6) |
| streaming SDK and OS log readers | none of their own | callback, Close | SDK dependent | outside the source |

### How the parts interact

`s3` and `gcs` run their downloads through `Pipeliner`, whose goroutines and
callers wait on two `Event`s. Every poller loops on `Event.WaitFor`. `o365` and
the email half of `harmony` ask the `Deduper`; its rotation is a `WaitFor` loop.
`stdin`, `syslog` and `simulator` cut their input with `StreamTokenizer`. The
file adapter has its own mutex, context and wait groups; the external tail
library follows the files; `k8s_pods` tails with the same library. The supervisor
only sees `Close` and the stop channel.

## 2. Modules

Mutated forms (`... Mutant: ...`) stand directly before the definition they
vary; they are used by nothing in the specification and serve to show that each
property can fail.

**Pipeliner** (`utils/pipeliner.go`). `chGen`, `chReady` are the channels, `arr`
the array with the index every slot expects, `smGen` the held semaphore units.
The consumer is five steps (check, acquire, recheck, call `it`, send), so that
`close()` can fall between each; a processor and the placer are receive/act
pairs; the generator is call, take-and-shift (under the mutex) and return (which
decides whether to clear `evReady`). `panic` calls set `panicked`. `generated`
and `delivered` are histories. **OrderedStream** is the promise: an ordered
stream with at most `nParallel` results outstanding; the refinement maps
`generated` and what the caller has been handed.

**Event** (`utils/event.go`). A method body runs under the mutex and is one
step, a `WaitFor` is enter, then either branch of the `select`; its timer is a
separate process with a step that makes the timeout readable and a later one
that removes the channel from the list (`removeWaiter` swaps with the last, as
in the code). `late` counts loop bodies begun after the flag was raised.

**Deduper** (`utils/deduping.go`). The ring, which buckets are allocated
(`made`), and the rotating goroutine with its `WaitFor` split as in Event.
**AgingSet** is the promise: a set of keys with ages. The two durations enter
only through `nBuckets = ttl / window`.

**ParquetFiles** (`file/client.go`, Parquet files). One path; the file system
gives it inodes and versions (a version stands for content, size and mtime).
`slot` is `tailFiles[path]`, identities stand for `*tailInfo`, so that pointer
comparisons (`dropTailEntryIfMatch`) are kept. The poll cycle is top, lock,
check, match, detect, sleep; a decode is open (with its stat), read, ship, drop,
end. One path is enough because paths meet only in the mutex, the wait groups
and the context.

**TailFiles** (`file/client.go`, text files). Files with generations (inodes)
and line counts; tails with an open generation and a position; a handler per
tail. Time is two Booleans per file: not modified for longer than the
thresholds, and no data for longer than the threshold. The tail library
(`nxadm/tail`) is external: it follows, reopens a replaced path, ends without
`Follow`, and a stopped tail delivers nothing more.

**S3Adapter**, **GcsAdapter**. The bucket as a set of keys; the pipeline appears
as what is established for it: an ordered queue for S3, whose `it` cannot fail
(this is `PipelinerRefines`), and for GCS, whose `it` fails when the listing
does, an ordered prefix that may end in a nil in place of the rest
(`OnlyTruncates`). In S3 the variable `err` is shared by the loop and the delete
goroutines, and each of their reads and writes is a step. `conf` holds the
configuration (`IsOneTimeLoad`), the unreadable objects (`Large`) and which calls
may fail (`ListFails`, `DownloadFails`, `ShipFails`, `DeleteFails`).

**SqsFiles**, **Sqs** (`sqs-files/client.go`, `sqs/client.go`). The queue is a state
per message; a received message becomes visible again at any later moment.
`receiveEvents` is a step per call (receive, look at a message, hand over one file,
delete the batch), with one action for each error return. In `sqs-files` the hand-over
is the rendezvous of the unbuffered channel with a worker; `downloader` is the region
`awsDownloader` was last made for, which workers read when they download. The search
for the bucket and the paths in a message is the constant `FilesOf`.

**Pollers** (`okta`, `hubspot`, `pandadoc`, `zendesk`, `mimecast`, `sublime`,
`proofpoint_tap`, `entraid`, `defender`, `ms_graph`, `trendmicro`, `bitwarden`). The
twelve adapters that ask for the events of a time window share one loop (`Request`,
`GetPage`, `GetLastPage`, `PageFails`, `Ship`, `ShippedAll`); a record per adapter says
what its `makeOneRequest` does: where the window starts and ends, which items are new,
what the dedupe map keeps and when it is culled, how pages are followed, and the `since`
it goes on with after success and failure. Time is a clock of ticks, coarser than the
seconds the times are formatted with; an access token that cannot be had and a request
that is retried in vain are a request that fails. The API (external) answers the
published events of the window, oldest first. `asked` is when the last successful cycle
began. The first `since` of entraid, defender and ms_graph is local time written with a
literal `Z` (`entraid/client.go:158`): `First` is off by `conf.Zone`, the hours local time
is ahead of UTC. A request that cannot be made (`http.NewRequest` fails) sets `doStop` in
some adapters, which is the field `stops` of the record.

**CursorPollers** (`1password`, `itglue`, `sophos`, `box`, `slack`, `duo`, `wiz`). As
Pollers, a shared loop and a record per adapter: what it asks for without a cursor,
when the API gives one, which time it keeps of a page, whether it follows pages in one
cycle, makes a request before the loop, deduplicates. The API (external) answers the
first page of what matches, oldest or newest first.

**Cato** (`cato/client.go`). The cycle query, ship, truncate, write, sleep, with its
retries and the panics of its error paths; the marker is the number of events before
it. The process may die between any two steps and is started again, from the file; writing
the file may fail before or after it was emptied (`WriteFails`), which is only logged.

**SentinelOne** (`sentinelone/s1.go`). One `fetchEvents` goroutine per endpoint: head of
the loop, wait, pages, attempt, back-off, ship. Whether an error is transient or
permanent is a choice of the environment; `doStop` is shared. `begun` and `asked` are
histories: the start of the first window and the end of the last one fetched. An event
without `createdAt` counts as one of now, but of local time written with a literal `Z`
(`s1.go:338`; line 235 uses UTC): `TimeOf` adds `conf.Zone`.

**StreamTokenizer** (`utils/stream_tokenizer.go`). `Add` as the loop over the
bytes of a buffer (a recursive function), against the split of the whole stream
as reference.

**Syslog** (`syslog/client.go`, `stdin/client.go`). The accept loop, a reader per
TCP connection (one for UDP and for stdin) and Close. A reader gets any non-empty
part of what was sent and cuts it with `Add` of StreamTokenizer, which is instantiated
with the reader's remainder: a byte the tokenizer loses is lost here too, and puts the
connection in the history `lossy`. A full client buffer is retried; a line whose Ship
fails otherwise is given up, and the reader goes on.

**K8sPods** (`k8s_pods/engine.go`, `client.go`). `watchForPods`, `watchPod` and
`watchContainer` with their event queues; Add and ReadDir of a watcher are two steps,
so that something may be created in between and be met twice (`raced`). A pod and its
containers may have two sets of watchers, as they then have in the code. A tail hands
a line to `processFile`, which hands it to `consumeLogs`; no channel has a buffer.
`StopAtEOF` blocks its watcher until the tail has been read to its end. `processFile` also
returns when the tail hands over an error. A `close` of a
nil channel and a nil `curFile` set `panicked`.

**Supervisor** (`containers/general/tool.go`, `conf_update.go`, `win_service.go`). main
decodes the configuration file, starts the adapters, waits for a signal or an adapter
that stops, and closes the clients; each adapter has a monitor, each configuration kept
in the cloud an update goroutine. The list of clients is modelled as the array behind
the slice and its length: the update shifts the array in place while the loop of main,
which holds the slice of before, goes over it. Execute of the Windows service is the
same process with another loop. An adapter is a record of running, closing, stopped;
it may stop by itself, and starting one may fail. Clients are numbered by configuration
and generation; `alone` are those that stopped by themselves.

The components that share no state are put side by side, and one of them runs, chosen
initially in `which`: **Stores** (S3, GCS, both queues), **PollingAdapters** (the two
kinds of pollers and Cato), **TailAdapters** (file and k8s_pods) and **Processes**
(Supervisor, Syslog, SentinelOne) for every value of their constants, which is what the
theorems are about; **MCHelpers** (a deduper, an event, a tokenizer, a pipeline whose `it`
may fail) in the same way. The `MC...` modules also hold the values a run gives to the
constants; all but MCHelpers hold nothing else. Where a specification has a
configuration (`conf`, `byExtension`, `MaxSize`) it is a variable chosen in the
initial state, so that one run covers the situations together and a property says
in which of them it is claimed. The properties of a
composition are conjunctions of the properties of its modules; where these are leads-to formulas the
disjunction over `which`, which never changes, says the same in one formula.

## 3. Plan

Done in this order, most important first: the concurrency helpers every adapter
relies on (Pipeliner, Event, Deduper), the file adapter, the bucket adapters,
the tokenizer, the queue adapters, the window pollers; then the supervisor, the pod
logs, syslog and stdin over the tokenizer, SentinelOne, the cursor pollers and Cato.
Next:

1. An abstract specification of an at-least-once feed, implemented by the bucket and
   queue adapters.
2. Harmony (its task protocol, and its retention composed with AgingSet) and `o365`
   (its listing composed with AgingSet), `imap`.
3. The multi-line JSON assembly of the file adapter and the path search of
   `utils/json.go`, as pure algorithms against reference definitions.

## 4. Runs

| Run | Shows |
|---|---|
| pipeliner | `it` never fails, close at any moment: results in order, no panic, no deadlock, implements OrderedStream, every call of the generator and of close returns |
| pipeliner_error_lost | *violation*: after an error of `it` the caller may be told "end of stream" in place of results or of the error |
| helpers | deduper: implements AgingSet, writes to no nil map, its goroutine ends. Event: Set never blocks and wakes everybody, no waiter is lost or leaked, a stopped loop runs at most one more body. Tokenizer: messages do not depend on the cuts as long as no segment has a single byte; one message per token, within the limit. Pipeline whose `it` fails: what the caller gets is an in-order prefix |
| tokenizer_short | *violation*: a single byte before a token is dropped |
| parquet | a decode owns its entry unless the file was removed; no two decodes ship one version; Close returns, and nothing ships after it; the version that stays is shipped |
| tails | file: a tail that still reads is the one its entry names, in serial mode one at a time; nothing ships after Close; undisturbed files are shipped completely and once; Close returns unless a cycle reactivates a file after Close has stopped the tails. k8s_pods: one open log per watcher; every line once, unless a directory appeared while its watcher started, and none of a pod that is filtered out; Close returns as long as Ship and the tails work, with at most one line under way; unless something is removed only the stop of a container without a log crashes |
| tail_hang | *violation*: in the case excepted, Close of file hangs |
| stores | S3 and GCS: nothing leaves the bucket unshipped, no file is ingested twice while deletes succeed. Both SQS adapters, with redelivery: a message is deleted only when workers hold its files, or when it was shipped. Close ends all four, whichever calls fail, unless failed downloads have ended every worker of `sqs-files`; without failures everything readable is shipped |
| s3_delete_lost | *violation*: a failed delete does not stop the adapter, the file is ingested again |
| pollers | which of the twenty pollers ship an event twice or lose one, and when they do not, east and west of UTC (tables in section 6); cato: whenever the process dies, no event before the saved marker is missing, and only a restart ships one again |
| processes | main: two adapters of one configuration never run at once, an update is never taken for an adapter that stopped, and keeps the type if there is one type only; at exit everything no update touched is closed once; an adapter that stops ends the process. syslog, stdin: lines in order and once, all of them if nothing fails; at most one read after Close, which ends the adapter. sentinelone: no event twice (west of UTC if each has a time), none missed of a window fetched to its end; a permanent error, a failed Ship and Close end every endpoint |
| supervisor_json | *violation*: the adapter of a JSON configuration file is started twice |

The violations are described, with the lines that contradict each other, under
`findings` in `PROJECT.json`.

### Bounds

- Pipeliner: `nParallel` 3 with 4 elements lets the array wrap once and all
  processors hold records out of order; 3 elements when `it` may fail. The theorems
  remove the bound.
- Event: two loopers with two calls each, so that the timer of a finished call
  meets the next call and the other looper's, and one sleeper.
- Deduper: 3 buckets and 3 keys: current, oldest and one in between.
- ParquetFiles: 2 inodes, 3 versions, 2 `tailInfo`s: enough for a decode, its
  successor and a rewrite during either; version 2 does not decode.
- TailFiles: three tails (old, new, reopened; four for the two files in serial mode)
  and four situations: one file with
  two inodes and failing reads; one file that falls idle, is reactivated or removed;
  one file that grows to two lines; two files in serial mode without Follow.
- K8sPods: two pods, two containers, two logs with one line each, two sets of watchers
  per pod; six situations: a log that cycles, a pod that is there at the start, two
  containers, creation while the watchers start, removal with a failing Ship, a pod that
  is filtered out. Two logs are what a cycle needs; what is beyond one line is beyond the
  one line each goroutine can hold.
- S3/GCS: 3 objects, pages of 2, pipeline of 2: a full page, a next page, and a
  delete that overlaps the next file. Five situations: an unreadable object in
  either mode, every call failing, every call but the delete, and a one time load
  with failures. `shipped` saturates at 2 ("more than once").
- SQS: three messages in batches of up to 2: one with two files, one with one file in a
  bucket of another region, one that is not valid; 2 workers, so that one can end
  before the other. Two situations: no call fails, every call may fail.
- Pollers: 3 events, 6 ticks, a wait of 1 tick and cycles that take up to 1 more; pages
  of 2 events or of all; at most one failing request; events with and without equal
  times. A short overlap is as long as the wait, as in the code (30 s and 30 s), a long
  one lasts for two slow cycles; Proofpoint's margin is twice its wait and its span 4.
  proofpoint_tap has no pages, defender and ms_graph have the same record as entraid, and sophos (with a string) that
  of itglue: one of them runs. entraid runs with local time equal to UTC, a tick behind it and two
  ticks ahead, so that events fall before the first time and after it. Situations in which nothing is claimed of an adapter, and
  those that another one contains, are left out.
- CursorPollers: 3 events, 6 ticks, pages of one event or of all, at most one failing
  request, answers in either order. Box asks for 3 ticks and remembers 3, the shortest memory
  for which something is claimed (in the code, ten minutes and an hour).
- Cato: 3 events in answers of up to 2, three starts, one retry of a query and three
  errors; a process that dies may do so twice.
- SentinelOne: two events on two pages and three cycles with two attempts per request;
  two cycles with ties and an event without a time, a tick east and a tick west of UTC; two
  endpoints with one event.
- Supervisor: up to three adapters and two updates; a client list of three shows the
  shift of the array under the loop that closes it.
- Syslog: one connection with a line of two bytes, an empty one, another of two and an
  unfinished one, cut in every way; two connections with a line of one byte each.
- Tokenizer: all streams of up to 5 bytes over two letters and the token, in all
  buffers of up to 4, without a limit and with a limit of 2.

Deadlock is checked in every run. A finished system stutters explicitly, and so
does a pipeline after an error of `it` (`PipelineStops`), where the lost
end-of-stream can leave goroutines waiting for a caller that has gone.

### Fairness

Weak fairness of each goroutine's steps is what Go's scheduler gives a runnable
goroutine. Strong fairness is used only for acquiring a mutex or the serial
semaphore, which Go's mutexes (starvation mode) and channels (FIFO queues)
justify. Timers are fair only where a loop must go on polling; in Event no
timer is, so that Set alone must wake the waiters. In Supervisor, Syslog, SentinelOne
and K8sPods, and for the tails of TailFiles, there is a single condition, "some goroutine
takes a step": these steps are bounded in number, so it already forces every goroutine
that can go on to do so; being weaker than one condition per goroutine it makes the
results stronger. The environment (writes, uploads, failures, calls of Close) is never fair, and failing is never something
fairness forces. Downloads, Ship and deletes are assumed to return, as their
timeouts provide.

## 5. Proofs

- **PipelinerProofs**: `TypeCorrect`, `OrderCorrect` (InOrder), `PanicFree`
  (NoPanic), `PipelinerRefines` (ImplementsOrderedStream), for every `nParallel`
  and input length; the last three for an `it` that never fails, since the runs
  show that they are false otherwise. `InOrder` is not inductive: it says nothing
  of records on their way. `OrderInv` adds, in named parts, where they are: `chGen`
  holds the newest results (UpstreamInv), everything in flight lies in the window
  after the delivered ones (InFlightInv), nothing is in two places (DistinctInv),
  slot j is for result j+1 of the window (ArrInv), every undelivered element is
  held or placed (CoverInv), the semaphore keeps the window within the array
  (SemInv), goroutines end in order (PhaseInv) and the caller is woken only for
  slot 0 or the end (CallerInv). One lemma per action. `TruncatesCorrect`
  (OnlyTruncates) is about every `it`. Elements may then be missing, so `TruncateInv`
  claims a window only as long as someone reads the channel (Reading): the results under
  way have different indices within it (WindowInv), and each is what `it` returned for
  its index (ResultsInv, SlotsInv); once nobody reads, nothing more is delivered.
- **DeduperProofs**: `OneBucket`, `NoNilMap`, and `DeduperRefines`: the ring
  implements AgingSet for every number of buckets and every set of keys. The age
  of a key is the distance of its bucket from the current one modulo `nBuckets`;
  that a key is in one bucket only is what makes it a function.
- **HelpersProofs**: `HelpersTypeCorrect`, and `EventSafe`, for every set of goroutines
  and number of calls.
  `EventInv` adds that no channel is listed twice (the removal swaps with the last, so
  a second copy would survive it), that a listed channel is open and its timer has not
  removed it, that a channel that is still to be made has left no trace, that a WaitFor
  that sleeps is listed or was woken, and that a call pending while the flag is up began
  before that. `FailureTruncates` carries the result of PipelinerProofs over to the
  instance the run has. `CutsHarmless`, for every alphabet, buffer and stream: `LoopInv`
  compares the loop of Add, after each byte, with the split of what has arrived so far,
  which another byte lengthens (SplitOfAppend); that it holds after the last byte is an
  induction over the bytes, whose least counterexample the well-foundedness of `<` gives.
- **ParquetFilesProofs**: `ParquetTypeCorrect`, `DecodesOwned`. `ParquetInv` adds that
  `parquetDecoding` is up exactly while its decode is under way, that an entry is added
  only where none was seen under the same lock and never after Close has had the lock,
  and that what a decode has open or is about to ship is a real version.
- **StoresProofs**, first of S3 alone: `S3TypeCorrect`, `NothingDeletedUnshipped` and
  `NothingIngestedTwice`, for all keys, page sizes, pipeline widths and failures.
  `DeleteInv` adds that a delete goroutine exists only for a shipped key, and that the
  loop ships only a file it was handed; `UnderWayInv` that every file is under way only
  once; `OnceInv`, as long as deletes succeed, that a shipped object has left the bucket
  or is about to. Then `StoresTypeCorrect`, `NothingLost`, `NothingTwice`, of S3, GCS and
  both queues together. For GCS the invariant says that the pipeline holds names in
  order, none beyond the one the listing has reached, and that a shipped file is gone,
  about to be deleted, or behind the one time load. For `sqs-files` it says where the
  files of a message are: with a worker, shipped, given up, or still in the receiver's
  hands. Assumed: `"none"` is no file's name.
- **PollersProofs**: `PollersTypeCorrect`, `NothingShippedTwice`, `NothingMissed` and
  `MarkerIsSafe`, of the twenty pollers, for every number of events, window, overlap, page size, answer order
  and number of failures. Each way to recognise an old event has its invariant. An event
  taken is in the dedupe map or before every window to come (`UnseenInv`, with `MarginInv`
  for proofpoint_tap, `BoxInv` for box); it is in the map or not after the time kept
  (`LaterInv`); `lastId` is the newest event taken and the next window starts at its time
  (`LastInv`); what was taken is at the cursor or before it (`StreamInv`, `SlackInv`), or
  before the time kept (`DuoInv`, `WizInv`). All rest on `PublishedInOrder`. Newest and
  oldest events of a page exist because finite sets of numbers have extrema, which is
  proved from the well-foundedness of `<`. For Cato, `BatchInv` places the batch between
  the events done and the marker, and `LifeInv` says that what is not done was shipped at
  most in earlier lives. `NothingMissed` (`NoEventMissed`) needs an invariant of its own for
  each kind of poller. `CoverInv`, of the window pollers, places the events of a window by
  their number in it (`PlaceIn`), so that what the pages up to now have brought is what has
  a place below the page size times their number (`PagesInv`); a full page is then the same
  as a window that reaches beyond it (`FullPage`). What the dedupe map, the last id and the
  time kept stand for was taken (`KnownInv`); a failure goes back to the time kept
  (`BackInv`); windows that overlap meet, because a deadline is at most so many rounds of a
  wait and a slow cycle after the end of the last complete window as requests have failed,
  plus one (`DelayInv`); and nothing published before the last complete window was asked
  for is left behind (`BehindInv`). `CursorCoverInv`, of the cursor pollers, says of the
  events published after the first answer that those up to the cursor (`PastInv`), those
  before the time kept (`KeptSinceInv`), those box remembers (`BoxKnownInv`) and those from
  before the last answer that left nothing behind (`DrainedInv`) were taken; without a
  cursor the window asked for reaches back to that answer (`SpanInv`, which counts the
  failures since). An answer that was cut off is downward closed in what matches
  (`AnswerClosed`), so its last event may stand for all before it. The theorem claims the
  events from `First` on, wherever local time puts that: an event published earlier is not
  asked for, and the invariant never needs one. Assumed:
  proofpoint's margin is shorter than the span its API allows, and Cato gives up after
  at least one error.
- **ProcessesProofs**: `ProcessesTypeCorrect`, of the process around the adapters, syslog
  and sentinelone. Of the first, `UpdatesSafe` and `ExitComplete`, for every
  configuration file, number of adapters and of updates. `SupInv` says how far main has
  come (`MainInv`); that the versions of a slot go up and only a slot in the cloud has
  updates (`SlotInv`); that only the current adapter of a slot runs, and one that stopped
  was closed or stopped by itself (`RunInv`); that the list holds exactly the first
  adapters that no update has removed, each once (`ListInv`, for which the shift of the
  array by `append` is described by an order-preserving map of places); which of them
  main has closed and which an update will close (`CloseInv`); that main hears only of
  adapters that stopped by themselves (`AloneInv`); and that `method` has the type of the
  configurations in the cloud once one is started (`KindInv`). Of syslog and stdin,
  `OneMoreRead`: a reader that has read something after Close began does not read again
  (`LastReadInv`); and `LinesShippedInOrder`, for any lines of any bytes. `LinesInv` says
  of a connection that k of its lines have been read to their end, that what was read after
  the last of them is kept, and that the first j of the k are done while the others wait to
  be shipped. A turn of the loop of `Add` keeps it that the lines reported are those that
  end in what was looked at (`LineTurn`), so a read reports the next lines whole, wherever
  it begins and ends (`LinesOfRead`). The inductions, over the bytes of a read and over the
  lines of a sender, take a least counterexample. Connections in `lossy` are left out: a
  line was given up, or the tokenizer lost a byte. Of sentinelone, `WindowsShipped`, for every
  number of endpoints, events, attempts and page size. `S1Inv` says that what was shipped
  is behind the time kept, behind the page that is asked for and before what is left of
  the page being shipped (`BehindInv`), which holds with ties too, and with events without a
  time unless local time is behind UTC (`Tame`); that the time kept is that of a published event, so that an event published
  now is after it (`KeptInv`); and that nothing due is left behind any of the four places
  the loop has reached: the time kept, the start of the window, the page before, and the
  end of the last window (`CompleteInv`, which needs different times and is claimed until
  doStop is set). That a page is downward closed in its window rests on cardinalities.

- **TailProofs**: `TailsTypeCorrect`, `TailsListed`, `LateBounded`, `ShippedOnceTails`,
  `CrashNeeds`, of file and k8s_pods, for every set of files, pods and containers and every
  number of inodes, logs and lines. Of file, `FileInv` adds
  that an entry is replaced only if it is inactive (reopened) or empty (opened), which
  holds from the check to the open because the lock is held in between (`PollInv`); that a
  handler that reads holds the semaphore (`FeedInv`); and, for an undisturbed file, that
  its entry keeps its first tail and everything shipped is behind the position of that
  tail, strictly while a line is in the handler's hands (`StayInv`).
  Of k8s_pods, `K8sInv` says that an open tail is that of `curFile`, whose watcher has not
  returned (`KCurInv`); that processFile holds the last line read (`KHandInv`); that
  watchers start below watchers that have started, in the pods that match (`KStartInv`);
  that without a race a pod is started once (`KOnceInv`), so that a line delivered was read
  before and is not under way again (`KReadInv`); and that without removals only Close stops
  a container (`KKeptInv`). `KLateInv` bounds the late lines: after the client is closed
  nobody hands consumeLogs another one.

Assumptions are the named ASSUMEs of the modules; TLC evaluates them in every run. The
proofs changed statements in four places, where an attempt failed for a good reason: box
may ship an event twice when it reads the window again page by page; duo relies on the
order of the answer; the adapters that keep a cursor lose events if the API answers the
newest first, which `LosesNone` did not exclude in situations no run had (all three in
section 6); and `UpdateKeepsType` is false of the Windows service, whose adapters all have
the type of the command line.

Every invariant and every action property of the passing runs, and both refinements, are
proved. Only model-checked is liveness, since fairness and ENABLED are out of the prover's
reach: `CallsReturn`, `StopReachesEverybody`, `CloseReturns`, `StableVersionShipped`,
`ClosesReturn`, `LinesAreShipped`, `StoresEnd`, `StoresAreShipped`, `StopsEnd` and
`LinesShipped`. `NoEventMissed` says what is shipped when a poller waits for its next cycle;
that the next cycle comes is not claimed of the pollers.

## 6. What the models leave open

### Behaviour that is allowed by the properties and worth knowing

Each was met as a trace of the model; the properties of section 4 are stated so
that they hold beside them.
Where such a behaviour is a hazard that `PROJECT.json` lists, no property is named there:
the property that comes nearest excludes it, and the note says how.

- After an error of `it`, an element the caller was made to skip is put in the last
  slot of the pipeline's array, and the next record fails the placer's assertion
  and panics (`utils/pipeliner.go:252`).
- `pollFiles` drops the entry of a removed Parquet file without looking at
  `parquetDecoding` (`file/client.go:318`); if the path reappears before the running
  decode opens it, two decodes ship the new file. `NoDoubleDecode` therefore excludes
  decodes that have lost their entry to a removal.
- A Parquet file without the extension that is met half written is tailed as text
  (`file/client.go:651`) and never decoded: `StableVersionShipped` is claimed for files
  recognised by extension.
- Around a rotation lines may be shipped twice (the recorded inode is older than the
  file the tail has open, `file/client.go:349`), be lost (the old tail is stopped
  before it has read everything, line 242) or arrive late (Stop does not wait for the
  handler). `NoDuplicate` and `EveryLineShipped` are claimed for undisturbed files.
- With `single_load` a failed listing ends the S3 adapter without an error
  (`s3/client.go:197`), although the comment at line 289 speaks of retrying.
- A page full of objects that cannot be read hides all others from the S3 adapter:
  `EveryObjectShipped` assumes fewer of them than a page holds.
- `initS3SDKs` tests `isS3Inited`, which nothing sets (`sqs-files/client.go:173`): every
  message with files looks up the region and replaces the downloader. A file handed
  over before that is downloaded with the client of the next message's region; if the
  two differ the download fails and the worker ends.
- Once failed downloads have ended every worker of `sqs-files`, the receiver stays at
  `a.chFiles <-` and Close waits for it (`Starved`). `StoresEnd` is claimed otherwise.
- `sqs-files` deletes a message when its files are in the workers' hands; a download or
  a Ship that fails later (its result is not looked at, line 305) loses the file.
- The `sqs` adapter's Close closes the client under the receiver; what it still holds
  fails to ship and comes back after the visibility timeout.
- A delete that fails in GCS is reported by an `err` of its own (`gcs/client.go:271`):
  the loop goes on, lists and ships the object again. `NoneIngestedTwice` is claimed as
  long as deletes succeed.
- The supervisor. All configurations share the variable `method`, so an update restarts
  an adapter with the type of the configuration that was started last
  (`tool.go:184`, `tool.go:247`): `UpdateKeepsType` is claimed for one type, and not of the Windows
  service, which starts every adapter as its argument says. The adapter
  an update starts is in no list: it has no monitor and is not closed at exit. When its
  start fails, the next update calls Close of a nil client (line 239). main closes the
  clients without the lock (line 274): an update that removes one meanwhile makes it
  close another twice or not at all; `ExitClosesAll` excludes this (`raced`).
- k8s_pods. A pod or a container created between Add and ReadDir is found there and
  announced too; a pod is then watched twice and its lines are shipped twice
  (`engine.go:141`; `running` of watchForPods is never filled). Remove of something that
  is not in `running` closes a nil channel (line 252); the stop of a container without
  a log, or the removal of a log that is not tailed, uses a nil `curFile` (lines 357 and
  403). If a failed Ship has ended `consumeLogs`, Close waits for ever (line 421); a tail that hands
  over an error ends its `processFile`, and the rest of that log is not read (line 417). Of the
  logs that are there when a watcher starts only the newest is read.
- syslog: any error of Accept ends the loop and with it the adapter (line 177), while
  readers go on. stdin: Close does not interrupt a read.
- sentinelone: an event without `createdAt` moves the cursor to local time written as if it
  were UTC (`s1.go:337`). West of UTC the next window begins hours back and events already
  shipped are shipped again; east of UTC it begins hours ahead and what is published
  meanwhile is lost. Events of the same time on two pages may be lost when the attempts run out between
  them, and one that was created in the very second of the start is lost if the first
  request fails. `WindowsAreShipped` names these conditions: that nothing is shipped twice
  is claimed for events with a time, or where local time is not behind.
- cato: Close calls `wg.Done` once too often and panics (`cato/client.go:119`); a Ship that
  fails loses its event (`dropped`); the marker file is emptied before it is written, and
  a process that dies in between, or a write that fails there, leaves the next start at the
  beginning of the feed.
- The window pollers. Every condition in this table is needed: without it the model has
  a trace in which an event is lost or shipped twice.

  | Adapter | ships no event twice | loses no event |
  |---|---|---|
  | okta | always | one page (only the first is asked for) and failures shorter than the overlap |
  | hubspot | always | the same; the request for a second page has a paging token as start time (`hubspot/client.go:224`) |
  | pandadoc, mimecast | always | no failure (what earlier pages brought is dropped but stays in the dedupe map), and cycles that take no time: the overlap is as long as the wait, so the windows do not overlap |
  | zendesk | always | the same, and one page: the next link is put in the place of the start time |
  | sublime | always | no two events with the same time, and no failure after a first page |
  | proofpoint_tap | always | always |
  | entraid, defender, ms_graph | no failure (the last id is forgotten) and no two events with the same time | one page (the next link is not followed), and from the first `since` on: it is local time with a literal `Z` (`entraid/client.go:158`, `defender/client.go:159`, `ms_graph/client.go:164`), so east of UTC the events of the first hours are lost |
  | trendmicro | windows share their end | cycles that take no time: `lastFetch` is the end of the cycle, not of the window (`trendmicro/client.go:150`) |
  | bitwarden | windows share their end | no failure after a first page: the checkpoint moves although the loop over the pages was left (`bitwarden/client.go:264`), in spite of "to avoid gaps" (line 228) |

- The cursor pollers, in the same way.

  | Adapter | ships no event twice | loses no event |
  |---|---|---|
  | 1password | always | oldest first, once the first answer has come: with the newest first the cursor, which stands for the last event answered, never gets to newer ones |
  | itglue | windows share their end | one page, no failure, and cycles that take no time: the window is as long as the wait |
  | sophos | the same if `has_more` is a string; always if it is a boolean, of which the string lookup finds nothing, so that the cursor is used from then on | the same; oldest first, as 1password |
  | box | oldest first and one page: after an empty answer with position 0 it asks for the ten minutes again, and page by page that may take longer than its dedupe map keeps an event | oldest first, as 1password, and failures and slow cycles that fit in the ten minutes asked for after an empty answer with position 0 |
  | slack | always | no two events with the same time, and, with more than a page, oldest first: the next time is one second after the newest item |
  | duo | oldest first: the next time is taken from the last item | no two events with the same time, and, with more than a page, oldest first; its fetcher ends alone when its first request fails (`duo/client.go:115`) |
  | wiz | newest first, from whose first item the next time is taken | the same, one page, and no two events with the same time |

### Not modelled

- **Harmony** (`harmony/`): its two loops keep a window as Pollers does; what is its own
  is the protocol of tasks of the API (create, poll, page), whose states the source does
  not determine.
- **o365**, **cylance**: a listing over the deduper, and three copies of a window poller
  with a dedupe map; they repeat what DeduperProofs and Pollers are about.
- **imap**: one sequential loop around a session, whose order of UIDs is the server's.
- **Streaming adapters** (`pubsub`, `azure_event_hub`, `falconcloud`, `bigquery`): one callback or row
  per message; delivery is the SDK's.
- **Operating system log readers** (`wel`, `evtx`, `mac_unified_logging`): a loop around one
  API of the operating system.
- **JSON, Parquet and environment helpers**: stateless conversions and a third-party
  decoder.

Left out of modelled parts on purpose: log messages, debug counters, set-up of SDK
clients and credentials, the content of events, the multi-line JSON assembly of the
file adapter, the installation of services and the stand-alone connectivity check.

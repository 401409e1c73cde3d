# A TLA+ model of grabby

grabby downloads the files of an NZB from Usenet: it asks NNTP servers for the
segments (articles) of each file, decodes them, assembles the files and has them
repaired. These modules model what is asked of whom and when, what is written, and how
the program gets from an NZB to its end; they check it with TLC on small instances, and
prove with TLAPS properties that hold for every NZB, every list of servers and
every sequence of calls.

## The system

| Part | State | Operations | Hard behaviour |
| --- | --- | --- | --- |
| `grabber.Grabber` | `state`, `doneFiles`, `required`, `failedSegments`, `qIn`/`qOut`, two tombs | `GrabAll`, `GrabFile`, `Pause`, `Resume`, `HandleGrabs`, `Shutdown`, `PostProcessable`, and what files call: `Working`, `FileDone`, `FileRequired` | three goroutines and the caller share it; a signal is sent with `doneMx` held |
| `grabber.File` | `state`, `done`, `required` | `Working`, `Pause`, `Resume`, `Done`, `SegmentDone` | state is read, unlocked, then written |
| `grabber.Segment` | `state`, `err`, `failedServer`, `failedGroup`, `retries`, the writer | `Working`, `Pause`, `Resume`, `Done`, `SelectServer`, `SelectGroup`, `FailServer`, `FailGroup`, `RetryServer` | the same, from two goroutines; the retry loop must end |
| `grabber.Strategy` | the servers in order of priority, `grabRsp`, a tomb | `Connect`, `Shutdown`, an aggregator and a reconnect ticker per server | reconnection races shutdown; the aggregator sends without looking at its tomb |
| `nntp.Server`, `nntp.Session` | `gReq`, `gRsp`, the sessions, a tomb | `HandleGrabs`, `Grab`, `Shutdown`, one goroutine per session | a protocol error ends a session with its request; the channels outlive the tomb |
| `decode/yenc` | the parser's position, sizes, checksums | `Write` | truncated, oversized or multi-part input |
| `nzb`, `grabber/metadata.go` | none | parse | files without segments, no files |
| `magic` | the first bytes of a file, its type | `Write`, `SetFileType` | a header that comes in pieces, or from an attempt that is rejected; a par2 file found while main goes over the list of them |
| `postprocess` | the files it was given, which are assembled; the par2 command, blocks needed | `AddFiles`, `Repairer`, `Assemble`, `Repair` | a file added or assembled twice, repeated repairs |
| `cmd/grabby` | its place in `main` | grab, wait, repair, ask for more par2 files | receives the signal in the goroutine that calls `GrabFile`; waits for a lot that may be empty |

How they interact. The caller's goroutine calls `GrabAll` or `GrabFile`, which
put segments into the channel `qIn`. A goroutine of `enqueueT` moves them, through a slice
without a limit, to `qOut`; another one, the dispatcher, takes a segment,
makes it (and its file, and the grabber) `Working`, creates its output file, selects the first server
and group that has not failed and calls `Grab` on the server. The server's
sessions answer, the Strategy gathers the answers in one channel, and the
responder (`grabT`) takes them: a good one makes the segment `Done`, a bad one is entered in the
segment's failure history and the segment is enqueued again. `Segment.Done` calls `File.SegmentDone`, which
calls `File.Done` for the last segment, which calls `Grabber.FileDone`, which signals
`PostProcessable()` once as many files are done as were required.

What makes the parts right, and where it is stated:

- a segment goes to servers in order, never to one that failed, and comes to an end: `Failover`; no server is
  passed over that could still have had it: `FailoverLog`;
- the segment queue loses, repeats and reorders nothing, and `enqueue` returns: `EnqueueBuffer`, `Fifo`;
- completions are counted once and none is missed, the counters agree with the
  files, the signal is true, nothing is downloaded that was not asked for,
  shutdown is ordered: `Grabber`, `GrabberOrderly`;
- a request put to a server is answered once, in the name of that server, or lost with one
  of its sessions, through reconnections and shutdown: `NntpServer`, `Strategy`, `GrabService`;
- a segment's file is the decoded data of its last attempt, damage is noticed, and the type
  of the file is that of its first bytes: `YencDecoder`, `Sniffer`, `ArticleBody`;
- the Grabber by its files alone, over any number of lots, and its signal: `GrabLots`;
- what is repaired is whole, the smallest par2 files come first, the program ends: `RepairCycle`.

## Modules

| Module | Models | EXTENDS / INSTANCE |
| --- | --- | --- |
| `RetryPolicy` | the failure history of a segment and the operators on it: `FailServer`, `FailGroup`, `RetryServer`, `SelectServer`, `SelectGroup`, `HandleError` | |
| `Failover` | the loop every segment goes through, whatever the goroutines: queued, asked, and at last done, failed, broken (no output file) or lost | `RetryPolicy` |
| `FailoverLog` | `Failover` with a record of what each server answered, which the code forgets: variables that only the record's own steps read | `Failover` |
| `EnqueueBuffer` | `handleEnqueues` and `enqueue`: two channels, a slice, the selects with their `default`s, the tomb | `Fifo` |
| `Fifo` | what the buffer promises | |
| `Grabber` | the grabber, its files and segments, dispatcher, responder and caller | `RetryPolicy` |
| `GrabberOrderly` | what the grabber promises a caller that asks for one lot at a time; the mappings to `Failover` and `GrabLots` | `Grabber`, `Failover`, `GrabLots` |
| `GrabLots` | the grabber by its files and counters, without segments, servers and goroutines: what a caller that waits between lots needs to know | |
| `RepairCycle` | the program: `FromNZB`, `main`, `getMorePar2s`, the post-processor and the par2 command, over a grabber that is `GrabLots` | `GrabLots` |
| `NntpServer` | `nntp.Server`: channels, sessions, the goroutine of each session, tombs, `HandleGrabs`, `Grab`, `Shutdown` | |
| `Strategy` | the servers, an aggregator and a ticker for each, `Connect`, `Shutdown`, with the Grabber as environment | `NntpServer` |
| `GrabService` | what a Strategy promises the Grabber | |
| `YencDecoder` | `Write` and the loop over lines of `yDecode`; the yEnc format as a reference | |
| `Sniffer` | `magic.Sniffer` and the table of headers | |
| `ArticleBody` | `Session.WriteArticleBody` and the file, sniffer and decoder that `dispatch` makes for a segment, the first of its file | `YencDecoder`, and through it `Sniffer` |
| `MCFailover`, `MCEnqueueBuffer`, `MCGrabber`, `MCStrategy`, `MCArticleBody`, `MCRepairCycle` | instances for TLC | the module they are about |
| `RetryPolicyProofs`, `FailoverProofs`, `EnqueueBufferProofs`, `GrabberProofs`, `GrabberOrderlyProofs`, `StrategyProofs`, `ArticleBodyProofs`, `RepairCycleProofs` | the proofs; those about `FailoverLog` are in `FailoverProofs`, those about `GrabLots` in `RepairCycleProofs`, those about `YencDecoder` and `Sniffer` in `ArticleBodyProofs` | the module they are about |

### How `Grabber` corresponds to the code

A step is one critical section. `Segment.Working` reads the state under a read
lock, lets go, calls `File.Working`, and locks again to write: it is
`SegmentWorkingRead`, `FileWorkingRead`, `FileWorkingSet`, `GrabberWorkingRead`,
`GrabberWorkingSet`, `SegmentWorkingSet`, between any two of which the others
may run. `Segment.Done` is `DoneCheck` and `DoneWrite`, followed by `SegmentDone`,
`FileDone` and `ReportFile`. `Pause` and `Resume` are loops over files and, within
a file, over its segments, a step per iteration. Locks held over several steps
(`Grabber.writeState` in `Pause` and `Resume`, `File.writeState` in `Resume`,
`File.doneMx` in `SegmentDone`, `Grabber.doneMx` in `FileDone`) are predicates on where the
threads are: `GrabberLocked`, `FileLocked`, `FileDoneMxFree`, `DoneMxFree`.

`pc` says where dispatcher and responder are, `cur` with which segment; `mpc`,
`calls`, `mfiles` and `msegs` are the caller's place, the calls it has still to
make and what is left of its loops. The caller's calls come from the constant
`Scripts`; the proofs hold for any.

Abstracted: the queue is `Fifo` (that `handleEnqueues` implements it is
`EnqueueBuffer`'s theorem); the servers and their channels are `asked`, a count
per request, of which a server takes `GrabCap` before `Grab` blocks; an answer
may come for any request at any time, good or with one of the four kinds of
error `handleError` tells apart; a session may die with a request (`ServerDies`, at
most `MaxLost` times), and its server with it, unless that is dead already or has been connected anew since; a dead
server may come back. The responder finds a segment by its article's ID (`grabber.go:387-398`); the model has the
segment itself, and so takes IDs to be unique in an NZB. Names, sizes, times,
rates and article bodies are left out. A file's retention is the relation
`Expired`, fixed for a run. Steps on the failure history are atomic, which the
code's are not (see the hazards).

### How `NntpServer` and `Strategy` correspond to the code

`HandleGrabs` and `Shutdown` of a server are procedures with a place of their own (`hg`, `sd`):
`HandleGrabs`, then `NewSession` for each session, `NewTomb`, and `Go` for each session. A call
that finds the server alive has no effect and is no step. Each call that makes connections is an attempt with a number,
and a tomb, a session and its goroutine are known by the attempt that made them: goroutines of an earlier
attempt may well be running beside those of the present one, for the code replaces
`s.t` and `s.sessions[i]` under their feet. `watch` is the tomb a goroutine found in `s.t`
when it came to its select. `Return` is what the `tomb` library does when a goroutine
ends: the tomb dies with its last goroutine, and is killed by the first that fails; `Go`
on a dead tomb panics, which ends the program and the model.

`Connect` and `Shutdown` of the Strategy are the program of the caller (`main`, `at`).
`Aggregate` is `aggregateResponses`, whose send does not look at the tomb; `Reconnect` is
`reconnectIfDisconnected`, where a tick may come at any time. The Grabber is the environment, in the
order its `Shutdown` has: its dispatcher reads `Alive` and later calls `Grab`; its responder takes from
`grabRsp`, and goes on through the Strategy's shutdown; the caller begins the shutdown once the dispatcher is done.
`Authenticate` may fail with the connection open. Bounds: `MaxAttempts`
connections per server, `MaxRevived` servers that are connected more than once by ticks, `MaxErrors` protocol errors,
`MaxDialFailures` sessions that cannot be connected. A
request is put once, as it is one pointer for one try; the Grabber's retries are other requests.

### How `YencDecoder` and `ArticleBody` correspond to the code

A line is what the decoder tells apart: the type its first bytes give it, its bytes, whether its
fields parse, and the checksums a trailer names. A checksum is the data
itself, so that two pieces of data always differ in it; which fields a line has, and how numbers and
checksums are written, is left out. The buffer holds whole lines: a `Write` that ends within a line
adds nothing the loop can take, for `scan` looks for the line ending, and what was cut comes with a later
`Write`; so a `Write` is a sequence of zero or more lines, whichever cuts made it. `yDecode` is a step per
line: `TooMuchBeforeHeader`, `SkipLine`, `parseheader`, `parsepartHeader`, `DecodeLine`,
`parsetrailer`, and `WriteFails` where its own writer may fail. Bytes are 0..255 and the decoding
maps wrap around.

What the decoder writes goes through `Sniffer`, which keeps it until it has `requiredHeaderBytes` and sets
the file's type from them. It takes a piece whether or not the output file does. `headerTable` and the number of bytes are
constants, smaller than the code's, so that a header and its pieces fit into articles of five lines.

`ArticleBody` is one segment, the first of its file, and one session: `SelectGroup`, `Body`, `CopyChunk` for each
`Write` of `io.Copy`, `CopyEnds`. After an error the Grabber is told of, `Dispatch` truncates the
file and makes a new decoder. The requests of other segments that the session serves in between show
in the group being any group at each dispatch. Bounds: `MaxLines` lines in an article, `MaxChunk` lines
in a `Write`, `MaxDispatches`.

`Plain`, `Data`, `Decoded`, `Trailers` and `IsRight` do not follow the code: they say what yEnc data is,
over the whole article at once and of each byte by itself - whether it is an escape is decided by how many
precede it - and the decoder is compared with them.

### How `GrabLots` and `RepairCycle` correspond to the code

`GrabLots` has what `GrabFile`, `FileRequired`, `FileDone` and `PostProcessable` do to `required`,
`doneFiles` and the files, a step per critical section, and of a file's segments only that their number is reached:
`FileWorking` when the dispatcher takes the first, `FileDone` when the last is done. `signalling` is `FileDone`'s
send, during which nothing that needs `doneMx` takes place. A file whose segments are enqueued a second time,
because `GrabFile` was called for it twice while it was pending, is counted past their number and makes `File.Done`
run again (`again`, `FileDoneAgain`). `Resuming`, which nobody but the caller sees, is still `Paused`. That the
`Grabber` does no more than this is `IsGrabLots`.

`RepairCycle` is `main`, statement by statement (`pc`), with its loops over files: `list` and `at`
are `GrabAll`'s files first and those of `getMorePar2s` later. A file of the NZB is a record: what its subject says it
is, what its first bytes will say, how many segments it has and how many recovery blocks its name promises.
`FromNZB` lists par2 files, twice each, as the code does, in any order that sorting by segments, which is not stable, may
leave. `Sniff` may set a file's type at any time while its first segment is with the dispatcher or a server, and so
append to and sort `par2Files`: `shared` says that `list` is the same array, whose contents then
change under the loop. Damaged first bytes, whose article is rejected later, may give a wrong type (`MaxDamaged`).
`AddFiles` has `hasFile` as the code has it, always empty. The par2 program is its output: it says that all is
well, or how many blocks it needs, up to `MaxNeeded`, or neither, or `Repair` returns an error; what it says
does not depend on the files, which leaves `main` more to cope with than there is. Errors `main` passes to `log.Fatalf` end
in `fatal`.

Abstracted: the filters of `FromNZB`, which `main` does not use; that `os.Remove` of a segment may
fail; a sort of `par2Files` that is read half way; and `Health`, rates and the flags. Requests that die with their session are
left to `Grabber`: here files that are enqueued are done some time, and `Grabber.Shutdown` returns.

Definitions whose comment calls them mutants are plausible bugs; none is used by
the specification. Each is put in the place of the definition after it to
see that a property notices.

## Runs

| Run | Configuration | What it checks | Instance |
| --- | --- | --- | --- |
| `failover` | `MCFailover.cfg` | `TypeOK`, `AsksNext`, `NonePassedOver`, `AlwaysFurther`, `Ends` | 2 segments, 2 servers, 2 groups, 2 retries, one segment out of the first server's retention |
| `enqueue_buffer` | `MCEnqueueBuffer.cfg` | `TypeOK`, refinement of `Fifo`, `EnqueueReturns`, `Delivered`, `Stops` | channels of 2, at most 6 segments on their way, 2 producers |
| `grabber_lots` | `MCGrabberLots.cfg` | `TypeOK`, `ExclusiveOutput`, `NoneForgotten`, `CountsExact`, `CountersAgree`, refinements of `Failover` and `GrabLots`, `CallerReturns` | a file of 2 segments, one that cannot be written and a par2 file, 2 servers, 1 retry, a request lost, two files out of the first server's retention; callers that wait for a lot before the next, pause between lots, shut down |
| `grabber_races` | `MCGrabberRaces.cfg` | `UnrequiredUntouched`, `SignalTruthful`, `CompletionCounted`, `NoRequestAfterShutdown`, `OnlyAskedFor` | a file of 2 segments and a par2 file, three scripts in which calls and goroutines overtake each other |
| `done_twice` | `MCDoneTwice.cfg` | `DoneOnce` is violated | pause and resume with a segment at work |
| `batch_deadlock` | `MCBatchDeadlock.cfg` | `CallerReturns` is violated | two `GrabFile` in a row |
| `pause_hang` | `MCPauseHang.cfg` | `CallerReturns` is violated | grab, pause, resume, wait |
| `strategy_service` | `MCStrategyService.cfg` | `AliveIsServed`, refinement of `GrabService`, `QuitsIdle`, `NoneConnectedAfter`, `EveryRequestEnds` | a server of 2 sessions, 2 requests, 2 connections, 2 protocol errors, 1 session that fails to connect |
| `strategy_shutdown` | `MCStrategyShutdown.cfg` | `TypeOK`, `ShutdownReturns`, refinement of `GrabService` | 2 servers of a session each, 2 requests, one of them connected a second time, 1 protocol error, 1 session that fails to connect |
| `revived_server` | `MCRevivedServer.cfg` | `DisconnectsServers` is violated | a server, no errors, a tick |
| `article` | `MCArticleBody.cfg` | `TypeOK`, `WritesTheData`, `JudgesRightly`, `SniffsHeader`, `InRequestedGroup` | articles of 5 lines, 2 to a `Write`, 2 dispatches, 2 groups, 3 bytes required to find a header of 2 |
| `repair_cycle` | `MCRepairCycle.cfg` | `TypeOK`, `ProcessesWhole`, `SmallestFirst`, `Ends` | 6 NZBs: with an index and two more par2 files, with a par2 file under another name, without par2 files, with nothing else, with a file without segments, without files; up to 4 blocks needed, 1 damaged article |

Why these bounds are enough to show something. Two servers and two groups let a
group fail on one server and be tried again on the other; one retry separates the
first, the last and an excess attempt. Two segments of a file are what
`SegmentDone` needs to be counted by both goroutines; a par2 file is what
`required`, `Paused` and the reset are about; two required files are what the
counters need. Channels of capacity 1 or 2 are full while the slice still holds
segments. `GrabCap` of 1 lets `Grab` block. Two sessions let one
goroutine outlive the other, and two connections let it outlive the tomb. In `strategy_shutdown` one server,
whichever, is connected twice, before the shutdown or during it (`MaxRevived`), and two requests at servers of one session are
what fills a response channel under a session that wants to send: a shutdown in another order then hangs.
Five lines are a header, a part header, two lines of data with an escape between them, and a
trailer; the bytes of the data make the decoding maps wrap around and have an escaped escape, and an escape at the end of a line. The par2 files of `repair_cycle`
hold no block, one and two, and up to four are needed: the files the program has may suffice by their number, twice counted
files may, or there are not enough; a second repair, and a second lot of more than one file, are then reached.
Each bound of the model is a constant:
`MaxQueued`, `GrabCap`, `MaxLost`, `Scripts`, `Nzbs`, and those named above. Deadlock is not checked because a system that
has shut down, or whose caller has no more calls, stops; that it does not stop
before is `CallerReturns`.

The violations are real executions of the code as it is written:

- `done_twice`: `Segment.Resume` makes a segment `Pending` while its request is with a
  server, `Resume` enqueues it again, and both answers find a state other than
  `Done`. `segment.go:125` says that segments become done one time only.
- `batch_deadlock`: the first file completes, `FileDone` sends on `pp` holding
  `doneMx`, and the caller, which would receive, waits for `doneMx` in its next `GrabFile`.
  `grabber_test.go:217-227` calls it in this way.
- `pause_hang`: `File.Working` has seen `Pending`; `Pause` sets `Paused`; `File.Working` sets
  `Working`. `Resume` finds a file that is not paused and leaves its paused segments.
- `revived_server`: `Strategy.Shutdown` shuts down the servers first and ends the tickers later; a tick in between
  finds a server that is not alive and connects it. After `Server.Shutdown`, the server stays connected. During it,
  `Shutdown` hangs: it reads `s.t` twice, to kill the tomb (`nntp/server.go:224`) and to wait for it (225), and the tick puts a
  new tomb there (173), for which `Shutdown` waits although nobody kills it. Then `Strategy.Shutdown` and the Grabber's never
  return either. TLC reports now the one and now the other. `grabber/server.go:240` says that Shutdown disconnects all servers.
  There is another way to hang, wider open: when `Shutdown` does wait for the tomb it killed, a goroutine of that tomb that
  comes back from an article after the tick finds the new tomb's `Dying` in its select (150) and stays. `ShutdownReturns`
  excepts just these two (`WaitsForRevived`: the Strategy waits for a server that is alive again, for ever), and so says that on
  its instance `Strategy.Shutdown` hangs in no third way.


Other disagreements met on the way, which no run shows by itself, for the models do as the code does.
After the trailer of an article `yDecode` returns and nothing is remembered: lines that are left, or
follow, are decoded into the file by the next `Write`, although its checksum was verified and `yenc.go:55` says that a decoder
handles exactly one file. The reference `Data` counts those lines as data too, as the code does and the format does not.
`SniffsHeader` and `JudgesRightly` say what is true of it.

The repair cycle can hardly be successful after its first attempt, and `Ends` and `ProcessesWhole` are what is left of what one would
wish. `Par2Cmdline.Repair` runs one `exec.Cmd` again, which Go allows once, so that the second repair is always an error
(`RepairAgain`). The arguments of the command are the files of the first lot, so that par2 files grabbed later are not named
to it. `getMorePar2s` counts the blocks of every par2 file it goes over, of the one grabbed in the first lot too, and of each twice,
because `NewFile` and `FromNZB` both list it: too few files may be asked for. Where all it chose were grabbed already, nothing is
enqueued, nothing is done, and `main` waits for ever. A par2 file whose first bytes came damaged, and then whole, is
listed a third time by `FileIsPar2`, which sorts the list while `main` goes over it: the sort is not stable, and may move a file
that was not asked for before the place `main` has reached, so that larger files are asked for and it is not. `SmallestFirst` excepts
that list. When it chose a file whose predecessor completes
while `main` is still calling `GrabFile`, it waits for `doneMx` for ever, as in `batch_deadlock`. A file
without segments is required and never done, and so is an NZB without files never
signalled: both are further ways of waiting for ever, which `Ends` excepts. And an NZB without
par2 files is downloaded and never assembled, for `NoopRepairer` is repaired from the start and `Assemble` is called in the loop.

`nntp/server.go:219`
calls `Shutdown` a graceful disconnection of all sessions, but sessions replaced by a reconnection, or left by
one that failed half way, are in no slot and are never quit. After a tick as in `revived_server`, the sessions that
`Shutdown` goes on to quit may be in use (`QuitsIdle` excepts them). `HandleGrabs` starts goroutines one by one on a tomb that dies with the last
one running: if the first ends with a protocol error before the second is started, `Go` panics
(`EveryRequestEnds` excepts it). A body without a trailer, and a trailer without a checksum, are accepted, and
the sizes of header and trailer are never compared (`JudgesRightly` says no more than is true).

## Fairness

Weak fairness of the dispatcher, the responder and the caller: Go runs a
goroutine that can run. The responder's fairness also says that a request that is not lost
with its session is answered, which is the server's part. `CallerReturns` excepts the runs in which a
request was lost, for it is never repeated and its file never completes. Nothing is assumed of
`Strategy.Shutdown` (`ShutdownStrategy`), which may never return, as in `revived_server`; `CallerReturns` excepts the
`Grabber.Shutdown` that waits in it, and in nothing else.
In `EnqueueBuffer`, a sender blocked on a channel is served in turn (strong fairness of
`Enqueue`: the channel has room again and again, not always), and a `select` picks one of its ready
cases at random, so that a `Dying` that is ready is picked in the end
(`WF(ExitEnqueuer)`, and `SF(ExitDispatcher)` for a dispatcher that comes by now and again).
`EnqueueReturns` assumes nothing of the dispatcher; `Delivered` and `Stops` assume that
its calls of `dispatch` return. Nothing is assumed of `Kill`.

In `Strategy`, weak fairness of each goroutine of a session, of the aggregators, of what `HandleGrabs` does
once called, of the caller but for beginning to shut down, and of the dispatcher and responder that are its environment. Of
`Reconnect` too: a `time.Ticker` ticks as long as somebody listens. A fetch that has begun ends in an answer or a
protocol error, which the read deadlines of the library do not give for sure, so the liveness properties
suppose it. Connections may fail to the end: `EveryRequestEnds` excepts a server that stays away for good. `Dispatch` is not
fair: nobody has to ask for anything. The decoder's properties are safety only.

In `RepairCycle`, weak fairness of `main` and of the work on each file: a file that is enqueued is worked on, done and
counted, which is what `CallerReturns` shows of the Grabber while no request is lost. `Sniff` and `FileDoneAgain` need not
happen.

## Proofs

For every value of the constants that satisfies `RetryAssumption`, `FailoverAssumption`,
`BufferAssumption`, `GrabberAssumption`, `ServerAssumption`, `StrategyAssumption`, `LinesAssumption`, `HeaderAssumption`,
`ArticleAssumption`, and `RepairCycle`'s `NzbAssumption` (a Strategy lists each server
once; `FileSeq` lists each file once, and `SegSeq` each segment of each file; capacities are positive; lines and headers
consist of bytes, and no header begins with another), TLAPS checks:

- `FailoverProofs`: `TypeOK` and `AsksNext`, by the
  invariant that they form together with where a request's server stands in the order; and
  `AlwaysFurther`, from lemmas on `SelectServer`, `SelectGroup` and `HandleError`
  (`RetryPolicyProofs`). And `NonePassedOver` of `FailoverLog`. It is not inductive, for it says nothing of a server that has
  not failed yet; `LogInv` adds that what the history holds against the server whose turn it is, its failed groups and
  used retries, that server itself answered (`UsedUpAt`, of `Turn`). `FailServer` starts the next turn with nothing used up;
  the record only grows, so that what was tried out stays so.
- `EnqueueBufferProofs`: `TypeOK`, the refinement of `Fifo`, and that an empty slice is never indexed (`SendsSomething`). The
  enqueuer is at its second select only with a segment in the slice; each step
  moves one from end to end of `qOut \o b \o qIn`, or leaves it as it is.
- `GrabberProofs`: `TypeOK`, which is inductive with `InCall`, the fact that the
  caller is never at a call, file or segment that is not there; `SignalTruthful`, by
  showing that every step either leaves the counters and the signalling threads
  alone or needs `doneMx`; `NoRequestAfterShutdown`, from the dispatcher having exited.
  Then `UnrequiredUntouched`. By itself it is not inductive: the
  caller acts on a state it read a step before. `Untouched` adds that a file that is not required
  is paused, or just being resumed by the caller, and `ThisRequired` that what
  the caller saw of the file at hand still holds when it enqueues. Also `OnlyAskedFor`,
  by `AskingInv`: in `File.Resume` the caller is in a `GrabFile` that names the file, or the
  file was required already.
  And `CompletionCounted`: only `SegmentDone` takes a segment out of the
  ones still to be counted, and adds one to `done` as it does; everything else
  keeps the set of counted segments or shrinks it.
- `GrabberOrderlyProofs`: `NoneForgotten`, for any caller, by `Remembered`: a working segment is queued, asked for, the dispatcher's,
  or the responder's before `DoneWrite`, unless it was lost; and a segment the dispatcher may drop, being between `SegmentWorkingRead` and
  `SegmentWorkingSet` or past `DoneWrite` with it, is not working. Then `ExclusiveOutput`, `CountsExact` and `CountersAgree` for the
  callers of `LotAtATime`: a `GrabAll` or `GrabFile` is followed by a wait on `PostProcessable()` or by `Shutdown`, and the first call is no
  `Pause` or `Resume`. Other callers break all three (`done_twice`). They leave out `main` where it asks for several par2 files
  in a row: what that can meet is `batch_deadlock`, and `RepairCycle` has it. One invariant does it, `LotInv`, of four parts that need each other. `Apart`: a segment is in one place,
  and in the queue once. `DoneInTime`: it is done exactly when the goroutine that has it is past `DoneWrite`, so that `DoneCheck`
  never finds it done. `Books`: `File.done` is the number of segments counted, a file is done only when that is all of them, so
  that only the last `SegmentDone` goes on to `File.Done` and it does so once; the failures likewise; and `required` is what is reported, being reported
  and still to do (`Balance`). `Lots`: what the caller still has to enqueue is `Fresh`, with no segment on its way, working or done. That is so at
  the beginning of a lot because the signal means, by `SignalTruthful` and `Balance`, that every required file is done (`AllDone`), and the others
  are `Untouched` (`AllFresh`); and then there is nothing to pause, which is why `Pause` and `Resume` are harmless between lots.
  From `LotInv` also the two refinements. Of `Failover` (`ImplementsFailover`), by `WorkOK`: a segment that is asked for, being answered, or with the dispatcher past
  `SegmentWorkingSet` is `Working`, and a lost one is `Working` and nowhere, so that the place a segment is in tells its stage
  (`Staged`). Each step then moves one segment by one step of `Failover`, or none. Of `GrabLots` (`ImplementsGrabLots`), where the callers must also be `NotWhilePaused`: a
  `GrabAll` or `GrabFile` after a `Pause` comes after a `Resume` too. Without that a segment enqueued while the Grabber is paused is dropped by
  the dispatcher, and no step of `GrabLots` forgets a file that was enqueued. The scripts of
  `grabber_lots` (`LotByLot`) satisfy both assumptions. The invariant is `StepInv`. `FilesInStep`: a file has begun, or is working, when its segments have, and is in the state in which the
  dispatcher read it. `CallerInStep`: the file at hand is paused, resuming or begun, as the caller's place in `File.Resume` says. `PausedRests`:
  a paused Grabber has nothing to do, and a `Resume` comes before the next grab. So the dispatcher never drops a segment, a segment
  once enqueued (`Met`) stays so, and each step is one step of `GrabLots` on one file, or none.
- `RepairCycleProofs`, about `GrabLots`: for callers that call `GrabFile` for no file that is enqueued already (`GrabbedOnce`), a signal means that every required file is
  done, over any number of lots (`AllRequiredDone`). The invariant is a balance: `required` plus the file that is being required
  is `len(doneFiles)` plus the files whose `FileDone` is still to run plus those required and not done; a reset
  takes as much from one side as from the other, because it is made only when the rest is zero, and each
  other step moves a file from one place to the next. By `ImplementsGrabLots`, whose mapping has no file enqueued
  twice, this is so of the `Grabber`.
- `StrategyProofs`: `TypeOK`, `AliveIsServed`, `QuitsIdle` and `NoneConnectedAfter`. For the second, `GenOK`: no goroutine is of a later attempt
  than `s.t`; one at its select watches no tomb older than its own, so that it never leaves a living tomb of its own
  behind; and the sessions started so far on a living tomb have goroutines that run. For the third, `QuitOK`: the sessions in the slots are never of an earlier attempt than `s.t`, and
  no goroutine runs on a tomb that is dead, so that a session `Quit` takes is of the tomb it has waited for, or later. For the last, `CallerKnown`: a
  call of `HandleGrabs` that is under way is a ticker's or `Connect`'s own, and the tickers have ended when
  `Shutdown` has returned. And the refinement of `GrabService`, by `OnePlace`: of the places a request can be in - each
  server's two channels, each goroutine of a session, each aggregator, `grabRsp`, what is answered, what is lost - it is in one
  at most, and in a channel once; whoever holds a request holds only one; and a goroutine
  holds nothing when it is started. A step moves at most one request from one place to another, and `GrabService` only sees it
  when the place it comes from or goes to is not one of those that are `Asked`.
- `ArticleBodyProofs`: all the properties of `article`, for any lines, table of headers and groups, and whatever
  the bounds on articles, `Write`s and dispatches. First, what the decoder's loop over bytes computes. `decodeline` is a fold and the
  format a concatenation, so each is shown to be well defined, and what it is for no byte and for one
  byte more. The library's induction theorems cannot be used, for they take an operator; an induction here is one on the set of
  the lengths for which a statement holds, which has 0 and with each number the next, and so is all of `Nat` (`Induction`,
  `SeqInduction`; from the least element a set of numbers has). `decodelineIsPlain` follows: on every
  sequence of bytes the decoder agrees with the format, and remembers an escape exactly if the bytes end in one, which is
  what lets lines be decoded one by one (`decodelineConcat`). The same for lines: what one line more does to the
  place of the header, the data, the trailers and whether they are right. The invariant is `ArticleInv`, over the lines
  that were taken (`Taken`), which are those scanned but for one that failed. `HeaderOK`: the header and the part header are the
  lines' own, and before them all bytes were counted, so that the decoder takes a line for data when it is data
  (`InDataIsData`). `DataOK`: what is written, and the pending escape, are what the data of the lines says.
  `JudgedOK`: the trailers that were passed were right, what was rejected is damaged, and only a trailer leaves lines in the buffer.
  `SnifferOK`: until it has enough, the sniffer keeps all that was written. `StepOK` and `GroupOK`: where `WriteArticleBody` is while the decoder is at work, and
  that the session's idea of its group is the server's. TLC checked `ArticleInv` on the instance of `article` first. `OneMatches`
  lets the model take any matching entry of the table where the code takes the first.
- `RepairCycleProofs`, about `RepairCycle`: `TypeOK`, `ProcessesWhole` and `SmallestFirst`, from the lemmas about
  the counters of `GrabLots`. What holds of the counters, the files and the post-processor's list changes as `main` goes on, so the invariant
  (`RepairInv`) has stages: the lot of `GrabAll`, for which no file is grabbed twice (`First`); no file being grabbed
  (`Quiet`); a lot of `getMorePar2s` (`More`), in which a file may be grabbed twice, so that only those it newly requires are
  counted, and a signal says less; and that lot having been added (`Last`), where a file that was added twice
  keeps `Assemble` from succeeding. For `SmallestFirst`: the list is sorted, `main` goes over a prefix of
  it, and all before the place it has reached are required (`InOrder`). The proof showed that this fails once
  `FileIsPar2` sorts a longer list while `main` goes over it, as described under Runs.

Only model-checked: the liveness properties (`Ends` twice, `EnqueueReturns`, `Delivered`, `Stops`, `CallerReturns`,
`EveryRequestEnds`, `ShutdownReturns`), which depend on fairness and so on `ENABLED`, out of reach of the
provers. Every invariant and every action property of a run is proved, and so is every refinement: of `Fifo`, `GrabLots` and
`GrabService`, which state no fairness, and of `Failover` without its fairness.

## Not modelled, and the plan

What could be added: a model of the failure history without the atomicity it is given here. Its maps are
read and written by dispatcher and responder without a lock, and Go gives that no meaning.

Left out for good: XML parsing, network and file input and output, the par2 program,
the regular expressions that take a name and a type from a subject, hashing, logging, download rates. `Health` is a division of
`failedSegments`, whose value is modelled. `Grabber.Done` has no caller.

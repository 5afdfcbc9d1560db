# gosuv in TLA+

gosuv is a process supervisor in Go: a web server that keeps a table of
*programs*, runs each as one or more *processes*, restarts what ends, and
streams states and output to browsers, whose pages are in `res/js`. This
directory holds models of it, the TLC runs that check them and the TLAPS proofs
about them.

    tlc -config page.cfg MCPage        # one run
    tlapm PageProofs.tla               # one module of proofs

## The system

| part | source | state | operations | modules |
|---|---|---|---|---|
| process slot | `gosuv/process.go`, `gosuv/fsm.go`, handlers in `gosuv/program.go` | FSM state, `cmd`, `retryLeft`, `stopWg`, `stopC`, `mu` | Operate(start/stop/restart), startCommand and its monitor goroutine, waitNextRetry, stopCommand, IsRunning | `Process`, `Slot` |
| program | `gosuv/program.go` | `Processes`, `ProcessNum`, parameters | InitProgram, UpdateProgram (grow, shrink), StopAndWaitAll, stopAndWait, Start/Stop/Restart of one or all | `Program` |
| supervisor and database | `gosuv/supervisor.go`, handlers of `gosuv/web_api.go` | `name2Program`, `namesMu`, the table `programs` | add, update, delete, start, stop, reload, load at the start | `Registry` |
| event and log broadcast | `gosuv/broadcast.go`, `handleWs` | writers with a channel of 100, ring buffer, `closed` | Write, NewChanString, CloseWriter, addEventSub | `Broadcast`, `Topic` |
| shared Wait | `vendor/.../kexec/kexec.go`, `GoFunc` | `once`, `errCs`, `finished`, `err` | Wait by any number of goroutines | `KCommand`, `Outcome` |
| pages | `res/js/index.js`, `program.js` | the list shown, the pending fetch, the websocket with its interval | refresh, refreshRequest, newEventWatcher, heartbeat, onclose | `Page` |
| log pipeline and window | `gosuv/broadcast.go` (QuickLoss), `res/js` | `bufC`, ring, the lines shown, the unfinished line | Write, drain, cmdTail, processLogEvent | `LogView` |
| upload zones | `res/js/dropzone.js` | files, their status and requests, timeouts, thumbnails | addFile, enqueue, processQueue, uploads, cancel, remove, disable | `Dropzone` |
| log lines of several processes | `gosuv/merge_writer.go`, `gosuv/buffer_pool.go` | pool of buffers, `lines` channel | Get, Put, Write, WriteLine, drainLines | - |
| exit | `cmds/tool_gosuv.go`, Close of `gosuv/supervisor.go` | `ProcessWg` | catchExitSignal: StopAll of every program, then Wait | `Exit` |
| action queue | `gosuv/process_states.go` | `State`, list of pending actions | AddAction, PopNextAction, LastAction (tested, not used by the server) | - |
| gzip, LDAP cache, statistics, helpers | `gosuv/gzip_cache.go`, `gosuv/ldap_auth.go`, `gosuv/gops`, `gosuv/utils.go` | buffered response; users seen; - | | - |
| configuration, drawing, command line | `gosuv/config.go`, `res/js/qrcode.js` and others, `cmds` | - | I/O, drawing | - |

How they interact. A handler locks `namesMu` for its whole call and operates
the slots of a program. Operating a slot runs the FSM's handler in the same
goroutine; a restart spawns a goroutine that holds no lock. The slot's monitor
goroutine receives from `stopC`, waits for the child through KCommand.Wait and
sets the FSM's state; each change of state is broadcast on `gEventPub`, to
browsers and to `stopAndWait`, which waits for it under `namesMu`. Children
write to the QuickLoss writers and, line by line, to the program's MergeWriter.
A page has one websocket for events and one for a log; an event makes it fetch
the list again. A request of a page is a handler; what it asked is in the table
of the database, from which the next gosuv starts. A signal makes the main
goroutine stop every program and wait on `ProcessWg`.

What is hard: the goroutines of one slot share `p.cmd` and the state without a
common lock; a send to `stopC` may be dropped; a WaitGroup is used as a signal
between goroutines that reuse it; a writer is closed by whoever notices first,
while others write to it; a handler waits for events with the one mutex of the
API held; a page must notice by itself that it hears nothing any more; the map
of programs and the table are changed one after the other. `PROJECT.json` lists
each hazard at its line.

Several runs hold more than one instance: an `MC` module adds the variable
`instance`, which is chosen at the start and restricts the requests that may
come (`MCProcessCases`, `MCProgram`, `MCBroadcast`, `MCLogView`), or the choice is a variable
of the model itself (`page` of `Page`, `options` of `Dropzone`). The steps of an
operation that was begun are the same in all; a property of one instance says
so. Only the shares that differ are explored twice, and every property is
checked of all of them.

## The slot: Process, Slot, MCProcess, ProcessProofs

`Process` has the variables of one `Process` struct and a program counter per
thread. A thread is the handler that holds `namesMu` (`Api`), a goroutine of a
restart (`Restarters`), or the monitor of a command (`Runs`, which also names
the command and its child). One action is one step between two points where
another goroutine can run: a write of the state, of `p.cmd` or of a WaitGroup,
a select, a Wait.

| code | actions |
|---|---|
| handlers of the API, StartOne/StartAll/Stop*/RestartAll | `Request`, `IsRunning` |
| FSM.Operate and NewProcess's handlers | `Operate`, `Reset`, `SendStop`, `WaitStopped` |
| startCommand | `Build`, `Announce`, `Exec`, `ExecFailed` |
| its monitor | `Add`, `Bind`, `ChildEnded`, `QuickFatal`, `FatalDone`, `Forget` |
| waitNextRetry | `Retry`, `RetryDone`, `Countdown`, `RetryTimer` |
| stopCommand | `StopCheck`, `StopNil`, `Stopping`, `Term`, `Grace`, `Reap`, `StopDone`, `Clear` |
| the child | `ChildExits`; `Exec` may fail; `Grace` may kill |

A nil dereference and a WaitGroup misuse are the action `Panic`: net/http
recovers a handler's, any other ends gosuv (`panicked`).

Nothing in the code stops a `startCommand` from setting `p.cmd` while another
thread still works on the slot. The history variable `overlaps` counts how
often that happened, and the properties under `Serial` speak of the states
before the first time. Their point: this overlap is the *only* way the slot
goes wrong. `process_one_child` shows that starts and stops alone reach it.

| run | instance | shows |
|---|---|---|
| `process_serial` | 3 commands, 1 restart, 1 retry, every event and duration | `SoleChild`, `NoNilCommand`, `DonesMatchAdds`, `TypeOK`, and `ImplementsSlot`: the slot is a `Slot` |
| `process_cases` | 2 commands, 1 restart, 2 retries; *overlap*: starts and stops with one overlap; *serial*: every event, no overlap; *rest*: auto-started, stops only | `ApiComesBack`: a handler returns from the slot, even after an overlap; `ComesToRest`: a stop the monitor took is final, and retries come to an end |
| `process_one_child` | starts and stops | violated: two children in one slot |

Bounds. Names of commands are used again once nobody refers to them, so the
runs have no bound on the number of starts; with three names there can be a
current command, one whose monitor is about to return and a new one. A
`startCommand` waits while no name is free or `MaxOverlaps` is reached, and the
properties accept that as an end. Two names suffice where overlaps are few.

Fairness. Every goroutine that can run does (weak fairness per thread), every
timer fires, and a send that times out does so. Nothing is assumed of requests,
nor of a child nobody kills: `GivesUp` states what it needs of children.

Proofs. `ProcessProofs` proves the safety properties of `process_serial`
for any sets of commands and restarts, any number of retries and any bound on
overlaps. The inductive invariant `IInv` says that before the first overlap at
most one thread is in charge of the slot (`Alone`), that what it knows of
`p.cmd` (`OwnCmd`, `StartCmd`), of its Wait (`OwnWait`) and of the state it last
showed (`Shown`) is still true, that a live child is the one of `p.cmd` and is
watched (`Sole`), and that nothing runs when nobody is in charge (`AtRest`).
`SoleChild` alone is not inductive: that a monitor at its last Wait waits for
its own command is what makes Stopped honest. `DonesMatchAdds` is proved on top
of it: each step adds a monitor to those that owe a Done and one to the
counter, takes one from both, or leaves both alone. Assumed: the names of
commands, restarts and the API are different, commands are finitely many.
Liveness is left to TLC: the prover has no rules for fairness here.

## Events and output: Topic, Broadcast, MCBroadcast, BroadcastProofs

`Broadcast` is one WriteBroadcaster. Its threads are the goroutines that write
(`Pubs`: whoever changes a state, for `gEventPub`; the one `drain` goroutine,
for an output), the handlers of a websocket (`Sockets`) and the callers of
`stopAndWait` (`Watchers`) with the forwarder that addEventSub spawns.

| code | actions |
|---|---|
| WriteBroadcaster.Write | `Post`, `Store`, `Lock`, `Deliver` per writer, `Unlock` |
| NewChanString, addEventSub | `Arrive`, `Register`, `ReadHistory`, `CheckClosed`, `SendHistory` |
| handleWs | `Forward`, `Leave`, `EndLoop`, `CloseWriter` |
| the forwarder and the caller of stopAndWait | `Range`, `Give`, `EndLoop`, `CloseWriter` |

The ring is written before the lock is taken: `Post` reads it and `Store`
writes it back, so one publisher may undo another's write. A send that fails
after 100ms with a full channel is a choice of `Deliver` and `SendHistory` when
the channel is full.

`Topic` is the promise: one order of messages, and to each subscriber what
follows its registration, without a gap or a repetition, until it is cut off.
`Broadcast` implements it with `seen` the live messages that were received.

| run | instance | shows |
|---|---|---|
| `broadcast`, *events* | 2 publishers, 1 browser, 3 messages, channels of 2 | `TypeOK`; `ImplementsTopic`; `PublisherReturns`: a slow client stops nobody; `HandlerLeaves`: who left is deregistered |
| `broadcast`, *log* | 1 publisher, 1 browser, 1 stopAndWait, 2 messages | `OutputComplete`: with one writer of the ring nothing is lost between history and what follows; `WakesUp`: a first message always comes, though the event may be over |

A comment (`broadcast.go:79`) says that the history is written before anything
else. It is not: the writer is registered first, and a publisher may be faster.
`Page` has this race for events, where it does no harm (`EventShown`); `LogView`
has it for output, where a piece may come before its past (`Unbroken` excludes
that case).

Bounds. A channel of 2 holds the history and a message, and fills with two
messages a client does not take; a third meets a writer that is cut off by it.
Messages have no content. The ring never overwrites, and `closed` of a broadcaster is never
true: no code sets it so.

Fairness. Publishers, handlers and forwarders run and their timers fire; no
client has to read, to write or to leave. `HandlerLeaves` speaks of a handler
that saw its client go, `PublisherReturns` of any client.

Proved for any publishers, subscribers, messages and capacity: `BroadcastTypes`;
`TopicRefinement`, which is `ImplementsTopic`; `HistoryOfOneWriter`: if two
publishers are never inside Write together (`OneWriter`), a history that was
read has everything from before the registration; and from it `OutputHistory`,
`OutputComplete` of the instance *log*. The invariant: messages are written once,
in the order of the log (`Written`); who has the lock is at its place, and has
gone over the writers it no longer has to (`Locked`); a writer is in the map from
its registration until it is closed (`Registered`), with one history at most in
its channel (`OneHistory`). The heart is `InOrder`: what a subscriber received,
followed by what its channel holds, is the log from its registration up to the
message it is still to be given, without a gap. The refinement needs the order of the channel, not only its contents: that is
why `seen` has the messages received and no marks of the history.

## Waiting for a child: Outcome, KCommand, MCKCommand, KCommandProofs

exec.Cmd.Wait may be called once, but the monitor, its stop and the last Wait
of stopCommand all wait for one child. `KCommand` has one program counter per
call and one per goroutine spawned in `once.Do`; a critical section of `mu` is
one action (`Register`, `AnswerAll`). A call of GoFunc ends with `HandOver`, to
a receiver that may have left.

`Outcome` is the promise stopCommand rests on when it shows Stopped: a child
has one result, and every caller is told once, that result or that there was
no child, and never before it is known.

`kcommand` (3 calls, 2 of them by GoFunc, 2 results) checks
`ImplementsOutcome` and `EveryWaitReturns`: receivers that left
harm nobody but the goroutine that answers them, which stays for ever. Three
calls are those the code makes for one child. Fairness is that of goroutines; a
child need not end.

Proved for any number of callers and results: `WaitTypes`, `NobodyForgotten`,
`WaitRefinement`. `NobodyForgotten` is the safety half of `EveryWaitReturns`:
once `finished` is set, who waits has its answer. The invariant: one goroutine at most is spawned
(`OneReaper`), so `err`, once set, is the child's own result (`Known`), and so
is what any channel holds (`Sent`); who waits is in `errCs` (`Calls`).

## A program: Program, MCProgram, ProgramProofs

`Program` has the list `Processes`, `ProcessNum`, the handler that holds
`namesMu` with its operation, loop index and place, and each process as `Slot`
shows it: its state, where its monitor is, the retries left, and where the
goroutine of its restart is. That a process behaves so is `Process`'s subject;
overlapping startCommands, and the retry given back after ten minutes, are only
there. `wake` is what `Broadcast` promises stopAndWait: the history, and then
an event for each change of state.

| code | actions |
|---|---|
| requests | `Begin`; a removal takes the program from the map first |
| StartAll, StopAll, RestartAll (StartOne, StopOne: one turn) | `Each`, `IsRunning`, `Operate`, `Send` |
| UpdateProgram | `Grow`, `Shrink` |
| StopAndWaitAll, stopAndWait | `Shrink`, `IsRunning`, `Operate`, `Send`, `Subscribe`, `Woken`, `SetNil`, `Cut` |
| monitor, waitNextRetry, stopCommand | `Monitor`, `Ends` |
| the goroutine of a restart | `Restart` |

IsRunning reads the state twice and is two steps (`Reads`). A start that fails is
one step (`Starts`): that the process is shown running for the moment of the exec
is left to `Process` (`Announce`, `ExecFailed`).

| run | instance | shows |
|---|---|---|
| `program`, *update* | 2 processes, 1 retry; start, stop, resize, delete | `ListSound`: types, list, ProcessNum and indices fit; `Survivors`: a shrink spares what it keeps; `StopReturns`, which is `TakenStopReturns` |
| `program`, *restart* | 1 process, 1 retry, all operations | the same, and `RestartsEnd`, which is `RestartEnds`: a restart whose stop was taken ends |
| `program`, *exit*, *exit of two* | a signal at any time: 1 process, all operations; 2 processes, which end and retry | `Gone`, `ExitEnds`: see below |
| `program_removed` | 2 names, 1 process, no retry | violated: a restart starts a process of a removed program |

Bounds. Two processes tell the last from the others, which is all the loops
do. A name is used again when its process is out of the list and at rest. One
restart is pending at a time; process_num is from 0 to `MaxNum` (the code takes
negative numbers, see the hazards). A removed program gets no request: a later
one of the same name is a new ProgramEx.

Fairness. The handler, the monitors and the restarts run; children need not
end, requests need not come. So `TakenStopReturns` assumes that the monitor
took the stop, and that no restart is pending. The first is needed: StopEvent
has no handler in RetryWait, so a stop there is lost, the process starts again,
and stopAndWait, which takes RetryWait for running, waits for its end with
`namesMu` held. Without that condition the property fails.

Proved for any number of processes and retries: `ProgramTypes`, `ListIsSound`
and `SurvivorsAlways`. `ListSound` is not inductive: in the middle of an update the list
and ProcessNum differ. The invariant says by how much: in a loop that removes,
the index is the length of the list (`Removing`); in one that adds, one more
(`Adding`); the other operations change neither (`Steady`, `Calling`). No step
of a monitor or of a restart touches the list (`BesideKeeps`). `Survivors` needs
besides that a process is in the list once (`Once`): the loop, which works on the
last of the list (`WorksOnLast`), then leaves the others as they were.

### The end of gosuv: Exit, ProgramProofs

`Exit` extends `Program` by the main goroutine. At a signal (`Signal`) it stops
each process of the list (`StopAll`, `Turn` up to the send, `StopSend`), without
`namesMu`, while the web server goes on, and waits for `ProcessWg`. Every step of
`Program` goes on until then (`While`); with `Over` all goroutines are gone. A turn
that meets an element which a handler has just set to nil (`SetNil`) or cut off
(`Cut`) panics, and gosuv ends without a word.
`ProcessWg` is not a variable but the set of monitors that called Add and not
Done; that Add and Done match is proved of `stopWg`, which is counted in the
same places (`DonesMatchAdds`). Who waits is released by the Done that brings it
to zero (`woken`), whatever is added afterwards.

`calm` remembers the processes that were at rest or ran when the signal came,
as long as their child does not end by itself and nobody starts them. `Gone`:
when gosuv says that it terminated, these have no child left. `ExitEnds`: a
signal ends gosuv, if only by a panic, unless another process keeps it. The
others are no matter of
caution, the code promises them nothing:

* Add is called in the monitor's goroutine: a child that was just started is
  not counted, the Wait may return and leave it behind.
* StopEvent has no handler in RetryWait: the process starts again two seconds
  later, and gosuv waits for that child as long as it likes.
* A restart or a request may start a process that StopAll has passed.
* stopAndWait may take a process out of the list that went from RetryWait to
  Running between its two reads; StopAll does not find it. TLC found this one
  when `ExitEnds` did not yet ask for a process in the list (`Listed`).

Close goes over `name2Program` without its lock, which Go's runtime may punish
with the end of the program when a handler changes the map; that is not in the
model. Bounds and fairness are those of `Program`; no signal has to come.

Proved for any number of processes and retries: `GoneAlways`, which is `Gone`.
The invariant: a process's state fits to where its monitor is (`Fits`), so a
start never finds a monitor, and a calm process is at rest, runs, or is being
stopped (`Orderly`), which are the places `ProcessWg` counts. No step of
`Program` takes a process out of them that does not end its child or start it
(`Keeps`).

## An open page: Page, MCPage, PageProofs

`Page` is a browser's page and the server it shows. JavaScript runs one callback
at a time, so an action is a callback or a step of the server. A page fetches
the list of programs (`index.js`) or processes (`program.js`) when an event
comes, and watches its connection by heartbeats.

| code | actions |
|---|---|
| refresh, refreshRequest | `Refresh` (part of its callers), `TimerFires`, `Success`, `Failure`, `Complete` (part of both) |
| the server's answer, the change of a state | `Answer`; `Change`, `Post` (a change of the table), `Announce`, `SetState` (of a process) |
| handleWs and its writer | `Register`, `SendHistory`, `Forward`, `CutOff`, `HandlerEnds` (part of `OnClose`) |
| newEventWatcher | `NewEventWatcher`, `OnOpen`, `OnClose`, `Heartbeat`, `Echo` |
| time, the end of gosuv | `Tick`, `Crash`, `Restart` |

`Announce` and `SetState` are two steps because `SetState` of the FSM posts the
event before it sets the state, and who reads the list takes no lock of the
FSM. `Sockets` are calls of newEventWatcher: the closure's interval can outlive
its socket, as onclose does not clear it. It then sends and counts in the next
connection, whose echoes reset another count, and at its third beat it closes
a healthy connection (`Heartbeat` of a closure other than `events`).

| run | instance | shows |
|---|---|---|
| `page` | both pages, 2 versions, 2 sockets, one fault | `TypeOK`; `ShownForward`: the list never goes back; `EventShown`: an event that reached a registered handler is shown, though the first message is dropped and requests are put together; `ProgramCatchesUp`; `Reconnects`: to a server that stays, always again; `ClosesUnanswered`: without a left-over interval index.js closes only what does not answer |
| `page_stale` | the same, no fault | violated: on a connection that stands, the list stays as it was before the change an event told of |

Bounds. The first version is there at the start, the second is the change. Two
names of sockets are the connection and the one before, whose interval may
still run; names nobody refers to are used again, so connections are not
bounded. `Period` and `Pause` are 5 and 3 seconds in the code and 2 and 1 here:
what matters is that the pause is shorter than a period, so that the interval of
a lost connection beats in the next one. A fault is an end of gosuv or a client
cut off.

Fairness. Callbacks are called, time passes, gosuv's goroutines run and gosuv
is started again; the state need not change. A client that was cut off gets no
close event: handleWs returns and nobody closes the connection. Only missed
heartbeats tell the page, which is what `Reconnects` rests on. `program.js`
takes an echo for an event and never resets its count: it closes every
connection at the third beat, opens it again, and catches up because of it
(`ProgramCatchesUp`). For `index.js` nothing promises that it catches up with
what changed while it was not connected.

Proved for any timing, numbers of versions, sockets and faults:
`OneFetchAlways`, at most one fetch is on its way, and from it `NeverBack`, which
is `ShownForward`. The invariant `FInv` says where the one fetch is: nowhere, in
the timeout, on its way to the server, or in an answer not older than what is
shown; and that `busy` is set while it is somewhere. `OneFetch` alone does not
say that an answer is not old. `PageTypes` needs that a state is only announced
if there is room for it. `ClosesUnansweredAlways`, which is `ClosesUnanswered`,
needs one relation (`Counted`): what the closure of the open connection counts as
missed was sent on that connection and is not answered. It is true although
left-over intervals count and send, too: they count for themselves, and what
they send on the connection only adds to the right side.

## Output on its way to a window: LogView, LogViewProofs, MCLogView

`LogView` follows the output of a process: the bounded queue of
QuickLossBroadcastWriter (`Write`, `Drain`), the history and the registration of
wsLog (`Register`, `SendHistory`, `CutOff`), the window of a page (`CmdTail`,
`OnOpen`, `Hide`, `Follow`) and processLogEvent, which makes lines of the pieces
(`Deliver`). A text is a sequence of tokens and what travels are positions in
it, so what was lost, repeated or moved can be told from what was written.

A line that ends in an upload link goes through decodeURIComponent, which throws
on escapes that are malformed or cut (index.js:239). The exception leaves the loop
in the middle: `_lastLogContent` is set, the lines before are in the window,
`_lastLogLineNum` is not updated, and the rest of the message is lost. The
constant `Undecodable` is the set of lines it throws at, `Decoded` the lines before
the first of them. From then on the window may hold more than MaxLines lines, as
the drop goes by the count; so no property bounds it.

`log_view` (queue of 1, ring of 2, window of 1 line) has two instances: *window*
(two targets, one with a color code and a line that throws, one with a line that
is hidden; writes of one or two tokens; the page is opened, switched, paused,
closed and cut off at any time) and *lines* (one longer text: a line that throws
between others, a hidden line with a color code; writes of up to three tokens; a
page that opens it once and stays). It checks

* `TypeOK`;
* `Unbroken`: no gap but those the code names (a full queue, a pause, a message
  between registration and history);
* `Arrives`: what was written last reaches a page that stays;
* `AsAWhole`: however the text was cut, the unfinished line is kept, only lines of
  the text are shown, and there is a first child whenever the count says that one
  is to be taken out; and unless a line of the text throws, the window shows what
  the whole text would show. What of a message follows a throw is lost, and
  whether a line is in the same message depends on the cut: for such a text
  nothing more is promised.

These bounds are the smallest at which the queue
is full, the ring forgets, the window drops a line, a line is shown before a throw
in its message and after it, and a code or a line is cut in two. `holes`
remembers that the user paused, after which a line may be glued to the half line
from before; the window is right again when it is cleared. Fairness: drain,
handler and callbacks run; the child need not write, the user need not do
anything.

Proved for any texts, writes and sizes: `LogTypes`, `AsAWholeAlways` and
`UnbrokenAlways`, which are `TypeOK`, `AsAWhole` and `Unbroken`.

`AsAWhole` is inductive together with the types; the work is in one message. The
lines of a text are defined by the positions of its newlines, in their order
(`Nth`), not by a loop, so the prover can reason about them. `LinesJoin`: the
lines of a text and a message are those of the text, then those of the unfinished
line with the message. That is split's business in the code, and it is true for
any cut, even in the middle of a color code or of a hidden line. `ShowAllIs`: the
loop that drops the first child when the count of lines exceeds MaxLines leaves
the last MaxLines lines, if the count is right before; an induction over the
lines of the message, done with the well-foundedness of the numbers. After a throw
the count is too small, and what is left is weaker: the window holds at least
the lines counted, or MaxLines (`ShowAllFills`), so Tail is never taken of an
empty window. A text whose lines do not throw has a beginning of which that is true
as well (`DecodableParts`), so the exception needs no history variable.

`Unbroken` alone is not inductive: it does not say what is on its way. The
invariant `UnbrokenInv` was checked by TLC before it was proved. It says, of a
target that lost nothing: each piece in its queue is a run of positions that goes
on where the one before ends, and the history ends where the queue begins
(`Piped`); of a page that is served: so are the messages, which end where the
history ends, and between the text and the first message there are only color
codes (`Seam`). A history may be empty or forget its beginning, so the first
message may begin anywhere as long as no text is there; a socket that is not
yet served has none (`Served`, `Seam`). What is stripped of a run leaves only codes
out (`StrippedRun`).

## Upload zones: Dropzone, MCDropzone, DropzoneProofs

`res/js/dropzone.js` is a library kept beside the pages (no template loads it
at this commit). `Dropzone` has the life of a file from addFile to its last
event, the queue, groups of files in one request, maxFiles, `done` called at once
or later, cancellation, removal, disable, enable, destroy, and the thumbnails,
whose queue is an array in the prototype and so common to all zones. Handlers
that loop over files are functions from a `State` to a `State`, as in the code a
complete of one file may start uploads of others. Files are numbered as they
come and no list is ever sorted, so the list of a zone and the files of a request
are sets, in the order of the numbers. Progress, markup and the canvas are left
out.

disable takes the listeners away that hear a drop or open the dialog, but what
was begun before goes on: a dialog that is open, whose hidden input keeps its
listener (567-581), and the reads of a directory, whose callbacks call addFile
whatever became of the zone (`_addFilesFromDirectory`, 931-963). So files come
to a zone at any time, unless it never had listeners (`Hears`), and a disabled or
destroyed zone uploads them. `stopped` remembers the files that were in the list
at a disable or destroy: those are promised to stay what they became.

`dropzone` (four layouts, of two or three files in all: a zone that groups and hears late what is
accepted, one with a limit, one run by hand, two that share thumbnails) checks

* `Books`: types; a complete for each file that is done and only then, once but
  where the code repeats it; the limit, and its class;
* `Parallel`: as many uploads as allowed, no more, and no room left unused while
  files wait, unless a timeout will look;
* `NoOrphans`: what uploads is in the list with its whole group and its request,
  and what disable and destroy stopped stays stopped, though late files start
  the queue again, `enable` comes, done is called and requests report;
* `FinalStays`: late reports and late answers undo nothing;
* `ComesOut`: queuecomplete comes and thumbnails are made.

Some of what they exclude is worth knowing: files whose acceptance is pending
at the same time may exceed maxFiles; `handleError` completes each file of a
group of n n times; the removal of the last waiting file makes no
queuecomplete; a FileReader that fails leaves its zone without thumbnails
(there is no onerror). Two files fill a group, or the one place of a zone
and the queue behind it; three meet a limit of one, before and after a removal
makes room for the next. Fairness: timeouts fire, requests report, readers end;
a user need not act.

Proved for any zones, files and options: `BooksAlways`, `ParallelAlways`,
`NoOrphansAlways` and `FinalStaysAlways`, which are `Books`, `Parallel`,
`NoOrphans` and `FinalStays`. They rest on one invariant, `DInv`, of three parts:

* what the functions keep of a `State` (`Sound`): what is in a list was added
  there (`Listed`); a file is sent once, after its done (`Unsent`); the files of
  a request that is out are all uploading or all canceled (`Together`); an upload
  has its request, whose files are all in the list (`Carried`), without which
  the removal of one file could leave the others of its group behind; complete
  came as often as it may (`Noted`); no zone has more uploads than allowed
  (`Bounded`);
* what is true between handlers: a zone without a timeout has no room for what is
  queued (`Filled`), what was stopped is final (`Quiet`: when the loop of disable
  ends nothing waits in the list, and no handler but a late rejection changes
  what is final), done is called once (`Unheard`);
* the limit and its class (`Limited`).

Most handlers only start, cancel or remove (`Calm`): they change no file of
another zone and none that is final, and leave no room they did not find. That
is why any order of them is right, and why loops of them are: the loops of
disable and removeAllFiles are recursive functions over the number of files, for
which `LoopExists` and `UpTo` give the induction, from the least element of a
set of numbers.

## Map and table: Registry, MCRegistry, RegistryProofs

`Registry` has `name2Program`, the rows of the table `programs`, which hosts
share, and the handler that holds `namesMu` with what it has still to do. A
handler changes the map and then the row, or the row and then the map (remove);
gosuv may end in between (`Crash`) and starts from the table (`Start`). `Access`
is a statement that may fail, which the code logs, ignores or dies of;
`EditRow` is an administrator. The database and gorm are external.

| code | actions |
|---|---|
| hAddProgram, hUpdateProgram, addOrUpdateProgram | `AddOrUpdate`, then `Insert` or `Save` |
| hStartProgram, hStopProgram | `Mark`, then `Save` |
| hDelProgram, removeProgram, dbRemoveProgram | `Delete`, `RemoveRow`, `Erase` |
| hReload, LoadDBWithLock | `Reload`, then the removals, `ReloadEnd` |

`registry` (2 names, 2 hosts; one failed access, one edit, one end of gosuv)
checks `TypeOK`; `InStep`: map and rows agree unless, since the last load, an
access failed, the table was edited or a program without an id was removed; `Remembered`: without
faults and edits the map holds what was asked last, across restarts, but for a
request that was cut off; `OthersStay`: no row of another host changes. It is safety
only: a handler that does not return is `Program`'s subject. One of each fault
is enough for every place where it can happen, and for two different ones to
meet.

What the model does, because the code does it, and the properties leave out:
a program whose insert failed has id 0, and gorm's Delete of a record without a
primary key deletes the whole table; a reload whose query fails finds no row,
and removes every program; Environ is never read back (`Decode` is not called),
so a restart loses it and the next save erases it; a row that was deleted and
inserted again by hand has an id the map does not know, and later saves are
refused; a row that was edited to have no command is listed but not loaded
(`Check`, 58-61), which the model leaves out: `InStep` promises nothing once a row
was edited, and `AddOrUpdate` is for programs that pass Check; if the database cannot be opened dbRemoveProgram panics and the program
stays.

Proved for any hosts, names, edits and ends: `OthersStayAlways`, which is
`OthersStay`: as long as no access fails, nothing this host does changes a row of
another. The invariant: types (`Types`); every id is one the counter gave
(`Given`); no id of this host, in its rows or in its map, is one of another host
(`Apart`), which is what makes a Save or a Delete by id hit the own row; until an
access fails only the program that is being inserted has id 0 (`Known`), so no
Delete is without a condition; what a handler still has to write or to remove is
in the map (`Held`).

Proved on top of it: `RegistryTypes`, `InStepAlways` and `RememberedAlways`, which
are `TypeOK`, `InStep` and `Remembered`. Both properties speak of the moments
between handlers; the invariant `JInv` says what is true in the middle of one. An
id belongs to one name, in the map and in the rows (`Named`), or a Delete by id
would hit the row of another program. While nothing failed, the names no handler
is about agree (`Synced`); what a removal is about has the id of its row, so the
row goes; a Save finds the row it was made for and an insert finds none. Where
nothing failed and nobody edited, the answers are in the rows, too (`Answered`):
that is what a start after a crash loads, and why a reload removes nothing.

## What the violated runs mean

Each is a sentence of the repository that the code does not keep: see
`findings` in `PROJECT.json` for the line and the quotation.

| run | in short |
|---|---|
| `process_one_child` | p.cmd is set to nil after Stopped is shown; two children in one slot |
| `program_removed` | a pending restart outlives the removal of its program |
| `page_stale` | the event is posted before the state is set; a page that fetches in between stays with the old state |

## Proved and model-checked

Theorems, each for every value of the constants:

| module | theorems |
|---|---|
| `ProcessProofs` | the safety properties of `process_serial` and its refinement of `Slot` |
| `BroadcastProofs` | `BroadcastTypes`, `TopicRefinement`, `HistoryOfOneWriter`, `OutputHistory` |
| `KCommandProofs` | `WaitTypes`, `NobodyForgotten`, `WaitRefinement` |
| `ProgramProofs` | `ProgramTypes`, `ListIsSound`, `SurvivorsAlways`; of `Exit`, `GoneAlways` |
| `PageProofs` | `OneFetchAlways`, `NeverBack`, `PageTypes`, `ClosesUnansweredAlways` |
| `DropzoneProofs` | `BooksAlways`, `ParallelAlways`, `NoOrphansAlways`, `FinalStaysAlways` |
| `RegistryProofs` | `OthersStayAlways`, `RegistryTypes`, `InStepAlways`, `RememberedAlways` |
| `LogViewProofs` | `LogTypes`, `AsAWholeAlways`, `UnbrokenAlways` |

They assume what the `ASSUME` of each module says of its constants and nothing
else; `HistoryOfOneWriter` has the behaviours it is about in its statement.

Only model-checked: the liveness properties, as the prover has no rule for
fairness here. Every other property of a passing run is a theorem.

## What is not modelled

* MergeWriter and BufferPool, which put the lines of several processes together.
* The action queue: it has tests, but nothing in the server uses it.
* The gzip writer: one response at a time, no state between responses. The
  LDAP cache: one map beside an external directory.
* Process statistics, configuration, flags: I/O. `PreprocessCommand`,
  `normalizeUser`: they rewrite one string.
* Of the pages: forms, buttons, filters and charts. A button sends one request,
  whose handler is in `Registry` and `Program`. Two copies of state there are
  never corrected: `program.js` sets `vm.program.status` when a start or stop was
  answered, and the dialog sends every field as it was when it opened.
* `hUpdateProgram` unlocks `namesMu` without defer: a panic in it (a negative
  process_num) leaves the lock held for ever. `Program` takes process_num from 0
  up.
* `qrcode.js` and `jquery.qrcode.js` (drawing), `underscore-min.js`, and
  dropzone.js's markup and drag handling.

## Plan

1. `MergeWriter` and `BufferPool`: no buffer is in two hands, no line is mixed;
   a theorem on the ownership of buffers for any number of writers.
2. The forms of the pages against `Registry`: what two users do at once.

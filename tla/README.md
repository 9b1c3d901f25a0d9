# Specifications of the IgH EtherCAT diagnostics daemon

TLA+ modules, TLC configurations and TLAPS proofs for the program under `src/`:
a daemon that reads a snapshot of each EtherCAT master once a second, detects
what changed, diagnoses it, records the evidence in files, and a web process
that serves those files.  Paths below are relative to the repository
(`src/recording/blackbox.cpp`, `apps/...`); `PROJECT.json` maps each definition
to its lines.

## 1. The system

| Component | State it keeps | Operations | Talks to |
| --- | --- | --- | --- |
| `IoctlSnapshotReader`, `IghMasterDevice` | none between reads | one ioctl for the master, one per slave | kernel, `Monitor` |
| `Monitor` | next deadline | read and handle each master in turn, wait | reader, handler |
| `EventDetector` | previous snapshot | `process`: link, count, lost slaves, AL states | handler |
| `PortErrorMonitor`, `PortErrorTracker` | next slave, counter baselines | `process`: read one slave's counters per cycle | ESC registers, handler |
| `RecoveryTracker` | fault episode | `process`: open, update, close an episode | handler |
| `BoundaryLocator`, `DiagnosisCoordinator`, `ActiveDiagnosis` | time of the last reading | `process`, `resetCooldown` | ESC registers, handler |
| `EvidenceBuilder`, `EvidenceWindow` | frames of the last 10 s | `build`, `push`, `relatedToBoundary` | analyzer |
| `RootCauseAnalyzer` | none | `analyze` | publisher, black box |
| `Blackbox` | ring of snapshots, trigger | `push`, `trigger`, `saveToFile` | log directory |
| `WebDataPublisher` | none (files) | replace `latest_status.json`, append to `events.jsonl` | web process |
| `WebDataStore`, `HttpRouter`, `HttpServer` | listening socket | read the files, answer one client at a time | publisher's files, browser |
| `web/app.js` | latest answers | refresh every second, choose a master | HTTP server |

Everything between `Monitor` and the files runs in one thread: the snapshot
handler of `apps/igh_ethercat_diagnostics.cpp` calls the components one after
the other, with one `MasterRuntime` per master and nothing shared between
them but the publisher.  What is hard is therefore not a data race.  It is the
order in which states of the bus, of the clock and of the disk meet the state
that the components keep from earlier snapshots:

* two snapshots may differ in any way: reads can fail for a long time in
  between, a read can be torn by a rescan, slaves move, and a slave without an
  alias cannot be recognised;
* the wall clock names files, slides the window, ends the cooldown and measures
  recoveries, and a device without a clock battery steps back;
* a fault can happen within a fault, come back in two steps, or flap;
* the process can be killed, or the disk be full, at any line of a save;
* the web process and the browser read what the daemon is just writing.

What makes each component correct:

* **Black box**: the capture is exactly the snapshots around the first event;
  a torn file can be told from a whole one; evidence is never overwritten.
* **Detection and recovery**: no loss goes untracked, an episode knows exactly
  what is missing, a recovery is announced once and for the right bus.
* **Active diagnosis**: registers are read at the slave next to the break, at
  the first break of each episode, and not twice within a cooldown.
* **Evidence and verdict**: the verdict is made from the right evidence; it
  never contradicts the link; a loss is never shown as healthy.
* **Status**: red while something is wrong, green when it is not any more.
* **Publisher and readers**: a reader sees whole documents, and after damage to the
  event log whole records again; the page shows data and events of the master selected.

`PROJECT.json` lists the hazards one by one with the line where each bites and
the property that would catch it.

## 2. Modules

```
Blackbox <- FaultRecorder <- FaultRecorderProofs
                          <- MCFaultRecorder

DiagTypes <- IoctlSnapshotReader                   (inputs of the MC modules)
          <- EventDetector <- RecoveryTracker <- RecoveryTrackerProofs
          |                                   <- MCRecoveryTracker
          <- BoundaryLocator <- DiagnosisCoordinator <- EvidenceWindow
                                                     <- RootCauseAnalyzer
EventDetector, RootCauseAnalyzer <- DiagDaemon <- DiagDaemonProofs
RecoveryTracker (INSTANCE)       <-            <- MCDiagDaemon

IoctlSnapshotReader <- PortErrors <- PortErrorsProofs
                    |             <- MCPortErrors
                    <- Acquisition <- Monitor <- MonitorProofs
                                              <- MCMonitor
StatusRegister (INSTANCE) <- StatusFile
StatusFile, HttpServer, WebPage <- WebProofs
EventLog <- EventsFile <- EventsFileProofs

SnapshotProofs: lemmas on the operators of DiagTypes, IoctlSnapshotReader and
BoundaryLocator, for the proofs of RecoveryTracker, DiagDaemon, PortErrors, Monitor
```

`Init`, `Next`, `Spec`, `vars` and `TypeOK` have a prefix in `HttpServer`
(`ServerSpec`, ...) and `WebPage` (`PageSpec`, ...), so that `WebProofs` can extend
them together with `StatusFile`.

**`Blackbox`** is the class, a record and its member functions as operators.
**`FaultRecorder`** is the daemon's use of it: `Handle` is the snapshot handler
as far as the black box is concerned (push, one trigger per event, the decision
to save and the choice of a file name); the first snapshot of a process has no
events, as detector and port tracker have nothing to compare it with.  The save
itself is split into
`OpenFile`/`OpenFails`, `WriteCapture`/`WriteFails` and `AppendRootCause`, with
`Crash` possible everywhere and `Restart` with empty memory and the files that
are left.  Lines that reach the disk are a prefix of those written.

**`DiagTypes`** has the snapshot (time, link, sequence of slaves with identity,
AL state and error flag), and the comparison of identities.  The events of one
snapshot are a set.  **`EventDetector`**, **`BoundaryLocator`**,
**`DiagnosisCoordinator`**, **`EvidenceWindow`** (with the builder) and
**`RootCauseAnalyzer`** (with the default weights) are operators, one per step
of the code.  **`IoctlSnapshotReader`** is the function from a bus to the
snapshot read of it; the MC modules use it so that their snapshots have
identities a bus can have.

**`RecoveryTracker`** is a state machine: `Process(current)` is detector and
tracker fed with a snapshot, which is *any* member of `Snapshot`: reads that
fail, torn reads and a clock that steps need no action of their own.
`lost` and `lowest` are history variables.

**`DiagDaemon`** composes them to the handler of one master, in the order of the
code: detect, diagnose, build the frame, slide the window, analyse if an event
calls for it, track recovery, reset cooldown and verdict on a recovery, and the
status `Health` that is published last.  Its inputs are the snapshot, the port
errors found in this cycle and what the AL registers give if they are read.
`Tracker == INSTANCE RecoveryTracker` does the tracking within it, and the
daemon is proved to implement it.  `verdict`, `probes` and `announced` are
history variables.  Port counters read by the active diagnosis, which no score
depends on, are left out, as are texts, formatting and log output.

**`StatusFile`** is `latest_status.json` between the daemon (`publishStatus`) and
the web process (`readStatus`).  A file is an inode with a name or held open, so
that a rename replaces the name and not what a reader has open.  `Handle` decides
the document; `OpenTmp`, `WriteSome`, `WriteRest` and `Rename` are the steps of
publishing it, `PublishFails` any of its error returns, `Crash` and `Restart` as
in the recorder; `OpenStatus`, `AnswerStatus` and `StatusUnavailable` serve one
request.  A document stands for what it says about the network; its timestamp is
left out.  **`StatusRegister`** is the atomic register that all this is to be: a
document becomes visible at one moment, an answer is what is visible at one moment
or "unavailable".  The refinement takes `content[status]` for the visible document
and, while a request is being served, the document of the file that it has open
for the answer, which is decided from then on.

**`EventLog`** has the contents of `events.jsonl` as cells, the parts of a record
between which a crash or a reader can fall, cut only where the reader's filter can
tell them apart, and what `readRecentEvents` makes of them: the last lines that look
like objects, joined to one array, which the page parses as a whole (`Parses`), so
that one line that is no record spoils the answer.  **`EventsFile`** is
the daemon's side: `Handle(b)` decides the records of a snapshot (events, verdict,
recovery), `AppendCell` and `AppendFails` are `appendLine`, with the buffer that
may fail unnoticed.  The reader is not a process of its own: the file only ever
grows, and a reader sees the contents of the moment at which it reaches the end,
so an invariant over `RecentEvents(log, Limit)` is a statement on every answer.
`torn` is a history variable.

**`PortErrors`** is `PortErrorMonitor` with its `PortErrorTracker`, over a bus
whose slaves are connected, moved and cleared, and count errors, at any time
(`Connect`, `CountError`, `ClearCounters` are external).  `TakeSnapshot` is atomic
here; the reading (`ReadCounters`, `ReadFails`) comes after it, by position.
Slaves that are in a snapshot are online, as the ioctl reader sets it.  `source`
is a history variable: from which device a baseline really is and what it counted
since.

**`Acquisition`** is one call of `readSnapshot` with the device it opens: a step per
ioctl (`OpenDevice`, `CheckModule`, `AskMaster`, `AskSlave` once per slave), `Fail`
for each of its error returns, `Complete`, and the descriptor that is closed on every
way out (`Return`).  Between any two calls the bus can change to any other
(`Change`, external).  `unmoved` is a history variable: the positions whose alias has
not changed since the master was asked.  **`Monitor`** is `run` around it: the
masters in turn (`StartCycle`, `Handle`, `SkipFailed`), the deadline that moves by
one interval (`Rest`), `Wait` and the stop signal.  The handler is part of the step
`Handle`, because nothing it does changes the loop.  `due` is the deadline relative
to now and `behind` a history variable, the time since the start less one interval
for each cycle, so that no absolute time grows.  `slow` lets calls take any time for
a while.

**`HttpServer`** is the web process: bind, listen, the loop of `should_stop`,
`select`, `accept`, reading a request piece by piece, answering and closing, with
each call that ends `run` in `Fail`.  `armed` is the moment between `should_stop`
and `select`, at which a signal does not interrupt anything.  Clients connect
whenever the queue has a place; what one sends, or that it sends nothing, is the
server's choice between `Receive` and `StopReceiving`, the timeout.  A connection
that a client closes early is served like any other.  `Restart` is systemd.

**`WebPage`** is `web/app.js`: a refresh is a status fetch and, for the events, one
that succeeds or not when it settles (`got`); several are under way at once and settle
in any order.  `Settle` ends with `Render`: what is shown has the snapshot of the
selected master and, beside it, the events that are known, which are another master's
if their fetch failed since the selection changed.  It takes a fetch as answered by the document of some moment while it was
under way, or failed: that is what `StatusFile` proves of the store and `HttpServer`
of the connection.  `null` as the selected master is 0 here, as `Number(null)` is in
the code; `state.snapshot` is always the selected master's entry of `masters`, so it
is not stored.

## 3. Runs

| Run | Shows |
| --- | --- |
| `fault_recorder` | `TypeOK`, `ExactCapture`, `EventLineMeansWhole`, `OneCapturePerProcess`, `EvidenceKept` |
| `recovery_tracker` | `TypeOK`, `EpisodeMatchesLosses`, `RecoveryIsAccurate`, `FaultsAreTracked`, `EpisodesEndInRecovery` |
| `diag_daemon` | `TypeOK`, `WindowIsComplete`, `CooldownEndsWithEpisode`, `ProbeNextToBreak`, `ProbesAreSpaced`, `FirstBreakIsProbed`, `MasterBlamedOnlyWhenDown`, `LossIsReported` |
| `status_file` | `TypeOK`, `StatusIsAtomic` (refinement of `StatusRegister`), `PageCatchesUp` (liveness) |
| `events_file` | `TypeOK`, `DamageIsLocal`, `AnswersRecover` |
| `port_errors` | `TypeOK`, `ReportedErrorsHappened`, `CountersAreFollowed` (liveness) |
| `monitor` | `TypeOK`, `UnmovedAreReadExactly`, `NeverEarly`, `EveryMasterIsRead` (liveness), `CatchesUp` (liveness) |
| `http_server` | `ServerTypeOK`, `WaitingIsServed` (liveness), `StopIsHeeded` (liveness) |
| `web_page` | `PageTypeOK`, `EventsFollowSelection` (liveness), `SilenceIsShown` (liveness) |
| `every_fault_captured`, `fault_visible`, `lines_parse` | violated, see section 5 |

Bounds, and why they are enough:

* `MCFaultRecorder`: capacity 3 and 2 after the fault instead of 30 and 10, five
  snapshots, the first without events.  The ring is partly full, just full or has
  rolled over when the event comes, and later events fall into every state of the box.
  With an event in the second snapshot one is left after the save, in the third the
  save comes with the last one; with an event in the fourth the box is seen recording
  after it, but not being saved.  `ExactCapture` looks at the box in every state, and
  other sizes are the theorem's.  Two starts of the process and two times:
  names collide or not.  `MaxBoots` also bounds the suffix of a file name, which
  is no restriction, as a process makes one file at most.
* `MCRecoveryTracker`: buses of up to three slaves, of two aliases or none, one of them
  with the same alias twice, link up or down, two times in either order.  Every bus may follow every other.
* `MCDiagDaemon`: slaves A and B that drop out, and C that comes last or
  before A, so that positions shift and identities stay, or is left alone and fails, so
  that one episode has breaks one after the other; a link that is down, seen
  without slaves or, by a torn read at the second time, with all of them; port errors, and AL registers
  that are read with or without an error or not read; three times, a window of 1 and a
  cooldown of 2 instead of 10 000 ms each: so one time step is in the cooldown, two are
  not, and the window forgets after one.  `MaxFrames` bounds how many snapshots can have
  the same time; a window of two frames is what tells new from old evidence.
* `StatusFile` has no bound but the number of inodes, three: one for each name and
  one that a reader still holds.  Two documents.
* `EventsFile`: two events in a snapshot and five records in all, so that a record
  can be torn, another merged with it and three whole ones follow, within a snapshot or
  across a restart; two lines asked for, so that three whole ones are just enough to
  have the answer recover.  Four records are enough for the violation run `lines_parse`.
* `MCPortErrors`: a slave with an alias and one without, of the same product, in
  either order, alone or absent, and one counter of up to 2, so that it can be
  cleared and count again to below, to or above its old value.
* `MCMonitor`: two masters; seven buses of at most four slaves, one more than
  `MaxSlaves` allows, with slaves that have an alias before, between and after some
  that have none, so that a slave can move, change its alias or vanish while another
  is asked for.  An interval of three ticks and a quick cycle of two at most, so that
  a quick loop has a tick to gain; `MaxBehind` lets a slow loop fall behind by more
  than an interval.
* `HttpServer`: three clients for a queue of two, and requests of up to three pieces.
* `WebPage`: masters 0 and 1 (0 is also what no selection is); two timestamps, since
  only whether a timestamp differs from the last one matters; `Limit` two instead of
  five seconds, with an age counted up to one more; two refreshes under way, enough
  for an answer to overtake another.
* In the violation run `fault_visible` one unit of time is one second, with window and cooldown
  10 as in the code.

Deadlock is checked but where the program stops: the recorder after its last start,
the monitor and the web process after a signal.

Fairness is assumed for the liveness properties only:

* `PageCatchesUp`: the daemon's steps, its restart (systemd,
  `Restart=on-failure`) and the answering of requests are weakly fair.  Each step
  that can fail is strongly fair: it may fail any number of times, but is not
  refused for ever while it is tried again and again.  Nothing is assumed about
  crashes, but that the state of the network lasts (`<>[](current = s)`) implies
  that they end.
* `CountersAreFollowed`: the master keeps being read, and a slave answers some time
  when it is read again and again.  Both are about the environment; a master that
  can never be read again is outside the property.
* `EveryMasterIsRead`, `CatchesUp`: the thread is scheduled and calls return (weak
  fairness of the loop's steps), and time passes.  No call is assumed to succeed;
  `CatchesUp` supposes that calls are not slow for ever, in its own premise.
* `WaitingIsServed`, `StopIsHeeded`: only that the process is scheduled and that
  `select`, `recv` and `send` end, which their timeouts see to (weak fairness of
  `Serve`).  Nothing is assumed about clients, nor that calls succeed.
* `SilenceIsShown`: seconds pass, each fetch ends in an answer or an error (which
  the timeouts of the server and the browser see to) and is settled, and not all
  fetches fail for ever.  Without the last, the page still shows STALE for what it
  knows, but may know nothing of the last snapshot.
* `EventsFollowSelection`: the same, and not all fetches of events fail for ever; the
  two kinds may fail at different times.  `AnswersRecover` says when damage to
  `events.jsonl` stops being a reason for them to fail.

The file system is taken to keep what was written: the code does not call `fsync`,
so what a loss of power leaves is not modelled, in the recorder neither.

## 4. Proofs

Every invariant and every action property of the passing runs is a theorem, and so
are the two refinements (`DiagDaemon` of `RecoveryTracker`, `StatusFile` of
`StatusRegister`); the run shows it on a small instance, the theorem for arbitrary
constants: any set of snapshots (of well-formed ones, `Snapshot \subseteq
NetworkSnapshot`), capacities, times, window and cooldown, clients, masters,
documents.  The named assumptions are those of the modules, and nothing else is
assumed but where a theorem says so:

* `CapacityAssumption`, `WindowAssumption`, `CooldownAssumption`, `MonitorAssumption`,
  `ServerAssumption`: what the constructors and option parsers check (positive
  capacities, window, interval, backlog, sizes).
* `SnapshotAssumption`, `AcquisitionAssumption`, `PortAssumption`: snapshots, buses and
  counters are well-formed, and numbers are natural.
* `RecorderAssumption`, `EventsAssumption`, `StatusAssumption`, `PageAssumption`: the
  bounds of the modules are natural numbers, and the marks for an empty, cut or
  missing document are no documents.
* `InputAssumption`: of the daemon's inputs, and that a cycle finds finitely many port
  errors (it reads one slave, with four ports).
* `OptionAssumption`, `DaemonOptionAssumption`: "no value" is not a value, as
  `std::nullopt` is none.

The modules and their arguments:

* **`FaultRecorderProofs`**: every property of the run.  `TypeOK` is not
  inductive enough for the rest; the invariant adds what the handler knows at
  each `pc`: that the box is full while a file is being written, that a file
  under way belongs to this start and is the only one, that earlier starts' files
  are whole or have no event line, and where the window of the ring stands
  relative to the first event.  `LaterTriggersReturn` justifies that a list of
  events is reduced to its first.
* **`RecoveryTrackerProofs`**: every property of the run.  The invariant relates
  `episode.missing` to the history of losses; the crux is that a slave of the
  expected bus that is missing now was announced at the step at which it went,
  which needs that the tracker and the detector compare against the same
  previous snapshot, and that all expected identities are valid.
* **`SnapshotProofs`**: what the search for an identity returns, what a boundary
  that can be read means (`BoundaryIsNextToBreak`), and how the identity at a position
  depends on the aliases before it: on those from the last slave with an alias on, and
  on no others (`IdentityIsLocal`).  Identities are relative, and the code never
  checks that they differ.  `IdentitiesDiffer` says when they do: if no two slaves
  have the same alias.  Then the search, which takes the first slave that matches,
  finds each slave that can be identified at its own position (`SlaveIsFound`).
* **`DiagDaemonProofs`**: every property of the run `diag_daemon`.
  * `DaemonTracks` is the refinement.  With it the theorems of `RecoveryTrackerProofs`
    hold inside the daemon (`TrackerInDaemon`, through an `INSTANCE` of the proofs),
    whose run does not check them again.
  * `CooldownEnds`, `ProbesAtBreak` and `FirstBreakProbed` rest on `DaemonInv`:
    a cooldown is only pending in an episode, if every slave can be identified, and
    every frame has a time; the step needs that a reading is only made at a loss
    (`ReadsOnLoss`) and that a loss on such a bus opens an episode (`LossOpens`).
  * `ProbesSpaced` rests on `ProbesInv`: as long as any reading is remembered by the
    history, the coordinator remembers the latest, and it is not in the future.
  * `WindowComplete` rests on `WindowInv`: frames are in order of time, so that what
    `push` drops at the front is all that is too old (`SlidIsComplete`).
  * `VerdictIsSound` is about `analyze` alone, for every evidence: its scores are
    sums over sets of port errors and lost positions, the master's is 0 unless the
    latest link is down, and a loss in the window gives some other cause a positive
    one, which is all that keeps a verdict from being `UNKNOWN`.  That a sum over a finite set of natural numbers
    is one cannot use the library's induction, which takes an operator: the proof
    takes a set of least cardinality for which it is not, and removes an element
    (`SumIsNatural`); that the sum exists at all is shown the same way.
  * `MasterBlamed`, `LossesReported` and `TypeCorrect` rest on `VerdictInv`: frames are
    evidence with positions up to some bound and finitely many errors, so that
    `VerdictIsSound` applies to the window at each step; a verdict that stays is the one
    that was sound when it was made, together with the history of what it was made from.
* **`MonitorProofs`**: the type, `NeverEarlyHolds` and `UnmovedReadExactly`.  The first
  two need that before the master is asked nothing has been read, and that the
  deadline has passed whenever masters are read.  For the third, `ReadInv` says that
  the last alias and the offset are those of the slave read last; a slave is then
  identified as `IdentityAt` says if those it counts from have not moved
  (`NextIsIdentified`), and a change of the bus leaves this true because identities
  are local (`ChangeReads`).  `StillBusIsRead` follows: a read during which no slave
  moves gives the link and identities of `ReadSnapshot`.  It is what justifies that
  `PortErrors`, and the inputs of the other modules, take a read as one step.
* **`PortErrorsProofs`**: the type and `ReportedErrorsAreReal`, under the hypothesis
  that no two slaves have the same alias (`AliasesAreUnique`; the run's two slaves
  satisfy it).  `SourceInv` bounds the difference between the counters of the device
  that a baseline was read from and the baseline by the errors counted since: a clear
  only lowers it, and at the last value of a counter both sides stop.
* **`EventsFileProofs`**: every property of the run `events_file`, for every bound.  The
  invariant has three parts: `WritingInv`, what of the record under way is in the
  file, and `LogInv`, how records lie in it: numbers never decrease, grow after
  the end of a line, and every record before the current one has its end in the
  log or is in `torn`; and `StartInv`, that a closing brace has the opening one of a
  line before it, with no newline between.  The properties of lines follow from it, so
  that lines need not be looked at while the log grows.  `AnswersRecovered` counts
  (`SpoiltIsRecent`): each record that is whole after one of a served line, but for the
  one that ends this line, has a served line of its own after it, so that more than
  `Limit` of them leave no place for it in the answer.
* **`WebProofs`**: publisher, server and page.
  * `TypeCorrect` and `StatusAtomic`, that `StatusFile` implements `Register!Spec`.  The
    invariant `FilesInv` says that the temporary name, the visible name and the
    reader's file are different inodes where they have to be, and that what is visible
    or open is a whole document; each step then maps to one of the register or to a
    stutter.
  * `ServerTypeCorrect`: `ServerTypeOK` says more than types, namely that the queue is of
    the clients that wait, each once, and that one is open exactly while the server
    reads or answers; it is inductive as it stands.
  * `PageTypeCorrect`: a refresh whose status fetch was answered must have a document
    (`PageInv`), or the page could accept one that is none.

Only model-checked:

* the liveness properties `PageCatchesUp`, `CountersAreFollowed`, `EveryMasterIsRead`,
  `CatchesUp`, `WaitingIsServed`, `StopIsHeeded`, `EventsFollowSelection` and
  `SilenceIsShown`: liveness under fairness is out of the prover's reach, as is
  `ENABLED`;
* the three violation runs, which are counterexamples and need no proof.

Recursive operators are avoided in all modules.

## 5. What the violation runs show

* `every_fault_captured`: the black box triggers on the first event of a process
  (also on a link that comes *up*) and is never armed again.  The architecture
  document says that a fault produces an evidence file.
* `fault_visible`: while slaves are missing, a state change of another slave ten
  seconds later replaces the verdict with one from a window that has forgotten
  the loss; it is `UNKNOWN`, and the page says that the network is in order.

* `lines_parse`: a record that a full disk cut short is not ended, and the next one, of
  the same snapshot or a later process, is written on its line.  `ARCHITECTURE.md:70`
  says that each line can be parsed independently, and `WEB_DATA_SCHEMA.md:28` and `:36`
  that each is one object and each write makes a whole line.  The damage is not confined
  to that line for the reader: `web_data_store.cpp:102-112` joins it with the others to
  one array, so that the page's whole events answer cannot be parsed (`app.js:308`)
  until the line has left the last `limit` ones.  `DamageIsLocal` bounds the damage in
  the file, `AnswersRecover` that to the answers.

Known as well, and not runs of their own: a slave that comes back in PREOP and then
goes to OP re-activates the old verdict after the recovery reset it; the evidence of
lost slaves is added up without a limit, so that from five on the boundary outranks a
master whose link is down; the loss of a slave that cannot be identified (no alias on
it or before it) is announced as a change of the count only, whose verdict is `UNKNOWN`
and whose status `HEALTHY`; and after a change of the selected master the page shows
the events of the previous one beside the data of the new one while the events cannot be
fetched (`app.js:335-339`).

## 6. Not modelled, and the plan

Done: black box and recorder; detection and recovery; daemon handler; publisher and
store; port errors; acquisition call by call with the loop around it; the web process
and the page; and the proofs listed in section 4.

Left, in order of value:

1. `TakeSnapshot` of `PortErrors` replaced by the steps of `Acquisition`, with torn
   snapshots.
2. `WebPage` composed with `StatusRegister` instead of its own `published`.
3. `EventLog` as the refinement of a log of whole records, with the records that are
   torn as its only exception.

Not modelled, because there is no state or only text: command-line options,
formatters and calibration output, the parsers of the `ethercat` tool's output
with their comparison tool, register bit decoding, the layout of the page, systemd
units and packaging, the vendored ioctl headers.  Of the HTTP server, `bound_port_`,
which only a test reads, and what the answers say are left out; of the router, the
parsing of targets and the assets.

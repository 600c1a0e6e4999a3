# Verification of skylight-bridge

TLA+ models of the bridge that polls a Skylight family frame, turns what
changed into events, hands them to an event history and to rules, and uploads
photos from a folder, from the configuration file to the shutdown.  TLC checks the
models on small instances; TLAPS proves the safety results for every value of
the constants.  All names of state and actions follow the Go code under `src/`.

    tlc -workers 2 -config MCPoller.cfg MCPoller.tla
    tlapm Poller_proofs.tla

## 1. The system

| Component | State | Operations | Interacts with |
|---|---|---|---|
| Detector (`engine/detector.go`) | three maps: chore id -> status, reward id -> redeemed, "date:kid" -> announced; names of the kids | DetectChores, DetectRewards, SetChildNames, CleanupOldEntries, ExportState, ImportState | called by the poller's goroutine only |
| Poller (`engine/poller.go`) | its Detector, the stop and done channels, the /stats counters under `statsMu` | NewPoller, Start, Stop, loop, poll, Stats | three concurrent API calls per poll; `Bus.Publish`; `Store.UpdateState`; `/stats`, `/healthz` read the counters |
| Bus (`engine/bus.go`) | list of subscribers | Subscribe, Publish: one goroutine per event and subscriber, panics recovered | the history server and the rules engine |
| Store (`state/state.go`) | one State in memory, one JSON file replaced by rename | Load, GetState, UpdateState (mutate under the lock, then Save under the lock again) | written by the poller and by the photo syncer |
| Event history (`server/server.go`) | ring buffer `events`, `head`, `size` under a RWMutex | RecordEvent, snapshot, GET /events, /rules, /stats, /healthz, bearer token | the bus; HTTP clients |
| Rules (`rules/rules.go`) | compiled rules, the counter `actionFailures` | NewEngine, HandleEvent, matchFilters | the bus, the actions |
| Actions (`action/*.go`) | none; `retryAction` or `dryRunAction` may stand in for one | a factory each (NewLogAction, ...), Execute, with retries and waits that end when the context does | webhooks, Home Assistant, Discord, Slack, the log |
| Photo sync (`integrations/photosync/sync.go`) | `syncedFiles` | Start, sync: ReadDir, ReadFile, UploadPhoto, mark, onBatchDone | the watch folder, the frame, the Store |
| main (`main.go`) | the signal context | load or start fresh, wire, start, wait for a signal, `poller.Stop`, HTTP shutdown | everything; it waits for the poller but not for the syncer or for event handlers |
| Config (`config/*.go`) | the configuration file | Load, validate, applyDefaults, Generate, openInEditor | main, which reads it once; the factories, which judge its actions; the API, which lists the frames for the generator |

What is hard here:

* *Order of publish and persist.*  A poll publishes its events, then saves;
  a crash may fall between, and a save may fail and is never repeated.
* *Polls that save nothing.*  Only a poll with events saves.  The maps of the
  detector change in other polls too, so memory and file drift apart.
* *Two writers of one file.*  The poller and the syncer each change their part
  of the State and then save the whole of it.
* *Shutdown.*  `select` chooses at random between the ticker and the cancelled
  context; a poll under way must drop its answers; the syncer and the handlers
  are simply cut off.
* *Goroutines without order* between the bus and its subscribers.
* *A ring buffer with a reader* that works on a copy after the lock is gone.
* *Failures of single calls*: one of three API calls, one upload of a batch,
  the answer of an upload that was accepted.
* *What is judged in one package and used in another.*  Validation, defaults,
  factories, client, tickers and ring buffer each trust that another has looked
  at a part of the configuration; the generator writes what all of them read;
  a dry run is to judge as a real run does.
* *The whole chain.*  An event counts as announced once the bus has it, and the
  file then says so for ever; whether its actions are called depends on
  goroutines nobody waits for, on names from another API call, and on a context
  that a signal cancels for all of them.

The hazards are listed line by line in `PROJECT.json`, each with the
properties that would catch it or a note why none does yet.

## 2. The modules

| Module | Models | Notes |
|---|---|---|
| `Detector` | `engine/detector.go`, `engine/event.go` | operators on the four maps, no behaviour of its own |
| `Poller` | `engine/poller.go`, the poller's part of `state/state.go`, start and end in `main.go` | EXTENDS Detector; the core of the project |
| `EventServer` | the bus subscription and `server/server.go` | implements `EventLog` |
| `EventLog` | what GET /events promises | abstract specification |
| `Dispatch` | `rules/rules.go`, `action/retry.go`, the bus subscription in `main.go` | |
| `PhotoSync` | `integrations/photosync/sync.go`, the syncer's part of `state/state.go`, its wiring in `main.go` | |
| `Bridge` | `main.go`: the wiring and the shutdown | composes Poller (EXTENDS) and Dispatch (INSTANCE) |
| `Startup` | `config/config.go`, `config/generate.go`, the factories and requests of `action/*.go`, `NewEngine`, the start in `main.go` | |
| `MCPoller`, `MCEventServer`, `MCDispatch`, `MCPhotoSync`, `MCBridge`, `MCStartup` | small instances for TLC | |
| `Poller_proofs`, `EventServer_proofs`, `Dispatch_proofs`, `PhotoSync_proofs`, `Bridge_proofs`, `Startup_proofs` | theorems and their proofs | |

Definitions whose comment begins with "Mutant" are not part of any
specification.  Each is a definition the way a plausible mistake in the code
would make it, kept beside the right one to show which property notices.

### Detector and Poller

The maps `choreStatuses` and `rewardRedeemed` are total functions with
`NoEntry` for a missing key, `allCompletedFired` is the set of `<<day, kid>>`.
A response is a function from the listed ids to what a chore or reward looks
like; `Failed` is a call that returned an error.  `dueToday` stands for the
only question asked of a due date.  Titles, points, icons and time stamps are
data that nothing compares.

Each of the three calls of a poll answers with any list, complete or not, or
fails.  `childNames` is the set of kids that the last list of categories named:
`SetChildNames` replaces the map by the list that has come, so a kid it lacks
has no name from then on, and a category with an empty name counts as not
listed.  The property ToldAsSeen counts a chore that is first seen done as
completed, as `detector.go` 149 and `poller_test.go` do; docs/events.md line 5
speaks only of a change.

One poll is a walk of `phase`:

| Step | Action | Code |
|---|---|---|
| tick, take `today`, clean up | `BeginPoll` | `loop`, `poll` 108-109 |
| answers are back, context cancelled | `AbortPoll` | 141-151 |
| answers are back: compare | `Detect` | 111-173 |
| hand one event to the bus | `Publish` | 175-182 |
| `UpdateState`: mutate under the lock | `UpdateMemory` | 184-193, `state.go` 98-101 |
| `UpdateState`: save, which may fail | `Save` | `state.go` 75-105 |
| counters | `FinishPoll` | 201-206 |
| `select` picks `ctx.Done` or `stop` | `Exit` | 94-104 |

`Detect` is one step although it makes several calls: the detector belongs to
the poller's goroutine, so nobody sees it half done.  The map iteration of
`DetectChores` has no order, which is why `Publish` takes the all_completed
events of a poll in any order, after the chore events and before the rewards;
chore events are taken in any order too, since a response lists chores in an
order the model does not fix.

The environment: `Start` (with `Load`, that may find an unreadable file, after
which `main` goes on with an empty state), `Cancel` (a signal), `ProcessEnds`
(in any phase: a crash; after `Exit`: main returns), `SyncerSave` (the other
writer of the file), `Midnight`.

History variables, which no guard reads: `told` (what the last event said of a
chore), `announced` (all_completed ever published), `rewardSeen`, `restored`
(this process could read the file) and `lossless` (every process so far could
read the file and ended at a `SafePoint`, that is with the file equal to the
Store and no event on its way to the file).  `lossless` says exactly when
nothing was lost: many properties promise their result only as long as it
holds, and the runs that violate a documented promise show what happens after.

### EventServer and EventLog

`inFlight` holds the goroutines `Publish` has started for `RecordEvent`; they
run in any order.  `Store` is the body of `RecordEvent`, `Snapshot` that of
`snapshot()`.  `TakeSnapshot` is the handler of GET /events up to the end of
the read lock, `Reply` the rest, so events are recorded in between; its filter
by type is the loop of the handler, event by event (`Filtered`), and its limit
takes the end of what is left (`Limited`).
`EventLog` knows no ring buffer: its answer is defined on the whole history,
as the latest `Retained` events, those of the type, and the latest `limit` of
these.  The refinement maps the abstract answer to what the request in
progress will be answered with, which makes the lock the moment that counts.

### Dispatch

A job is the goroutine that `Publish` starts for the rules engine: `rule` and
`action` are the indices of the two loops of `HandleEvent`, `tries` the
attempts the retry wrapper has made.  `Match` is one turn of the loop over the
rules; `Succeed`, `Fail` and `Panic` are the ends of an attempt (a request, of
which nothing else matters); `Return` is what happens once `Execute` is back,
up to the head of the next loop; `TryAgain` and `Abandon` end a wait.  An
action is represented by its `retry_attempts`: `NewEngine` wraps it only if
they exceed 1, so 0 and negative numbers mean one attempt.  `retry.Retry`
itself is a library outside `src/`; what is assumed of it is what its call and
`retry_test.go` show: one attempt and then at most `maxAttempts - 1` more, a
wait before each, and an error when the context is cancelled.  Filters compare
the fields that the detector puts into `Event.Data` about the kid, which are the
kid's id and the kid's name (`NameOf`, apart from all ids); `named` says whether
the poller knew the name.  History: `results`.

### PhotoSync

`folder` says for each name whether the file is absent, partial (a program is
still writing it) or complete.  `ReadDir`, `Skip`, `ReadFile`, `Uploaded`,
`UploadFailed`, `FinishScan` and `Save` are the steps of `sync()`;
`UploadFailed` leaves open whether the frame has taken the photo.  Marking
and uploading are one step, because the mark is in memory only: a crash
between the two looks like a crash after both.  `PollerSave` is the other
writer.  `ProcessEnds` is possible in every phase: nothing waits for the
syncer.  History: `sent`, `whole`, `restored`, `lossless` and `orderly`.

### Bridge

Every step of the composition is a step of Poller, of Dispatch, of main, or of
two of them at once.  `BridgePublish` is the place where they meet: the event
that the poller hands to the bus is the event of a new job of the rules engine.
They share `ctxDone` (main has one signal context for both) and the end of the
process: Dispatch's `ended` is Poller's `phase = "down"`.  The jobs die with the
process (`NoJobs`); the state file does not.  `mainPhase` is where main is after
the start: `serving` until `BeginShutdown` (`<-ctx.Done()`), `stopping` in
`poller.Stop`, `draining` in `httpServer.Shutdown`; then `Return`.  `Crash` ends
the process in any state, which includes the second signal that kills it after
`stop()`.

History: `owed` is what the present process has still to do for the
announcements it made, as pairs of a key (day and kid) and a call (rule and
action).  `BridgePublish` adds the calls that the rules ask for (`CallsFor`): of
a rule with a filter on the name only if `listed`, the last list of categories
of this process, has the kid, and of an action with retries only if no signal
has come.  `HandlerStep` takes out what it attempts, `BridgeCancel` the actions
with retries, which look at the context even before their first attempt, and the
end of the process everything.  `called` has every call that was attempted, over
all processes; a call that `Abandon` ends without an attempt is in none of the
two.  `jobKeys` says which job is about which key, and `faultless` is true while
every end was a return of main and every access to the file went well.

So an announcement in the file can miss an action for four reasons, and
NothingMissed says that there is no fifth: the process ended; the handler
panicked; a signal came before an action with retries; or the rule filters on
the name, and this process has had no list of categories yet or its last one
lacked the kid.

### Startup

A text in the configuration is represented by the answers to what the code asks
of it: whether it is empty, whether it parses as a duration and with which sign,
whether it is a http URL with a host, whether a template parses, can be executed
and which fields it shows, whether net/http accepts the method, headers, path
and token of a request.  An `http` URL is one that `validateHTTPURL` takes and
net/http can dial.  `other` is a type or event nobody knows.

| Step | Action | Code |
|---|---|---|
| `--generate-config` without a file or with `--force` | `Generate` | `generate.go` 16-195, 197-237 |
| `--generate-config` with a file | `OpenInEditor` | `generate.go` 239-250 |
| a start, with or without `--dry-run` | `Run` | `main.go` 28-56 |
| load, validate, defaults | `Load` | `config.go` 98-197 |
| client | `BuildClient` | `main.go` 204-215 |
| ring buffer and rules | `Wire` | `main.go` 80-97, `rules.go` 38-68, the factories |
| syncer and poller | `StartLoops` | `main.go` 99-150 |
| one `Execute` | `Execute` | `action/*.go` |
| main returns or has exited | `End` | `main.go` 152-155 |

A `WriteFile` that fails leaves a prefix of the text (`Torn`): one that ends among
the keys before the rules (`TornHeads`), within a rule (`TornRules`), after one,
or in a quoted text, which does not parse.  `Execute` stands for every event that the detector can
make for the rule; what the far end answers is open.  History: `generated`,
`verdict` (what became of this file in each kind of run) and `call`.

## 3. The runs

| Run | Instance | Shows |
|---|---|---|
| `poller` | 2 interchangeable chores, 1 kid who may be on the list of categories or not, 2 days, a chore pending or done, of the kid today or late, or of nobody today; counters off | RestartSafe, SavedWereAnnounced, AllCompletedOnce, SavedNotRepeated, ToldAsSeen |
| `poller_live` | 1 chore, 1 reward, 1 kid, 1 day, counters up to 1; FairSpec | RestartSafe with rewards, StatsBounded, ShutdownCompletes, CompletionPublished |
| `once_per_day` | 1 chore, 1 kid, 1 day | **violates** AllCompletedOncePerDay |
| `reward_lost` | 1 reward | **violates** RedemptionsAnnounced |
| `event_server` | 5 events of 2 types, 3 slots, limits 0 to 3, 2 goroutines at a time | RetainsLatest, NewestKept, ReplyInOrder, refinement of EventLog with its liveness |
| `dispatch` | 2 events, 2 kids with names, 3 rules with retry_attempts 2, 1, 0 and 3; FairSpec | AllActionsInOrder, FailuresCounted, RetriesUsedUp, EveryJobEnds |
| `category_filter` | 1 event, 1 rule with the documented filter | **violates** CategoryFilterMatches |
| `photo_sync` | 2 photos; FairSpec | SavedWereSent, SentOnce, MarksHandedOver, NeverForgets, EventuallySent |
| `photo_resent` | 1 photo | **violates** NeverReuploads |
| `photo_partial` | 1 photo; FairSpec | **violates** PhotoAppears |
| `bridge` | 1 chore, done when it is listed, 1 kid who may be on the list of categories or not, 1 day, a rule with a filter on the kid's name and a retried action, a rule without filter and retries; BridgeFairSpec | NothingMissed, OrderlyIsLossless, ActionOnce, ShutdownReturns, AnnouncedSettles |
| `startup` | 2 frames, 25 answers, 818 configurations | StartedWithAll, PanicsOnlyForBuffer, GeneratedAccepted, DryRunPredicts, FaultsFoundAtStart, MessagesFilled |

Why the bounds are enough for the cases of interest:

* *Chores.*  Two is the least number with which one of a kid's chores is done,
  the other open, missing from a response or not due, and with which a second
  all_completed could fire when the list shrinks.  Kids, and rewards, are
  independent of each other in every definition.
* *Days.*  Two days have one midnight, in any phase; keys of a third day would
  be cleaned up in the same way.
* *Statuses.*  The code asks only whether a status is pending.  The proofs are
  for any set of statuses.
* *CounterCap* saturates the /stats counters.  It is 0 in `poller`, where
  counters are not the question, and 1 in `poller_live`, which thus checks the
  counters of a first poll; `ErrorsBounded` proves StatsBounded for any cap.
* *MaxEvents, MaxSize.*  Five events in three slots fill the buffer, overwrite
  two slots and let a limit be below, equal to and above what is kept.
  `MaxInFlight` 2 is enough for two events to overtake each other.  The code has
  no limit on these goroutines; NewestKept states the order that is left in
  terms of how many there are at a time, and its theorem is for every number.
* *MaxJobs, SomeRules.*  Two jobs are the least that can count at the same
  time.  The rules have a filter on a name, one on an id, none, another type of
  event, an action after one that fails, and a rule after one that fails.
* *Chores in `bridge`* are done when they are listed (`DoneChores`): what undoing
  one does is a question for `poller`, and every announcement needs a chore that
  is done.  Its two rules have the two reasons why a call may not be owed, one of
  which leaves the other rule's call owed.
* *MaxJobs in `bridge`* is 2: an all_completed and the completed before it.  It
  bounds the answers of the API
  (`BridgeDetect`), never `Publish`: a poll whose events would exceed it is not
  considered.  Each process starts again with no jobs, and the number of
  processes has no bound.
* *Configurations.*  The code looks at one part of a configuration at a time, so
  `SomeConfigs` varies each part over all its values with the others kept: all
  sets of credentials, all durations with three buffer sizes and all photo
  blocks, every action for every event, two actions, two rules, and every rule
  that validation refuses.  `SomeAnswers` does the same for the generator.  The
  proofs are for all of them together.
* *MaxSent* saturates at 2, the first number that means "sent twice".  The
  number of crashes, restarts, polls and scans has no bound.

Deadlock is checked in every run but those of `MCDispatch`, where all jobs end
and nothing is left to do.  Elsewhere the system goes on when the clock or the
number of events is used up: a process can always be stopped and started, a
request can always be made.

### Fairness

* `Poller`: `WF(PollStep)`: the ticker ticks, API calls and saves return (with
  or without success).  `SF(Exit)`: after the signal both cases of `select`
  are ready at each visit when the interval is short; Go picks one at random,
  so that it does not choose the ticker for ever.  Nothing is assumed of the
  environment: no start, signal or end of a process is fair.
* `EventServer`: `WF` of the recording goroutines: a goroutine that can run is
  run.  Requests and publications are not fair.
* `Dispatch`: `WF` of each job: its goroutine is scheduled, each attempt comes
  back (the HTTP actions have a timeout) and each wait ends.  Nothing is
  assumed about how attempts end; signals and the end of the process are not
  fair.
* `Bridge`: the two above, for the poller and for each job, and
  `WF(MainStep)`: main's goroutine is scheduled, and `httpServer.Shutdown` comes
  back because its context has a limit of five seconds.  That the poller leaves
  `poller.Stop` is not assumed but follows.
* `Startup` states no fairness: all its properties are about safety.
* `PhotoSync`: `WF(SyncStep)` as above; `SF(ReadFile(f))` and
  `SF(Uploaded(f))`: a file is not unreadable at every attempt, and an upload
  tried again and again succeeds at some time.  Without them the code promises
  nothing, as it retries at each scan but cannot force the frame.

### What the violations mean

* `once_per_day`: docs/events.md says that all_completed fires once per kid
  per day.  A crash, or a failed save and a restart, after the event was
  handed over repeats it: delivery is at least once.
* `reward_lost`: a reward is redeemed (saved), opened again (no event, so not
  saved), the bridge restarts in good order, the reward is redeemed again: no
  event.  RestartSafe states what the restart does preserve, and is true: every
  redemption known is in the file.  The file knows too much, not too little.
* `category_filter`: docs/events.md lists `category_id` among the fields of
  chore events to be used in filters; the detector calls it `assignee_id`
  there, and a missing field means no match.
* `photo_resent`: config.example.yaml says that a restart never uploads again
  what was sent.  A signal in the middle of a batch does, even when nothing
  fails.
* `photo_partial`: config.example.yaml says that a dropped file will appear.
  A file that is read while it is being written is marked by name and its
  complete content is never sent.

## 4. What is proved

All proofs hold for arbitrary sets of chores, rewards, kids, statuses, files
and events and for arbitrary capacities.  They use the named assumptions of
the modules: `FiniteAssumption` (the sets are finite), `StatusAssumption`,
`KidAssumption`, `ViewAssumption`, `RewardViewAssumption`,
`SentinelAssumption`, `FailedAssumption`, `BoundAssumption` in `Detector` and
`Poller`; `SizeAssumption` (the capacity is positive), `CapAssumption`,
`LimitAssumption`, `EmptyAssumption` in `EventServer`; `NameAssumption`,
`MaxJobsAssumption` and `RulesAssumption` (names are neither ids nor the empty
name; any sequence of rules with any integers as retry_attempts) in `Dispatch`; `SentAssumption`,
`FilesAssumption` in `PhotoSync`; `BridgeAssumption` in `Bridge`;
`ConfigAssumption` and `AnswersAssumption` (the types of what people write and
answer) in `Startup`.  TLC evaluates all of them.

**Poller.**  `TypeCorrect` is `Spec => []TypeOK`.  `SafetyInvariant` proves the
inductive invariant `TypeOK /\ SafetyInv`, whose parts are

* `PhaseInv`: which variables are at rest in which phase, and `today <= day`;
* `UniqueInv`: a poll has at most one waiting event of a type about a subject;
* `AnnouncedInv`: what is announced in memory, Store or file, but for what
  waits in `toPublish`, was published;
* `MemoryInv`: as long as no event waits for its export, the Store and the
  detector agree on all that decides a later poll: which chores are done, which
  current keys fired, which rewards are redeemed;
* `NoRepeatInv`: a process that read the file knows what the file knows of
  this day;
* `LosslessInv`: while nothing was lost, `told` and the detector differ only
  by the events that wait, and the file has all current announcements while no
  process runs;
* `StatsInv`: the errors of the poll under way and of those counted.

The properties are not inductive by themselves.  RestartSafe speaks of the
file, but a step that spoils it spoils Store and detector first; ToldAsSeen
speaks of a running process, but it survives a restart only if the file agreed
with the subscribers when the last process ended, which is what SafePoint and
MemoryInv give.  `RestartIsSafe`, `FileBehindBus`, `OncePerKidAndDay`,
`SavedStaysSaid`, `SubscribersUpToDate` and `ErrorsBounded` follow.

**EventServer.**  `BufferIsLatest`: the invariant `RingInv` says that `head`
moves only once the buffer is full and that slot `(head + i - 1) % MaxSize`
holds the i-th of the latest `size` recorded events.  `WrapOnce` reduces the
modulus to a subtraction, and `StoreNotFull` and `StoreFull` are the two
branches of `RecordEvent`.

`NewestStayVisible` is about the order of publication, which the buffer does not
keep.  `OnceInv` says that an event is either waiting or recorded, and once.  The
events that overtook the i-th recorded one (`Overtaken`) were in flight when it
was recorded and can only get fewer, so they are less than `MaxInFlight`
(`OvertakeInv`; a new event has the greatest id, and the ids of published events
are new by cardinality, `BusInv`).  What follows a recorded event in the buffer
was published later or is overtaken by it (`FollowersFit`), and so it does not
fill the slots.

What a reply holds is a matter of the filter.  It is a recursive function over
the copy (`Filtered`, the loop of the handler), and `FilterPicks` says what it
computes for every copy: there are positions, ascending, at which the copy has
exactly the events kept, and every event of the type is at one of them.  Its
induction over the length of the copy (`SetInduction`) goes by the least
counterexample, which the library's theorem on well-founded relations gives
(`LeastElement`).  `LimitPicks` says the same of the limit.  `ReaderInv` carries
`Ordered` (any two events of the sequence were recorded in its order) from the
ring to the copy and from the copy to the reply, across the recordings that
happen between the two; `ServerTypeCorrect` and `RepliesOrdered` follow.

`ServerImplementsLog` is the refinement of EventLog, but for its liveness: the
initial states map to initial states, and every step is one of the log or
stutters.  The step that matters is the copy, which decides the answer: the
log defines it by how many younger events of the type there are, the server by
filtering and then cutting (`AnswerOfCopy`; `CountAfter` counts the events
behind a kept one by their positions, `ResultElements` says what the result
holds).

**Dispatch.**  `JobsInv` says of each job where it can be (`PlaceOK`: a busy
job is at an action of a rule that matches its event, with fewer attempts made
than it is allowed) and that its results are, in order, exactly the expected
calls before that place (`LogOK`).  `AdvanceJob` and `SkipRule` are the facts
that make it inductive: moving on adds the call just made and no other, and a
rule that does not match adds none.  `ReturnJob`, `ChangeJob` and `StatusJobs`
carry it through the actions, one job at a time, so that the other jobs need no
argument.  `CountInv` says that the counter is the size of the set of failed
calls (`ReturnFailures`: a return adds one new element or none).
`DispatchTypeCorrect`, `CallsInOrder`, `EachFailureCounted` and
`AttemptsUsedUp` follow.  What one step does to the invariants and to the results
(`StepJobs`, `StepCount`, `PublishJobs`, `PublishCount`, `ReturnIsNew`,
`StepLeaves`, `DoneReturned`) is stated without reference to `Spec`, for a
module that takes these steps among others: Bridge.

**PhotoSync.**  `PhotoInvariant` proves `MarkedInv` (every mark anywhere is of
a photo the frame has), `OrderInv` (the file's names are in the Store, the
Store's in the syncer), `HandInv` (marks the Store does not have belong to the
scan under way), `UploadInv` and `LosslessInv`.  `ClaimsAreTrue`,
`NoDuplicate`, `StoreHasMarks` and the action property `FileOnlyGrows` follow.

**Bridge.**  `PollerWithin` is `BridgeSpec => Spec`: every step of the
composition is a step of Poller or leaves its variables alone
(`StepIsPollerStep`), so that every theorem about Poller holds of the whole
bridge.  `OrderlyStopsLoseNothing` needs `ShutdownInv`: main drains only after
the loop has ended, and in a faultless process Store and file agree but while a
save is under way.  OrderlyIsLossless alone is not inductive, since it says
nothing of the step before the end.

The rules engine has no such whole-run refinement, since each process starts
with an empty one: `DispatchWithin` says that as long as a process lives, each
step is one of Dispatch's `Next` or leaves its variables alone.  `EngineInv`
carries `JobsInv` and `CountInv` through the composition by an instance of
`Dispatch_proofs` (`DP`; the `Same...` lemmas identify it with Bridge's instance
of `Dispatch`), and `EngineWithin` states AllActionsInOrder, FailuresCounted and
RetriesUsedUp of the bridge.

`DeliveryInvariant` relates the announcements of Poller to the calls of Dispatch:

* `NameInv`: the kids that the detector can name are those of the last list of
  categories of this process, and an announcement has the kid's name exactly if
  that list has the kid, from detection to the end of its publication;
* `KeyInv`: a job for an announcement has its key, which is announced;
* `OwedInv`: what is owed is asked for by a job with that key, which has not
  attempted it, and after a signal has no retries;
* `OnceInv`: while nothing was lost, a key has one job among those of the
  present process, and no calls but those that job has returned.

NothingMissed and ActionOnce are not inductive: a job that is done says nothing
of its calls unless its results are the expected ones, and a result without an
attempt is one of a cancelled action with retries (`DoneOwesNothing`, from
Dispatch's `LogOK`); and a call repeats an earlier one as soon as the same key
is announced twice, which the parts `AnnouncedInv` and `LosslessInv` of Poller's
invariant exclude (`PublishDelivery`).  `QuietDelivery`, `PublishDelivery`,
`HandlerDelivery` and `EndDelivery` are the four kinds of steps.
`BridgeTypeCorrect`, `NoActionMissed` and the action property
`CalledAtMostOnce` follow.

**Startup.**  `StartInvariant` proves `StartInv`: from `Load` on, the
configuration is the file with its defaults and the file is valid (`Loaded`);
the client has a pair (`Paired`); the rules build (`Built`); a verdict agrees
with `Accepts`, which looks at the file only (`Judged`); a generated file is one
that is accepted (`GeneratedFine`).  The types themselves need `Loaded`: that a
call is for an event of the detector holds because validation has seen the rule.
`GeneratedAccepts` goes from the answers to the file rule by rule
(`LogRulesGood`, `ChatRulesGood`, `ConcatGood`); `DefaultsKeep` says what
`applyDefaults` leaves alone; `PositiveDuration` is the guard against the
ticker's panic.  `StartIsComplete`, `OnlyBufferPanics`, `GeneratedIsAccepted`,
`DryRunIsValidation` and `OnlyFourFaultsLate` follow.
`NoFieldMissing` goes back to the answers: the rules that are generated use only
fields of the events they are for (`Fits`, a part of `Good`), so that a bridge
that still has its generated configuration (`FilledInv`) sends no message with a
field left out.

**Model-checked only.**  The liveness properties (ShutdownCompletes,
CompletionPublished, EveryJobEnds, EventuallySent, ShutdownReturns,
AnnouncedSettles) and the liveness part of EventLog's specification: fairness
speaks of ENABLED, which TLAPS does not handle.  Every invariant and every action
property of a passing run is a theorem.

## 5. Not modelled

* GET /rules, the bearer token, JSON encoding, logging (`setupLogger`), an HTTP
  server that cannot listen: no state changes.
* Values of the configuration that nothing checks: `state_file`, `addr`,
  `auth_token`, the log settings; timeouts of single requests.
* A template that can be executed for some events and not for others.
* A file that changes while a process runs: it is read once.
* How many rules a file was meant to have: a prefix that ends after a rule is
  accepted like any other configuration.
* The API client and the JSON store library are outside `src/`; they appear
  as calls that answer or fail, and as a file that is replaced as a whole.
* A clock that is set back, and more than one bridge on one state file.

## 6. Plan

Done, in this order: Detector and Poller with their proofs; EventServer with
EventLog; PhotoSync; Dispatch; Startup; Bridge; the
proofs of the composition, of the replies and of the refinement of EventLog.
Next:

1. `Store`: both writers with their own parts of the State in one module, as
   an abstract specification that Poller and PhotoSync each implement with the
   other as environment.
2. An abstract delivery service that Dispatch implements: each event's calls
   happen in order, or up to a point if the process ends.
3. Further proofs: RedemptionsAnnounced for processes that are not restarted.

# Nano, specified

TLA+ modules, TLC configurations and TLAPS proofs about the program in `src/`:
Nano, an assistant that runs on a Raspberry Pi. It answers messages with a local
language model, keeps timers and meeting reminders in SQLite, listens for a wake
word, shows what it is doing to browsers over an event stream, and asks before
it wipes its memory, reboots, restarts or updates itself. Paths below are under
`src/app/` unless they say otherwise.

## 1. Inventory

FastAPI runs synchronous handlers in a thread pool, APScheduler runs jobs in
threads of its own, the wake-word listener is a daemon thread, and a command line
(`cli.py`) changes the same database from another process. Every function of
`memory/` opens its own session, so a transaction is one statement long, and the
program holds almost no locks: the activity hub has one, the slot of pending
questions, the voice mode and the scheduler's callers have none. Most of what is
hard here is one thread using what it read after another has changed it.

| part | state | operations | talks to | hard | what makes it correct |
|---|---|---|---|---|---|
| Timers (`timers/operations.py`, `memory/repository.py`, `scheduler/jobs.py`) | table Timer; jobs `timer:<id>` in memory; last announced line | create, cancel, clear, stop, rename, wipe; job; poll; start | the hub (announcements); the agent's tools and the API call it | the job, the poll and requests act on one row; ids are reused; jobs die in a crash, outlive a wipe, misfire; the command line has a scheduler that never starts | never announced early, a due timer always goes, leftover jobs go, rows keep their identity |
| Confirmations (`assistant/pending.py`, `flows/*`, `dispatch/interactions.py`) | one slot for the one conversation | a request asks; yes, no, a correction or a timer command settles or drops it; the scheduler offers updates | the router, the update store, the boot store | check and set without a lock, from two kinds of thread | done is what was asked for, once |
| Update and restart (`deploy/update*.py`, `runtime/boot_state.py`) | baseline, dismissed and offered version; pending restarts | check, offer, accept, dismiss, restart | git, systemd | the version changes between check and offer; pull or restart fails | a dismissed version is not offered again |
| Meeting reminders (`meeting_reminders/`, `memory/meeting_reminders.py`) | table MeetingReminder; jobs `meeting_reminder:<id>` | put, delete, list (which prunes); job; poll; start | the hub; the API | row and job written apart; marked by id after speaking; offsets lost in SQLite | never early, marked only when announced (or set again meanwhile), always handled |
| Voice (`voice/listener.py`, `voice/mode.py`) | mode, stop event, thread, listening flag | enable, disable; the loop; start, shutdown | the agent (commands), the hub | unlocked check and start; join that gives up | one listener, truthful status, off is off, on is on |
| Activity hub (`runtime/activity.py`, `api/runtime.py`) | state, deque of events, next id | record, log, announce; snapshot and stream | everyone writes, browsers read | events dropped and connections broken mid-batch; state read outside the lock | idle when idle; no event lost or repeated; the client catches up |
| Routing (`assistant/agent_router.py`, `timers/parsing.py`, `assistant/rules/`, `tools/registry.py`) | none | decide; tool_matches_request | the turn | some thirty overlapping predicates, used twice in different order | both readings agree; a command hits what it names |
| Turn (`assistant/orchestrator.py`, `flows/planner.py`, `tool_*.py`) | ChatMessage table; the turn's own state | store, route, dispatch, plan, compose, guard, polish, store | tools, flows, model, hub | the model answers anything or fails; a wipe in between | the chat pairs, answers rest on tools, turns end |
| Replies (`assistant/guard/`, `response_*.py`) | none | compose, judge, rewrite, polish | the model | the model rewrites what it should not | a confirmation does not become a refusal |
| Announcements (`runtime/activity.py`, `voice/service.py`) | last line said; the cached voice | announce: test and set, synthesize, play, publish | timers, reminders, health, tools, updates | played outside of the lock; a voice that fails or comes back | a line is lost only as a repetition or with the voice |
| Health monitor (`health/`, `scheduler/jobs.py`) | last result of each check | run the checks; report, announce | announcements, the hub | checks change while others are run; one raises; restart | an outage is told, once |
| Durations (`common/duration.py`) | none | read a length, say a length | the timer flow, routing | digits and words, sums, sloppy expressions | a timer lasts as long as was said |
| Internal notes, proactive offers (`memory/internal_note*`, `proactive/`) | a table of notes, one offer | create, deliver, retry, dismiss | the UI | retries and back-off | nothing but tests writes either in this commit |
| Language model (`llm/`) | the loaded model, a notice | complete | the turn, the guard | loading is cached without a lock (section 6) | its answers are inputs of the turn |

The rest (Google and weather clients, audio devices, FastAPI routing and authentication, workspace files, migrations, release scripts) is
input and output around these parts: `PROJECT.json` lists each with the reason it
is not modelled, and every hazard with the line where it bites.

## 2. Modules and the code they stand for

`PROJECT.json` maps each definition to its lines. In the concurrent modules one
action is one access to shared state (a transaction, a call of the scheduler, a
read or write of a module global); what a thread has read stays in its own state
(`work`, `op`, `req`, `call`, `turn`) while the others run. Names follow the
source.

- **TimerScheduler**: `rows` is the table, `jobs` the scheduler's date jobs,
  `work[w]` the executions of `complete_timer` (worker 0 is the poll, worker i the
  instance of job `timer:i`, of which `max_instances=1` admits one), `todo` the
  list the poll has read, `op[c]` a request or command-line process, `said` the
  line the hub announced last. `GetTimer`, `Reschedule`, `Ring`, `DeleteTimer` and
  `UnscheduleTimer` are the steps of `complete_timer` (`scheduler/jobs.py:31-68`);
  `Dispatch` is APScheduler's treatment of a date job as the code configures it;
  `AddTimer` ... `WipeDatabase` are the operations; `Crash` and `Restart` the
  process and its lifespan. Two ghosts: serial numbers tell two rows with one id
  apart, `rung` remembers announcements. A label and a duration are the line they
  make the announcement say.
- **TimerPromise**: what timers promise without threads, jobs or polls. A row leaves
  the table for three reasons only: it is among those users remove (`leaving`), all
  are wiped, or it was a due countdown that is being completed (`expiring`) and was
  announced. `Crash` and `Restart` take no row. `announced` says by whom, the job or
  the poll, and in which life of the process; neither announces a countdown twice in
  one life. TimerScheduler gives `leaving` as what the clients still have to remove
  (`Leaving`), `expiring` as what the workers hold between read and delete
  (`Expiring`), `life` as `crashes`.
- **Confirmations**: `slot` is the one item of `PendingInteractionStore`;
  `req[a]` a request or the update check between its accesses; `shown` the
  question the user looks at (a request shows its reply when it ends). A message is
  the class of tests it passes. Prompts are numbered by a ghost. `Behind` and
  `PullLatest` are what git answers; the answer to "how long?" starts a timer
  (`StartTimer`), and a timer command drops any question.
- **MeetingReminders**: as TimerScheduler, with the PUT's two steps (row, then
  job), the pruning of a list, `fired` set by id after the announcement, and
  `Offset`: what the table gives back is the start plus its lost UTC offset.
- **ReminderPromise**: a meeting has at most one reminder, as it was set last; it
  leaves when it is deleted or its meeting has begun, never by a crash. A setting is
  looked up in its lead time (`firing`, which is what the workers of MeetingReminders
  hold), announced by job and poll once each in a life of the process, and its
  reminder marked. A reminder that was set again between the look-up and the mark is
  marked as well; nothing else is without having been announced.
- **VoiceListener**: `mode`, `stop`, `listening` and `current` are the module
  globals; `thread[t]` is where thread object t is; `call[c]` where a PUT or the
  lifespan is within `start_voice_listener` or `stop_voice_listener`.
- **ActivityHub**: `_record` is atomic, under its lock; `log` reads the state
  before it, so it is two actions; `stream[c]` is the generator of `GET /api/events`
  with its last id and batch (`After`: what the snapshot has beyond the last id),
  `client[c]` what the browser has.
- **HubPromise**: two numbers, the events recorded and the last one each client
  has; a client may be handed a later event only past those the hub has dropped.
- **Announcements**: `announce_voice` of each thread in four steps: `Announce` tests
  and sets `last` under the hub's lock, `Synthesize`, `Play` and `Publish` follow
  outside of it. `tts` is the cached voice, `glados` whether it can be loaded: it
  works, is missing, or raises what the callers do not expect.
- **HealthMonitor** extends Announcements: `pc` and `at` are the job's place in
  `check_system_health`, `result` what the run found so far, `status` the module's
  `_LAST_HEALTH_STATUS`, `broken` the world of the checks other than the voice's. Two
  ghosts follow the outage that lasts: `calls` counts its announcements, `told` says
  whether the hub took that announcement or kept it to itself, and after which line.
- **Durations** (no state): `IsSegment`, `Amount` and `Total` are the two
  expressions of `_iter_duration_segments` and their sum, `Seconds` the whole of
  `extract_duration_seconds`, `Humanize` the words a timer is confirmed with. The
  loops are recursive functions of the place in the message (`Current`, `Total`).
- **Routing** extends Durations (no state): a message is a sequence of words, each
  standing for the others of its list; `Decide` is the first of the router's rules
  that applies, `ToolMatches` the gate of the planner and of the router's last rule.
  The model's decisions, tool matches, durations and their wording were compared
  with those of the program itself on all 69,553 messages of the run of routing,
  with no difference.
- **AgentTurn** extends Routing: `turn[r]` goes from `idle` over `route` to a tool,
  flow, draft or the planner's loop, then `compose`, `guard`, `polish`, `store`,
  `done`. A text is what later passes can tell of it: empty, a JSON payload, flawed
  (a detector objects), a refusal, or plain; every call of the model may return any
  of them that the caller admits, or raise (`Fail`).

The modules meet where the parts do: AgentTurn composes Routing with the passes;
what a tool or a flow does to its own state is in TimerScheduler or Confirmations,
and the turn sees only the kinds of reply they can give (`ToolSource`,
`StartFlow`, `AnswerPending`). HealthMonitor is composed of the job and the
announcements it shares with everything else that speaks. TimerScheduler has of the
hub the one variable it depends on, `said`; MeetingReminders the reminders that were
announced. ReminderPromise, HubPromise and TimerPromise are the abstract
specifications that MeetingReminders, ActivityHub and TimerScheduler implement.

`MC*` modules give TLC the constants a .cfg cannot write down. MCRouting also has the
specification the run of routing needs, as Routing has no state: `MCSpec` puts messages
together word by word, and its properties say what the router makes of each.

## 3. Runs

Every passing run states a type invariant (but for Routing, which has no state)
and the properties below; every property has in `PROJECT.json` a mutant of the code
that breaks it. The mutants stand in the modules beside the definitions they
change, with the word "Mutant" in their comment. Deadlock is not checked anywhere:
the clock, the messages and the requests are bounded, and a system whose users ask
for nothing more may stop.

| run | question | what it shows |
|---|---|---|
| timers | Do the threads keep what the timers promise? | `NoEarlyRing`: nothing is announced before it is due, though a wipe leaves jobs whose id a new timer gets. `PromiseKept`: TimerScheduler implements TimerPromise: no crash and no restart takes a row, and job and poll announce a countdown once each, whatever they and a cancel do at the same time. `DueTimerLeaves`: a due countdown leaves the table even if its job misfired, was refused, was removed by the completion of an earlier timer with its id, or died. `StaleJobDrains`: leftover jobs go. |
| timer_reuse | "Announce and remove a timer when it expires" (`jobs.py:32`) | Violated: while a completion speaks, its timer is wiped or cancelled and a new countdown gets the id; the delete by id removes that one before it is due, and it never rings. |
| confirmations | Is only done what the user agreed to? | `ConsentMatches`, `PromptHeld` (the question on the screen is the one an answer reaches) and `DismissalHolds`, as long as no message is sent while another is being answered; `AnsweredLeaves` (no later message reaches a question that was answered) also when browser and voice overlap. `ConsentMatches` has the exception the next run shows. |
| confirm_race | "After confirmation, Nano can wipe" (`src/README.md:65`) | Violated: a request to wipe and the update check both find the slot empty; the update's prompt is set, the wipe's over it, and the update's is the last to be shown. The yes to it wipes the memory. |
| reminders | Are reminders announced, and only when due? | `NoEarlyReminder`; `ReminderKept`: MeetingReminders implements ReminderPromise: no crash or restart takes or marks a reminder, job and poll announce a setting once each, and a mark without an announcement is one that met a new setting; `DueReminderFires`; `OrphanJobDrains`; all at offset 0. |
| reminder_west | Does `remind_at` mean start minus lead (`src/tests/test_meeting_reminders_api.py:56`)? | Violated for a calendar west of Greenwich: SQLite drops the offset, the time read back is early, and the poll announces it. |
| voice_one_client | Does one browser control the microphone? | `OneListener`, `StatusTruthful`, `DisabledFallsSilent`, `EnabledFromRest`, with commands that raise, start and shutdown. |
| voice_off_on | "Enable or disable Pi-side wake-word listening" (`api/voice.py:62`) | Violated: off and on within one clip. Start finds the old thread alive and returns without clearing the stop event; the thread then ends and nobody listens. |
| hub | Do browsers see what Nano does? | `IdleUnlessLogged`; `StreamKept`: ActivityHub implements HubPromise; `ClientCatchesUp`. |
| health | Is an outage told? | `OutageToldOnce` (each outage is announced once, by the end of the run that found it, and not again while it lasts; the hub took that announcement, or the last thing it had said was an earlier outage of the same check), `VoiceNotBlamed` (after Nano was heard no check blames the voice), `LastingFailureTold` (a failure that lasts is found and its outage told in that sense, but not while the voice check raises). |
| routing | Do the router and the planner's gate read messages alike, and lengths as they are meant? | `RouterToolAccepted`, `PlannerLeavesTimersAlone`, `IdCommandHitsItsTarget`, `OnlyTimersPreempt`, for one and two countdowns and stopwatches, with and without an open question; `TimerLastsAsSaid` and `ConfirmedAsSet`, for lengths put together from English numbers and digits. |
| agent_turn | Does every message get a proper answer? | `HistoryPairs`, `GroundedAnswer`, `ConfirmationNeverRefuses`, `TurnEnds`, with any replies of the model, a failure anywhere, and a wipe by another request. |

### Bounds, and why they are enough

- timers: one id, two rows over time, clock 0..2, one crash, one line, grace 0, a
  client of the API and a command-line process that start their requests in turns
  (`Overlaps`), the latter also while the service is down. The reuse of an id needs
  two rows and one id; a job that misfires needs the clock to pass its time by more
  than the grace (60 s there, 0 here); the crash can fall between any two steps.
  `timer_reuse` has the same clock, so that a countdown can be created after the first
  one fell due and be not yet due itself when it is deleted. Clients that overlap, and two countdowns that live at
  once with two ids, are left to the proofs, which hold for every value.
- confirmations: three messages (a question, an interruption, an answer) by two
  clients, one of them possibly while another is being answered; three prompts, two
  versions, one restart. Two requests that answer one prompt at once both act
  (section 6), so three of the properties are stated for `overlaps = 0`, a ghost count
  of such messages. The two threads are alike, and TLC uses that symmetry.
- reminders: one meeting set twice with either of two leads by two clients, at once
  if they like, clock 0..2, one crash. Setting again, earlier and later, is what makes
  a job stale; a second client lets the later row meet the earlier job.
- voice: three to five PUTs by one browser and as many threads as they can start.
  Two browsers at once do start two threads (section 6).
- hub: a deque of two events and six in all, so that four are dropped;
  a chat request, a voice request, a reporter of errors, a logger, one stream.
- health: two checks, the voice's and another with two things to say; the job and one
  other thread that announces; one restart. Runs, failures and recoveries are not
  bounded. Two checks are enough for one to fail, recover or raise while the other
  keeps failing, which is all a run can tell apart.
- routing: all messages of up to three of 38 words, and every rename with up to two
  words of name. A rule looks at one or two words and the places between,
  or at a whole command of three (ids) or five words (renames), which are included.
  Lengths: every number of `Counts` (0 to 130 and six above, so that each word and
  each shape of an English number below a thousand occurs) with every unit, in words
  and, up to 60, in digits, and two amounts of some of them, up to a day.
  The theorems are about any numbers below a thousand and any number of amounts.
- agent_turn: three planner steps instead of eight: enough for two tools and an
  answer, for a repeated call, and for the two invalid replies that end the loop.
  One set of arguments, so that a second call of a tool is a repeated one; a
  message for each way through the router, with the number 3 (`MaxNumber`) in digits.

### Fairness

- TimerScheduler, MeetingReminders: weak fairness of each thread's next step, of
  the scheduler's dispatch, of the interval job that polls (30 s,
  `config.py:28`), of the restart (`Restart=on-failure`,
  `src/deploy/nano-core.service:13`), of time.
  None for what clients ask, or for crashes.
- VoiceListener: the callers' steps, the loop (a clip has a fixed length, a join a
  timeout) and the start of serving; none for PUTs or shutdown.
- ActivityHub: the generators are run by the event loop and a browser's
  `EventSource` reconnects.
- HealthMonitor: the interval job (`scheduler/jobs.py:285`) is run again
  and again, its steps are taken, and a clip it plays ends; nothing of what changes
  outside or of what others say.
- AgentTurn: a request's steps; a call of the model returns or raises.
- Confirmations and Routing state no liveness and have none.

## 4. Proofs

Each module of proofs extends the component it is about. It names the inductive
invariant (`IInv`; in RoutingProofs `MessageIsSeq` and `LengthInv`), gives one
lemma per action or group of actions, and ends in the theorems. TLC has checked
every one of them on the component's runs. All theorems hold for every value of the
constants that satisfies the component's assumption, which says what kind of value
each constant is and nothing of its size; two carry a hypothesis besides, named
below.

| module | theorems | what they state |
|---|---|---|
| TimerSchedulerProofs | TypeCorrect, NeverEarly, ImplementsPromise | `TypeOK`, `NoEarlyRing`, the refinement `PromiseKept` |
| MeetingRemindersProofs | TypeCorrect, NeverBeforeStoredTime, NeverEarly, ImplementsPromise | `TypeOK`; `RungDue`; `NoEarlyReminder` and the refinement `ReminderKept`, both if no offset is negative |
| ConfirmationsProofs | TypeCorrect, AnsweredNotReached, ConsentHeld, PromptStays, DismissalKept | `TypeOK`, `AnsweredLeaves`, `ConsentMatches`, `PromptHeld`, the action property `DismissalHolds` |
| VoiceListenerProofs | TypeCorrect, OneListens, StatusIsTruthful | `TypeOK`; `OneListener` and `StatusTruthful`, both if one client sets the mode |
| ActivityHubProofs | HubTypeCorrect, DoesNotStayBusy, ImplementsPromise | `TypeOK`, `IdleUnlessLogged`, the refinement `StreamKept` |
| HealthMonitorProofs | TypeCorrect, ToldOnce, NotBlamed | `TypeOK`, `OutageToldOnce`, the action property `VoiceNotBlamed` |
| RoutingProofs | RouterAndGateAgree, PlannerKeptFromTimers, IdCommandsHit, QuestionKept | `RouterToolAccepted`, `PlannerLeavesTimersAlone`, `IdCommandHitsItsTarget`, `OnlyTimersPreempt` |
| | EnglishReadAsSaid, ConfirmationReadBack | about the operators: every English form of a number below a thousand is read as that number; every length that is told is read back as it is, but for the seconds after hours and minutes |
| | LengthsKept, ConfirmationTrue | `TimerLastsAsSaid`, `ConfirmedAsSet` |
| AgentTurnProofs | TurnTypeCorrect, AnswersRestOnTools, ConfirmationsAsk, ChatPairs | `TypeOK`, `GroundedAnswer`, `ConfirmationNeverRefuses`, `HistoryPairs` |

### The arguments

**Timers.** `NoEarlyRing` speaks of `rung` and `clock` and is not inductive: `Ring`
announces what `GetTimer` read some steps earlier, when the table may have changed
since. `IInv` adds what the read guarantees: `ReadRows` (a worker about to announce
holds a row that was a countdown, due when read and so due now, as the clock does
not go back), `MadeRows` (all rows held or announced were created) and `ClientRows`
(a client between two steps holds a row).

The refinement needs more, since TimerPromise tells who announces a countdown, how
often and in which life. `RInv`, inductive beside `IInv`, says that a worker between
read and delete holds a row with the id it works on (`BusyRows`), the instance of a
job the id of its timer (`OwnIds`), that a row never gets another id
(`SerialsFixIds`), and the heart of it, `RungRows`: a countdown announced in this
life is still in the table only while the worker that announced it is about to
delete it. So no worker of its kind finds it again (`RungOnce`), since job and poll
each work on an id at most once at a time (`OneEach`, `OneRowEach`). A crash empties
`work` and begins a new life; rows are no part of it, so `Crash` of the promise takes
none. Each action is then a step of TimerPromise (`RingRInv` one of `Announce`,
`DeleteTimerRInv` of `Complete`, `RemoveDeleteRInv` of `Remove`) or changes none of
its variables (`NextPromise`).

**Reminders.** The same shape, with a PUT that changes a row under a worker's hands.
`ReadRows` says that the row a worker holds has the id it works on, was due when it
was read if it is about to be announced, and has been announced once it is to be
marked; `SetRows` that a row keeps the id of its meeting's first PUT. That gives
`RungDue` whatever the offsets: nothing is announced before the time *the table gives
back*. That this time is not before the one that was wanted needs
`OffsetsNotNegative` (no calendar west of Greenwich), and run `reminder_west` shows
that it does: without it the property is false, in the code as in the model. The
refinement has an `RInv` of the same parts, with the number of the PUT (`arm`) for
the serial: a setting announced in this life is unmarked only as long as the thread
that announced it is about to mark it.

**Confirmations.** A question is in three places: the slot, the screen, and what a
thread read before its handler went on. `Reads` says what a thread has read at each
step of its handler, `Numbers` that a prompt acted upon has left the slot (but for the
wipe's, which clears it last) and that no later prompt has its number; with these
`AnsweredLeaves` is inductive, however requests overlap. `OneAtATime` is about
`overlaps = 0` only, as the three properties that need it are: at most one thread is
active, and `Consistent` relates slot, screen and thread at each step, up to the
update that the scheduler's thread may put into the slot at any of them. The theorems
hold whichever of reboot, restart and the update check the settings allow; the run
has the restart off.

**Voice.** That one thread listens is not inductive either: between the look at the
thread (`alive?`) and the launch nothing records that it was found dead.
`OnlyCurrent` says it: only the thread in the global is, or is about to be, alive,
and from the look to the launch none is. `Turns` says that the lifespan's calls come
before and after the clients'. With `OneClient` one caller at most is then inside
start or stop; two browsers at once break `OneListener` (section 6), so the
hypothesis cannot be dropped. Types hold without it.

**Hub.** `Full` (the deque drops nothing before it is full) and consecutive ids make
`AfterIs` true: what a poll takes begins right after the stream's last id, or else
everything before it has been dropped. `InStep` says that this stays so while the
batch is sent event by event, the deque moves on and the connection breaks; each
`Send` is then a `Receive` of HubPromise. `Holds` says that a recorded "working"
belongs to a request that has not finished, from which `IdleUnlessLogged` follows.

**Health.** `OutageToldOnce` speaks of a run that has ended, and says nothing while
one goes on. `IInv` adds what holds in the middle: `RunResults` (a run has a result
for every check it has behind it, so the report finds none unknown), `FailedTold` (a
check remembered as failing was announced exactly once since it was last ok, and that
call was taken or repeated the line before it; any other, not since then) and `ReportedFailing` (what the report has
passed and found failing is remembered). `HeardCached` serves `NotBlamed`: whatever
is played, by any thread, is played by the cached voice, so the voice check finds it.

**Routing.** The runs try every message of three words; the theorems are about
sequences of words of any length. All rest on `DecidedBy`: a decision is that of a
rule that applies, and no rule before it does. `RouterAndGateAgree` and
`PlannerKeptFromTimers` then compare the rules' conditions with the gate's, one rule
at a time. For `IdCommandsHit` the messages are short and known up to their number,
and each earlier rule is shown not to apply. Of the four `QuestionKept` alone needs an
invariant, `MessageIsSeq` (messages are sequences of words), for the rules that look
at places.

**Lengths.** `TimerLastsAsSaid` compares what is read of a whole message with what was
meant by the amounts it was put together from, so an invariant has to follow the
reading as the message grows. `LengthInv` says that what was said so far ends in a
unit with a number before it (`Heard`), and that the amounts up to there come to what
was meant. That a further amount keeps it is `SayMore`: nothing before it is read
differently (`LaterSaid`, `TotalStays`), since a number ends at the unit before it, and the new amount
is read as its number (`RunIs`, `NumeralSays`, and for English `ReadEnglish`, one
piece of a number after another). The message then reaches the timer flow because
none of its words is one that another rule looks for (`RequestIsForTimer`).
`ConfirmationReadBack` goes through the six ways hours, minutes and seconds can be 0.

The two loops, over the words of a number and over the amounts, are recursive
functions, and TLAPS knows of one only that it is *some* function with its recursion,
if there is one. `LoopExists` and `SumExists` show that there is one for every length,
and `SameSteps` that two that start alike and go on alike are the same, each by
a least counterexample from the library's theorem on well-founded relations, which
unlike the theorems on induction takes no operator as a parameter. The proofs assume
of `ToString` what `DigitsAssumption` and `WordsAssumption` state and TLC evaluates:
two numbers up to `MaxNumber` are not written alike, and none is written as a unit, as
a number word or, but for the 3 of the commands, as a keyword. `BoundsAssumption` asks
that the hours of the longest timer, and 59, can be written, `AmountsAssumption` that
the numbers said are below a thousand. Both theorems hold for every `MaxNumber`,
`MaxSeconds`, `MaxAmounts` and `Counts` with that.

**Turn.** Nearly everything is about one request, as the others touch nothing of it
but the chat. `Fine` is the invariant of a turn: `Ran` (as many calls
at most as steps, and what the planner answers with has a tool behind it),
`Confirms` (a confirmation comes to the guard as it is and leaves it no refusal) and
`Hushed` (a silent command was decided as a tool, so that what it stores is what the
router took it for; this uses `SilentCommandIsTool` of RoutingProofs). `Paired` says
what the chat holds of a request, with its wipes: each new entry keeps the pairs of
the others because it is appended, and a wipe because it leaves nothing.

### Only model-checked

- Liveness (`DueTimerLeaves`, `StaleJobDrains`, `DueReminderFires`,
  `OrphanJobDrains`, `DisabledFallsSilent`, `EnabledFromRest`, `ClientCatchesUp`,
  `LastingFailureTold`, `TurnEnds`): they need fairness, which is out of the prover's
  reach.
- The four violations, which are about instances.

## 5. Plan

Done: every component planned is modelled and checked, and every safety property
and refinement of the runs that pass has a theorem.

Left:

1. VoiceListener with several clients: what is still true (how many threads at most
   each PUT can start), stated and proved without `OneClient`.
2. Confirmations with overlaps: which of `ConsentMatches` survives them (done at most
   as often as answered).

Internal notes and proactive offers were planned and are dropped: in this commit
nothing but tests writes either table (section 7).

## 6. Other disagreements met while modelling

Four disagreements are runs (section 3) and findings of `PROJECT.json`. These were
met as well and have no run of their own:

- Two countdowns with one duration and label: the second completion is dropped as a
  repetition, however much later (`runtime/activity.py:268`); likewise the reminder
  of the next meeting of a series. The poll and the job may both announce one timer
  if another line was spoken in between (`scheduler/jobs.py:138`).
- Two requests that answer the same question at the same time both act. The router
  clears the slot for timer commands of every kind (`agent_router.py:104`). A timer
  that starts clears the slot twice, and the second time may drop an update's prompt
  offered meanwhile (`flows/timer.py:225`).
- The update prompt is marked as offered before it is shown; once lost, a request
  shows a prompt that nothing listens to (`flows/update.py:93` against
  `runtime/status_copy.py:94`). The update check
  reads `should_prompt` before it offers, and may offer what was just dismissed
  (`scheduler/jobs.py:251`).
- `mark_reminder_fired` marks by id what was set again meanwhile, so the new lead is
  lost (`meeting_reminders/service.py:108`): the step `Mark` of ReminderPromise, which
  asks only that an earlier setting of that reminder was announced. After a downtime reminders are
  announced of meetings that have begun (`memory/meeting_reminders.py:108`). East
  of Greenwich the poll and the reschedule are late by the offset
  (`service.py:99`).
- An exception of a voice command ends the listener with the mode on
  (`voice/listener.py:77`). Two enables at once start two threads (`:34`); a disable
  that overtakes an enable leaves the microphone on (`:33`, `:41`).
- `log` can write back "working" after the request has finished
  (`runtime/activity.py:245`). Event ids begin at 1 in every process, so a client
  that resumes after a restart gets nothing until they have caught up (`:77`).
- "rename timer 3 to checklist" is taken for a question about the timers, and its
  reply is stored without its message (`agent_router.py:91`,
  `orchestrator.py:111`); `HistoryPairs` excepts it as `Overruled`. The interface's
  commands without an id ("Rename timer.") get the confused answer. A single word
  of ten letters is taken for a Drive file (`integrations/google_drive/ids.py`).
- A wipe while another request waits for the model leaves that reply in the memory
  (`flows/wipe.py`); `HistoryPairs` excepts it by `since < wipes`.
- The guard may rewrite a confirmation with the model although
  `response_source.py:22` calls such prompts deterministic; and it replaces a
  refused rewrite of a timer's or update's confirmation by "Say yes to proceed"
  although nothing asks that (`guard/rewriter.py:104`). A draft has no fallback for an empty reply.
  Polishing runs after the guard, with no judge behind it.
- When the question the router saw is gone for the dispatcher and another is set
  before the message is routed again, the message goes to the planner without its
  history, or the clear in between drops that question (`orchestrator.py:225`).
- "set a ten minute timer" lasts 660 s, "half an hour" 3600 s, "start a second timer"
  one second, "the eighth" is eight hours, and "it's" or "i'm" match a unit
  (`common/duration.py:269`); the run of routing says every length after "start a timer
  for". A timer of 1 h 1 min 1 s is confirmed as "1 hour and 1 minute" (`:202`), which
  `ConfirmedAsSet` excepts.
- "rename timer 3 to cancel all" removes every timer, because the rule for clear-all
  comes before the rename (`agent_router.py:107`, against `tools/timer_tools.py:98`,
  "rename one active countdown timer"); "cancel the 10 minute timer" removes all
  countdowns. Keywords are looked for inside words: "seventy minutes", without the
  word timer, is taken for a question about the calendar ("s-event-y",
  `rules/intents.py:306`, `tools/calendar_tools.py:104`).
- A check that fails, recovers and fails again with no other line in between is
  silent the second time (`activity.py:268`), though `docs/README.md:193` says
  "log/announce failures"; that is why `OutageToldOnce` admits an announcement that the
  hub kept to itself after one of the same check. A recovery is logged only if no other check fails
  (`jobs.py:200`), and the hub keeps showing the error.
- An import of the voice that raises anything but `ImportError` (`voice/service.py:123`)
  leaves the voice check as an exception, and the run drops the other checks' results
  as well (`jobs.py:196`). The check tells that the voice can be loaded, not that a
  line can be played: a line that cannot is lost and still counts as announced
  (`activity.py:266-280`).
- The local model is loaded by a cached function without a lock, so that two first
  requests at once load it twice (`llm/context_sizing.py:124`); the notice that it got
  a smaller window goes to whichever completion comes first, the planner's or the
  guard's included (`llm/providers/local.py:61`).

## 7. What is not modelled, and why

- Wording, prompts, formatting and the detectors' expressions: a text is its class.
- git, uv, systemctl, arecord, the model, Google and weather: their answers are
  inputs. The bodies of most tools are such input and output.
- SQLite's own concurrency: each statement is one committed transaction, since
  every function of `memory/` opens a session of its own; "database is locked" errors are `Fail` in AgentTurn and
  left out of the other modules.
- APScheduler is modelled from how `scheduler/jobs.py` configures it: a date job leaves the store when dispatched, one instance per id, a grace of 60 s.
- Task timers and long-task progress of the hub, which nothing but tests starts.
- Internal notes and proactive offers: no code of this commit outside of the tests
  creates a note or an offer, so every state of theirs that the program reaches is the
  empty one.
- The local model's loading and its ladder of context sizes depend on free memory and
  on the library; what a completion returns is an input.
- Finding a JSON object in a model's reply, serialization, and the report of system
  specifications: pure text, whose outcomes are inputs of the turn.
- Authentication, CORS, the API's validation, migrations, release scripts.

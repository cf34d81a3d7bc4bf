# Verification of the ziguijia translation server

The repository turns a video into a dubbed video in another language: a web
server (`chatterbox-server/`) queues jobs, a worker thread runs each job as a
pipeline of checkpointed steps (download, speech recognition or OCR,
translation, speech, video), and long-lived daemons keep the GPU models warm.
This directory holds TLA+ models of the parts of it that keep shared state, the
TLC configurations that check them, and TLAPS proofs.

`tlc -config X.cfg M` checks a run, `tlapm M.tla` a proof module.

## Inventory

| Part | State | Operations | Interacts with |
|---|---|---|---|
| Job queue (`jobqueue.py`, `job_worker.py`) | rows of `jobs.db`, in-memory queue, Valkey list `jobqueue:pending`, worker thread, `_current_access_code`, `_cancel_event` | boot, submit, resubmit, cancel, delete, purge, shutdown, the worker loop | request threads, handlers, Valkey, the TUI |
| Orphan processes (`job_orphan.py`) | live subprocesses of jobs | check at boot and every two minutes | job queue |
| Valkey client (`valkey_util.py`) | cached verdict of `get_valkey()`, the list | push, pop | job queue |
| Pipeline (`pipeline.py`, `video_*_job.py`) | files of the job's directory | one function per step, skipped when marked | checkpoint, daemons |
| Checkpoints (`job_checkpoint.py`, `CheckpointHelper`) | `checkpoint`, `checkpoint_edited` of the row | mark, clear for a file, invalidate after a step | pipeline, result page, TUI |
| Result page (`routes/files.py`) | the same files | save subtitle, delete file, resubmit | checkpoints |
| Operator client (`jobs_tui.py`) | none of its own; writes `jobs.db` directly | cancel, delete, purge, restart from a step | job queue, pipeline |
| TTS daemon (`gen_audio_daemon.py`) | slots, thread pool, one model per thread, `_ACTIVE`, `_GENS_ACTIVE`, `_LOAD_ACTIVE`, `_LOAD_MUTEX` | `tts`, `ensure_model`, shutdown | `gen_audio.py`, prewarm, gate and guard |
| Thermal gate, hang guard (`gpu_thermal.py`) | `blocked`, grace and idle deadlines, hot polls; start times of jobs | poll, watch | TTS and translate daemon |
| Segment generator (`gen_audio.py`) | segment files and `cache_meta.json` in the job's `tmp/`, `output.wav`, the adjusted SRT | cache lookup, migration, daemon requests with retry, mix | TTS daemon, video retiming |
| Video retiming (`gen_video.py`), original sound (`segment_utils.py`, `adjust_original_audio`) | cut list, batch files, output files | plan, encode, concat, mux | adjusted SRT |
| Translate daemon (`translate_daemon.py`) and its client (`translate_srt.py`, `npu_client.py`) | an NPU and GPU workers, two semaphores, the engine, the thermal gate | `translate`, `ensure_model`, shutdown; daemon start, retry, direct mode | pipeline, prewarm |
| OCR daemon and its client | one job at a time | as the TTS daemon | pipeline |
| Daemon sockets (`main` of the daemons, `ensure_daemon` of the clients, `daemon_prewarm.py`) | the socket file, its queue | probe, unlink, bind, accept, drain; ping, launch, poll | all daemons and clients |
| Accounts (`auth.py`, `routes/auth.py`) | rows of `users`, session | register, verify, resend, login, logout, change, reset | rate limits |
| Rate limits (`middleware.py`, `valkey_util.py`) | counters in Valkey, windows in memory | check | routes |
| Web routes, schema, OCR engine | none | | |

What is hard here: the row of a job is written by the worker thread, by request
threads and by another process, mostly as a read and a later unguarded write;
the queue exists twice and either copy can be lost; the server is killed while
subprocesses run on; users edit and delete files of a job that runs; loaders
and generations of several threads wait for each other; a monitor ends the
daemon while commands arrive; daemons and clients of several jobs share one
socket file; what a killed run left on disk is reused by the next one; and
times are shifted, clamped, cut and rounded through four programs before sound
and pictures meet again. `PROJECT.json` lists these hazards one by one, at
the line where each bites, with the properties that would catch it.

## Modules

| Module | Models |
|---|---|
| `JobLifecycle` | What the queue promises about a row: abstract specification |
| `JobQueue` | The job queue, Valkey, orphans, crashes and the TUI's commands |
| `JobQueueProofs` | Theorems about `JobQueue`, and that it implements `JobLifecycle` |
| `TtsDaemon` | The TTS daemon with thermal gate and hang guard |
| `TtsDaemonProofs` | Theorems about `TtsDaemon` |
| `Pipeline` | One job's checkpointed handler against its users |
| `PipelineProofs` | Theorems about `Pipeline` |
| `SegmentCache` | Runs of `gen_audio.py` over one job's segment cache |
| `SegmentCacheProofs` | Theorems about `SegmentCache` |
| `Retime` | From cue times to the cut list, the video file and the original sound |
| `RetimeProofs` | Theorems about `Retime` |
| `Translation` | `translate_srt.py` processes and the translate daemon |
| `TranslationProofs` | Theorems about `Translation` |
| `DaemonSocket` | How daemons and clients find one another |
| `DaemonSocketProofs` | Theorems about `DaemonSocket` |
| `Accounts` | One account, its requests and the rate limits in front of them |
| `AccountsProofs` | Theorems about `Accounts` |
| `MC*` | Bounds and symmetry for TLC |

The parts meet where one's output is the other's environment. `JobQueue`
promises what `JobLifecycle` states; `Pipeline` takes a run of a job from it as
`PickUp`. The audio, translate and video steps of `Pipeline` are the processes of
`SegmentCache`, `Translation` and `Retime`. `SegmentCache` and `Translation`
see the daemons as requests that are answered, refused, lost or late;
`TtsDaemon` says when they are answered and `DaemonSocket` when there is a daemon
at all.

### JobQueue

A *proc* is a process with a `JobQueue` instance: the gunicorn worker
(`Server`) and, because `jobs_tui.py --purge` calls `get_job_queue()`, the TUI.
`status` is the column of `jobs.db` (`"absent"`: no row), `vq` the Valkey list,
`memq[p]` an instance's `_queue`, `vk[p]` what its `get_valkey()` has cached,
`handle[p]` its `_worker_thread` and `serving[p]` its `_running`. A server may
start several consumer threads in its life (`Workers`); `wpc[t]` is the place of
one in `_process_queue` and `_run_job`, `cur[t]` the code it has popped. A request
thread is a record `[pc, job]`.

Wherever the code commits between reading a row and writing it, or writes it
without a guard, the read and the write are two actions (`SubmitBegin` /
`SubmitInsert`, `ResubmitBegin` / `ResubmitWrite`, `CancelBegin` /
`CancelWrite`, `SelectRow` / `Claim`); a guarded `UPDATE` is one. The put on
the in-memory queue and the push to Valkey are two actions, too. `_ensure_worker`
has no lock: `EnsureWorker` is one access to `_running` or `_worker_thread` at a
time, from `CheckHandle` to `StartThread`, so two requests that see a dead thread may
replace each other's new one. A thread that is replaced leaves its loop at its
next look (`Wanted`), and `WorkerStops` throws away what is on the instance's queue,
also when a successor serves it. `ExternalWrite` / `ExternalPush` are the
README's other way to enqueue a job, by a row and an `RPUSH` from a shell
(`README.md:56`, `147`).

`Crash` may come anywhere. `ValkeyUp` may lose the list, since `stop_server.sh`
shuts Valkey down with `nosave`. `HandlerHangs` is a step that never ends:
`run_translate_srt` waits for its subprocess without a timeout. `orphans` are jobs
with a subprocess whose handler is gone, `stuck` jobs whose FAILED update raised
twice. Two variables are history: `raced` (two requests of this server were in
`_ensure_worker` at once while one replaced the worker) and `outside` (rows last
made pending from a shell, since the last boot).

### TtsDaemon

`conn[c]` is the command of a connection, `slots` is `JOB_SLOTS`, `wpc[w]` the
place of a pool thread in `run_job`. One action is one critical section or one
blocking call: announcing a load, waiting for the generations, taking the
mutex, loading, clearing the flag, entering and leaving `_GenerationGuard`,
answering, `_ACTIVE -= 1`, releasing the slot. `_LOAD_ACTIVE`,
`_MODEL_LOADED` and `GATE.blocked` are members of `flags`; `cleared` is history, the
loaders whose `_LOAD_ACTIVE` another loader has reset. Deadlines are
`"off"`, `"armed"` or `"due"`; a temperature reading is the branch it takes
(`idle_temperature` below `temp_limit`, as configured). `Env` selects what the
environment may do: heat and time (`thermal`), calls that never return
(`hang`), SIGTERM (`quit`), exceptions (`fail`). The branch of `_submit_tts`
for a pool that is already shut down is unreachable: the connection pool is
drained before the thread pool is.

### Pipeline

One job, one handler (`Handler` picks one of the seven video handlers, each a
record of its steps, the steps it checkpoints, the subtitle it speaks and how it
ends). `content[f]` is the set of user edits that went into file `f`, so a step
is "the output has the edits its inputs had when it read them". A mark is a
read (`MarkRead`) and a write (`MarkWrite`) of the row; so are the
invalidation after an edit and the clearing after a deletion. `owed` holds the
edits the user was told will be in the output. A step ends well (`StepEnds`),
raises (`StepFails`), or is `SpeechFailsQuietly`: `gen_audio.py` leaves `main` with
`return` when it fails, so its status is 0, and `run_audio_ckpt` marks the step
without looking for its files. `lost` holds the files that are gone although
their step is marked for one of two reasons: a crash cut their deletion short, or
speech failed in that way. `Users` selects whether users also touch files of a running job
(`busy`), restart from a step in the TUI (`tui`) and submit the same video again
(`again`). The queue is reduced to `PickUp`, `Raise`, `Final` and `Crash`.

### SegmentCache

`wav[i]` is `combined_segment_<i>.wav`, reduced to the texts heard in it, `meta`
is `cache_meta.json` (`None` when it cannot be parsed), `part[k]` the file the
daemon writes for chunk `k`. `run[p]` holds the place and the locals of a
process. `_migrate_cache` is one action per cue, because it renames and removes
files one after another and may raise in the middle; `_save_cache` is two, since
the file is emptied before it is written. `_check_cache` is `Hit`, the adoption
of a file without entry `Recovered`. A request is sent, generated by the daemon
and read in three actions, so that signals, a timeout or the daemon's death come
between. A generation nobody waits for goes on and writes its file (`live`).
Chunk numbers follow `seg_counter`, which grows twice over a segment given up.

### Retime

Time is counted in ticks of 0.04 s, the constant `0.04` of the code; a gap is
"more than 0.001 s" when it is at least a tick. `Speak` is the loop of
`process_with_direct` that shifts cues by `accumulated_offset`, `Lead`, `Lay` and
`Trail` are the loop of `process_video` with the clamp of `calculate_segments`
(`Segment`), `EncodeBatch` and `Concat` the batches and the levels of the concat,
`Finish` the correction and the mux in `main`, `ZhLead`, `ZhLay` and `ZhTrail`
are `build_segment_defs`. A clip is `[cue, start, end, pos, len]`; ffmpeg is what
it does to lengths: up to a frame more per clip, nothing for an empty batch.
The quotient in `Segment` is rounded down to a tick.

### Translation

`client[c]` is a process of `translate_srt.py`, `conns` the requests nobody has
handled yet, `work[w]` what a worker does, `sem` the two semaphores. A file is
the version of the text it holds, so an output is stale when its version is not
the input's. A request carries `live`: whether the client still has its end of
the connection open. `Faults` names what may go wrong in an instance. Starting
a daemon is one step here and `DaemonSocket`'s subject. `daemon` is `"drain"` after
`_QUIT` was set and `"kill"` after the hang guard has seen a hang (`HangSeen`) and
before its SIGKILL (`HangKill`). The guard looks only while `_QUIT` is unset: its
loop ends with it (`gpu_thermal.py:240`), so a call that hangs during a drain stays.

### DaemonSocket

`path` is whose socket the file names, `queue[d]` the connections the kernel has
accepted for `d` and `d` has not, `proc[d]` its place in `main`, which the three
daemons share: look for the file, probe it, unlink it, bind, listen, serve,
drain, close, unlink. A client is a place in `ping`, `ensure_daemon` and the
request. A ping that times out leaves its connection in the queue.

### Accounts

`op[t]` is the request a thread handles; `user` is the row. Every operation of
`UserManager` is a SELECT with its decision (`Select`) and a later write, the
password hash being in between. `Incr` is the INCR and EXPIRE of
`check_rate_limit`; `MemRead`, `MemStore` and `MemAdd` are the in-memory limiter,
which has no lock. `connected` is the verdict `get_valkey` has cached. One
address and one client are enough, since nothing relates two of either.

## Runs

| Run | Checks | Instance |
|---|---|---|
| `queue_faults` | `TypeOK`, `PendingQueued`, `ProcessingOwned` | 2 jobs, 2 requests, 3 threads; 2 submissions, 1 crash, 1 dead worker, 1 Valkey outage |
| `queue_live` | `PendingServed` under fairness | 1 job, 2 requests, 3 threads; 2 submissions, 1 crash, 1 dead worker, 1 Valkey outage, 1 hang |
| `queue_purge` | `LifecycleSpec` | 2 jobs, one without a loadable handler, 1 request, server and TUI instance with a thread each; 1 submission, 1 purge, 1 crash, 1 shutdown, 1 database error |
| `daemon_load` | `TypeOK`, `SlotAccounting`, `CountersExact`, `LoadsAlone`, `RightModel`, `NobodyCutOff` | 2 threads, 2 clients, 2 languages, 2 attempts; failures, heat, hangs, SIGTERM, restarts |
| `daemon_live` | `Answered` under fairness | 2 threads, 2 clients, failures and hangs |
| `pipeline_ocr` | `TypeOK`, `EditsReachOutput`, `MarkedPresent` | uploaded video with OCR; 2 edits, 2 deletions, 3 resubmits, 2 faults |
| `pipeline_ning` | `MarkedOnce` | downloaded video with OCR; busy users, TUI, second submission |
| `segments` | `TypeOK`, `SpeechMatches`, `WorkRecorded`, `FaultFreeSucceeds` | 5 SRT files of up to 3 cues, one text of 2 chunks; 3 runs, 2 edits, 3 faults, 1 kill or timeout |
| `retime` | `TypeOK`, `InPlace`, `DriftBounded`, `NothingSkipped`, `WholeConcat`, `EndsWithAudio`, `TracksMatch` | every SRT file of up to 3 cues with times 0..3, speech of 0, 1, 3 or 130 ticks, video of 3 or 5 |
| `translate` | `TypeOK`, `SlotsMatch`, `WaitersServed`, `OutputFresh`; `ClientEnds` under fairness | 2 clients, 1 job, NPU and one GPU worker; 3 runs, 2 faults, 1 signal, 1 prewarm |
| `socket` | `TypeOK`, `AcceptedFinished`; `EventuallyServed` under fairness | 3 daemons, 2 clients, a queue of 2; 1 quit, 1 crash |
| `accounts` | `TypeOK`, `OneVerifiedOwner`, `SpentCodeDead`, `WindowBound` | 2 threads, 4 requests, 2 units of time, 1 outage |

What they show:

- **`PendingQueued`**: while the server is up, no pending row is forgotten. Every
  such row is on the in-memory queue, in a worker's hands before the claim, or
  about to be enqueued, so that the loss of the Valkey list is harmless. There are
  two exceptions: a row enqueued from outside (the server has not been told of it),
  and everything once two requests have raced in `_ensure_worker` (a live thread
  that was replaced may have emptied the queue). These are on the Valkey list, and
  only as long as Valkey has not failed; after that they wait for the next boot.
- **`ProcessingOwned`**: a row that says processing has a thread that runs it.
- **`PendingServed`**: every pending job is eventually served, with four exceptions:
  the operator stops the server; there is no worker thread and nobody submits
  anything (a dead thread is only noticed by the next `add_job` or `resubmit_job`);
  a handler hangs for ever, the one consumer waiting for it; or the job is
  `Excused`, which is the case of `PendingQueued` above, a row whose FAILED
  update was lost, and one whose code nobody has pushed yet.
- **`LifecycleSpec`**: a handler is started only by claiming a pending row, ends
  once, and only deleted rows disappear, with duplicates on two queues and a
  second instance next to the server.
- **`SlotAccounting`**, **`CountersExact`**: slots and counters are exact through
  every exception path, which is what `busy` answers, the idle monitor and the
  loaders' wait rely on. **`LoadsAlone`**: no call of another thread is on the GPU during
  a load, unless another loader has reset the flag both share; the announcement,
  the wait and the generation's guard are separate critical sections and leave no
  other gap. **`RightModel`**: the model a thread checked is the one it speaks with.
  **`NobodyCutOff`**: a command read while the monitor ends an idle daemon is
  still answered. **`Answered`**: loaders and generations never block each other
  for ever.
- **`EditsReachOutput`**, **`MarkedPresent`**: with users who wait for the job to
  end, an edit reaches speech and video and a marked step has its output, through
  faults, deletions and resubmits; the two ways in which a marked step loses its
  output are `lost` (above). **`MarkedOnce`** holds even for users who do not wait.
- **`SpeechMatches`**: what `output.wav` says at a cue is that cue's text, or
  silence this very run has reported, through every fault and edit; only a
  killed process or an abandoned generation can break it, and then only after an
  edit or another fault: a segment given up counts its chunks twice, so that
  after a kill the same chunk numbers may hold other texts. Texts are edited in
  place here; `SegmentCache_insert.cfg` shows what happens to one that moves. **`WorkRecorded`**: between runs `cache_meta.json` and the segment files
  agree, which is what lets the next run trust them. **`FaultFreeSucceeds`**: a
  text edited in place never makes a run fail while nothing else does.
- **`InPlace`**, **`DriftBounded`**: pictures of a cue never start after its
  speech, and are early by no more than what the stretch limit took from the cues
  before. **`NothingSkipped`**: every picture is shown, also around cues past the
  end of the video. **`WholeConcat`**: no clip is lost or moved by batching.
  **`EndsWithAudio`**: rounding does not accumulate into the file's length.
  **`TracksMatch`**: the second copy of the arithmetic cuts the original sound as
  the pictures, overlapping cues included.
- **`SlotsMatch`**, **`WaitersServed`**: on every path a slot goes back to its own
  pool, and a client that waits has exactly one request in a live daemon.
  **`OutputFresh`**: success means the output translates the input as it is,
  unless an earlier client was stopped and its request lives on.
  **`ClientEnds`**: `translate_srt.py` waits without a timeout and still ends,
  unless a GPU call hangs after its daemon was told to stop: then the guard has
  retired, the pool waits, and so does the client, for ever.
- **`AcceptedFinished`**: a daemon that shuts down finishes what it accepted,
  whatever the daemons that take its place do to the socket file.
  **`EventuallyServed`**: whatever files and half-dead daemons are left, a client
  is served in the end.
- **`OneVerifiedOwner`**, **`SpentCodeDead`**: threads between SELECT and write
  do not give an address two owners or a session without verification, and a
  used code does not come back. **`WindowBound`**: no window of any phase lets
  more than `Max` requests through while Valkey answers.

### Bounds

The bounds are the constants `Limit` (events by kind) and `MaxTries`,
`IdleHotPolls`. Two jobs are enough for one to overtake, replace or be held next
to another; two requests for every race of a request with another; two
submissions for a code to be on the queues twice; one fault of each kind, at any
step, since each fault's recovery re-establishes the state of a fresh boot. A
server needs three threads for the one that dies and one replacement by each of
two requests; where there is no death (`queue_purge`) it needs one. A handler that
hangs or a shutdown cannot lose a queue entry, so `queue_faults` leaves both to the
other two runs. Two
threads are the daemon's default (`GEN_AUDIO_MAX_JOBS`), two languages force
reloads, one hot poll (`IdleHotPolls`) and two attempts reach both sides of each
limit. `Limit` in `pipeline_ocr` allows an edit
of an edited file, and a fault and a resubmit between any two. `segments` has
three runs for a fault, an edit and a run that reuses both, and a cue of each
kind besides one of two chunks (`MaxCues`, `MaxChunks` are the largest that
occur). In `retime` three
cues have a cue before and after a gap, 130 ticks are beyond the stretch of any
cue and gap, and `MaxBatch` 2 makes two levels of concat; the caps 10 and 100
are the code's. In `translate` two clients compete for a worker, and three runs
leave an old one beside its successor. In `socket` the third daemon is the one
that starts while one drains and another binds. `accounts` has a request to
register, to log in and two that race. The proofs do without these bounds. Symmetry is used in `queue_faults` and
`daemon_load` only, which check invariants. Deadlock is not checked where the
system may stop: a server that was shut down, a job that has ended with nothing
left to be asked of it, a daemon that hangs after its watchdog has retired.

### Fairness

`JobQueue!Fairness`: gunicorn respawns a crashed worker, threads are scheduled,
request threads run to their end, and a handler ends if it does not hang. Most
steps have a timeout; the translate step has none (`pipeline.py:503`), nor does its
client wait with one, so a handler may also hang (`HandlerHangs`) until somebody
cancels the job. Users, operators, shells and faults are not fair, nor is the
return of Valkey.
`TtsDaemon!Fairness`: threads are scheduled, the monitor polls and at times
finds the machine cool, deadlines pass, the watchdog looks. Strong fairness is
assumed of the three waits (`EnterGen`, `Drain`, `LockLoad`): every change of the
condition is followed by `notify_all`, and waiters of a Python lock or condition
are woken in turn; weak fairness would let one thread be overtaken for ever.
Clients are not fair. `Translation!Fairness`: processes and threads run, the
accept loop takes every connection, the watchdog looks until `_QUIT` is set, heat
passes; users and faults are not fair. `DaemonSocket!Fairness`: daemons and clients run and jobs
end; the expiry of the 120 s is strongly fair, because the polls that interrupt
it do not reset the clock. A thermal pause is left out of `daemon_live`: how long a GPU
stays hot is not the program's to promise.

## Deviations found

The modules also state promises of comments and docs that the code does not keep.
The configuration named finds the counterexample; where it names several
properties or instances, they are its commented lines.

- `CancelSticks` (`JobQueue_cancel.cfg`): `_cancel_event` is set "to skip completion
  logic" and never read, so a cancelled job becomes completed or failed when its
  handler ends (`job_worker.py:280`).
- `LoadExcludesGeneration` (`TtsDaemon_exclude.cfg`): two loaders share
  `_LOAD_ACTIVE`; the first to finish clears it, and a generation runs during the
  other's load (`gen_audio_daemon.py:303`).
- `EditsReachOutput` with busy users (`Pipeline_edits.cfg`): an edit saved while a
  later step runs is overtaken by that step's mark (`routes/files.py:774`).
- `ResumeCompletes` (`Pipeline_marks.cfg`): `_audio_fallback_paths` lacks
  `output_wav_path`; a resumed job that skips its audio step ends in `KeyError`
  (`pipeline.py:281`).
- `ShutdownRequeues` (`JobQueue_shutdown.cfg`): a job that outlasts the shutdown is
  not "terminated and marked PENDING" (`jobqueue.py:564`); the next boot resets it.
- `OrphanDeadBeforeRerun` (`JobQueue_orphan.cfg`): subprocesses of processing rows
  get SIGTERM at boot and nobody waits; the job may run again next to them
  (`README.md:51`).
- `OneJobAtATime` (`JobQueue_two.cfg`): `jobs_tui.py --purge` starts a second
  queue consumer and resets the rows of the first (`README.md:50`).
- `PendingKept` (`JobQueue_race.cfg`): "Jobs are durable" (`README.md:51`), but
  `_ensure_worker` has no lock. Two requests that both see the dead thread replace it
  twice; the first replacement, alive, then empties the queue of the second. With
  Valkey down a submitted job is on no queue until the next boot. `WorkerRestartable` (same file): the race can end with
  `_running` set and no thread, which no later request mends. `OneJobAtATime` (same
  file): "a restarted worker can never leave two queue-consumer threads running"
  (`jobqueue.py:265`), but one that was replaced after its look at `_worker_thread`
  still pops and runs a job next to its successor.
- `ConsecutiveHot` (`TtsDaemon_hot.cfg`): hot polls before and after a job add up
  (`gpu_thermal.py:70`).
- `IdleReleasesGpu` (`TtsDaemon_forgotten.cfg`): `ensure_model` arms no idle
  countdown, so a prewarmed and cool daemon stays for ever (`gpu_thermal.py:84`).
- `HungDaemonDies` (`TtsDaemon_hung.cfg`): the watchdog retires once the quit flag is
  set; a command admitted before that may hang afterwards (`gpu_thermal.py:185`).
- `EditsReachOutput` (`Pipeline_edits.cfg`): an edit of an uploaded subtitle
  invalidates nothing (`routes/files.py:780`); (same file): a second
  submission with a new subtitle keeps the old audio (`README.md:87`).
- `MarkedPresent` (`Pipeline_marks.cfg`): deleting `audio.wav` leaves
  `extract_audio` marked (`job_checkpoint.py:47`); (same file): the TUI
  deletes step output after the server has queued the job (`jobs_tui.py:566`).
- `MarkedHasOutput` (`Pipeline_marks.cfg`): a speech step that fails with status 0 is
  marked (`pipeline.py:314`), so every resubmit skips it and fails in a later step for
  the file that is not there.
- `RestartClears` (`Pipeline_marks.cfg`): the picker keeps a prefix in mark order,
  not in pipeline order (`jobs_tui.py:1082`).
- `FaultFreeSucceeds` (`SegmentCache_insert.cfg`): when a cue is inserted,
  `_migrate_cache` removes a file that is not there (`gen_audio.py:218`). When one
  is cleared (`Scripts <- Blank` in the same file) its file is removed as stale,
  every other cue is a hit, so nothing is generated (`gen_audio.py:663`) and
  `combine_audio_segments` misses the blank cue's file (`gen_audio.py:480`). Both runs
  fail without any fault.
- `SpeechMatches` with texts that move (`SegmentCache_insert.cfg`): when a cue is
  dropped and later blank ones come in its place, `_migrate_cache` copies an entry
  to a number that still has another cue's file, keeps that file and removes the
  right one (`gen_audio.py:214`). Without any fault the last cue of
  `<<Empty, x, b, x>>` is spoken with the sound of `b`. When it raises half-way,
  files and `cache_meta.json` disagree until the next run.
- `OutputSpeaks` (`SegmentCache_faults.cfg`): a WAV file without entry is taken
  for the text its number has now, after a kill and an edit (`gen_audio.py:158`); a
  late answer is read as the next one (`gen_audio.py:555`). With two processes
  (`SegmentCache_orphan.cfg`) the earlier run of the job does the same.
- `SuccessIsFresh` (same file): `main` returns 1 without `sys.exit`, so a run
  without a daemon ends with status 0. `NeverInflated` (same file): a run in which
  everything was cached does not check the length.
- `Placed` (`Retime_deviations.cfg`): "segment *i* is placed at adj_start[i]"
  (`gen_video.py:130`) is not so for overlapping cues and beyond the stretch limit.
  `TracksAgree` (same file): `adjust_original_audio` "Mirrors the same
  segment-stretch logic that gen_video.py applies" (`pipeline.py:669`), but clamps
  at the end of the video differently.
- `OutputMatches` (`Translation_deviations.cfg`): a worker whose client was stopped
  writes the old translation over the new one. `DrainFinishes` (same file): "SIGTERM
  or SIGINT stops the daemon cleanly after in-flight jobs finish"
  (`translate_daemon.py`), but a request at the thermal gate is failed.
  `ClientEnds` with a hang of the NPU worker on the GPU (same file): the hang guard
  does not watch that worker, and the client has no timeout. `EveryClientEnds` with
  `quit` and `hang` (same file): "the guard requests a clean exit (SIGTERM) and
  force-kills after the grace period" (`translate_daemon.py:255`), but not a call that hangs once
  `_QUIT` is set.
- `OneDaemon`, `NeverRefused`, `FileKept` (`DaemonSocket_deviations.cfg`): two
  daemons that both found no listener unlink each other's file; a daemon that
  drains keeps a new one from starting until clients give up; one that closes
  removes the file of its successor.
- `WindowBoundAlways` (`Accounts_fallback.cfg`): "uses Redis when available,
  in-memory fallback otherwise" (`middleware.py:50`); a Valkey that stops answering
  has no fallback, and the in-memory limiter is not locked. `RefusedOverLimit` (same
  file): the "fixed-window counter" (`valkey_util.py:107`) renews its expiry with
  every request, so requests are refused for longer than a window.
- `ResetOnce`, `ChangeFromCurrent` (`Accounts_reset.cfg`): two confirmations with
  one code both succeed; a change may replace a password that a reset has set after
  the check (`auth.py:184`).

## Proofs

The theorems hold for every value of the constants that satisfies the assumption
named in the module: any number of jobs, instances, requests, threads,
connections and languages, any limit on faults.

`JobQueueProofs`, from `ConstantsAssumption` (finitely many jobs, `Server` is an
instance, `NoJob` is no job, threads are not instances and `NoThread` is neither):

- `TypeCorrect`: `TypeOK` is inductive; one step per action. The lemmas on
  `Orders`, `Append` and `Tail` say what loading, pushing and popping leave in the
  Valkey list.
- `PendingNeverForgotten` (`PendingQueued`), for `Procs = {Server}`. The property is
  not inductive: a row that is on the Valkey list alone needs that the list had it
  already when the in-memory queue was emptied. So `KnownInv` says of each queue by
  itself that it remembers every pending row (`Known`), the list as long as Valkey
  has not failed, the in-memory queue as long as nothing was raced or came from
  outside. That a queue is emptied only after a race is `CalmInv`: without one at
  most one request is past the test, no thread is alive while it replaces the worker,
  and otherwise the only live thread is `_worker_thread` (`ServerCalm`). With a second
  instance the property is false (`JobQueue_two.cfg`), so the assumption is needed.
- `ProcessingHasOwner` (`ProcessingOwned`), for `Procs = {Server}`. The property
  says nothing of an instance that is down or booting, so it is not inductive:
  `OwnedInv` adds that such an instance has no thread and that a booting one has
  already reset every processing row.
- `LifecycleImplemented` (`LifecycleSpec`): every step of `JobQueue`, for any set
  of instances and threads, is a step of `JobLifecycle` or leaves `status` and
  `Running` alone, `Running[t]` being the job whose handler thread `t` is in. `RunEnds`
  covers the steps in which a thread is lost.

`TtsDaemonProofs`, from `DaemonAssumption` (finitely many threads, `None` is no
thread, connection or language). The base is `Correspondence`: a thread at a
place of `run_job` before its answer has a running connection, no two threads
have the same one, and every running connection has its thread (`Owned`); no
command is left to be admitted once `conn_pool` is shut down (`Drained`). `Typed`
is the type without the bounds of the counters.

- `CleanExit` (`NobodyCutOff`): `PoolDrained` waits for threads, not for
  connections; it is `Owned` that makes every connection answered by then.
- `SpeaksRightLanguage` (`RightModel`): inductive once it also holds of a thread
  that has loaded and not yet lowered the load flag (`ModelKept`), and only with
  `Owned`: a connection that is running is not accepted again under its thread.
- `CountersTrue` (`CountersExact`): inductive; each action adds one thread to the
  set a counter counts, or removes one, exactly when it changes the counter.
- `LoadsRunAlone` (`LoadsAlone`): by `Announced`, a loader that was not undercut keeps
  `_LOAD_ACTIVE` set from its announcement on, and nothing generates once it has seen
  `_GENS_ACTIVE` at 0; that the counter's 0 means so is `CountersTrue`.
- `SlotsConserved` (`SlotAccounting`): `Accounted` adds that the waiting commands
  are finitely many (`Clients` need not be), `Owned` that an answer is never given
  to a command that still waits, and `Drained` that a new daemon finds none.
- `DaemonTypeCorrect` (`TypeOK`): the bounds of the counters follow from the two
  theorems above while the daemon lives; `Bounded` adds that a thread on its way
  to the guard has an attempt left and that the monitor of a serving daemon has
  not reached its limit.

`DaemonSocketProofs`, from `SocketAssumption` (a backlog of at least 1, `None` is no
daemon), for any sets of daemons and clients:

- `SocketTypeCorrect` (`TypeOK`): what it says beyond types is that no queue
  exceeds the backlog; `Connect` is the only step that adds to one.
- `AcceptedAnswered` (`AcceptedFinished`): by cases over the steps that take a
  client out of `work`. It rests on the guard of `Close`, that `main()` waits for
  both of its pools before it closes the socket.

`AccountsProofs`, from `AccountsAssumption` (finitely many threads, positive limits
and windows, `None` is no password, code or row).
A request writes after its SELECT, in whatever order threads run, so the invariant
says of every thread about to write that what it has seen still holds
(`Justified`): the row is there, for a login verified, for a reset it had a code.
That lasts because rows are never deleted, an address stays verified and codes are
only added (`Grows`).

- `OneOwner` (`OneVerifiedOwner`): with `Owner`, a row once one registration has
  succeeded. The UNIQUE column, modelled in `Insert`, is what the proof uses.
- `SpentStaysDead` (`SpentCodeDead`): with `Dead`, every used code is one
  already made, and the row only gets a new one or loses its own.
- `AccountsTypeCorrect` (`TypeOK`): what it says beyond types is that the
  in-memory lists hold no more times than requests were let through, although a
  thread stores a list it has read before others stored theirs (`Counted`, `Rows`).
- `WithinLimits` (`WindowBound`): as long as Valkey answers, `Windowed` says of each
  limiter all that a counter with an expiry can know. `Tokens` are the requests let
  through and those on their way through the in-memory limiter; all of them
  are over when the counter expires, those since its chain of renewals began are
  within the counter, those before were over by then, and every window holds at
  most `Max`. `AllowedUnder`, `RefusedUnder` and `FewerUnder` are what a request
  that is let through, one that is refused, and time do to that.

`RetimeProofs`, from `RetimeAssumption` (times and lengths are naturals, caps at
least 1, batches at least 2):

- `PicturesInPlace` (`InPlace`): `Timeline` says what `process_with_direct` has made
  of the cues, a cue being behind by exactly what the ones before it took too long;
  `Loop` says that before cue *i* the cut list ends no later than the pictures of
  cue *i - 1* should (`Target`), and exactly there while no cap was hit. The clamp at
  the end of the video only shortens (`SegmentFacts`, `LengthFacts`), and the piece
  between two cues fills what is missing and no more (`GapFacts`).
- `WholeVideoShown` (`NothingSkipped`): with `Covers`, before each cue the cut list
  reaches exactly to the end of the cue before, which the clamp keeps inside the
  video. Without a piece between two cues they touch (`GapCovers`).
- `RetimeTypeCorrect` (`TypeOK`), for cues in any order: that an output file has a
  length needs the clips to lie one after another (`Laid`), as the designed length of
  a batch is a difference of two places, and a cue that ends last (`LastOne`).
- `EarlyByWhatIsLost` (`DriftBounded`): with `Drift`, before each cue the cut list is
  behind by at most `Missing`, a recursive function; `MissingFacts` shows that it has
  the values its definition asks for. A cue adds what the cap takes from it
  (`Lost`), and the piece before a cue never takes more than is missing (`GapFacts`).
- `SamePlans` (`TracksMatch`): `Match` says that there is a history of the plan, one
  value of (`clips`, `cumul`) per cue, which the pictures have gone through and the
  sound is going through. That both loops take the same step `Laying` is shown for
  cues in any order, overlapping ones included.
- `VideoEndsWithAudio` (`EndsWithAudio`): `Even` says that the clips follow one another
  without a pause, `Filmed` that after each batch the file is at least as long as
  designed, since ffmpeg's rounding only adds, and `Long` that the plan is at least as
  long as the audio. So `Finish` always finds something to cut off.
- `NoClipLost` (`WholeConcat`): `Batches` says that the list of files is in ascending
  order (`InOrder`), holds every clip encoded so far that has a frame (`Has`), and no
  later one (`Below`). A level of `Concat` keeps that: the groups partition the list
  (`GroupFacts`), and `Flat`, another recursive function, joins each in order
  (`FlatFacts`).

`PipelineProofs`, from the assumptions of `Pipeline`, for each of the handlers and any
limits:

- `PipelineTypeCorrect` (`TypeOK`), for any users: inductive with `RequestInv`, which
  files a request is about.
- `PipelineMarkedOnce` (`MarkedOnce`), for any users: `OnceInv` is about the three copies
  of the checkpoint, the row's, the one `mark()` has read and the one a request has
  read. A request only takes steps out of its copy, so a list read earlier never
  has a step the newer one lost.
- `PipelineMarkedPresent` (`MarkedPresent`), for users who at most submit again and
  delete no speech file: `QuietInv` says that requests and the running job do not
  overlap, so that the copies are exact, `PresentInv` that a marked step has its
  output, or the file is just being deleted or is `lost`. Both hypotheses are needed
  (`Pipeline_marks.cfg`).
- `PipelineEditsReachOutput` (`EditsReachOutput`), for users who wait and edit no upload:
  `OrderInv` says that the steps before the one that runs are marked, `EditInv` that
  an edit that is owed is in its file, in the output of each later step that is
  marked, and in what a later step that runs has read. Again both are needed
  (`Pipeline_edits.cfg`).

`SegmentCacheProofs`, from `SegmentAssumption`:

- `SegmentTypeCorrect` (`TypeOK`), for any processes at once: that a chunk number stays
  in its range needs `LocalInv`, the cues before number *i* have used at most
  `Room(i)`, twice their chunks, because a segment given up counts its own again; that
  an answer reaches the right process needs `GensInv`.
- `SegmentWorkRecorded` (`WorkRecorded`), for one process at a time and texts that keep
  their numbers: `Clean` relates the files, `cache_meta.json` and the locals of the
  process at each place of `main`. What is in its cache is what the files say
  (`CacheInv`), what it has heard so far is the text of its cue (`VoiceInv`), and the
  cues it has passed have their file (`SettledInv`). Both hypotheses are needed
  (`SegmentCache_orphan.cfg`, `SegmentCache_insert.cfg`).
- `SegmentSpeechMatches` (`SpeechMatches`), under the same hypotheses. `Clean` gives the
  half without kills and timeouts. `Plain` gives the half through them, while nothing
  is edited and nothing else fails: every chunk number is owned by one cue (`Owns`,
  `OneOwner`, from `Used`, the recursive sum of the chunks of the cues before), a
  process is at the number its cue owns, and so a chunk file an earlier run left
  and an answer that comes late say what the cue says.
- `SegmentFaultFreeSucceeds` (`FaultFreeSucceeds`), under the same hypotheses and
  `BlanksStay`: a cue that is blank in one SRT file is blank in all that have it,
  unless the file has a single cue or one without letters, for which `main`
  generates in every run. `Smooth` says that the daemon is not lost, that no file
  or answer is silent or too long, that the cues a run has settled have their file,
  and that blank cues keep theirs (`BlanksKept`). `BlanksStay` is needed
  (`SegmentCache_insert.cfg` with `Scripts <- Blank`).

`TranslationProofs`, from `TranslationAssumption` (finitely many clients and GPU
workers, at least one job and one block, `Nobody` is no client and `NPU` no GPU
worker), for any budget of faults:

- `TranslationTypeCorrect` (`TypeOK`): inductive.
- `PoolsBalanced` (`SlotsMatch`): inductive with `TypeOK`; the idle GPU workers
  change by one worker exactly when the slots of their pool do.
- `WaitersKept` (`WaitersServed`): the property counts places; `Waits` says in
  first-order form that a waiting client has its request either in the daemon's
  list or with one worker, and no other. `Shapes` adds that an idle worker has no
  request and that a prewarm has no client.
- `OutputIsFresh` (`OutputFresh`): as soon as two clients run for one job, one may
  write over the other's output, so `Fresh` starts from `Sole`: one client per job
  goes on. `Known` says that a request of a job outside `left` is one whose client
  was not stopped, `Text` that what a worker has read is still the input and
  what it has written is the output, `Ended` that nobody works for a job whose
  client has ended. For a job in `left` it is false (`OutputMatches`, above).

The library's induction theorems take an operator as a parameter, which no prover
here can instantiate. `SetInduction` does without: a *set* that has 0 and the successor
of each of its naturals holds them all, by the well-foundedness of the strict subset
relation on finite sets. From it follow the facts about `Missing`, `Flat`, `Used` and
the lists of checkpoints.

Only model-checked: liveness (`PendingServed`, `Answered`, `ClientEnds`,
`EventuallyServed`), which rests on fairness and `ENABLED` and is out of the
prover's reach. Every other property of a passing run is proved.

## Not modelled

`PROJECT.json` gives the reason for each part. In short: rendering and request
parsing keep no state; image processing, speech and translation are opaque
computations; the schema code runs before everything else. Within the modelled
parts, left out are row fields that decide nothing (names, progress, error
texts, times), the contents of answers and logs, the plain-text path `process_text`
of `gen_audio.py`, the job loop of the OCR daemon and its client's fall-back, which
model instance `_generate_anchored` uses after a forced reload, the calibration of a subtitle
against a standard text in `routes/files.py`, and the eviction of the in-memory
limiter.

## Plan

1. `OcrDaemon`: its one job at a time, and the fall-back of its client.
2. Model instances in `_generate_with_retry` and `_generate_anchored`, in
   `TtsDaemon`.
3. `_align_segments` and `_slot_standard_entries` against a reference definition.
4. Proofs: the refinements and invariants of what items 1 and 2 add.

------------------------------ MODULE Pipeline ------------------------------
(***************************************************************************)
(* The checkpointed pipeline of one job (pipeline.py, job_checkpoint.py,   *)
(* the handlers in video_ning_job.py and video_custom_job.py) against what *)
(* users do to its files meanwhile (routes/files.py, jobs_tui.py).         *)
(*                                                                         *)
(* A handler runs its steps in order and skips those the row's checkpoint  *)
(* lists.  Every mark is a read and a write of the row, and so is every    *)
(* invalidation by a request thread; nothing orders them.  A file's        *)
(* content is abstracted to the set of user edits that went into it.  The  *)
(* queue (module JobQueue) is reduced to picking the job up and resetting  *)
(* it after a crash.                                                       *)
(***************************************************************************)
EXTENDS Naturals, Sequences

CONSTANTS Handler,    \* the job's run_func, one of Handlers
          Users,      \* what users do, see below
          EditFiles,  \* files the result page lets the user edit
          DeleteFiles,\* files the result page lets the user delete
          Limit       \* bounds of the model, by kind of event

\* The handlers.  steps: in execution order; marks: the steps that consult
\* and record the checkpoint; srt: what the audio step speaks; check: how the
\* handler ends ("files": fixed paths are checked, "result": the paths that
\* run_audio_ckpt returned, "none").
VideoJob ==
    [steps |-> <<"download", "audio", "video">>,
     marks |-> {"download", "audio", "video"}, srt |-> "upload", check |-> "files"]
VideoNingOcrJob ==
    [steps |-> <<"download", "ocr", "translate", "audio", "video">>,
     marks |-> {"download", "ocr", "translate", "audio", "video"},
     srt |-> "translated", check |-> "result"]
VideoNingAutoJob ==
    [steps |-> <<"download", "extract_audio", "whisper", "translate", "audio", "video">>,
     marks |-> {"download", "extract_audio", "whisper", "translate", "audio", "video"},
     srt |-> "translated", check |-> "result"]
VideoNingOcrTranslateOnlyJob ==
    [steps |-> <<"download", "ocr", "translate">>,
     marks |-> {"download", "ocr", "translate"}, srt |-> "translated", check |-> "none"]
VideoCustomJob ==
    [steps |-> <<"audio", "video">>, marks |-> {}, srt |-> "upload", check |-> "none"]
VideoAutoJob ==
    [steps |-> <<"extract_audio", "whisper", "translate", "audio", "video">>,
     marks |-> {"extract_audio", "whisper", "translate", "audio", "video"},
     srt |-> "translated", check |-> "none"]
VideoOcrJob ==
    [steps |-> <<"ocr", "translate", "audio", "video">>,
     marks |-> {"ocr", "translate", "audio", "video"}, srt |-> "translated", check |-> "none"]

Handlers == {VideoJob, VideoNingOcrJob, VideoNingAutoJob, VideoNingOcrTranslateOnlyJob,
             VideoCustomJob, VideoAutoJob, VideoOcrJob}

\* "track": output.wav, output_adjusted.srt and changed_segments.json in the
\* audio directory; "copy": output_adjusted.srt in the output directory.
Files == {"upload", "video_in", "speech", "whisper_srt", "ocr_srt", "translated",
          "track", "copy", "out"}

Events == {"edit", "delete", "resubmit", "fault"}

\* "busy": the user also edits and deletes while the job is queued or runs;
\* "tui": jobs_tui.py's restart picker; "again": the same video is submitted
\* again after a failure.
ASSUME PipelineAssumption ==
    /\ Handler \in Handlers
    /\ Users \subseteq {"busy", "tui", "again"}
    /\ EditFiles \subseteq {"upload", "whisper_srt", "ocr_srt", "translated"}
    /\ DeleteFiles \subseteq Files \ {"track"}
    /\ Limit \in [Events -> Nat]

VARIABLES
    status,   \* the row's status
    ckpt,     \* the row's checkpoint, in the order of the marks
    edited,   \* the row's checkpoint_edited, 0 or 1
    present,  \* files that exist
    content,  \* content[f]: the edits <<file, n>> that went into f
    hpc,      \* where the handler is
    idx,      \* the step it is at
    snap,     \* the edits in the input files the running step has read
    mread,    \* what mark() has read
    keys,     \* which paths run_audio_ckpt returned in this run
    ureq,     \* the user's request in progress, [pc, file, read]
    owed,     \* edits the user was told will be in the output
    lost,     \* files that are gone although their step is marked: a deletion
              \* cut short by a crash, a speech step that failed with status 0
    used      \* events spent so far

handlerVars == <<hpc, idx, snap, mread, keys>>
fileVars == <<present, content>>
vars == <<status, ckpt, edited, present, content, hpc, idx, snap, mread, keys,
          ureq, owed, lost, used>>

Spend(e) ==
    /\ used[e] < Limit[e]
    /\ used' = [used EXCEPT ![e] = @ + 1]

Steps == {Handler.steps[i] : i \in 1..Len(Handler.steps)}

Step == Handler.steps[idx]

Marked(c) == {c[i] : i \in 1..Len(c)}

\* The list c without the steps S: [s for s in checkpoint if s not in S].
Without(c, S) ==
    LET kept[n \in 0..Len(c)] ==
          IF n = 0 THEN <<>>
          ELSE IF c[n] \in S THEN kept[n - 1] ELSE Append(kept[n - 1], c[n])
    IN kept[Len(c)]

Reads(s) ==
    CASE s = "download" -> {}
      [] s \in {"extract_audio", "ocr"} -> {"video_in"}
      [] s = "whisper" -> {"speech"}
      [] s = "translate" -> {IF "whisper" \in Steps THEN "whisper_srt" ELSE "ocr_srt"}
      [] s = "audio" -> {Handler.srt}
      [] s = "video" -> {"video_in", Handler.srt, "track"}

Writes(s) ==
    CASE s = "download" -> {"video_in"}
      [] s = "extract_audio" -> {"speech"}
      [] s = "whisper" -> {"whisper_srt"}
      [] s = "ocr" -> {"ocr_srt"}
      [] s = "translate" -> {"translated"}
      [] s = "audio" -> {"track"}
      [] s = "video" -> {"out"}

-----------------------------------------------------------------------------
(* The handler                                                             *)

\* The queue's worker claims the row and calls the handler.
PickUp ==
    /\ status = "pending"
    /\ status' = "processing"
    /\ hpc' = "check" /\ idx' = 1 /\ keys' = "none"
    /\ UNCHANGED <<ckpt, edited, fileVars, snap, mread, ureq, owed, lost, used>>

\* Mutant of Raise: the handler goes on after FAILED was written.
RaiseAndGoOn == status' = "failed" /\ UNCHANGED <<hpc, idx>>

\* An exception leaves the handler: the worker writes FAILED.
Raise == status' = "failed" /\ hpc' = "off" /\ UNCHANGED idx

\* On to the next step; a handler with a video step ends with a copy.
Advance ==
    IF idx < Len(Handler.steps) THEN hpc' = "check" /\ idx' = idx + 1
    ELSE hpc' = (IF "video" \in Steps THEN "copy" ELSE "final") /\ UNCHANGED idx

\* ckpt.done(step): the step is skipped; a skipped audio step returns
\* _audio_fallback_paths.
Skip ==
    /\ hpc = "check"
    /\ Step \in Handler.marks \cap Marked(ckpt)
    /\ keys' = IF Step = "audio" THEN "fallback" ELSE keys
    /\ Advance
    /\ UNCHANGED <<status, ckpt, edited, fileVars, snap, mread, ureq, owed, lost, used>>

\* Mutant of StepBegin: the checkpoint is not consulted.
StepBeginAlways ==
    /\ hpc = "check"
    /\ Reads(Step) \subseteq present
    /\ hpc' = "run"
    /\ snap' = UNION {content[f] : f \in Reads(Step)}
    /\ UNCHANGED <<status, idx, ckpt, edited, fileVars, mread, keys, ureq, owed, lost, used>>

\* The step's program starts and reads its inputs; without them it fails.
StepBegin ==
    /\ hpc = "check"
    /\ Step \notin Handler.marks \cap Marked(ckpt)
    /\ IF Reads(Step) \subseteq present
       THEN /\ hpc' = "run"
            /\ snap' = UNION {content[f] : f \in Reads(Step)}
            /\ UNCHANGED <<status, idx>>
       ELSE Raise /\ UNCHANGED snap
    /\ UNCHANGED <<ckpt, edited, fileVars, mread, keys, ureq, owed, lost, used>>

\* The program ended with status 0: the step is marked, if the handler marks.
EndStep ==
    /\ keys' = IF Step = "audio" THEN "full" ELSE keys
    /\ IF Step \in Handler.marks THEN hpc' = "mark" /\ UNCHANGED idx ELSE Advance

\* A non-zero exit, a timeout, missing output where the handler looks for it.
StepFails ==
    /\ hpc = "run"
    /\ Spend("fault")
    /\ Raise
    /\ UNCHANGED <<ckpt, edited, fileVars, snap, mread, keys, ureq, owed, lost>>

StepEnds ==
    /\ hpc = "run"
    /\ present' = present \cup Writes(Step)
    /\ content' = [f \in Files |-> IF f \in Writes(Step) THEN snap ELSE content[f]]
    /\ lost' = lost \ Writes(Step)
    /\ EndStep
    /\ UNCHANGED <<status, ckpt, edited, snap, mread, ureq, owed, used>>

\* gen_audio.py fails (no daemon, nothing to speak) and main() returns: its
\* status is 0 all the same, and run_audio_ckpt looks for no file.
SpeechFailsQuietly ==
    /\ hpc = "run" /\ Step = "audio"
    /\ Spend("fault")
    /\ lost' = lost \cup (Writes(Step) \ present)
    /\ EndStep
    /\ UNCHANGED <<status, ckpt, edited, fileVars, snap, mread, ureq, owed>>

\* CheckpointHelper.mark: read the checkpoint, ...
MarkRead ==
    /\ hpc = "mark"
    /\ mread' = ckpt
    /\ hpc' = "markset"
    /\ UNCHANGED <<status, ckpt, edited, fileVars, idx, snap, keys, ureq, owed, lost, used>>

\* ... write it back with the step appended.
MarkWrite ==
    /\ hpc = "markset"
    /\ ckpt' = Append(mread, Step)
    /\ Advance
    /\ UNCHANGED <<status, edited, fileVars, snap, mread, keys, ureq, owed, lost, used>>

\* The end of run_video_ckpt: the adjusted SRT is copied, run or skipped.
CopySrt ==
    /\ hpc = "copy"
    /\ IF "track" \in present
       THEN /\ present' = present \cup {"copy"}
            /\ content' = [content EXCEPT !["copy"] = content["track"]]
            /\ hpc' = "final"
            /\ UNCHANGED <<status, idx>>
       ELSE Raise /\ UNCHANGED fileVars
    /\ UNCHANGED <<ckpt, edited, snap, mread, keys, ureq, owed, lost, used>>

\* _adjust_original_audio_nonfatal reads both SRTs (only SubprocessError is
\* caught); then validate_files.  The fallback paths have no output_wav_path,
\* so a handler that checks the returned paths raises KeyError.
Final ==
    /\ hpc = "final"
    /\ IF /\ "video" \in Steps => {Handler.srt, "track"} \subseteq present
          /\ Handler.check # "none" => {"track", "out"} \subseteq present
          /\ Handler.check = "result" => keys = "full"
       THEN status' = "completed" /\ hpc' = "off" /\ UNCHANGED idx
       ELSE Raise
    /\ UNCHANGED <<ckpt, edited, fileVars, snap, mread, keys, ureq, owed, lost, used>>

Quiet == [pc |-> "idle", file |-> "none", read |-> <<>>]

\* The server dies: handler and request threads are gone; on boot the row is
\* PENDING again.  The TUI is another process.
Crash ==
    /\ hpc # "off" \/ ureq.pc \notin {"idle", "tuipurge"}
    /\ Spend("fault")
    /\ hpc' = "off"
    /\ status' = IF status = "processing" THEN "pending" ELSE status
    /\ ureq' = IF ureq.pc = "tuipurge" THEN ureq ELSE Quiet
    /\ lost' = IF ureq.pc \in {"clear", "clearset"} THEN lost \cup {ureq.file} ELSE lost
    /\ UNCHANGED <<ckpt, edited, fileVars, idx, snap, mread, keys, owed>>

-----------------------------------------------------------------------------
(* Requests: save-srt, delete, resubmit                                    *)

CheckpointOrder == <<"download", "decompress", "trim", "extract_audio", "whisper",
                     "ocr", "translate", "audio", "video">>

\* Mutant of After: the step that follows is forgotten (off by one).
AfterNext(s) ==
    {CheckpointOrder[j] : j \in {k \in 1..Len(CheckpointOrder) :
        \E i \in 1..(k - 2) : CheckpointOrder[i] = s}}

\* The steps after s.
After(s) ==
    {CheckpointOrder[j] : j \in {k \in 1..Len(CheckpointOrder) :
        \E i \in 1..(k - 1) : CheckpointOrder[i] = s}}

\* FILENAME_TO_CHECKPOINT_STEP
StepOfName(f) ==
    CASE f = "ocr_srt" -> "ocr"
      [] f = "translated" -> "translate"
      [] f = "whisper_srt" -> "whisper"
      [] f = "copy" -> "audio"
      [] OTHER -> "none"

\* clear_checkpoint_for_file: by name, or by the pattern of the name.
ClearedBy(f) ==
    CASE f = "out" -> {"video"}
      [] f = "video_in" -> {"download"}
      [] OTHER -> {StepOfName(f)}

\* _STEP_ARTIFACTS
Artifacts(s) == IF s \in {"translate", "audio", "video"} THEN Writes(s) ELSE {}

\* jobs_tui.py _purge_step_output; the number of a ning video is in the name
\* of its directory, an uploaded video is not found.
TuiArtifacts(s) ==
    IF s \in {"ocr", "translate", "audio", "video"} \/ (s = "download" /\ s \in Steps)
    THEN Writes(s) ELSE {}

\* Edits that are superseded when the steps S run again.
Superseded(S) == {e \in owed : StepOfName(e[1]) \in S}

MayTouch == "busy" \in Users \/ status \notin {"pending", "processing"}

Ask(pc, f, read) == ureq' = [pc |-> pc, file |-> f, read |-> read]

\* files_save_srt: the file is written first ...
SaveSrt(f) ==
    /\ ureq.pc = "idle" /\ MayTouch
    /\ f \in present
    /\ Spend("edit")
    /\ content' = [content EXCEPT ![f] = @ \cup {<<f, used["edit"] + 1>>}]
    /\ Ask(IF StepOfName(f) = "none" THEN "flag" ELSE "inval", f, <<>>)
    /\ UNCHANGED <<status, ckpt, edited, present, handlerVars, owed, lost>>

\* ... then invalidate_checkpoints_after reads the checkpoint, ...
InvalidateRead ==
    /\ ureq.pc = "inval"
    /\ Ask("invalset", ureq.file, ckpt)
    /\ UNCHANGED <<status, ckpt, edited, fileVars, handlerVars, owed, lost, used>>

\* ... writes it back without the later steps, if that is a change, ...
InvalidateWrite ==
    /\ ureq.pc = "invalset"
    /\ LET kept == Without(ureq.read, After(StepOfName(ureq.file)))
       IN  ckpt' = IF kept = ureq.read THEN ckpt ELSE kept
    /\ owed' = owed \ Superseded(After(StepOfName(ureq.file)))
    /\ Ask("purge", ureq.file, <<>>)
    /\ UNCHANGED <<status, edited, fileVars, handlerVars, lost, used>>

\* ... and removes their artifacts.
Purge ==
    /\ ureq.pc = "purge"
    /\ present' = present \ UNION {Artifacts(s) : s \in After(StepOfName(ureq.file))}
    /\ Ask("flag", ureq.file, <<>>)
    /\ UNCHANGED <<status, ckpt, edited, content, handlerVars, owed, lost, used>>

\* set_checkpoint_edited, and the answer "downstream steps marked for re-run".
\* An edit of a file whose own step is to run again is not owed.
SaveFlag ==
    /\ ureq.pc = "flag"
    /\ edited' = 1
    /\ LET f == ureq.file
           s == StepOfName(f)
       IN  owed' = IF s = "none" \/ s \in Marked(ckpt)
                   THEN owed \cup {e \in content[f] : e[1] = f} ELSE owed
    /\ ureq' = Quiet
    /\ UNCHANGED <<status, ckpt, fileVars, handlerVars, lost, used>>

\* files_delete removes the file, ...
DeleteFile(f) ==
    /\ ureq.pc = "idle" /\ MayTouch
    /\ f \in present
    /\ Spend("delete")
    /\ present' = present \ {f}
    /\ owed' = {e \in owed : e[1] # f} \ Superseded(ClearedBy(f))
    /\ Ask("clear", f, <<>>)
    /\ UNCHANGED <<status, ckpt, edited, content, handlerVars, lost>>

\* ... reads the checkpoint ...
ClearRead ==
    /\ ureq.pc = "clear"
    /\ Ask("clearset", ureq.file, ckpt)
    /\ UNCHANGED <<status, ckpt, edited, fileVars, handlerVars, owed, lost, used>>

\* Mutant of ClearWrite: the step keeps its mark.
ClearNothing ==
    /\ ureq.pc = "clearset"
    /\ ureq' = Quiet
    /\ UNCHANGED <<status, ckpt, edited, fileVars, handlerVars, owed, lost, used>>

\* ... and writes it back without the file's step, if that is a change.
ClearWrite ==
    /\ ureq.pc = "clearset"
    /\ LET kept == Without(ureq.read, ClearedBy(ureq.file))
       IN  ckpt' = IF kept = ureq.read THEN ckpt ELSE kept
    /\ ureq' = Quiet
    /\ UNCHANGED <<status, edited, fileVars, handlerVars, owed, lost, used>>

\* resubmit_job without a checkpoint; /files/srt-resubmit clears the flag a
\* second time afterwards.
Resubmit ==
    /\ ureq.pc = "idle"
    /\ status = "failed" \/ (status = "completed" /\ edited = 1)
    /\ Spend("resubmit")
    /\ status' = "pending"
    /\ edited' = 0
    /\ ureq' \in {Quiet, [Quiet EXCEPT !.pc = "unflag"]}
    /\ UNCHANGED <<ckpt, fileVars, handlerVars, owed, lost>>

Unflag ==
    /\ ureq.pc = "unflag"
    /\ edited' = 0
    /\ ureq' = Quiet
    /\ UNCHANGED <<status, ckpt, fileVars, handlerVars, owed, lost, used>>

\* process_video_ning and process_video_ning_ocr reuse the row of a failed
\* job; add_job keeps its checkpoint.  A ning job comes with a new SRT.
SubmitAgain ==
    /\ "again" \in Users
    /\ ureq.pc = "idle"
    /\ status = "failed"
    /\ Handler \in {VideoJob, VideoNingOcrJob}
    /\ Spend("edit")
    /\ status' = "pending"
    /\ edited' = 0
    /\ IF Handler = VideoJob
       THEN LET e == <<"upload", used["edit"] + 1>>
            IN  /\ content' = [content EXCEPT !["upload"] = {e}]
                /\ present' = present \cup {"upload"}
                /\ owed' = {e}
       ELSE UNCHANGED <<fileVars, owed>>
    /\ UNCHANGED <<ckpt, handlerVars, ureq, lost>>

\* jobs_tui.py's picker: keep the marks before the chosen one (all go with
\* choice 0); the server applies the checkpoint with the resubmit ...
TuiResubmit(k) ==
    /\ "tui" \in Users
    /\ ureq.pc = "idle"
    /\ status \in {"failed", "completed"}
    /\ ckpt # <<>>
    /\ Spend("resubmit")
    /\ ckpt' = SubSeq(ckpt, 1, k)
    /\ status' = "pending"
    /\ edited' = 0
    /\ owed' = owed \ Superseded(Steps \ Marked(ckpt'))
    /\ Ask("tuipurge", "none", ckpt')
    /\ UNCHANGED <<fileVars, handlerVars, lost>>

\* ... and the TUI deletes the output of every other step afterwards.
TuiPurge ==
    /\ ureq.pc = "tuipurge"
    /\ present' = present \ UNION {TuiArtifacts(s) : s \in Steps \ Marked(ureq.read)}
    /\ ureq' = Quiet
    /\ UNCHANGED <<status, ckpt, edited, content, handlerVars, owed, lost, used>>

-----------------------------------------------------------------------------
Init ==
    /\ status = "pending"
    /\ ckpt = <<>>
    /\ edited = 0
    /\ present = (IF Handler.srt = "upload" THEN {"upload"} ELSE {})
                 \cup (IF "download" \in Steps THEN {} ELSE {"video_in"})
    /\ content = [f \in Files |-> {}]
    /\ hpc = "off" /\ idx = 1 /\ snap = {} /\ mread = <<>> /\ keys = "none"
    /\ ureq = Quiet
    /\ owed = {} /\ lost = {}
    /\ used = [e \in Events |-> 0]

HandlerStep ==
    \/ PickUp \/ Skip \/ StepBegin \/ StepFails \/ StepEnds \/ SpeechFailsQuietly
    \/ MarkRead \/ MarkWrite \/ CopySrt \/ Final

UserStep ==
    \/ \E f \in EditFiles : SaveSrt(f)
    \/ InvalidateRead \/ InvalidateWrite \/ Purge \/ SaveFlag
    \/ \E f \in DeleteFiles : DeleteFile(f)
    \/ ClearRead \/ ClearWrite
    \/ Resubmit \/ Unflag \/ SubmitAgain
    \/ \E k \in 0..(Len(ckpt) - 1) : TuiResubmit(k)
    \/ TuiPurge

Next == HandlerStep \/ Crash \/ UserStep

Spec == Init /\ [][Next]_vars
-----------------------------------------------------------------------------
(* Properties                                                              *)

Edits == Files \X Nat

TypeOK ==
    /\ status \in {"pending", "processing", "completed", "failed"}
    /\ ckpt \in Seq(Steps)
    /\ edited \in {0, 1}
    /\ present \subseteq Files
    /\ content \in [Files -> SUBSET Edits]
    /\ hpc \in {"off", "check", "run", "mark", "markset", "copy", "final"}
    /\ (hpc = "off") <=> (status # "processing")
    /\ idx \in 1..Len(Handler.steps)
    /\ snap \subseteq Edits
    /\ mread \in Seq(Steps)
    /\ keys \in {"none", "full", "fallback"}
    /\ ureq \in [pc : {"idle", "inval", "invalset", "purge", "flag", "clear",
                       "clearset", "unflag", "tuipurge"},
                 file : Files \cup {"none"}, read : Seq(Steps)]
    /\ owed \subseteq Edits
    /\ lost \subseteq Files
    /\ used \in [Events -> Nat]

\* An edit the user was promised is in the speech and in the video of a
\* completed job that is not flagged for another resubmit
\* (files_save_srt, invalidate_checkpoints_after, CheckpointHelper).
EditsReachOutput ==
    status = "completed" /\ edited = 0 /\ ureq.pc = "idle" =>
        \A e \in owed : \A f \in {"track", "out"} \cap present : e \in content[f]

\* A step that is marked has its output, so a resumed job finds what the
\* skipped steps would have made (clear_checkpoint_for_file,
\* _purge_step_artifacts).  The code has two exceptions: a deletion that a
\* crash cut short, and a speech step that failed with status 0.
MarkedPresent ==
    ureq.pc = "idle" => \A s \in Marked(ckpt) : Writes(s) \subseteq present \cup lost

\* Without the exceptions: a skipped step never leaves the later ones without
\* their input (run_audio_ckpt "returns the expected output paths").
MarkedHasOutput ==
    ureq.pc = "idle" => \A s \in Marked(ckpt) : Writes(s) \subseteq present

\* No step is marked twice, whatever the handler and the requests overwrite
\* of each other's updates: the picker of jobs_tui.py cuts the list at the
\* first occurrence (mark, invalidate_checkpoints_after).
MarkedOnce == \A i, j \in 1..Len(ckpt) : ckpt[i] = ckpt[j] => i = j

\* A resumed job whose steps are all done and whose files are all there
\* completes (run_audio_ckpt's promise to return the same dict as the step).
ResumeCompletes ==
    [][hpc = "final" /\ status' = "failed" =>
         ~({Handler.srt, "track", "out"} \subseteq present)]_vars

\* Restarting from a step clears that step and the steps after it
\* (_pick_resubmit_checkpoint).
RestartClears ==
    [][ureq.pc = "idle" /\ ureq'.pc = "tuipurge" =>
         \A i, j \in 1..Len(Handler.steps) :
            i < j /\ Handler.steps[i] \in Marked(ckpt) \ Marked(ckpt')
               => Handler.steps[j] \notin Marked(ckpt')]_vars
=============================================================================

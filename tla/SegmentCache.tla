---------------------------- MODULE SegmentCache ----------------------------
(***************************************************************************)
(* The segment generator (gen_audio.py): one process per run of a job's    *)
(* audio step speaks the cues of an SRT file through the TTS daemon and    *)
(* mixes the segments into output.wav.  Segments survive in the job's      *)
(* tmp/ directory: combined_segment_<i>.wav, and cache_meta.json, which    *)
(* says what text each of them speaks.  The next run, after a fault or an  *)
(* edit of the SRT file, reuses what it can.                               *)
(*                                                                         *)
(* A cue is reduced to its text and a WAV file to the set of texts heard   *)
(* in it; durations matter only as "more than three times too long".  The  *)
(* TTS daemon (module TtsDaemon) is reduced to its answers.  Segments are  *)
(* numbered from 1.                                                        *)
(***************************************************************************)
EXTENDS Naturals, Sequences, FiniteSets

CONSTANTS Speech,   \* texts with letters
          Scripts,  \* SRT files the user may save, sequences of texts
          Chunks,   \* Chunks[t]: how many chunks split_text makes of t
          Procs,    \* process ids of gen_audio.py
          Slots,    \* worker slots of the daemon
          Faults,   \* what may go wrong, see below
          Limit,    \* bounds of the model, by kind of event
          MaxCues,  \* no script has more cues,
          MaxChunks,\* no text more chunks
          None      \* no file, no entry, a cache_meta.json that is cut short

\* The other two kinds of cue: blank, and without any letter.
Empty == "empty"
Symbols == "symbols"

Events == {"run", "edit", "fault", "abandon"}

\* Segment numbers, and the numbers of the chunk files: a segment that is
\* given up counts chunks a second time (see GiveUp).
Index == 1..MaxCues
PartIndex == 0..(2 * MaxChunks * MaxCues)

Sounds == [says : SUBSET Speech, long : BOOLEAN]
Silence == [says |-> {}, long |-> FALSE]

\* _is_silent_audio, _cached_wav_is_silent.
IsSilent(w) == w.says = {}

Entries == [content : Speech \cup {Symbols}, fallback : BOOLEAN]
Caches == [Index -> Entries \cup {None}]
EmptyCache == [i \in Index |-> None]

\* "term": SIGTERM; "kill": SIGKILL or a second SIGTERM; "die": the daemon
\* dies; "nostart": it cannot be started; "timeout": it does not answer in
\* time; "busy": other jobs hold its slots; "tts": a generation fails or is
\* silent; "long": it comes out far too long.
ASSUME SegmentAssumption ==
    /\ Scripts \subseteq Seq(Speech \cup {Empty, Symbols})
    /\ Speech \cap {Empty, Symbols} = {}
    /\ Chunks \in [Speech -> Nat \ {0}]
    /\ MaxCues \in Nat \ {0} /\ \A s \in Scripts : Len(s) <= MaxCues
    /\ MaxChunks \in Nat \ {0} /\ \A t \in Speech : Chunks[t] <= MaxChunks
    /\ Slots \in Nat \ {0}
    /\ Faults \subseteq {"term", "kill", "die", "nostart", "timeout", "busy", "tts", "long"}
    /\ Limit \in [Events -> Nat]
    /\ None \notin Sounds \cup Entries \cup Caches

VARIABLES
    script,  \* the SRT file
    wav,     \* wav[i]: combined_segment_<i>.wav, or None
    meta,    \* cache_meta.json, None when it cannot be parsed
    part,    \* part[k]: segment_<k>.wav, what the daemon wrote for slot k
    daemon,  \* the TTS daemon process, "up" or "down"
    gens,    \* generations in the daemon, [proc, slot, text, live]
    run,     \* run[p]: where process p is and its local variables
    output,  \* output.wav or None, with the cues it was made for
    last,    \* how the latest process ended
    used     \* events spent so far

vars == <<script, wav, meta, part, daemon, gens, run, output, last, used>>
diskVars == <<wav, meta, part, output>>
daemonVars == <<daemon, gens>>

Spend(e) ==
    /\ used[e] < Limit[e]
    /\ used' = [used EXCEPT ![e] = @ + 1]

Fault(f) ==
    /\ f \in Faults
    /\ Spend(IF f \in {"kill", "timeout"} THEN "abandon" ELSE "fault")

-----------------------------------------------------------------------------
(* Processes                                                               *)

PCs == {"off", "attach", "load", "migrate", "stale", "count", "model", "seg",
        "request", "wait", "read", "lost", "combine", "trunc", "dump", "write"}

\* then: where _save_cache returns to; miss: uncached_count > 0; att, rec:
\* attempt and recoveries; said: what chunk_wavs holds; failed: the segments
\* given up in this run; mix: what combine_audio_segments has read.
Idle == [pc |-> "off", subs |-> <<>>, cache |-> EmptyCache, was |-> EmptyCache,
         left |-> {}, i |-> 1, miss |-> FALSE, slot |-> 0, chunk |-> 1, att |-> 0,
         rec |-> 0, stop |-> FALSE, then |-> "off", said |-> Silence,
         failed |-> {}, mix |-> <<>>]

\* Process p goes on at pc.
Goto(p, pc) == run' = [run EXCEPT ![p].pc = pc]

\* The process ends with an exit status.
Exit(p, code) ==
    /\ run' = [run EXCEPT ![p] = Idle]
    /\ last' = [code |-> code, subs |-> run[p].subs]

-----------------------------------------------------------------------------
(* Start-up                                                                *)

\* The job's audio step starts gen_audio.py, on the SRT file as it is or as
\* the user has edited it since the last run.
Start(p) ==
    /\ run[p].pc = "off" /\ used["run"] < Limit["run"]
    /\ \E s \in Scripts :
          /\ s # script => used["edit"] < Limit["edit"]
          /\ script' = s
          /\ used' = [used EXCEPT !["run"] = @ + 1, !["edit"] = IF s = script THEN @ ELSE @ + 1]
          /\ run' = [run EXCEPT ![p].pc = "attach", ![p].subs = s]
    /\ UNCHANGED <<diskVars, daemonVars, last>>

\* main: attach to the daemon or start it.  Without a daemon main returns 1,
\* which nobody hands to sys.exit: the exit status is 0.
Attach(p) ==
    /\ run[p].pc = "attach"
    /\ \/ /\ Goto(p, "load")
          /\ daemon' = "up"
          /\ UNCHANGED <<last, used>>
       \/ /\ daemon = "down"
          /\ Fault("nostart")
          /\ Exit(p, 0)
          /\ UNCHANGED daemon
    /\ UNCHANGED <<script, diskVars, gens>>

\* load_subs and _load_cache.  Without cues there is nothing to do;
\* _migrate_cache returns at once when the cache is empty.
Load(p) ==
    /\ run[p].pc = "load"
    /\ LET c == IF meta = None THEN EmptyCache ELSE meta
           entries == {i \in Index : c[i] # None}
       IN IF run[p].subs = <<>> THEN Exit(p, 0)
          ELSE /\ run' = [run EXCEPT ![p].pc = IF entries = {} THEN "count" ELSE "migrate",
                                     ![p].cache = c, ![p].was = c, ![p].left = entries]
               /\ UNCHANGED last
    /\ UNCHANGED <<script, diskVars, daemonVars, used>>

-----------------------------------------------------------------------------
(* _migrate_cache: entries follow their text to its new number             *)

\* The cue under inspection.
Cue(p) == run[p].subs[run[p].i]

\* On to the next cue, or to pc after the last one.
NextCue(r, pc) ==
    IF r.i < Len(r.subs) THEN [r EXCEPT !.i = @ + 1] ELSE [r EXCEPT !.pc = pc, !.i = 1]

\* A blank cue is passed over.
MigrateBlank(p) ==
    /\ run[p].pc = "migrate" /\ Cue(p) = Empty
    /\ run' = [run EXCEPT ![p] = NextCue(@, "stale")]
    /\ UNCHANGED <<script, diskVars, daemonVars, last, used>>

\* Old entries with the cue's text that no earlier cue has taken.  Equal
\* texts are taken in the file's order, of which the model keeps no record.
Matches(p) == {o \in run[p].left : run[p].was[o].content = Cue(p)}

\* Mutant of MigrateNew: the WAV file stays.
MigrateNewKeep(p) ==
    /\ run[p].pc = "migrate" /\ Cue(p) # Empty /\ Matches(p) = {}
    /\ run' = [run EXCEPT ![p] = NextCue([@ EXCEPT !.cache[run[p].i] = None], "stale")]
    /\ UNCHANGED <<script, diskVars, daemonVars, last, used>>

\* A new text: the entry and the WAV file under its number go.
MigrateNew(p) ==
    /\ run[p].pc = "migrate" /\ Cue(p) # Empty /\ Matches(p) = {}
    /\ run' = [run EXCEPT ![p] = NextCue([@ EXCEPT !.cache[run[p].i] = None], "stale")]
    /\ wav' = [wav EXCEPT ![run[p].i] = None]
    /\ UNCHANGED <<script, meta, part, output, daemonVars, last, used>>

\* A known text: its entry is copied and its WAV file renamed, unless there
\* is a file under the new number already; then the old file is removed,
\* which raises FileNotFoundError when it is not there.  The fallback flag is
\* read from what is under the old number now.
MigrateKnown(p) ==
    /\ run[p].pc = "migrate" /\ Cue(p) # Empty
    /\ \E o \in Matches(p) :
          LET i == run[p].i
              flag == run[p].cache[o] # None /\ run[p].cache[o].fallback
              moved == NextCue([run[p] EXCEPT !.left = @ \ {o},
                             !.cache[i] = [content |-> Cue(p), fallback |-> flag]], "stale")
          IN IF o # i /\ wav[i] # None /\ wav[o] = None
             THEN Exit(p, 1) /\ UNCHANGED wav
             ELSE /\ run' = [run EXCEPT ![p] = moved]
                  /\ wav' = IF o = i THEN wav
                            ELSE IF wav[i] = None
                                 THEN [wav EXCEPT ![i] = wav[o], ![o] = None]
                                 ELSE [wav EXCEPT ![o] = None]
                  /\ UNCHANGED last
    /\ UNCHANGED <<script, meta, part, output, daemonVars, used>>

\* Mutant of MigrateStale: the WAV files stay.
MigrateStaleKeep(p) ==
    /\ run[p].pc = "stale"
    /\ LET gone == {o \in run[p].left : run[p].cache[o] # None}
       IN run' = [run EXCEPT ![p].pc = "trunc", ![p].then = "count",
                       ![p].was = EmptyCache, ![p].left = {},
                       ![p].cache = [o \in Index |-> IF o \in gone THEN None ELSE @[o]]]
    /\ UNCHANGED <<script, diskVars, daemonVars, last, used>>

\* Entries whose text is gone lose what is under their number now.
MigrateStale(p) ==
    /\ run[p].pc = "stale"
    /\ LET gone == {o \in run[p].left : run[p].cache[o] # None}
       IN /\ wav' = [o \in Index |-> IF o \in gone THEN None ELSE wav[o]]
          /\ run' = [run EXCEPT ![p].pc = "trunc", ![p].then = "count",
                       ![p].was = EmptyCache, ![p].left = {},
                       ![p].cache = [o \in Index |-> IF o \in gone THEN None ELSE @[o]]]
    /\ UNCHANGED <<script, meta, part, output, daemonVars, last, used>>

-----------------------------------------------------------------------------
(* The cache                                                               *)

\* _save_cache opens the file for writing, which empties it ...
SaveOpen(p) ==
    /\ run[p].pc = "trunc"
    /\ meta' = None
    /\ Goto(p, "dump")
    /\ UNCHANGED <<script, wav, part, output, daemonVars, last, used>>

\* ... and then writes it.
SaveDump(p) ==
    /\ run[p].pc = "dump"
    /\ meta' = run[p].cache
    /\ Goto(p, run[p].then)
    /\ UNCHANGED <<script, wav, part, output, daemonVars, last, used>>

\* _check_cache: a hit needs the WAV file, audible, and the text; a WAV file
\* without entry counts as the work of a run that crashed.
Hit(p, i) ==
    /\ wav[i] # None /\ ~IsSilent(wav[i])
    /\ run[p].cache[i] # None =>
          ~run[p].cache[i].fallback /\ run[p].cache[i].content = run[p].subs[i]

Recovered(p, i) == Hit(p, i) /\ run[p].cache[i] = None

\* _set_cache.
SetCache(r, i, flag) ==
    [r EXCEPT !.cache[i] = [content |-> r.subs[i], fallback |-> flag]]

\* A record that saves the cache and then goes on where r is.
Saving(r) == [r EXCEPT !.then = r.pc, !.pc = "trunc"]

\* process_with_direct: is there anything to generate?
CountOne(p) ==
    /\ run[p].pc = "count"
    /\ LET i == run[p].i
           hit == Cue(p) = Empty \/ Hit(p, i)
           r == [run[p] EXCEPT !.miss = @ \/ ~hit]
           go == IF r.miss THEN "model" ELSE "combine"
       IN run' = [run EXCEPT ![p] =
                    IF Cue(p) # Empty /\ Recovered(p, i)
                    THEN Saving(NextCue(SetCache(r, i, FALSE), go))
                    ELSE NextCue(r, go)]
    /\ UNCHANGED <<script, diskVars, daemonVars, last, used>>

-----------------------------------------------------------------------------
(* Generation                                                              *)

\* The daemon turns a command away: other jobs, or generations nobody waits
\* for any more, hold its slots.
Busy ==
    /\ daemon = "up"
    /\ \/ Cardinality(gens) >= Slots /\ UNCHANGED used
       \/ Fault("busy")

\* backend.ensure_model: a daemon that is gone, does not answer or cannot load
\* the model ends the run, and so does "busy" after SIGTERM; "busy" is
\* otherwise asked again.
EnsureModel(p) ==
    /\ run[p].pc = "model"
    /\ \/ /\ daemon = "up" /\ Cardinality(gens) < Slots
          /\ Goto(p, "seg") /\ UNCHANGED <<last, used>>
       \/ /\ \/ daemon = "down" /\ UNCHANGED used
             \/ Fault("tts") \/ Fault("timeout")
             \/ run[p].stop /\ Busy
          /\ Exit(p, 1)
    /\ UNCHANGED <<script, diskVars, daemonVars>>

\* Mutant of SegmentBlank: no file is written for a blank cue.
SegmentBlankSkip(p) ==
    /\ run[p].pc = "seg" /\ Cue(p) = Empty
    /\ run' = [run EXCEPT ![p] = NextCue([@ EXCEPT !.cache[run[p].i] = None], "combine")]
    /\ UNCHANGED <<script, diskVars, daemonVars, last, used>>

\* A blank cue: silence, and no entry; the cache is not saved.
SegmentBlank(p) ==
    /\ run[p].pc = "seg" /\ Cue(p) = Empty
    /\ wav' = [wav EXCEPT ![run[p].i] = Silence]
    /\ run' = [run EXCEPT ![p] = NextCue([@ EXCEPT !.cache[run[p].i] = None], "combine")]
    /\ UNCHANGED <<script, meta, part, output, daemonVars, last, used>>

\* A cue without letters: silence, with an entry.
SegmentSymbols(p) ==
    /\ run[p].pc = "seg" /\ Cue(p) = Symbols
    /\ wav' = [wav EXCEPT ![run[p].i] = Silence]
    /\ run' = [run EXCEPT ![p] = Saving(NextCue(SetCache(@, run[p].i, FALSE), "combine"))]
    /\ UNCHANGED <<script, meta, part, output, daemonVars, last, used>>

\* A cached segment is skipped, its chunk numbers with it.
SegmentCached(p) ==
    /\ run[p].pc = "seg" /\ Cue(p) \in Speech /\ Hit(p, run[p].i)
    /\ LET i == run[p].i
           r == [run[p] EXCEPT !.slot = @ + Chunks[Cue(p)]]
       IN run' = [run EXCEPT ![p] =
                    IF Recovered(p, i)
                    THEN Saving(NextCue(SetCache(r, i, FALSE), "combine"))
                    ELSE NextCue(r, "combine")]
    /\ UNCHANGED <<script, diskVars, daemonVars, last, used>>

\* _thermal_check: SIGTERM ends the run here, otherwise the segment is
\* generated once the GPU is cool enough.
SegmentMissing(p) ==
    /\ run[p].pc = "seg" /\ Cue(p) \in Speech /\ ~Hit(p, run[p].i)
    /\ IF run[p].stop THEN Exit(p, 1)
       ELSE /\ run' = [run EXCEPT ![p].pc = "request", ![p].chunk = 1, ![p].att = 0,
                                  ![p].rec = 0, ![p].said = Silence]
            /\ UNCHANGED last
    /\ UNCHANGED <<script, diskVars, daemonVars, used>>

\* The locals of a segment that is finished.
Finished(r) ==
    [r EXCEPT !.pc = "seg", !.chunk = 1, !.att = 0, !.rec = 0, !.said = Silence]

\* Silence instead of the segment, flagged in the cache, and saved.
\* seg_counter grows by all of its chunks, over those already counted.
GiveUp(p) ==
    LET i == run[p].i
        r == [Finished(run[p]) EXCEPT !.failed = @ \cup {i}, !.slot = @ + Chunks[Cue(p)]]
    IN /\ wav' = [wav EXCEPT ![i] = Silence]
       /\ run' = [run EXCEPT ![p] = Saving(NextCue(SetCache(r, i, TRUE), "combine"))]
       /\ UNCHANGED <<meta, part, output>>

\* Mutant of Retry: one attempt too many.
RetryMore(p) ==
    IF run[p].att <= 2
    THEN run' = [run EXCEPT ![p].att = @ + 1, ![p].pc = "request"] /\ UNCHANGED diskVars
    ELSE GiveUp(p)

\* The next of three attempts, or none.
Retry(p) ==
    IF run[p].att < 2
    THEN run' = [run EXCEPT ![p].att = @ + 1, ![p].pc = "request"] /\ UNCHANGED diskVars
    ELSE GiveUp(p)

\* backend.generate sends a "tts" command.
Request(p) ==
    /\ run[p].pc = "request"
    /\ \/ /\ daemon = "up" /\ Cardinality(gens) < Slots
          /\ gens' = gens \cup {[proc |-> p, slot |-> run[p].slot, text |-> Cue(p), live |-> TRUE]}
          /\ Goto(p, "wait")
          /\ UNCHANGED <<diskVars, used>>
       \/ /\ daemon = "down"
          /\ Goto(p, "lost")
          /\ UNCHANGED <<diskVars, gens, used>>
       \/ /\ run[p].stop /\ Busy          \* SystemExit, caught like any failure
          /\ GiveUp(p)
          /\ UNCHANGED gens
    /\ UNCHANGED <<script, daemon, last>>

\* The daemon ends a generation.  It has written the chunk's file, or failed;
\* a client that still waits is told.
Generated(g) ==
    /\ g \in gens
    /\ gens' = gens \ {g}
    /\ \/ /\ \/ /\ part' = [part EXCEPT ![g.slot] = [says |-> {g.text}, long |-> FALSE]]
                /\ UNCHANGED used
             \/ /\ Fault("long")
                /\ part' = [part EXCEPT ![g.slot] = [says |-> {g.text}, long |-> TRUE]]
             \/ /\ Fault("tts")
                /\ part' = [part EXCEPT ![g.slot] = Silence]
          /\ IF g.live THEN Goto(g.proc, "read") ELSE UNCHANGED run
          /\ UNCHANGED <<wav, meta, output>>
       \/ /\ Fault("tts")
          /\ IF g.live THEN GiveUp(g.proc) ELSE UNCHANGED <<run, diskVars>>
    /\ UNCHANGED <<script, daemon, last>>

\* The client reads the chunk's file.  Silence is tried again; after the last
\* chunk the segment is written, then entered in the cache, then saved.
ReadChunk(p) ==
    /\ run[p].pc = "read"
    /\ LET heard == part[run[p].slot]
           said == [says |-> run[p].said.says \cup heard.says,
                    long |-> run[p].said.long \/ heard.long]
           r == [run[p] EXCEPT !.said = said, !.slot = @ + 1]
       IN \/ IsSilent(heard) /\ Retry(p)
          \/ /\ ~IsSilent(heard) /\ run[p].chunk < Chunks[Cue(p)]
             /\ run' = [run EXCEPT ![p] = [r EXCEPT !.chunk = @ + 1, !.att = 0, !.rec = 0,
                                                    !.pc = "request"]]
             /\ UNCHANGED diskVars
          \/ /\ ~IsSilent(heard) /\ run[p].chunk = Chunks[Cue(p)]
             /\ wav' = [wav EXCEPT ![run[p].i] = said]
             /\ run' = [run EXCEPT ![p] =
                    Saving(NextCue(SetCache(Finished(r), run[p].i, FALSE), "combine"))]
             /\ UNCHANGED <<meta, part, output>>
    /\ UNCHANGED <<script, daemonVars, last, used>>

\* The daemon was lost: it is attached to or started again, twice per chunk,
\* and the attempt is spent.
Recover(p) ==
    /\ run[p].pc = "lost"
    /\ \/ /\ run[p].rec >= 2 \/ run[p].stop
          /\ Exit(p, 1)
          /\ UNCHANGED <<diskVars, daemon, used>>
       \/ /\ run[p].rec < 2 /\ ~run[p].stop
          /\ (daemon = "down" /\ Fault("nostart")) \/ Fault("tts")
          /\ Exit(p, 1)
          /\ UNCHANGED <<diskVars, daemon>>
       \/ /\ run[p].rec < 2 /\ ~run[p].stop
          /\ daemon' = "up" /\ Cardinality(gens) < Slots
          /\ IF run[p].att < 2
             THEN /\ run' = [run EXCEPT ![p].att = @ + 1, ![p].rec = @ + 1, ![p].pc = "request"]
                  /\ UNCHANGED diskVars
             ELSE GiveUp(p)
          /\ UNCHANGED <<last, used>>
    /\ UNCHANGED <<script, gens>>

-----------------------------------------------------------------------------
(* The end of a run                                                        *)

\* combine_audio_segments reads every segment's file.  Only a run that had
\* something to generate checks the length.
Combine(p) ==
    /\ run[p].pc = "combine"
    /\ LET segments == 1..Len(run[p].subs)
       IN \/ /\ ~run[p].miss /\ \A i \in segments : wav[i] = None
             /\ Exit(p, 0)
          \/ /\ \E i \in segments : wav[i] # None
             /\ \/ \E i \in segments : wav[i] = None
                \/ run[p].miss /\ \E i \in segments : wav[i] # None /\ wav[i].long
             /\ Exit(p, 1)
          \/ /\ \A i \in segments : wav[i] # None
             /\ run[p].miss => \A i \in segments : ~wav[i].long
             /\ run' = [run EXCEPT ![p] = Saving([@ EXCEPT !.pc = "write",
                                       !.mix = [i \in segments |-> wav[i]]])]
             /\ UNCHANGED last
    /\ UNCHANGED <<script, diskVars, daemonVars, used>>

\* main writes output.wav, the adjusted SRT file and changed_segments.json.
WriteOutput(p) ==
    /\ run[p].pc = "write"
    /\ output' = [subs |-> run[p].subs, mix |-> run[p].mix, failed |-> run[p].failed]
    /\ Exit(p, 0)
    /\ UNCHANGED <<script, wav, meta, part, daemonVars, used>>

-----------------------------------------------------------------------------
(* The environment                                                         *)

\* _signal_handler, first signal.
Terminate(p) ==
    /\ run[p].pc # "off" /\ ~run[p].stop
    /\ Fault("term")
    /\ run' = [run EXCEPT ![p].stop = TRUE]
    /\ UNCHANGED <<script, diskVars, daemonVars, last>>

\* Generations of p that nobody waits for any more.
Forget(p) == {IF g.proc = p THEN [g EXCEPT !.live = FALSE] ELSE g : g \in gens}

\* _signal_handler, second signal, or SIGKILL.
Kill(p) ==
    /\ run[p].pc # "off"
    /\ Fault("kill")
    /\ Exit(p, 137)
    /\ gens' = Forget(p)
    /\ UNCHANGED <<script, diskVars, daemon>>

\* _request gives up after its timeout; the daemon does not know.
Timeout(p) ==
    /\ run[p].pc = "wait"
    /\ Fault("timeout")
    /\ Goto(p, "lost")
    /\ gens' = Forget(p)
    /\ UNCHANGED <<script, diskVars, daemon, last>>

\* The daemon's process dies with everything it was doing.
DaemonDies ==
    /\ daemon = "up"
    /\ Fault("die")
    /\ daemon' = "down" /\ gens' = {}
    /\ run' = [p \in Procs |-> IF run[p].pc = "wait" THEN [run[p] EXCEPT !.pc = "lost"] ELSE run[p]]
    /\ UNCHANGED <<script, diskVars, last>>

-----------------------------------------------------------------------------
(* Specification                                                           *)

Init ==
    /\ script \in Scripts
    /\ wav = [i \in Index |-> None]
    /\ meta = EmptyCache
    /\ part = [k \in PartIndex |-> None]
    /\ daemon = "down" /\ gens = {}
    /\ run = [p \in Procs |-> Idle]
    /\ output = None
    /\ last = [code |-> 1, subs |-> <<>>]
    /\ used = [e \in Events |-> 0]

ProcStep(p) ==
    \/ Attach(p) \/ Load(p)
    \/ MigrateBlank(p) \/ MigrateNew(p) \/ MigrateKnown(p) \/ MigrateStale(p)
    \/ SaveOpen(p) \/ SaveDump(p) \/ CountOne(p) \/ EnsureModel(p)
    \/ SegmentBlank(p) \/ SegmentSymbols(p) \/ SegmentCached(p) \/ SegmentMissing(p)
    \/ Request(p) \/ ReadChunk(p) \/ Recover(p) \/ Combine(p) \/ WriteOutput(p)

Next ==
    \/ \E p \in Procs : Start(p) \/ ProcStep(p) \/ Terminate(p) \/ Kill(p) \/ Timeout(p)
    \/ \E g \in gens : Generated(g)
    \/ DaemonDies

Spec == Init /\ [][Next]_vars

-----------------------------------------------------------------------------
(* Properties                                                              *)

\* The files, the cache and the processes stay in their sets: a chunk is tried
\* three times at most and the daemon started again twice.
TypeOK ==
    /\ script \in Scripts
    /\ wav \in [Index -> Sounds \cup {None}]
    /\ meta \in Caches \cup {None}
    /\ part \in [PartIndex -> Sounds \cup {None}]
    /\ daemon \in {"up", "down"}
    /\ \A g \in gens : g \in [proc : Procs, slot : PartIndex, text : Speech, live : BOOLEAN]
    /\ \A p \in Procs :
          /\ run[p].pc \in PCs /\ run[p].subs \in Scripts \cup {<<>>}
          /\ run[p].cache \in Caches /\ run[p].i \in Index /\ run[p].slot \in PartIndex
          /\ run[p].att \in 0..2 /\ run[p].rec \in 0..2
    /\ used \in [Events -> Nat]

Quiet == \A p \in Procs : run[p].pc = "off"

\* Every segment of output.wav speaks the text of its cue, and is silent only
\* where the cue has nothing to speak or this very run gave the segment up.
OutputSpeaks ==
    output # None =>
        \A i \in 1..Len(output.subs) :
            IF output.subs[i] \in Speech
            THEN \/ output.mix[i].says = {output.subs[i]}
                 \/ IsSilent(output.mix[i]) /\ i \in output.failed
            ELSE IsSilent(output.mix[i])

\* No stale speech after an edit and no silence left over from an earlier
\* run, through every fault, while no process is killed and no generation is
\* left behind; and through kills and timeouts too, while nothing is edited
\* and nothing else fails.  This is for texts edited in place: once a text has
\* moved, _migrate_cache may hand its number the wrong file (see MigrateKnown).
SpeechMatches ==
    \/ used["abandon"] = 0
    \/ used["edit"] = 0 /\ used["fault"] = 0
    => OutputSpeaks

\* Between runs the two halves of the cache agree: cache_meta.json names the
\* text of every audible segment file, however the last run ended, unless it
\* was killed.
WorkRecorded ==
    Quiet /\ used["abandon"] = 0 => \A i \in Index :
        wav[i] # None /\ wav[i].says # {} =>
            /\ meta # None /\ meta[i] # None
            /\ wav[i].says = {meta[i].content} /\ ~meta[i].fallback

\* A run of an edited SRT file needs no luck: while nothing has failed, no
\* run ends with an error.  This is for texts edited in place: when a cue is
\* inserted, _migrate_cache may raise (see MigrateKnown); when one is cleared
\* and every other cue is cached, nothing makes its silence and combining fails.
FaultFreeSucceeds ==
    Quiet /\ used["run"] > 0 /\ used["fault"] = 0 /\ used["abandon"] = 0 => last.code = 0

\* A run that reports success has written output.wav for its own cues, if
\* they have anything to speak: the pipeline goes by the exit status.
SuccessIsFresh ==
    /\ last.code = 0
    /\ \E i \in 1..Len(last.subs) : last.subs[i] # Empty
    => output # None /\ output.subs = last.subs

\* Audio more than three times too long is never delivered.
NeverInflated ==
    output # None => \A i \in 1..Len(output.subs) : ~output.mix[i].long
=============================================================================

------------------------------- MODULE Retime -------------------------------
(***************************************************************************)
(* From speech to pictures.  gen_audio.py gives every cue of the SRT file  *)
(* an adjusted place, later the longer the speech before it has become;    *)
(* gen_video.py cuts the video at the original times, stretches the        *)
(* pieces to the adjusted ones, joins them in batches and trims the result *)
(* to the audio; adjust_original_audio does the same to the original       *)
(* sound, with a copy of the arithmetic in segment_utils.py.               *)
(*                                                                         *)
(* Time is counted in ticks of 0.04 s, the slop of the code and a frame at *)
(* 25 frames a second, so a gap of "more than 0.001 s" is one of at least  *)
(* a tick.  Cues without text, which both readers drop, are left out.      *)
(***************************************************************************)
EXTENDS Integers, Sequences

CONSTANTS Times,      \* where a cue may start or end
          WavLengths, \* how long the speech of a cue may be
          Lengths,    \* how long the video may be
          MaxCues,
          SubCap,     \* a cue's pictures are stretched up to this: 10
          GapCap,     \* and a gap's up to this: 100
          MaxBatch    \* MAX_BATCH_SEGMENTS: 42

ASSUME RetimeAssumption ==
    /\ Times \subseteq Nat /\ WavLengths \subseteq Nat /\ Lengths \subseteq Nat
    /\ MaxCues \in Nat
    /\ SubCap \in Nat \ {0} /\ GapCap \in Nat \ {0}
    /\ MaxBatch \in Nat \ {0, 1}

VARIABLES
    pc,      \* the step the pipeline is at
    length,  \* how long the video is
    cues,    \* original.srt: sequence of [start, end]
    adj,     \* adjusted.srt, cue by cue
    offset,  \* accumulated_offset
    i,       \* the cue the loop is at
    cumul,   \* video_cumul
    clips,   \* segment_data: [cue, start, end, pos, len], see Clip
    parts,   \* batch_files, then the files of a concat level: clip numbers
    shown,   \* how long the video of the output file is
    zh,      \* seg_defs, the clips of the original sound
    zhCumul  \* its video_cumul

vars == <<pc, length, cues, adj, offset, i, cumul, clips, parts, shown, zh, zhCumul>>
timeline == <<length, cues, adj, offset>>
videoPlan == <<cumul, clips>>
zhPlan == <<zh, zhCumul>>

Higher(a, b) == IF a < b THEN b ELSE a
Lower(a, b) == IF a < b THEN a ELSE b
Clamp(x, lo, hi) == Higher(lo, Lower(hi, x))
Dur(c) == c.end - c.start

\* A piece start..end of the source which plays for len ticks from pos on.
\* cue is the cue it belongs to, 0 for the pieces between cues.
Clip(cue, start, end, pos, len) ==
    [cue |-> cue, start |-> start, end |-> end, pos |-> pos, len |-> len]

-----------------------------------------------------------------------------
(* gen_audio.py: the adjusted SRT                                          *)

\* process_with_direct, one cue: the speech may be longer than the cue, or
\* shorter if it comes from the cache; only the former moves later cues.
Speak ==
    /\ pc = "speak" /\ Len(cues) < MaxCues
    /\ \E s, e \in Times, w \in WavLengths :
          /\ s <= e
          /\ cues' = Append(cues, [start |-> s, end |-> e])
          /\ adj' = Append(adj, [start |-> s + offset, end |-> s + offset + w])
          /\ offset' = offset + Higher(0, w - (e - s))
    /\ UNCHANGED <<pc, length, i, videoPlan, parts, shown, zhPlan>>

\* combine_audio_segments: how long output.wav is; 25 ticks are a second.
LastEnd == cues[Len(cues)].end
OriginalTotal == LastEnd - cues[1].start
AudioLength ==
    LET ends == {adj[k].end : k \in DOMAIN adj} \cup {OriginalTotal + offset}
        longest == CHOOSE t \in ends : \A u \in ends : u <= t
    IN IF longest > 0 THEN longest ELSE 25

\* Speech of more than three times the length is refused, unless all of it
\* was cached: that path of process_with_direct does not look.
Spoken ==
    /\ pc = "speak" /\ cues # <<>>
    /\ \/ pc' = "check"
       \/ /\ OriginalTotal > 0
          /\ OriginalTotal + offset > 3 * OriginalTotal
          /\ pc' = "failed"
    /\ UNCHANGED <<timeline, i, videoPlan, parts, shown, zhPlan>>

-----------------------------------------------------------------------------
(* gen_video.py: the plan                                                  *)

\* process_video: cue k is there, and it is not past the end of the video.
\* The first one that is ends the list.
Valid(k) == k <= Len(cues) /\ cues[k].start < length

\* calculate_segments and the clamp at the end of the video: a cue that
\* reaches past the end loses the same share of its adjusted time.
Segment(k) ==
    LET c == cues[k]
        a == adj[k]
        excess == c.end - length
        cut == IF Dur(c) > 0 /\ Dur(a) > Dur(c) THEN (excess * Dur(a)) \div Dur(c) ELSE excess
    IN IF excess <= 0
         THEN [start |-> c.start, end |-> c.end, from |-> a.start, to |-> a.end]
         ELSE [start |-> c.start, end |-> length, from |-> a.start,
               to |-> Higher(a.start, a.end - cut)]

\* main: an SRT file that starts after the end of the video is refused.
Check ==
    /\ pc = "check"
    /\ pc' = IF cues[1].start > length THEN "failed" ELSE "lead"
    /\ UNCHANGED <<timeline, i, videoPlan, parts, shown, zhPlan>>

\* The pictures in front of the first cue.
Lead ==
    /\ pc = "lead"
    /\ pc' = "lay"
    /\ IF Valid(1) /\ cues[1].start > 0 /\ adj[1].start > 0
         THEN /\ clips' = <<Clip(0, 0, cues[1].start, 0, adj[1].start)>>
              /\ cumul' = adj[1].start
         ELSE UNCHANGED videoPlan
    /\ UNCHANGED <<timeline, i, parts, shown, zhPlan>>

\* Mutant of Gap: always borrow, and never squeeze, as for subtitles.
GapAlways(k) ==
    LET prev == Segment(k - 1).end
        gap == cues[k].start - prev
        from == IF gap > 0 THEN prev ELSE Higher(0, prev - 1)
        to == IF gap > 0 THEN cues[k].start ELSE prev
    IN IF k > 1 /\ to > from
         THEN <<Clip(0, from, to, cumul, Clamp(adj[k].start - cumul, to - from, GapCap * (to - from)))>>
         ELSE <<>>

\* Mutant of Gap: the stretch may be negative.
GapNegative(k) ==
    LET prev == Segment(k - 1).end
        gap == cues[k].start - prev
        needed == adj[k].start - cumul
        from == IF gap > 0 THEN prev ELSE Higher(0, prev - 1)
        to == IF gap > 0 THEN cues[k].start ELSE prev
    IN IF k > 1 /\ (gap > 0 \/ needed > 0) /\ to > from
         THEN <<Clip(0, from, to, cumul, Lower(GapCap * (to - from), needed))>>
         ELSE <<>>

\* The pictures between cue k - 1 and cue k: the gap between them or, when
\* there is none and time is missing, the last tick before it once more.
Gap(k) ==
    LET prev == Segment(k - 1).end
        gap == cues[k].start - prev
        needed == adj[k].start - cumul
        from == IF gap > 0 THEN prev ELSE Higher(0, prev - 1)
        to == IF gap > 0 THEN cues[k].start ELSE prev
    IN IF k > 1 /\ (gap > 0 \/ needed > 0) /\ to > from
         THEN <<Clip(0, from, to, cumul, Clamp(needed, 0, GapCap * (to - from)))>>
         ELSE <<>>

\* Mutant of Lay: the pictures of a cue keep their pace.
LayPlain ==
    /\ pc = "lay" /\ Valid(i)
    /\ LET s == Segment(i)
           gap == IF i = 1 THEN <<>> ELSE <<Clip(0, Segment(i - 1).end, s.start, cumul, Higher(0, s.start - Segment(i - 1).end))>>
           at == IF gap = <<>> THEN cumul ELSE cumul + gap[1].len
       IN /\ clips' = clips \o Append(gap, Clip(i, s.start, s.end, at, Dur(s)))
          /\ cumul' = at + Dur(s)
    /\ i' = i + 1
    /\ UNCHANGED <<pc, timeline, parts, shown, zhPlan>>

\* Mutant of Lay: the pictures of a cue may be squeezed.
LaySqueeze ==
    /\ pc = "lay" /\ Valid(i)
    /\ LET s == Segment(i)
           gap == Gap(i)
           at == IF gap = <<>> THEN cumul ELSE cumul + gap[1].len
           len == IF Dur(s) > 0 THEN Lower(s.to - s.from, SubCap * Dur(s)) ELSE 0
       IN /\ clips' = clips \o Append(gap, Clip(i, s.start, s.end, at, len))
          /\ cumul' = at + len
    /\ i' = i + 1
    /\ UNCHANGED <<pc, timeline, parts, shown, zhPlan>>

\* The loop of process_video, one cue.
Lay ==
    /\ pc = "lay" /\ Valid(i)
    /\ LET s == Segment(i)
           gap == Gap(i)
           at == IF gap = <<>> THEN cumul ELSE cumul + gap[1].len
           len == IF Dur(s) > 0 THEN Clamp(s.to - s.from, Dur(s), SubCap * Dur(s)) ELSE 0
       IN /\ clips' = clips \o Append(gap, Clip(i, s.start, s.end, at, len))
          /\ cumul' = at + len
    /\ i' = i + 1
    /\ UNCHANGED <<pc, timeline, parts, shown, zhPlan>>

\* Mutant of Trail: it starts at the end of the last cue of the file.
TrailCue ==
    /\ pc = "lay" /\ ~Valid(i)
    /\ IF i > 1 /\ LastEnd < length
         THEN /\ clips' = Append(clips, Clip(0, LastEnd, length, cumul, length - LastEnd))
              /\ cumul' = cumul + (length - LastEnd)
         ELSE UNCHANGED videoPlan
    /\ i' = 1
    /\ pc' = "encode"
    /\ UNCHANGED <<timeline, parts, shown, zhPlan>>

\* The pictures after the last cue keep their pace.
Trail ==
    /\ pc = "lay" /\ ~Valid(i)
    /\ LET last == Segment(i - 1).end
       IN IF i > 1 /\ last < length
            THEN /\ clips' = Append(clips, Clip(0, last, length, cumul, length - last))
                 /\ cumul' = cumul + (length - last)
            ELSE UNCHANGED videoPlan
    /\ i' = 1
    /\ pc' = "encode"
    /\ UNCHANGED <<timeline, parts, shown, zhPlan>>

-----------------------------------------------------------------------------
(* gen_video.py: the file                                                  *)

\* One ffmpeg run per batch of clips.  Each clip comes out up to a frame too
\* long; a batch that has no frame at all is skipped, a run that fails ends
\* the program.
Frameless(k) == clips[k].len = 0 \/ clips[k].start = clips[k].end

EncodeBatch ==
    /\ pc = "encode" /\ i <= Len(clips)
    /\ LET n == Lower(MaxBatch, Len(clips) - i + 1)
           batch == [k \in 1..n |-> i + k - 1]
           designed == clips[i + n - 1].pos + clips[i + n - 1].len - clips[i].pos
       IN \/ /\ parts' = Append(parts, batch)
             /\ \E extra \in {0, n} : shown' = shown + designed + extra
             /\ i' = i + n
             /\ UNCHANGED pc
          \/ /\ \A k \in 1..n : Frameless(batch[k])
             /\ i' = i + n
             /\ UNCHANGED <<pc, parts, shown>>
          \/ /\ pc' = "failed"
             /\ UNCHANGED <<i, parts, shown>>
    /\ UNCHANGED <<timeline, videoPlan, zhPlan>>

\* The batches are joined, MaxBatch at a time, until one file is left.
Flat(p, from, to) ==
    LET len[k \in (from - 1)..to] == IF k < from THEN 0 ELSE len[k - 1] + Len(p[k])
    IN [n \in 1..len[to] |->
          LET k == CHOOSE j \in from..to : len[j - 1] < n /\ n <= len[j] IN p[k][n - len[k - 1]]]

\* Mutant of Concat: the last, incomplete group is lost.
ConcatFloor ==
    /\ pc = "encode" /\ i > Len(clips)
    /\ IF Len(parts) = 0
         THEN pc' = "failed" /\ UNCHANGED parts
         ELSE IF Len(parts) = 1
           THEN pc' = "correct" /\ UNCHANGED parts
           ELSE /\ parts' = [g \in 1..(Len(parts) \div MaxBatch) |->
                               Flat(parts, (g - 1) * MaxBatch + 1, g * MaxBatch)]
                /\ UNCHANGED pc
    /\ UNCHANGED <<timeline, i, videoPlan, shown, zhPlan>>

Concat ==
    /\ pc = "encode" /\ i > Len(clips)
    /\ IF Len(parts) = 0
         THEN pc' = "failed" /\ UNCHANGED parts
         ELSE IF Len(parts) = 1
           THEN pc' = "correct" /\ UNCHANGED parts
           ELSE /\ parts' = [g \in 1..((Len(parts) + MaxBatch - 1) \div MaxBatch) |->
                               Flat(parts, (g - 1) * MaxBatch + 1, Lower(g * MaxBatch, Len(parts)))]
                /\ UNCHANGED pc
    /\ UNCHANGED <<timeline, i, videoPlan, shown, zhPlan>>

\* main: a file that is off by more than 0.1 s is brought to the designed
\* length, then the mux cuts it to the audio.
Finish ==
    /\ pc = "correct"
    /\ LET off == IF shown > cumul THEN shown - cumul ELSE cumul - shown
           corrected == IF 2 * off > 5 THEN cumul ELSE shown
       IN shown' = Lower(corrected, AudioLength)
    /\ i' = 1
    /\ pc' = "zhLead"
    /\ UNCHANGED <<timeline, videoPlan, parts, zhPlan>>

-----------------------------------------------------------------------------
(* segment_utils.py: the original sound                                    *)

\* build_segment_defs: the sound in front of the first cue.
ZhLead ==
    /\ pc = "zhLead"
    /\ pc' = "zh"
    /\ IF cues[1].start > 0 /\ adj[1].start > 0
         THEN /\ zh' = <<Clip(0, 0, Lower(cues[1].start, length), 0, adj[1].start)>>
              /\ zhCumul' = adj[1].start
         ELSE UNCHANGED zhPlan
    /\ UNCHANGED <<timeline, i, videoPlan, parts, shown>>

\* Mutant of ZhGap: no tick is borrowed where cues touch.
ZhGapPlain(k) ==
    LET prev == cues[k - 1].end
        gap == cues[k].start - prev
    IN IF k > 1 /\ gap > 0
         THEN <<Clip(0, prev, cues[k].start, zhCumul, Clamp(adj[k].start - zhCumul, 0, GapCap * gap))>>
         ELSE <<>>

\* The sound in front of cue k.  The end of the cue before it is not clamped.
ZhGap(k) ==
    LET prev == cues[k - 1].end
        needed == adj[k].start - zhCumul
        piece == IF cues[k].start > prev
                   THEN [from |-> prev, to |-> Lower(cues[k].start, length)]
                   ELSE IF needed > 0
                     THEN [from |-> Higher(0, prev - 1), to |-> Lower(prev, length)]
                     ELSE [from |-> 0, to |-> 0]
        gap == piece.to - piece.from
    IN IF k > 1 /\ gap > 0
         THEN <<Clip(0, piece.from, piece.to, zhCumul, Clamp(needed, 0, GapCap * gap))>>
         ELSE <<>>

\* Its loop, one cue: the end of the cue is clamped to the end of the video,
\* its adjusted time is not.
ZhLay ==
    /\ pc = "zh" /\ i <= Len(cues) /\ cues[i].start < length
    /\ LET end == Lower(cues[i].end, length)
           dur == end - cues[i].start
           gap == ZhGap(i)
           at == IF gap = <<>> THEN zhCumul ELSE zhCumul + gap[1].len
           len == IF dur > 0 THEN Clamp(Dur(adj[i]), dur, SubCap * dur) ELSE 0
       IN /\ zh' = zh \o Append(gap, Clip(i, cues[i].start, end, at, len))
          /\ zhCumul' = at + len
    /\ i' = i + 1
    /\ UNCHANGED <<pc, timeline, videoPlan, parts, shown>>

\* The sound after the last cue, and adjust_original_audio writes the file.
ZhTrail ==
    /\ pc = "zh" /\ (i <= Len(cues) => cues[i].start >= length)
    /\ IF LastEnd < length
         THEN /\ zh' = Append(zh, Clip(0, LastEnd, length, zhCumul, length - LastEnd))
              /\ zhCumul' = zhCumul + (length - LastEnd)
         ELSE UNCHANGED zhPlan
    /\ pc' = "done"
    /\ UNCHANGED <<timeline, i, videoPlan, parts, shown>>

-----------------------------------------------------------------------------
Init ==
    /\ pc = "speak" /\ length \in Lengths
    /\ cues = <<>> /\ adj = <<>> /\ offset = 0 /\ i = 1
    /\ cumul = 0 /\ clips = <<>> /\ parts = <<>> /\ shown = 0
    /\ zh = <<>> /\ zhCumul = 0

Next ==
    \/ Speak \/ Spoken \/ Check \/ Lead \/ Lay \/ Trail
    \/ EncodeBatch \/ Concat \/ Finish
    \/ ZhLead \/ ZhLay \/ ZhTrail

Spec == Init /\ [][Next]_vars
-----------------------------------------------------------------------------
(* Properties                                                              *)

Clips == [cue : 0..MaxCues, start : Nat, end : Nat, pos : Nat, len : Nat]

\* The clips and positions of both plans stay natural numbers: no piece of
\* process_video or build_segment_defs has a negative length or place, and
\* cue numbers stay in range.
TypeOK ==
    /\ pc \in {"speak", "check", "lead", "lay", "encode", "correct", "zhLead",
               "zh", "done", "failed"}
    /\ length \in Nat /\ offset \in Nat /\ i \in Nat \ {0}
    /\ cues \in Seq([start : Nat, end : Nat])
    /\ adj \in Seq([start : Nat, end : Nat])
    /\ Len(cues) = Len(adj) /\ Len(cues) <= MaxCues
    /\ cumul \in Nat /\ zhCumul \in Nat /\ shown \in Nat
    /\ clips \in Seq(Clips) /\ zh \in Seq(Clips)

\* The cues follow one another; the video reaches past all of them.
Ordered == \A k \in 2..Len(cues) : cues[k - 1].end <= cues[k].start
Fits == \A k \in 1..Len(cues) : cues[k].start < length /\ cues[k].end <= length

\* The speech of the first n cues is within what their pictures stretch to.
Uncapped(n) == \A k \in 1..n : Dur(adj[k]) <= SubCap * Dur(cues[k])

\* process_video places cue k at its adjusted time: never later, however
\* much longer or shorter the speech has become, and not earlier either as
\* long as no cue before it needed more than the stretch allows.
InPlace ==
    Ordered =>
      \A n \in 1..Len(clips) :
        LET c == clips[n]
        IN c.cue > 0 => /\ c.pos <= adj[c.cue].start
                        /\ Uncapped(c.cue - 1) => c.pos = adj[c.cue].start

\* What the cap takes from the first n cues.
Missing[n \in 0..MaxCues] ==
    IF n = 0 THEN 0
    ELSE Missing[n - 1] + (IF n <= Len(adj) THEN Higher(0, Dur(adj[n]) - SubCap * Dur(cues[n])) ELSE 0)

\* Drift does not build up: a cue is early by no more than what the cap took
\* from the cues before it, and by less once a gap has absorbed some of it.
DriftBounded ==
    Ordered =>
      \A n \in 1..Len(clips) :
        clips[n].cue > 0 =>
          clips[n].pos + Missing[clips[n].cue - 1] >= adj[clips[n].cue].start

\* No picture of the video is left out: from its first to its last tick each
\* clip goes on where the one before it stopped, or repeats a tick of it.
NothingSkipped ==
    (Ordered /\ pc \in {"encode", "correct"} /\ clips # <<>>) =>
      /\ clips[1].start = 0
      /\ clips[Len(clips)].end = length
      /\ \A n \in 2..Len(clips) :
            /\ clips[n].start <= clips[n - 1].end
            /\ clips[n].end >= clips[n - 1].end

\* Joining the batches level by level keeps every clip that has a frame,
\* once and in its place.
WholeConcat ==
    pc = "correct" =>
      /\ Len(parts) = 1
      /\ \A m, n \in 1..Len(parts[1]) : m < n => parts[1][m] < parts[1][n]
      /\ \A k \in 1..Len(clips) :
            Frameless(k) \/ \E n \in 1..Len(parts[1]) : parts[1][n] = k

\* The video ends exactly when the audio ends, whatever ffmpeg's rounding
\* and the frameless batches added or took.
EndsWithAudio ==
    (pc = "zhLead" /\ Ordered /\ Fits /\ Uncapped(Len(cues)) /\ adj[Len(adj)].end > 0) =>
      shown = AudioLength

\* The two copies of the arithmetic agree on every SRT file that fits into
\* the video, overlapping cues included.
TracksMatch == (pc = "done" /\ Fits) => (zh = clips /\ zhCumul = cumul)

\* adjust_original_audio: "Mirrors the same segment-stretch logic that
\* gen_video.py applies to the video track".
TracksAgree == (pc = "done" /\ Ordered) => zh = clips

\* process_video: "segment i is placed at adj_start[i] in the output".
Placed == \A n \in 1..Len(clips) : clips[n].cue > 0 => clips[n].pos = adj[clips[n].cue].start
=============================================================================

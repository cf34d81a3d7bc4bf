---------------------------- MODULE RetimeProofs ----------------------------
(***************************************************************************)
(* Every invariant of Retime holds of any SRT file and any video: any      *)
(* number of cues, any times, any speech, any caps.                        *)
(***************************************************************************)
EXTENDS Retime, SequenceTheorems, FiniteSetTheorems, TLAPS

Spans == [start : Nat, end : Nat]
Pieces == [cue : Nat, start : Int, end : Int, pos : Int, len : Int]

\* How far behind its place in the SRT file the cue after cue k is.
Behind(k) == adj[k].start - cues[k].start + Higher(0, Dur(adj[k]) - Dur(cues[k]))

\* What process_with_direct has made of the cues.
Timeline ==
    /\ length \in Nat /\ offset \in Nat
    /\ cues \in Seq(Spans) /\ adj \in Seq(Spans) /\ Len(adj) = Len(cues)
    /\ \A k \in 1..Len(cues) : cues[k].start <= cues[k].end /\ adj[k].start <= adj[k].end
    /\ Len(cues) = 0 => offset = 0
    /\ Len(cues) > 0 => adj[1].start = cues[1].start /\ offset = Behind(Len(cues))
    /\ \A k \in 2..Len(cues) : adj[k].start = cues[k].start + Behind(k - 1)

\* Where the pictures of cue k end when they start in place.
Target(k) == adj[k].start + Higher(Dur(adj[k]), Dur(cues[k]))

\* The loop of process_video before it lays cue i.
Loop ==
    /\ i = 1 /\ Valid(1) => cumul = adj[1].start
    /\ i > 1 => /\ cumul <= Target(i - 1)
                /\ Uncapped(i - 1) /\ cues[i - 1].end <= length => cumul = Target(i - 1)

Inv ==
    /\ Timeline
    /\ clips \in Seq(Pieces)
    /\ pc # "speak" => cues # <<>>
    /\ pc \in {"speak", "check", "lead"} => clips = <<>> /\ cumul = 0 /\ i = 1
    /\ pc = "lay" => /\ cumul \in Int /\ i \in 1..(Len(cues) + 1)
                     /\ Ordered => Loop
    /\ InPlace

-----------------------------------------------------------------------------
(* Arithmetic                                                              *)

LEMMA CapAtLeast == \A x \in Nat : x <= SubCap * x /\ SubCap * x \in Nat /\ SubCap * 0 = 0
<1>. TAKE x \in Nat
<1>1. PICK c \in Nat : SubCap = c + 1
  <2>1. SubCap - 1 \in Nat /\ SubCap = (SubCap - 1) + 1
    BY RetimeAssumption
  <2>. QED
    BY <2>1
<1>2. (c + 1) * x = c * x + x /\ c * x \in Nat
  OBVIOUS
<1>. QED
  BY <1>1, <1>2, RetimeAssumption

LEMMA GapCapAtLeast == \A x \in Nat : x <= GapCap * x /\ GapCap * x \in Nat
<1>. TAKE x \in Nat
<1>1. PICK c \in Nat : GapCap = c + 1
  <2>1. GapCap - 1 \in Nat /\ GapCap = (GapCap - 1) + 1
    BY RetimeAssumption
  <2>. QED
    BY <2>1
<1>2. (c + 1) * x = c * x + x /\ c * x \in Nat
  OBVIOUS
<1>. QED
  BY <1>1, <1>2, RetimeAssumption

LEMMA QuotientNat == \A a \in Nat, b \in Nat \ {0} : a \div b \in Nat
OBVIOUS

LEMMA ProductNat == \A a, b \in Nat : a * b \in Nat
OBVIOUS

\* The clamp at the end of the video shortens a cue, and its adjusted time,
\* and leaves alone what ends before.
LEMMA SegmentFacts ==
    ASSUME Timeline, NEW k \in 1..Len(cues), Valid(k)
    PROVE  LET s == Segment(k)
           IN  /\ s.start = cues[k].start /\ s.end \in Nat
               /\ s.start <= s.end /\ s.end <= cues[k].end
               /\ s.from = adj[k].start /\ s.to \in Int
               /\ adj[k].start <= s.to /\ s.to <= adj[k].end
               /\ cues[k].end <= length => s.end = cues[k].end /\ s.to = adj[k].end
<1>. DEFINE c == cues[k]
            a == adj[k]
            excess == c.end - length
            cut == IF Dur(c) > 0 /\ Dur(a) > Dur(c) THEN (excess * Dur(a)) \div Dur(c) ELSE excess
<1>1. c \in Spans /\ a \in Spans /\ c.start <= c.end /\ a.start <= a.end /\ length \in Nat
  BY DEF Timeline
<1>2. c.start < length
  BY DEF Valid
<1>3. /\ c.start \in Nat /\ c.end \in Nat /\ a.start \in Nat /\ a.end \in Nat
      /\ Dur(c) \in Nat /\ Dur(a) \in Nat
  BY <1>1 DEF Spans, Dur
<1>4. CASE excess <= 0
  <2>1. Segment(k) = [start |-> c.start, end |-> c.end, from |-> a.start, to |-> a.end]
    BY <1>4 DEF Segment
  <2>. QED
    BY <2>1, <1>1, <1>3, <1>4
<1>5. CASE excess > 0
  <2>1. excess \in Nat
    BY <1>1, <1>3, <1>5
  <2>2. cut \in Nat
    <3>1. CASE Dur(c) > 0 /\ Dur(a) > Dur(c)
      <4>1. excess * Dur(a) \in Nat
        BY <2>1, <1>3, ProductNat
      <4>2. Dur(c) \in Nat \ {0}
        BY <3>1, <1>3
      <4>. QED
        BY <3>1, <4>1, <4>2, QuotientNat
    <3>2. CASE ~(Dur(c) > 0 /\ Dur(a) > Dur(c))
      BY <3>2, <2>1
    <3>. QED
      BY <3>1, <3>2
  <2>3. Segment(k) = [start |-> c.start, end |-> length, from |-> a.start,
                      to |-> Higher(a.start, a.end - cut)]
    <3>1. ~(excess <= 0)
      BY <1>1, <1>3, <1>5
    <3>. QED
      BY <3>1, Zenon DEF Segment
  <2>4. ~(c.end <= length)
    BY <1>1, <1>3, <1>5
  <2>5. /\ Segment(k).start = c.start /\ Segment(k).end = length
        /\ Segment(k).from = a.start /\ Segment(k).to = Higher(a.start, a.end - cut)
    BY <2>3
  <2>6. /\ c.start <= length /\ length <= c.end
        /\ Higher(a.start, a.end - cut) \in Int
        /\ a.start <= Higher(a.start, a.end - cut) /\ Higher(a.start, a.end - cut) <= a.end
    <3>. HIDE DEF cut, c, a
    <3>. QED
      BY <1>1, <1>2, <1>3, <2>2, <2>4 DEF Higher
  <2>. QED
    BY <2>4, <2>5, <2>6, <1>1
<1>. QED
  BY <1>1, <1>3, <1>4, <1>5

\* The pictures of cue k take no longer than its speech, or than they did, and
\* are short of that by what the cap takes.
LEMMA LengthFacts ==
    ASSUME Timeline, NEW k \in 1..Len(cues), Valid(k)
    PROVE  LET s == Segment(k)
               len == IF Dur(s) > 0 THEN Clamp(s.to - s.from, Dur(s), SubCap * Dur(s)) ELSE 0
           IN  /\ len \in Nat
               /\ len <= Higher(Dur(adj[k]), Dur(cues[k]))
               /\ cues[k].end <= length /\ Dur(adj[k]) <= SubCap * Dur(cues[k]) =>
                     len = Higher(Dur(adj[k]), Dur(cues[k]))
               /\ cues[k].end <= length =>
                     Higher(Dur(adj[k]), Dur(cues[k])) <=
                       len + Higher(0, Dur(adj[k]) - SubCap * Dur(cues[k]))
<1>. DEFINE s == Segment(k)
            d == Dur(s)
            w == s.to - s.from
            len == IF d > 0 THEN Clamp(w, d, SubCap * d) ELSE 0
            da == Dur(adj[k])
            dc == Dur(cues[k])
<1>1. cues[k] \in Spans /\ adj[k] \in Spans /\ cues[k].start <= cues[k].end
  BY DEF Timeline
<1>2. /\ d \in Nat /\ w \in Nat /\ da \in Nat /\ dc \in Nat
      /\ d <= dc /\ w <= da
      /\ cues[k].end <= length => d = dc /\ w = da
  <2>1. adj[k].start <= adj[k].end
    BY DEF Timeline
  <2>2. /\ cues[k].start \in Nat /\ cues[k].end \in Nat
        /\ adj[k].start \in Nat /\ adj[k].end \in Nat
    BY <1>1 DEF Spans
  <2>3. /\ s.start = cues[k].start /\ s.end \in Nat /\ s.start <= s.end /\ s.end <= cues[k].end
        /\ s.from = adj[k].start /\ s.to \in Int /\ adj[k].start <= s.to /\ s.to <= adj[k].end
        /\ cues[k].end <= length => s.end = cues[k].end /\ s.to = adj[k].end
    BY SegmentFacts
  <2>. HIDE DEF s, len
  <2>. QED
    BY SMTT(30), <1>1, <2>1, <2>2, <2>3 DEF Dur
<1>3. d <= SubCap * d /\ SubCap * d \in Nat /\ SubCap * 0 = 0
  BY <1>2, CapAtLeast
<1>. DEFINE m == SubCap * d
<1>4. /\ len \in Nat /\ len <= Higher(da, dc)
      /\ d = dc /\ w = da /\ da <= m => len = Higher(da, dc)
      /\ d = dc /\ w = da => Higher(da, dc) <= len + Higher(0, da - m)
  <2>1. m \in Nat /\ d <= m /\ (d = 0 => m = 0)
    BY <1>2, <1>3
  <2>2. len = IF d > 0 THEN Clamp(w, d, m) ELSE 0
    OBVIOUS
  <2>. HIDE DEF m, d, w, da, dc, len
  <2>. QED
    BY <1>2, <2>1, <2>2 DEF Clamp, Higher, Lower
<1>5. cues[k].end <= length /\ da <= SubCap * dc => len = Higher(da, dc)
  BY <1>2, <1>4
<1>6. cues[k].end <= length => Higher(da, dc) <= len + Higher(0, da - SubCap * dc)
  <2>. SUFFICES ASSUME cues[k].end <= length PROVE Higher(da, dc) <= len + Higher(0, da - SubCap * dc)
    OBVIOUS
  <2>1. d = dc /\ w = da
    BY <1>2
  <2>2. m = SubCap * dc
    BY <2>1
  <2>. HIDE DEF d, w, da, dc, len, m
  <2>. QED
    BY <1>4, <2>1, <2>2
<1>. QED
  BY <1>4, <1>5, <1>6

\* The clamped end of a cue is a time, for every cue.
LEMMA SegmentEnd ==
    ASSUME Timeline, NEW k \in 1..Len(cues)
    PROVE  Segment(k).end \in Nat
<1>1. cues[k] \in Spans /\ length \in Nat
  BY DEF Timeline
<1>2. CASE cues[k].end - length <= 0
  BY <1>1, <1>2 DEF Segment, Spans
<1>3. CASE ~(cues[k].end - length <= 0)
  <2>1. Segment(k).end = length
    BY <1>3, Zenon DEF Segment
  <2>. QED
    BY <1>1, <2>1
<1>. QED
  BY <1>2, <1>3

\* At most one piece goes between two cues.
LEMMA GapShape ==
    ASSUME Timeline, cumul \in Int, NEW k \in 1..Len(cues)
    PROVE  \/ Gap(k) = <<>>
           \/ \E g \in Pieces : Gap(k) = <<g>> /\ g.cue = 0
<1>. DEFINE prev == Segment(k - 1).end
            gap == cues[k].start - prev
            needed == adj[k].start - cumul
            from == IF gap > 0 THEN prev ELSE Higher(0, prev - 1)
            to == IF gap > 0 THEN cues[k].start ELSE prev
            cap == GapCap * (to - from)
            g == Clip(0, from, to, cumul, Clamp(needed, 0, cap))
<1>1. CASE ~(k > 1 /\ (gap > 0 \/ needed > 0) /\ to > from)
  BY <1>1 DEF Gap
<1>2. CASE k > 1 /\ (gap > 0 \/ needed > 0) /\ to > from
  <2>1. Gap(k) = <<g>>
    BY <1>2 DEF Gap
  <2>2. k - 1 \in 1..Len(cues) /\ cues[k] \in Spans /\ adj[k] \in Spans
    BY <1>2 DEF Timeline
  <2>3. prev \in Nat /\ cues[k].start \in Nat /\ adj[k].start \in Nat
    BY <2>2, SegmentEnd DEF Spans
  <2>4. gap \in Int /\ needed \in Int
    BY <2>3
  <2>5. from \in Nat /\ to \in Nat /\ to - from \in Nat
    <3>1. from \in Nat /\ to \in Nat
      <4>. HIDE DEF prev, gap
      <4>. QED
        BY <2>3, <2>4 DEF Higher
    <3>. HIDE DEF from, to
    <3>. QED
      BY <3>1, <1>2
  <2>6. cap \in Nat
    BY <2>5, GapCapAtLeast
  <2>7. Clamp(needed, 0, cap) \in Int
    <3>. HIDE DEF needed, cap
    <3>. QED
      BY <2>4, <2>6 DEF Clamp, Higher, Lower
  <2>8. g \in Pieces /\ g.cue = 0
    <3>. DEFINE l == Clamp(needed, 0, cap)
    <3>1. l \in Int /\ g = Clip(0, from, to, cumul, l)
      BY <2>7
    <3>. HIDE DEF from, to, l, g
    <3>. QED
      BY <2>5, <3>1 DEF Clip, Pieces
  <2>. QED
    BY <2>1, <2>8
<1>. QED
  BY <1>1, <1>2

\* A gap is as long as it has to be: the sum is never beyond the place of the
\* cue after it, it is exactly that place when the one before was in its, and
\* when the one before ended x early, it is early by x at most.
LEMMA GapFacts ==
    ASSUME Timeline, Ordered, Loop, cumul \in Int, NEW k \in 1..Len(cues), k = i, Valid(k)
    PROVE  /\ \/ Gap(k) = <<>> /\ cumul <= adj[k].start
              \/ \E g \in Pieces : /\ Gap(k) = <<g>> /\ g.cue = 0
                                    /\ cumul + g.len <= adj[k].start
           /\ Uncapped(k - 1) =>
                 IF Gap(k) = <<>> THEN cumul = adj[k].start
                                  ELSE cumul + Gap(k)[1].len = adj[k].start
           /\ \A x \in Nat :
                 k > 1 /\ Target(k - 1) <= cumul + x =>
                    IF Gap(k) = <<>> THEN adj[k].start <= cumul + x
                                     ELSE adj[k].start <= cumul + Gap(k)[1].len + x
<1>1. CASE k = 1
  <2>1. Gap(k) = <<>>
    BY <1>1 DEF Gap
  <2>2. cumul = adj[k].start
    BY <1>1 DEF Loop
  <2>. QED
    BY <2>1, <2>2
<1>2. CASE k > 1
  <2>. DEFINE j == k - 1
              needed == adj[k].start - cumul
              prev == Segment(j).end
              gap == cues[k].start - prev
              from == IF gap > 0 THEN prev ELSE Higher(0, prev - 1)
              to == IF gap > 0 THEN cues[k].start ELSE prev
              cap == GapCap * (to - from)
              g == Clip(0, from, to, cumul, Clamp(needed, 0, cap))
  <2>1. j \in 1..Len(cues) /\ k \in 2..Len(cues) /\ j + 1 = k
    BY <1>2 DEF Timeline
  <2>2. /\ cues[j] \in Spans /\ adj[j] \in Spans /\ cues[k] \in Spans /\ adj[k] \in Spans
        /\ cues[j].start <= cues[j].end /\ cues[j].end <= cues[k].start
        /\ cues[k].start < length
        /\ length \in Nat /\ j <= Len(cues)
    BY <2>1 DEF Timeline, Ordered, Valid
  <2>. DEFINE cs == cues[j].start
              ce == cues[j].end
              av == adj[j].start
              ae == adj[j].end
              ks == cues[k].start
              ka == adj[k].start
  <2>17. cs \in Nat /\ ce \in Nat /\ av \in Nat /\ ae \in Nat /\ ks \in Nat /\ ka \in Nat
    BY <2>2 DEF Spans
  <2>3. Valid(j) /\ cues[j].end <= length
    BY SMTT(30), <2>2, <2>17 DEF Valid
  <2>4. prev = cues[j].end
    BY <2>1, <2>3, SegmentFacts
  <2>5. adj[k].start = cues[k].start + Behind(j)
    BY <2>1 DEF Timeline
  <2>6. cumul <= Target(j) /\ (Uncapped(j) => cumul = Target(j))
    BY <1>2, <2>3 DEF Loop
  <2>7. /\ gap \in Nat /\ needed \in Nat /\ gap <= needed
        /\ Uncapped(j) => needed = gap
        /\ \A x \in Nat : Target(j) <= cumul + x => needed <= gap + x
    <3>1. ka = ks + (av - cs + Higher(0, (ae - av) - (ce - cs)))
      BY <2>5 DEF Behind, Dur
    <3>2. Target(j) = av + Higher(ae - av, ce - cs)
      BY DEF Target, Dur
    <3>3. ks - ce \in Nat
      BY <2>2, <2>17
    <3>4. ka = av + Higher(ae - av, ce - cs) + (ks - ce)
      <4>. HIDE DEF cs, ce, av, ae, ks, ka
      <4>. QED
        BY <3>1, <2>17 DEF Higher
    <3>5. Target(j) \in Int /\ ka = Target(j) + (ks - ce)
      <4>. HIDE DEF cs, ce, av, ae, ks, ka
      <4>. QED
        BY <3>2, <3>4, <2>17 DEF Higher
    <3>6. gap = ks - ce
      BY <2>4
    <3>. HIDE DEF cs, ce, av, ae, ks, gap
    <3>. QED
      BY <3>3, <3>5, <3>6, <2>6, <2>17
  <2>8. /\ from \in Nat /\ to \in Nat /\ to - from \in Nat
        /\ gap > 0 => to - from = gap
    <3>1. prev = ce /\ gap = ks - ce
      BY <2>4
    <3>2. ce \in Nat /\ ks \in Nat /\ ce <= ks
      BY <2>2, <2>17
    <3>. HIDE DEF prev, gap, ce
    <3>. QED
      BY <3>1, <3>2, <2>7 DEF Higher
  <2>9. cap \in Nat /\ to - from <= cap
    BY <2>8, GapCapAtLeast
  <2>10. Gap(k) = IF k > 1 /\ (gap > 0 \/ needed > 0) /\ to > from THEN <<g>> ELSE <<>>
    BY DEF Gap
  <2>11. g \in Pieces /\ g.cue = 0 /\ g.len = Clamp(needed, 0, cap) /\ cumul + g.len <= adj[k].start
    <3>1. Clamp(needed, 0, cap) \in Nat /\ Clamp(needed, 0, cap) <= needed
      <4>. HIDE DEF needed, cap
      <4>. QED
        BY <2>7, <2>9 DEF Clamp, Higher, Lower
    <3>2. adj[k].start \in Nat /\ cumul + needed = adj[k].start
      BY <2>2 DEF Spans
    <3>. DEFINE l == Clamp(needed, 0, cap)
    <3>3. l \in Nat /\ cumul + l <= adj[k].start
      <4>. HIDE DEF l
      <4>. QED
        BY <3>1, <3>2, <2>7 DEF l
    <3>. HIDE DEF l, from, to
    <3>. QED
      BY <3>3, <2>8 DEF Clip, Pieces, l
  <2>12. Uncapped(j) /\ gap > 0 => cumul + g.len = adj[k].start
    <3>. SUFFICES ASSUME Uncapped(j), gap > 0 PROVE cumul + g.len = adj[k].start
      OBVIOUS
    <3>1. Clamp(needed, 0, cap) = needed
      <4>1. needed \in Nat /\ cap \in Nat /\ needed <= cap
        BY <2>7, <2>8, <2>9
      <4>. HIDE DEF needed, cap
      <4>. QED
        BY <4>1 DEF Clamp, Higher, Lower
    <3>2. adj[k].start \in Nat /\ cumul + needed = adj[k].start
      BY <2>2 DEF Spans
    <3>. QED
      BY <3>1, <3>2, <2>11
  <2>18. ASSUME NEW x \in Nat, Target(j) <= cumul + x PROVE adj[k].start <= cumul + g.len + x
    <3>1. /\ needed \in Nat /\ gap \in Nat /\ cap \in Nat /\ gap <= needed /\ needed <= gap + x
          /\ gap > 0 => gap <= cap
      BY <2>7, <2>8, <2>9, <2>18
    <3>2. Clamp(needed, 0, cap) \in Nat /\ needed <= Clamp(needed, 0, cap) + x
      <4>. HIDE DEF needed, gap, cap
      <4>. QED
        BY <3>1 DEF Clamp, Higher, Lower
    <3>. DEFINE l == Clamp(needed, 0, cap)
    <3>3. adj[k].start \in Nat /\ cumul + needed = adj[k].start /\ g.len = l
      BY <2>2, <2>11 DEF Spans
    <3>4. l \in Nat /\ needed <= l + x
      BY <3>2
    <3>. HIDE DEF l, g, needed
    <3>. QED
      BY <3>1, <3>3, <3>4
  <2>19. ASSUME NEW x \in Nat, Target(j) <= cumul + x, ~(gap > 0) PROVE adj[k].start <= cumul + x
    <3>1. adj[k].start \in Nat /\ cumul + needed = adj[k].start
      BY <2>2 DEF Spans
    <3>2. needed \in Nat /\ needed <= x
      BY <2>7, <2>19
    <3>. HIDE DEF needed
    <3>. QED
      BY <3>1, <3>2
  <2>13. cumul <= adj[k].start /\ (Uncapped(j) /\ ~(gap > 0) => cumul = adj[k].start /\ ~(needed > 0))
    BY <2>2, <2>7 DEF Spans
  <2>14. gap > 0 => to > from
    BY <2>7, <2>8
  <2>. HIDE DEF g, gap, needed, from, to
  <2>15. CASE Gap(k) = <<>>
    <3>1. Uncapped(j) => cumul = adj[k].start
      BY <1>2, <2>10, <2>13, <2>14, <2>15
    <3>2. ~(gap > 0)
      BY <1>2, <2>10, <2>14, <2>15
    <3>3. ASSUME NEW x \in Nat, k > 1 /\ Target(k - 1) <= cumul + x PROVE adj[k].start <= cumul + x
      BY <2>19, <3>2, <3>3
    <3>. QED
      BY <2>13, <2>15, <3>1, <3>3
  <2>16. CASE Gap(k) # <<>>
    <3>1. Gap(k) = <<g>> /\ (gap > 0 \/ needed > 0)
      BY <2>10, <2>16
    <3>2. Uncapped(j) => cumul + g.len = adj[k].start
      BY <3>1, <2>12, <2>13
    <3>3. Gap(k)[1] = g
      BY <3>1
    <3>4. ASSUME NEW x \in Nat, k > 1 /\ Target(k - 1) <= cumul + x
          PROVE  adj[k].start <= cumul + Gap(k)[1].len + x
      BY <2>18, <3>3, <3>4
    <3>. QED
      BY <2>11, <2>16, <3>1, <3>2, <3>4
  <2>. QED
    BY <2>15, <2>16
<1>. QED
  BY <1>1, <1>2

-----------------------------------------------------------------------------
(* Steps                                                                   *)

\* A cue more: the ones before it keep what they have.
LEMMA SpeakKeeps ==
    ASSUME Inv, Speak
    PROVE  Inv'
<1>1. PICK s \in Times, e \in Times, w \in WavLengths :
         /\ s <= e
         /\ cues' = Append(cues, [start |-> s, end |-> e])
         /\ adj' = Append(adj, [start |-> s + offset, end |-> s + offset + w])
         /\ offset' = offset + Higher(0, w - (e - s))
  BY DEF Speak
<1>0. PICK n \in Nat : n = Len(cues)
  BY DEF Inv, Timeline
<1>. DEFINE c == [start |-> s, end |-> e]
            a == [start |-> s + offset, end |-> s + offset + w]
<1>2. s \in Nat /\ e \in Nat /\ w \in Nat /\ offset \in Nat /\ n \in Nat
  BY <1>0, RetimeAssumption DEF Inv, Timeline
<1>3. c \in Spans /\ a \in Spans /\ a.start <= a.end /\ c.start <= c.end
  BY <1>1, <1>2 DEF Spans
<1>4. /\ cues \in Seq(Spans) /\ adj \in Seq(Spans) /\ Len(adj) = n
      /\ cues' = Append(cues, c) /\ adj' = Append(adj, a)
  BY <1>0, <1>1 DEF Inv, Timeline
<1>. HIDE DEF c, a
<1>5. /\ cues' \in Seq(Spans) /\ adj' \in Seq(Spans) /\ Len(adj') = n + 1 /\ Len(cues') = n + 1
      /\ cues'[n + 1] = c /\ adj'[n + 1] = a
      /\ \A k \in 1..n : cues'[k] = cues[k] /\ adj'[k] = adj[k]
  BY <1>0, <1>3, <1>4
<1>6. \A k \in 1..n : Behind(k)' = Behind(k)
  BY <1>5 DEF Behind
<1>7. offset' \in Nat /\ offset' = Behind(n + 1)'
  <2>1. Dur(c) = e - s /\ Dur(a) = w /\ a.start - c.start = offset
    BY <1>2 DEF c, a, Dur
  <2>2. Behind(n + 1)' = offset + Higher(0, w - (e - s))
    BY <1>5, <2>1 DEF Behind
  <2>. QED
    BY <1>1, <1>2, <2>2 DEF Higher
<1>8. \A k \in 1..(n + 1) : cues'[k].start <= cues'[k].end /\ adj'[k].start <= adj'[k].end
  <2>. TAKE k \in 1..(n + 1)
  <2>1. CASE k = n + 1
    BY <2>1, <1>3, <1>5
  <2>2. CASE k # n + 1
    BY SMTT(30), <2>2, <1>0, <1>2, <1>5 DEF Inv, Timeline
  <2>. QED
    BY <2>1, <2>2
<1>9. adj'[1].start = cues'[1].start
  <2>1. CASE n = 0
    <3>1. offset = 0
      BY <1>0, <2>1 DEF Inv, Timeline
    <3>2. a.start = c.start
      BY <3>1, <1>2 DEF a, c
    <3>. QED
      BY <2>1, <3>2, <1>5
  <2>2. CASE n > 0
    BY <2>2, <1>0, <1>2, <1>5 DEF Inv, Timeline
  <2>. QED
    BY <2>1, <2>2, <1>2
<1>10. \A k \in 2..(n + 1) : adj'[k].start = cues'[k].start + Behind(k - 1)'
  <2>. TAKE k \in 2..(n + 1)
  <2>1. k - 1 \in 1..n /\ n > 0
    BY <1>2
  <2>2. CASE k = n + 1
    <3>1. offset = Behind(n)
      BY <1>0, <2>1 DEF Inv, Timeline
    <3>2. a.start = c.start + offset
      BY <1>2 DEF a, c
    <3>. QED
      BY <2>1, <2>2, <3>1, <3>2, <1>2, <1>5, <1>6
  <2>3. CASE k # n + 1
    <3>1. k \in 2..n
      BY <2>3, <1>2
    <3>2. adj[k].start = cues[k].start + Behind(k - 1)
      BY <1>0, <3>1 DEF Inv, Timeline
    <3>. QED
      BY <2>1, <3>1, <3>2, <1>2, <1>5, <1>6
  <2>. QED
    BY <2>2, <2>3
<1>11. Timeline'
  <2>1. length' \in Nat
    BY DEF Speak, timeline, Inv, Timeline
  <2>2. Len(cues') # 0 /\ Len(cues') = n + 1
    BY <1>2, <1>5
  <2>. QED
    BY <2>1, <2>2, <1>5, <1>7, <1>8, <1>9, <1>10 DEF Timeline
<1>12. pc = "speak" /\ pc' = "speak" /\ clips = <<>> /\ cumul = 0 /\ i = 1
       /\ UNCHANGED <<clips, cumul, i>>
  BY DEF Speak, videoPlan, Inv
<1>13. InPlace' /\ clips' \in Seq(Pieces)
  BY <1>12 DEF InPlace, Inv
<1>. QED
  BY <1>11, <1>12, <1>13 DEF Inv

\* The pieces and the cues are as before.
LEMMA SamePlan ==
    ASSUME Inv, UNCHANGED <<timeline, clips>>
    PROVE  /\ Timeline' /\ InPlace' /\ clips' \in Seq(Pieces)
           /\ cues' = cues /\ (Ordered' <=> Ordered)
BY DEF Inv, timeline, Timeline, InPlace, Ordered, Uncapped, Behind

LEMMA LaterKeeps ==
    ASSUME Inv, UNCHANGED <<timeline, clips>>, pc # "speak",
           pc' \notin {"speak", "check", "lead", "lay"}
    PROVE  Inv'
BY SamePlan DEF Inv

LEMMA EarlyKeeps ==
    ASSUME Inv, Spoken \/ Check
    PROVE  Inv'
<1>1. /\ UNCHANGED <<timeline, clips>> /\ UNCHANGED <<i, cumul>> /\ pc' # "lay"
      /\ pc \in {"speak", "check"} /\ cues # <<>>
  BY DEF Spoken, Check, Inv, videoPlan
<1>. QED
  BY <1>1, SamePlan DEF Inv

\* What goes in front of the first cue brings it to its place, which is that
\* in the SRT file.
LEMMA LeadKeeps ==
    ASSUME Inv, Lead
    PROVE  Inv'
<1>1. /\ clips = <<>> /\ cumul = 0 /\ i = 1 /\ i' = 1 /\ cues # <<>> /\ pc' = "lay"
      /\ UNCHANGED timeline
  BY DEF Lead, Inv
<1>2. Len(cues) \in Nat /\ Len(cues) > 0
  BY <1>1 DEF Inv, Timeline
<1>3. cues[1] \in Spans /\ adj[1] \in Spans /\ adj[1].start = cues[1].start
  BY <1>2 DEF Inv, Timeline
<1>4. cues[1].start \in Nat /\ adj[1].start \in Nat
  BY <1>3 DEF Spans
<1>5. Timeline'
  BY <1>1 DEF Inv, timeline, Timeline, Behind
<1>. DEFINE c == Clip(0, 0, cues[1].start, 0, adj[1].start)
<1>6. CASE Valid(1) /\ cues[1].start > 0 /\ adj[1].start > 0
  <2>1. c \in Pieces /\ c.cue = 0
    BY <1>4 DEF Pieces, Clip
  <2>2. clips' = <<c>> /\ cumul' = adj[1].start
    BY <1>6 DEF Lead
  <2>. HIDE DEF c
  <2>3. clips' \in Seq(Pieces) /\ Len(clips') = 1 /\ clips'[1] = c
    BY <2>1, <2>2
  <2>4. InPlace'
    BY <2>1, <2>3 DEF InPlace
  <2>5. Loop'
    BY <1>1, <2>2 DEF Loop, timeline
  <2>. QED
    BY <1>1, <1>2, <1>4, <1>5, <2>2, <2>3, <2>4, <2>5 DEF Inv, timeline
<1>7. CASE ~(Valid(1) /\ cues[1].start > 0 /\ adj[1].start > 0)
  <2>1. UNCHANGED <<cumul, clips>>
    BY <1>7 DEF Lead, videoPlan
  <2>2. InPlace' /\ clips' \in Seq(Pieces)
    BY <1>1, <2>1, SamePlan
  <2>3. Valid(1) => cumul = adj[1].start
    BY <1>1, <1>3, <1>4, <1>7
  <2>4. Loop'
    BY <1>1, <2>1, <2>3 DEF Loop, timeline, Valid
  <2>. QED
    BY <1>1, <1>2, <1>5, <2>1, <2>2, <2>4 DEF Inv, timeline
<1>. QED
  BY <1>6, <1>7

\* Pieces may be added as long as they are in place.
LEMMA Longer ==
    ASSUME NEW old \in Seq(Pieces), NEW new \in Seq(Pieces)
    PROVE  /\ old \o new \in Seq(Pieces)
           /\ \A n \in 1..Len(old \o new) :
                \/ n \in 1..Len(old) /\ (old \o new)[n] = old[n]
                \/ \E m \in 1..Len(new) : (old \o new)[n] = new[m]
<1>1. old \o new \in Seq(Pieces) /\ Len(old \o new) = Len(old) + Len(new)
  OBVIOUS
<1>. SUFFICES ASSUME NEW n \in 1..Len(old \o new)
              PROVE  \/ n \in 1..Len(old) /\ (old \o new)[n] = old[n]
                     \/ \E m \in 1..Len(new) : (old \o new)[n] = new[m]
  BY <1>1
<1>2. CASE n <= Len(old)
  BY <1>1, <1>2
<1>3. CASE ~(n <= Len(old))
  <2>1. n - Len(old) \in 1..Len(new) /\ (old \o new)[n] = new[n - Len(old)]
    BY <1>1, <1>3
  <2>. QED
    BY <2>1
<1>. QED
  BY <1>2, <1>3

LEMMA PiecesAdded ==
    ASSUME Inv, UNCHANGED timeline, NEW new \in Seq(Pieces), clips' = clips \o new,
           Ordered => \A m \in 1..Len(new) :
                         new[m].cue > 0 => /\ new[m].pos <= adj[new[m].cue].start
                                           /\ Uncapped(new[m].cue - 1) =>
                                                 new[m].pos = adj[new[m].cue].start
    PROVE  InPlace' /\ clips' \in Seq(Pieces) /\ Timeline'
<1>1. Timeline' /\ (Ordered' <=> Ordered) /\ (\A k : Uncapped(k)' <=> Uncapped(k)) /\ adj' = adj
  BY DEF Inv, timeline, Timeline, Ordered, Uncapped, Behind
<1>2. clips \in Seq(Pieces)
  BY DEF Inv
<1>3. clips' \in Seq(Pieces)
  BY <1>2, Longer
<1>4. ASSUME Ordered, NEW n \in 1..Len(clips'), clips'[n].cue > 0
      PROVE  /\ clips'[n].pos <= adj[clips'[n].cue].start
             /\ Uncapped(clips'[n].cue - 1) => clips'[n].pos = adj[clips'[n].cue].start
  <2>1. CASE n \in 1..Len(clips) /\ clips'[n] = clips[n]
    BY <1>4, <2>1 DEF Inv, InPlace
  <2>2. CASE \E m \in 1..Len(new) : clips'[n] = new[m]
    BY <1>4, <2>2
  <2>. QED
    BY <1>2, <1>4, <2>1, <2>2, Longer
<1>5. InPlace'
  BY <1>1, <1>4 DEF InPlace
<1>. QED
  BY <1>1, <1>3, <1>5

\* The heart of process_video: a cue and the gap before it.
LEMMA LayKeeps ==
    ASSUME Inv, Lay
    PROVE  Inv'
<1>1. PICK k \in 1..Len(cues) : k = i
  BY DEF Lay, Inv, Valid, Timeline
<1>2. /\ pc = "lay" /\ pc' = "lay" /\ Valid(k) /\ i' = k + 1 /\ UNCHANGED timeline
      /\ cumul \in Int /\ Timeline /\ (Ordered => Loop)
  BY <1>1 DEF Lay, Inv
<1>. DEFINE s == Segment(k)
            gap == Gap(k)
            at == IF gap = <<>> THEN cumul ELSE cumul + gap[1].len
            len == IF Dur(s) > 0 THEN Clamp(s.to - s.from, Dur(s), SubCap * Dur(s)) ELSE 0
            c == Clip(k, s.start, s.end, at, len)
            new == Append(gap, c)
<1>3. clips' = clips \o new /\ cumul' = at + len
  BY <1>1 DEF Lay
<1>4. /\ len \in Nat /\ len <= Higher(Dur(adj[k]), Dur(cues[k]))
      /\ cues[k].end <= length /\ Dur(adj[k]) <= SubCap * Dur(cues[k]) =>
            len = Higher(Dur(adj[k]), Dur(cues[k]))
  BY <1>2, LengthFacts
<1>5. s.start \in Int /\ s.end \in Int /\ k \in Nat /\ k > 0
  <2>1. cues[k] \in Spans
    BY <1>2 DEF Timeline
  <2>. QED
    BY <2>1, <1>2, SegmentFacts DEF Spans
<1>6. \/ gap = <<>>
      \/ \E g \in Pieces : gap = <<g>> /\ g.cue = 0
  BY <1>1, <1>2, GapShape
<1>7. at \in Int
  <2>1. CASE gap = <<>>
    BY <2>1, <1>2
  <2>2. CASE gap # <<>>
    <3>1. PICK g \in Pieces : gap = <<g>>
      BY <1>6, <2>2
    <3>2. gap[1] = g /\ g.len \in Int
      BY <3>1 DEF Pieces
    <3>. QED
      BY <3>2, <2>2, <1>2
  <2>. QED
    BY <2>1, <2>2
<1>8. Ordered => /\ at <= adj[k].start
                 /\ Uncapped(k - 1) => at = adj[k].start
  <2>. SUFFICES ASSUME Ordered PROVE /\ at <= adj[k].start
                                     /\ Uncapped(k - 1) => at = adj[k].start
    OBVIOUS
  <2>1. CASE gap = <<>>
    <3>1. cumul <= adj[k].start /\ (Uncapped(k - 1) => cumul = adj[k].start)
      <4>1. \A g : <<g>> # <<>>
        OBVIOUS
      <4>2. gap = Gap(k)
        OBVIOUS
      <4>. HIDE DEF gap
      <4>. QED
        BY <1>1, <1>2, <2>1, <4>1, <4>2, GapFacts
    <3>. QED
      BY <3>1, <2>1, <1>2
  <2>2. CASE gap # <<>>
    <3>1. PICK g \in Pieces : gap = <<g>> /\ cumul + g.len <= adj[k].start
      BY <1>1, <1>2, <2>2, GapFacts
    <3>2. Uncapped(k - 1) => cumul + gap[1].len = adj[k].start
      BY <1>1, <1>2, <2>2, GapFacts
    <3>3. gap[1] = g
      BY <3>1
    <3>. QED
      BY <3>1, <3>2, <3>3, <2>2
  <2>. QED
    BY <2>1, <2>2
<1>9. c \in Pieces /\ c.cue = k /\ c.pos = at
  <2>. HIDE DEF s, at, len
  <2>. QED
    BY <1>4, <1>5, <1>7 DEF Clip, Pieces
<1>10. new \in Seq(Pieces) /\ \A m \in 1..Len(new) : new[m].cue = 0 \/ new[m] = c
  <2>. HIDE DEF c, gap
  <2>1. CASE gap = <<>>
    BY <2>1, <1>9
  <2>2. CASE gap # <<>>
    <3>1. PICK g \in Pieces : gap = <<g>> /\ g.cue = 0
      BY <1>6, <2>2
    <3>2. Append(<<g>>, c) \in Seq(Pieces) /\ Len(Append(<<g>>, c)) = 2
          /\ Append(<<g>>, c)[1] = g /\ Append(<<g>>, c)[2] = c
      BY <1>9
    <3>. QED
      BY <3>1, <3>2
  <2>. QED
    BY <2>1, <2>2
<1>11. InPlace' /\ clips' \in Seq(Pieces) /\ Timeline'
  <2>1. Ordered => \A m \in 1..Len(new) :
            new[m].cue > 0 => /\ new[m].pos <= adj[new[m].cue].start
                              /\ Uncapped(new[m].cue - 1) => new[m].pos = adj[new[m].cue].start
    <3>. HIDE DEF new, c, at
    <3>. QED
      BY <1>8, <1>9, <1>10
  <2>. HIDE DEF new
  <2>. QED
    BY <2>1, <1>2, <1>3, <1>10, PiecesAdded
<1>12. Ordered => Loop'
  <2>. SUFFICES ASSUME Ordered PROVE Loop'
    OBVIOUS
  <2>1. adj[k] \in Spans /\ cues[k] \in Spans
    BY <1>2 DEF Timeline
  <2>2. /\ adj[k].start \in Nat /\ Target(k) = adj[k].start + Higher(Dur(adj[k]), Dur(cues[k]))
        /\ Higher(Dur(adj[k]), Dur(cues[k])) \in Int
    BY <2>1 DEF Spans, Target, Higher, Dur
  <2>3. cumul' <= Target(k)
    <3>. HIDE DEF at, len
    <3>. QED
      BY <1>3, <1>4, <1>7, <1>8, <2>2
  <2>4. ASSUME Uncapped(k), cues[k].end <= length PROVE cumul' = Target(k)
    <3>1. Uncapped(k - 1) /\ Dur(adj[k]) <= SubCap * Dur(cues[k])
      BY <1>5, <2>4 DEF Uncapped
    <3>. HIDE DEF at, len
    <3>. QED
      BY <1>3, <1>4, <1>8, <2>2, <2>4, <3>1
  <2>5. /\ Target(k)' = Target(k) /\ (Uncapped(k)' <=> Uncapped(k)) /\ cues' = cues /\ length' = length
        /\ i' = k + 1 /\ i' - 1 = k
    BY <1>2, <1>5 DEF timeline, Target, Uncapped
  <2>. QED
    BY <1>5, <2>3, <2>4, <2>5 DEF Loop
<1>13. cumul' \in Int /\ i' \in 1..(Len(cues') + 1) /\ cues' = cues /\ cues # <<>>
       /\ (Ordered' <=> Ordered)
  <2>1. cumul' \in Int
    <3>. HIDE DEF at, len
    <3>. QED
      BY <1>3, <1>4, <1>7
  <2>2. cues' = cues /\ cues # <<>> /\ (Ordered' <=> Ordered) /\ Len(cues) \in Nat
    BY <1>2 DEF timeline, Ordered, Inv, Timeline
  <2>. QED
    BY <1>2, <2>1, <2>2
<1>. QED
  BY <1>2, <1>11, <1>12, <1>13 DEF Inv

LEMMA TrailKeeps ==
    ASSUME Inv, Trail
    PROVE  Inv'
<1>1. pc = "lay" /\ pc' = "encode" /\ UNCHANGED timeline /\ cues # <<>> /\ cues' = cues
  BY DEF Trail, Inv, timeline
<1>. DEFINE last == Segment(i - 1).end
            c == Clip(0, last, length, cumul, length - last)
<1>2. CASE i > 1 /\ last < length
  <2>1. clips' = Append(clips, c)
    BY <1>2 DEF Trail
  <2>2. last \in Int
    BY <1>1, <1>2, SegmentEnd DEF Inv
  <2>3. c \in Pieces /\ c.cue = 0
    <3>. HIDE DEF last
    <3>. QED
      BY <1>1, <2>2 DEF Clip, Pieces, Inv, Timeline
  <2>. HIDE DEF c
  <2>4. clips' = clips \o <<c>> /\ <<c>> \in Seq(Pieces)
    BY <2>1, <2>3 DEF Inv
  <2>6. \A m \in 1..Len(<<c>>) : ~(<<c>>[m].cue > 0)
    BY <2>3
  <2>5. InPlace' /\ clips' \in Seq(Pieces) /\ Timeline'
    BY <1>1, <2>4, <2>6, PiecesAdded
  <2>. QED
    BY <1>1, <2>5 DEF Inv
<1>3. CASE ~(i > 1 /\ last < length)
  <2>1. UNCHANGED clips
    BY <1>3 DEF Trail, videoPlan
  <2>. QED
    BY <1>1, <2>1, LaterKeeps
<1>. QED
  BY <1>2, <1>3

LEMMA Initially == Init => Inv
<1>. SUFFICES ASSUME Init PROVE Inv
  OBVIOUS
<1>1. cues = <<>> /\ adj = <<>> /\ clips = <<>> /\ cumul = 0 /\ i = 1 /\ pc = "speak" /\ offset = 0
      /\ length \in Nat
  BY RetimeAssumption DEF Init
<1>2. cues \in Seq(Spans) /\ adj \in Seq(Spans) /\ clips \in Seq(Pieces) /\ Len(cues) = 0
      /\ Len(adj) = 0 /\ Len(clips) = 0
  BY <1>1
<1>3. Timeline
  BY <1>1, <1>2 DEF Timeline
<1>4. InPlace
  BY <1>2 DEF InPlace
<1>. QED
  BY <1>1, <1>2, <1>3, <1>4 DEF Inv

LEMMA Inductive ==
    ASSUME Inv, [Next]_vars
    PROVE  Inv'
<1>1. CASE EncodeBatch \/ Concat \/ Finish \/ ZhLead \/ ZhLay \/ ZhTrail
  <2>1. UNCHANGED <<timeline, clips>> /\ pc # "speak" /\ pc' \notin {"speak", "check", "lead", "lay"}
    BY <1>1 DEF EncodeBatch, Concat, Finish, ZhLead, ZhLay, ZhTrail, videoPlan
  <2>. QED
    BY <2>1, LaterKeeps
<1>2. CASE UNCHANGED vars
  <2>1. UNCHANGED <<timeline, clips>> /\ UNCHANGED <<pc, i, cumul>>
    BY <1>2 DEF vars, timeline
  <2>2. Loop' <=> Loop
    BY <2>1 DEF Loop, Valid, Target, Uncapped, timeline
  <2>. QED
    BY <2>1, <2>2, SamePlan DEF Inv
<1>. QED
  BY <1>1, <1>2, SpeakKeeps, EarlyKeeps, LeadKeeps, LayKeeps, TrailKeeps DEF Next

\* InPlace: in every video the pictures of a cue start no later than its
\* speech, and exactly with it as long as no cue before needed more than the
\* stretch allows.
THEOREM PicturesInPlace == Spec => []InPlace
<1>1. Inv => InPlace
  BY DEF Inv
<1>. QED
  BY <1>1, Initially, Inductive, PTL DEF Spec
-----------------------------------------------------------------------------
(* Nothing of the video is left out                                        *)

\* Each piece starts where the one before it ends, or before, and goes on.
Joined(s) ==
    \A n \in 2..Len(s) : s[n].start <= s[n - 1].end /\ s[n].end >= s[n - 1].end

\* Up to where the cues laid so far have used the source.
Reached == IF i = 1 THEN cues[1].start ELSE Segment(i - 1).end

\* The cut list so far is a cover of the source up to the last cue laid, and
\* in the end of all of it.
Covers ==
    /\ pc = "lay" =>
          /\ clips = <<>> => i = 1 /\ (Valid(1) => cues[1].start = 0)
          /\ clips # <<>> => /\ Joined(clips)
                             /\ clips[1].start = 0 /\ clips[Len(clips)].end = Reached
                             /\ Valid(IF i = 1 THEN 1 ELSE i - 1)
    /\ pc \notin {"speak", "check", "lead", "lay"} /\ clips # <<>> =>
          /\ Joined(clips)
          /\ clips[1].start = 0 /\ clips[Len(clips)].end = length

Cover == Ordered => Covers

LEMMA JoinedOn ==
    ASSUME NEW old \in Seq(Pieces), NEW new \in Seq(Pieces), old # <<>>, new # <<>>,
           Joined(old), Joined(new),
           new[1].start <= old[Len(old)].end, old[Len(old)].end <= new[1].end
    PROVE  /\ old \o new \in Seq(Pieces) /\ old \o new # <<>> /\ Joined(old \o new)
           /\ (old \o new)[1] = old[1]
           /\ (old \o new)[Len(old \o new)] = new[Len(new)]
<1>. DEFINE all == old \o new
<1>1. PICK a \in Nat : a = Len(old)
  OBVIOUS
<1>2. PICK b \in Nat : b = Len(new)
  OBVIOUS
<1>3. a > 0 /\ b > 0
  BY <1>1, <1>2
<1>4. /\ all \in Seq(Pieces) /\ Len(all) = a + b
      /\ \A n \in 1..a : all[n] = old[n]
      /\ \A n \in (a + 1)..(a + b) : all[n] = new[n - a]
  BY <1>1, <1>2
<1>. HIDE DEF all
<1>5. all[1] = old[1]
  BY <1>3, <1>4
<1>6. all[a + b] = new[b]
  <2>1. a + b \in (a + 1)..(a + b) /\ a + b - a = b
    BY <1>3
  <2>. QED
    BY <2>1, <1>4
<1>7. Joined(all)
  <2>. SUFFICES ASSUME NEW n \in 2..(a + b)
                PROVE  all[n].start <= all[n - 1].end /\ all[n].end >= all[n - 1].end
    BY <1>4 DEF Joined
  <2>1. CASE n <= a
    <3>1. n \in 2..a /\ n \in 1..a /\ n - 1 \in 1..a
      BY <2>1
    <3>. QED
      BY <3>1, <1>1, <1>4 DEF Joined
  <2>2. CASE n = a + 1
    <3>1. n \in (a + 1)..(a + b) /\ n - 1 \in 1..a /\ n - a = 1 /\ n - 1 = a
      BY <2>2, <1>3
    <3>2. all[n] = new[1] /\ all[n - 1] = old[a]
      BY <3>1, <1>4
    <3>3. new[1] \in Pieces /\ old[a] \in Pieces
      BY <1>1, <1>2, <1>3
    <3>. QED
      BY <3>2, <3>3, <1>1 DEF Pieces
  <2>3. CASE n > a + 1
    <3>1. /\ n \in (a + 1)..(a + b) /\ n - 1 \in (a + 1)..(a + b)
          /\ n - a \in 2..b /\ n - 1 - a = (n - a) - 1
      BY <2>3
    <3>2. all[n] = new[n - a] /\ all[n - 1] = new[(n - a) - 1]
      BY <3>1, <1>4
    <3>. QED
      BY <3>1, <3>2, <1>2 DEF Joined
  <2>. QED
    BY <2>1, <2>2, <2>3
<1>8. all # <<>>
  BY <1>3, <1>4
<1>. QED
  BY <1>2, <1>4, <1>5, <1>6, <1>7, <1>8 DEF all

\* The clamp keeps a cue inside the video.
LEMMA SegmentInside ==
    ASSUME Timeline, NEW k \in 1..Len(cues)
    PROVE  Segment(k).end <= length
<1>0. cues[k] \in Spans /\ length \in Nat
  BY DEF Timeline
<1>1. cues[k].end \in Nat /\ length \in Nat
  BY <1>0 DEF Spans
<1>2. CASE cues[k].end - length <= 0
  BY <1>1, <1>2 DEF Segment
<1>3. CASE ~(cues[k].end - length <= 0)
  <2>1. Segment(k).end = length
    BY <1>3, Zenon DEF Segment
  <2>. QED
    BY <1>1, <2>1
<1>. QED
  BY <1>2, <1>3

\* The piece between two cues starts at the end of the first, or a tick
\* before, and ends at the start of the second; without one the cues touch.
LEMMA GapCovers ==
    ASSUME Timeline, Ordered, cumul \in Int, NEW k \in 2..Len(cues), Valid(k)
    PROVE  LET prev == Segment(k - 1).end
           IN  /\ prev \in Nat /\ prev <= cues[k].start
               /\ \/ Gap(k) = <<>> /\ prev = cues[k].start
                  \/ \E g \in Pieces : /\ Gap(k) = <<g>>
                                        /\ g.start <= prev /\ g.end = cues[k].start
<1>. DEFINE j == k - 1
            prev == Segment(j).end
            needed == adj[k].start - cumul
            gap == cues[k].start - prev
            from == IF gap > 0 THEN prev ELSE Higher(0, prev - 1)
            to == IF gap > 0 THEN cues[k].start ELSE prev
            l == Clamp(needed, 0, GapCap * (to - from))
            g == Clip(0, from, to, cumul, l)
<1>1. j \in 1..Len(cues) /\ k \in 1..Len(cues) /\ j + 1 = k
  BY DEF Timeline
<1>2. /\ cues[j] \in Spans /\ cues[k] \in Spans /\ length \in Nat
      /\ cues[j].start <= cues[j].end /\ cues[j].end <= cues[k].start
      /\ cues[k].start < length
  BY <1>1 DEF Timeline, Ordered, Valid
<1>3. cues[j].start \in Nat /\ cues[j].end \in Nat /\ cues[k].start \in Nat
  BY <1>2 DEF Spans
<1>4. Valid(j)
  BY <1>1, <1>2, <1>3 DEF Valid, Timeline
<1>5. prev \in Nat /\ prev <= cues[k].start
  <2>1. prev \in Nat /\ prev <= cues[j].end
    BY <1>1, <1>4, SegmentFacts
  <2>. HIDE DEF prev
  <2>. QED
    BY <2>1, <1>2, <1>3
<1>6. Gap(k) = IF k > 1 /\ (gap > 0 \/ needed > 0) /\ to > from THEN <<g>> ELSE <<>>
  BY DEF Gap
<1>7. CASE Gap(k) = <<>>
  <2>1. gap > 0 => to > from
    <3>. HIDE DEF prev
    <3>. QED
      BY <1>3, <1>5
  <2>2. \A x : <<x>> # <<>>
    OBVIOUS
  <2>3. ~(gap > 0)
    <3>. HIDE DEF gap, to, from, g, needed
    <3>. QED
      BY <1>1, <1>6, <1>7, <2>1, <2>2
  <2>4. prev = cues[k].start
    <3>. HIDE DEF prev
    <3>. QED
      BY <2>3, <1>3, <1>5
  <2>. QED
    BY <1>5, <1>7, <2>4
<1>8. CASE Gap(k) # <<>>
  <2>1. Gap(k) = <<g>>
    BY <1>6, <1>8
  <2>2. PICK h \in Pieces : Gap(k) = <<h>>
    BY <1>1, <1>8, GapShape
  <2>3. <<g>>[1] = g /\ <<h>>[1] = h
    OBVIOUS
  <2>4. g = h
    <3>. HIDE DEF g
    <3>. QED
      BY <2>1, <2>2, <2>3
  <2>5. g.start = from /\ g.end = to
    <3>. HIDE DEF from, to, l
    <3>. QED
      BY DEF Clip
  <2>6. from <= prev /\ to = cues[k].start
    <3>. HIDE DEF prev
    <3>. QED
      BY <1>3, <1>5 DEF Higher
  <2>. QED
    BY <1>5, <2>1, <2>2, <2>4, <2>5, <2>6
<1>. QED
  BY <1>7, <1>8

LEMMA LeadCovers ==
    ASSUME Inv, Lead
    PROVE  Cover'
<1>1. /\ clips = <<>> /\ i = 1 /\ i' = 1 /\ cues # <<>> /\ pc' = "lay" /\ UNCHANGED timeline
  BY DEF Lead, Inv
<1>2. Len(cues) \in Nat /\ Len(cues) > 0
  BY <1>1 DEF Inv, Timeline
<1>3. cues[1].start \in Nat /\ adj[1].start = cues[1].start
  <2>1. cues[1] \in Spans /\ adj[1].start = cues[1].start
    BY <1>2 DEF Inv, Timeline
  <2>. QED
    BY <2>1 DEF Spans
<1>4. (Valid(1)' <=> Valid(1)) /\ cues' = cues
  BY <1>1 DEF Valid, timeline
<1>. DEFINE c == Clip(0, 0, cues[1].start, 0, adj[1].start)
<1>5. CASE Valid(1) /\ cues[1].start > 0 /\ adj[1].start > 0
  <2>1. clips' = <<c>>
    BY <1>5 DEF Lead
  <2>2. c.start = 0 /\ c.end = cues[1].start
    BY DEF Clip
  <2>. HIDE DEF c
  <2>3. Len(clips') = 1 /\ clips'[1] = c /\ clips' # <<>>
    BY <2>1
  <2>4. Joined(clips')
    BY <2>3 DEF Joined
  <2>5. Reached' = cues[1].start
    BY <1>1, <1>4 DEF Reached
  <2>. QED
    BY <1>1, <1>4, <1>5, <2>2, <2>3, <2>4, <2>5 DEF Cover, Covers
<1>6. CASE ~(Valid(1) /\ cues[1].start > 0 /\ adj[1].start > 0)
  <2>1. clips' = <<>>
    BY <1>1, <1>6 DEF Lead, videoPlan
  <2>2. Valid(1) => cues[1].start = 0
    BY <1>3, <1>6
  <2>. QED
    BY <1>1, <1>4, <2>1, <2>2 DEF Cover, Covers
<1>. QED
  BY <1>5, <1>6

LEMMA LayCovers ==
    ASSUME Inv, Cover, Lay
    PROVE  Cover'
<1>0. PICK k \in 1..Len(cues) : k = i
  BY DEF Lay, Inv, Valid, Timeline
<1>1. /\ pc = "lay" /\ pc' = "lay" /\ Valid(k) /\ i' = k + 1 /\ UNCHANGED timeline
      /\ cumul \in Int /\ Timeline /\ clips \in Seq(Pieces) /\ k \in Nat /\ k > 0
  BY <1>0 DEF Lay, Inv, Timeline
<1>2. /\ Ordered' <=> Ordered
      /\ Valid(k)' <=> Valid(k)
      /\ Segment(k)' = Segment(k) /\ cues' = cues
  BY <1>1 DEF Ordered, Valid, timeline, Segment, Dur
<1>. SUFFICES ASSUME Ordered PROVE Covers'
  BY <1>2 DEF Cover
<1>. DEFINE s == Segment(k)
            gap == Gap(k)
            at == IF gap = <<>> THEN cumul ELSE cumul + gap[1].len
            len == IF Dur(s) > 0 THEN Clamp(s.to - s.from, Dur(s), SubCap * Dur(s)) ELSE 0
            c == Clip(k, s.start, s.end, at, len)
            new == Append(gap, c)
<1>3. clips' = clips \o new
  BY <1>0 DEF Lay
<1>4. /\ s.start = cues[k].start /\ s.start \in Nat /\ s.end \in Nat /\ s.start <= s.end
  <2>1. cues[k] \in Spans
    BY <1>1 DEF Timeline
  <2>. QED
    BY <2>1, <1>1, SegmentFacts DEF Spans
<1>5. c.start = s.start /\ c.end = s.end
  <2>. HIDE DEF s, at, len
  <2>. QED
    BY DEF Clip
<1>6. c \in Pieces
  <2>1. len \in Nat
    BY <1>1, LengthFacts
  <2>2. at \in Int
    <3>1. CASE gap = <<>>
      BY <3>1, <1>1
    <3>2. CASE gap # <<>>
      <4>1. PICK g \in Pieces : gap = <<g>>
        BY <1>1, <3>2, GapShape
      <4>2. gap[1] = g /\ g.len \in Int
        BY <4>1 DEF Pieces
      <4>. QED
        BY <4>2, <3>2, <1>1
    <3>. QED
      BY <3>1, <3>2
  <2>. HIDE DEF s, at, len
  <2>. QED
    BY <1>1, <1>4, <2>1, <2>2 DEF Clip, Pieces
<1>7. Reached' = s.end /\ ~(i' = 1) /\ i' - 1 = k
  BY <1>1, <1>2 DEF Reached
<1>. DEFINE Good(t) == /\ t # <<>> /\ Joined(t)
                       /\ t[1].start = 0 /\ t[Len(t)].end = s.end
<1>8. Good(clips \o new) => Covers'
  <2>. HIDE DEF new, s
  <2>. QED
    BY <1>1, <1>2, <1>3, <1>7 DEF Covers, s
<1>9. CASE clips = <<>>
  <2>1. k = 1 /\ cues[1].start = 0
    BY <1>0, <1>1, <1>9 DEF Cover, Covers
  <2>2. gap = <<>>
    BY <2>1 DEF Gap
  <2>. HIDE DEF c, gap, s
  <2>3. clips \o new = <<c>>
    BY <1>9, <2>2, <1>6
  <2>4. <<c>> # <<>> /\ Len(<<c>>) = 1 /\ <<c>>[1] = c
    OBVIOUS
  <2>5. Joined(<<c>>)
    BY <2>4 DEF Joined
  <2>. HIDE DEF new
  <2>. QED
    BY <1>4, <1>5, <1>8, <2>1, <2>3, <2>4, <2>5
<1>10. CASE clips # <<>>
  <2>. DEFINE old == clips[Len(clips)].end
  <2>1. Joined(clips) /\ clips[1].start = 0 /\ old = Reached
    BY <1>1, <1>10 DEF Cover, Covers
  <2>. HIDE DEF old
  <2>2. /\ old \in Nat /\ old <= cues[k].start
        /\ \/ gap = <<>> /\ old = cues[k].start
           \/ \E g \in Pieces : gap = <<g>> /\ g.start <= old /\ g.end = cues[k].start
    <3>1. CASE k = 1
      <4>1. gap = <<>>
        BY <3>1 DEF Gap
      <4>2. old = cues[k].start
        BY <1>0, <2>1, <3>1 DEF Reached
      <4>. QED
        BY <4>1, <4>2, <1>4
    <3>2. CASE k # 1
      <4>1. k \in 2..Len(cues) /\ old = Segment(k - 1).end
        BY <1>0, <1>1, <2>1, <3>2 DEF Reached
      <4>. QED
        BY <4>1, <1>1, GapCovers
    <3>. QED
      BY <3>1, <3>2
  <2>3. /\ new \in Seq(Pieces) /\ new # <<>> /\ Joined(new)
        /\ new[1].start <= old /\ old <= new[1].end /\ new[Len(new)].end = s.end
    <3>. HIDE DEF c, gap, s
    <3>1. CASE gap = <<>> /\ old = cues[k].start
      <4>1. new = <<c>>
        BY <3>1, <1>6
      <4>2. Len(<<c>>) = 1 /\ <<c>>[1] = c /\ <<c>> # <<>> /\ <<c>> \in Seq(Pieces)
        BY <1>6
      <4>3. Joined(<<c>>)
        BY <4>2 DEF Joined
      <4>. HIDE DEF new
      <4>. QED
        BY <3>1, <4>1, <4>2, <4>3, <1>4, <1>5
    <3>2. ASSUME NEW g \in Pieces, gap = <<g>>, g.start <= old, g.end = cues[k].start
          PROVE  /\ new \in Seq(Pieces) /\ new # <<>> /\ Joined(new)
                 /\ new[1].start <= old /\ old <= new[1].end /\ new[Len(new)].end = s.end
      <4>1. /\ new \in Seq(Pieces) /\ Len(new) = 2 /\ new[1] = g /\ new[2] = c /\ new # <<>>
        BY <3>2, <1>6
      <4>. HIDE DEF new
      <4>2. Joined(new)
        <5>1. c.start <= g.end /\ c.end >= g.end
          BY <3>2, <1>4, <1>5
        <5>. SUFFICES ASSUME NEW n \in 2..2
                      PROVE  new[n].start <= new[n - 1].end /\ new[n].end >= new[n - 1].end
          BY <4>1 DEF Joined
        <5>2. n = 2 /\ n - 1 = 1
          OBVIOUS
        <5>. QED
          BY <5>1, <5>2, <4>1
      <4>. QED
        BY <3>2, <4>1, <4>2, <2>2, <1>5
    <3>. QED
      BY <2>2, <3>1, <3>2
  <2>. HIDE DEF new, s
  <2>4. /\ clips \o new # <<>> /\ Joined(clips \o new)
        /\ (clips \o new)[1] = clips[1]
        /\ (clips \o new)[Len(clips \o new)] = new[Len(new)]
    BY <1>1, <1>10, <2>1, <2>3, JoinedOn DEF old
  <2>. QED
    BY <1>8, <2>1, <2>3, <2>4
<1>. QED
  BY <1>9, <1>10

LEMMA TrailCovers ==
    ASSUME Inv, Cover, Trail
    PROVE  Cover'
<1>1. /\ pc = "lay" /\ pc' = "encode" /\ UNCHANGED timeline /\ ~Valid(i)
      /\ i \in 1..(Len(cues) + 1) /\ clips \in Seq(Pieces) /\ length' = length /\ length \in Nat
      /\ Len(cues) \in Nat /\ Timeline /\ cumul \in Int
  BY DEF Trail, Inv, timeline, Timeline
<1>2. Ordered' <=> Ordered
  BY <1>1 DEF Ordered, timeline
<1>. SUFFICES ASSUME Ordered, clips' # <<>>
              PROVE  Joined(clips') /\ clips'[1].start = 0 /\ clips'[Len(clips')].end = length
  BY <1>1, <1>2 DEF Cover, Covers
<1>. DEFINE last == Segment(i - 1).end
            c == Clip(0, last, length, cumul, length - last)
<1>3. clips # <<>> => i > 1
  BY <1>1 DEF Cover, Covers
<1>4. clips = <<>> => i = 1
  BY <1>1 DEF Cover, Covers
<1>5. CASE i > 1
  <2>1. i - 1 \in 1..Len(cues)
    BY <1>1, <1>5
  <2>2. last \in Nat /\ last <= length
    BY <1>1, <2>1, SegmentEnd, SegmentInside
  <2>3. clips # <<>> /\ Joined(clips) /\ clips[1].start = 0 /\ clips[Len(clips)].end = last
    BY <1>1, <1>4, <1>5 DEF Cover, Covers, Reached
  <2>4. CASE last < length
    <3>1. clips' = Append(clips, c)
      BY <1>5, <2>4 DEF Trail
    <3>. HIDE DEF last
    <3>2. c \in Pieces /\ c.start = last /\ c.end = length
      BY <1>1, <2>2 DEF Clip, Pieces
    <3>. HIDE DEF c
    <3>. DEFINE one == <<c>>
    <3>3. /\ clips' = clips \o one /\ one \in Seq(Pieces) /\ Len(one) = 1 /\ one[1] = c
          /\ one # <<>>
      BY <1>1, <3>1, <3>2
    <3>. HIDE DEF one
    <3>4. Joined(one)
      BY <3>3 DEF Joined
    <3>5. one[1].start <= clips[Len(clips)].end /\ clips[Len(clips)].end <= one[1].end
      BY <1>1, <2>2, <2>3, <2>4, <3>2, <3>3
    <3>6. clips \in Seq(Pieces) /\ clips # <<>> /\ Joined(clips)
      BY <1>1, <2>3
    <3>7. /\ Joined(clips \o one) /\ (clips \o one)[1] = clips[1]
          /\ (clips \o one)[Len(clips \o one)] = one[Len(one)]
      BY <3>3, <3>4, <3>5, <3>6, JoinedOn
    <3>. QED
      BY <2>3, <3>2, <3>3, <3>7
  <2>5. CASE ~(last < length)
    <3>1. clips' = clips
      BY <2>5 DEF Trail, videoPlan
    <3>2. last = length
      <4>. HIDE DEF last
      <4>. QED
        BY <1>1, <2>2, <2>5
    <3>. QED
      BY <2>3, <3>1, <3>2
  <2>. QED
    BY <2>4, <2>5
<1>6. CASE ~(i > 1)
  <2>1. clips' = clips
    BY <1>6 DEF Trail, videoPlan
  <2>. QED
    BY <1>3, <1>6, <2>1
<1>. QED
  BY <1>5, <1>6

LEMMA CoverKept ==
    ASSUME Inv, Cover, [Next]_vars
    PROVE  Cover'
<1>1. CASE Speak \/ Spoken \/ Check
  <2>1. clips = <<>> /\ clips' = clips /\ pc' # "lay"
    BY <1>1 DEF Speak, Spoken, Check, Inv, videoPlan
  <2>. QED
    BY <2>1 DEF Cover, Covers
<1>2. CASE EncodeBatch \/ Concat \/ Finish \/ ZhLead \/ ZhLay \/ ZhTrail
  <2>1. UNCHANGED <<timeline, clips>> /\ pc \notin {"speak", "check", "lead", "lay"}
        /\ pc' \notin {"speak", "check", "lead", "lay"}
    BY <1>2 DEF EncodeBatch, Concat, Finish, ZhLead, ZhLay, ZhTrail, videoPlan
  <2>. QED
    BY <2>1 DEF Cover, Covers, timeline, Ordered
<1>3. CASE UNCHANGED vars
  BY <1>3 DEF Cover, Covers, vars, timeline, Ordered, Reached, Valid, Segment, Dur
<1>. QED
  BY <1>1, <1>2, <1>3, LeadCovers, LayCovers, TrailCovers DEF Next

\* NothingSkipped: in every video the pieces of the cut list leave no part of
\* the source out, from its first picture to its last, and never go back
\* behind what a piece before has shown.
THEOREM WholeVideoShown == Spec => []NothingSkipped
<1>1. Init => Cover
  BY DEF Init, Cover, Covers
<1>2. Cover => NothingSkipped
  BY DEF Cover, Covers, NothingSkipped, Joined
<1>. QED
  BY <1>1, <1>2, Initially, Inductive, CoverKept, PTL DEF Spec
-----------------------------------------------------------------------------
(* The type.  That the output file has a length needs the clips in order:  *)
(* the designed length of a batch is a difference of two places.           *)

\* The clips of s play one after another, the last one up to at.
Laid(s, at) ==
    /\ \A n \in 1..Len(s) : s[n].pos + s[n].len <= at
    /\ \A m, n \in 1..Len(s) : m < n => s[m].pos + s[m].len <= s[n].pos

\* One adjusted cue ends last.
LastOne == adj # <<>> => \E k \in DOMAIN adj : \A j \in DOMAIN adj : adj[j].end <= adj[k].end

Shape ==
    /\ pc \in {"speak", "check", "lead", "lay", "encode", "correct", "zhLead",
               "zh", "done", "failed"}
    /\ i \in Nat \ {0} /\ Len(cues) <= MaxCues
    /\ cumul \in Nat /\ clips \in Seq(Clips) /\ Laid(clips, cumul)
    /\ shown \in Nat
    /\ zh \in Seq(Clips) /\ zhCumul \in Nat
    /\ LastOne

LEMMA NoCue == 0 \in 0..MaxCues
BY RetimeAssumption

LEMMA OneMore ==
    ASSUME NEW s \in Seq(Clips), NEW at \in Nat, Laid(s, at), NEW c \in Clips, c.pos = at
    PROVE  /\ Append(s, c) \in Seq(Clips)
           /\ at + c.len \in Nat /\ Laid(Append(s, c), at + c.len)
<1>0. PICK l \in Nat : l = Len(s)
  OBVIOUS
<1>1. c.len \in Nat /\ c.pos \in Nat
  BY DEF Clips
<1>. DEFINE t == Append(s, c)
<1>2. /\ t \in Seq(Clips) /\ Len(t) = l + 1 /\ t[l + 1] = c
      /\ \A n \in 1..l : t[n] = s[n] /\ s[n] \in Clips
  BY <1>0
<1>. HIDE DEF t
<1>3. \A n \in 1..l : s[n].pos \in Nat /\ s[n].len \in Nat
  BY <1>2 DEF Clips
<1>4. ASSUME NEW n \in 1..(l + 1) PROVE t[n].pos + t[n].len <= at + c.len
  <2>1. CASE n = l + 1
    BY <2>1, <1>1, <1>2
  <2>2. CASE n # l + 1
    <3>1. n \in 1..l
      BY <2>2
    <3>2. s[n].pos + s[n].len <= at
      BY <3>1, <1>0 DEF Laid
    <3>3. t[n] = s[n] /\ s[n].pos + s[n].len \in Nat
      BY <3>1, <1>2, <1>3
    <3>. QED
      BY <3>2, <3>3, <1>1
  <2>. QED
    BY <2>1, <2>2
<1>5. ASSUME NEW m \in 1..(l + 1), NEW n \in 1..(l + 1), m < n
      PROVE  t[m].pos + t[m].len <= t[n].pos
  <2>1. m \in 1..l
    BY <1>5
  <2>2. CASE n = l + 1
    BY <2>1, <2>2, <1>0, <1>2 DEF Laid
  <2>3. CASE n # l + 1
    <3>1. n \in 1..l
      BY <2>3
    <3>. QED
      BY <2>1, <3>1, <1>0, <1>2, <1>5 DEF Laid
  <2>. QED
    BY <2>2, <2>3
<1>6. Laid(t, at + c.len)
  BY <1>2, <1>4, <1>5 DEF Laid
<1>. QED
  BY <1>1, <1>2, <1>6 DEF t

\* A cue behind the piece before it, if there is one.
LEMMA PairMore ==
    ASSUME NEW s \in Seq(Clips), NEW at \in Nat, Laid(s, at),
           NEW g \in Clips, g.pos = at, NEW c \in Clips, c.pos = at + g.len
    PROVE  /\ s \o Append(<<g>>, c) \in Seq(Clips)
           /\ at + g.len + c.len \in Nat /\ Laid(s \o Append(<<g>>, c), at + g.len + c.len)
<1>1. Append(s, g) \in Seq(Clips) /\ at + g.len \in Nat /\ Laid(Append(s, g), at + g.len)
  BY OneMore
<1>2. /\ Append(Append(s, g), c) \in Seq(Clips)
      /\ at + g.len + c.len \in Nat /\ Laid(Append(Append(s, g), c), at + g.len + c.len)
  BY <1>1, OneMore
<1>3. s \o Append(<<g>>, c) = Append(Append(s, g), c)
  <2>1. <<g>> \in Seq(Clips) /\ <<c>> \in Seq(Clips)
    OBVIOUS
  <2>2. Append(s, g) = s \o <<g>> /\ Append(<<g>>, c) = <<g>> \o <<c>>
    BY <2>1, AppendIsConcat
  <2>3. Append(Append(s, g), c) = Append(s, g) \o <<c>>
    BY <1>1, AppendIsConcat
  <2>. QED
    BY <2>1, <2>2, <2>3, ConcatAssociative
<1>. QED
  BY <1>2, <1>3

LEMMA ClampNat ==
    ASSUME NEW x \in Int, NEW lo \in Nat, NEW hi \in Nat
    PROVE  Clamp(x, lo, hi) \in Nat
BY DEF Clamp, Higher, Lower

LEMMA GapTyped ==
    ASSUME Timeline, cumul \in Nat, NEW k \in 1..Len(cues)
    PROVE  Gap(k) = <<>> \/ \E g \in Clips : Gap(k) = <<g>> /\ g.pos = cumul /\ g.start # g.end
<1>. DEFINE prev == Segment(k - 1).end
            gap == cues[k].start - prev
            needed == adj[k].start - cumul
            from == IF gap > 0 THEN prev ELSE Higher(0, prev - 1)
            to == IF gap > 0 THEN cues[k].start ELSE prev
            l == Clamp(needed, 0, GapCap * (to - from))
            g == Clip(0, from, to, cumul, l)
<1>1. CASE ~(k > 1 /\ (gap > 0 \/ needed > 0) /\ to > from)
  BY <1>1 DEF Gap
<1>2. CASE k > 1 /\ (gap > 0 \/ needed > 0) /\ to > from
  <2>1. Gap(k) = <<g>>
    BY <1>2 DEF Gap
  <2>2. k - 1 \in 1..Len(cues) /\ cues[k] \in Spans /\ adj[k] \in Spans
    BY <1>2 DEF Timeline
  <2>3. prev \in Nat /\ cues[k].start \in Nat /\ adj[k].start \in Nat
    BY <2>2, SegmentEnd DEF Spans
  <2>4. from \in Nat /\ to \in Nat
    <3>. HIDE DEF prev
    <3>. QED
      BY <2>3 DEF Higher
  <2>5. to - from \in Nat /\ needed \in Int
    <3>. HIDE DEF from, to
    <3>. QED
      BY <1>2, <2>3, <2>4
  <2>6. l \in Nat
    <3>. HIDE DEF from, to, needed
    <3>. QED
      BY <2>5, GapCapAtLeast, ClampNat
  <2>7. g \in Clips /\ g.pos = cumul /\ g.start # g.end
    <3>. HIDE DEF from, to, l
    <3>. QED
      BY <1>2, <2>4, <2>6, NoCue DEF Clip, Clips
  <2>. QED
    BY <2>1, <2>7
<1>. QED
  BY <1>1, <1>2

LEMMA ZhGapTyped ==
    ASSUME Timeline, zhCumul \in Nat, NEW k \in 1..Len(cues)
    PROVE  ZhGap(k) = <<>> \/ \E g \in Clips : ZhGap(k) = <<g>> /\ g.pos = zhCumul
<1>. DEFINE prev == cues[k - 1].end
            needed == adj[k].start - zhCumul
            piece == IF cues[k].start > prev
                       THEN [from |-> prev, to |-> Lower(cues[k].start, length)]
                       ELSE IF needed > 0
                         THEN [from |-> Higher(0, prev - 1), to |-> Lower(prev, length)]
                         ELSE [from |-> 0, to |-> 0]
            gap == piece.to - piece.from
            l == Clamp(needed, 0, GapCap * gap)
            g == Clip(0, piece.from, piece.to, zhCumul, l)
<1>1. CASE ~(k > 1 /\ gap > 0)
  BY <1>1 DEF ZhGap
<1>2. CASE k > 1 /\ gap > 0
  <2>1. ZhGap(k) = <<g>>
    BY <1>2 DEF ZhGap
  <2>2. k - 1 \in 1..Len(cues) /\ cues[k] \in Spans /\ adj[k] \in Spans /\ length \in Nat
    BY <1>2 DEF Timeline
  <2>3. cues[k - 1] \in Spans
    BY <2>2 DEF Timeline
  <2>4. prev \in Nat /\ cues[k].start \in Nat /\ adj[k].start \in Nat
    BY <2>2, <2>3 DEF Spans
  <2>5. piece.from \in Nat /\ piece.to \in Nat
    <3>. HIDE DEF prev, needed
    <3>1. /\ Lower(cues[k].start, length) \in Nat /\ Lower(prev, length) \in Nat
          /\ Higher(0, prev - 1) \in Nat
      BY <2>2, <2>4 DEF Lower, Higher
    <3>. QED
      BY <2>4, <3>1
  <2>6. gap \in Nat /\ needed \in Int
    <3>. HIDE DEF piece
    <3>. QED
      BY <1>2, <2>4, <2>5
  <2>7. l \in Nat
    <3>. HIDE DEF gap, needed
    <3>. QED
      BY <2>6, GapCapAtLeast, ClampNat
  <2>8. g \in Clips /\ g.pos = zhCumul
    <3>. HIDE DEF piece, l
    <3>. QED
      BY <2>5, <2>7, NoCue DEF Clip, Clips
  <2>. QED
    BY <2>1, <2>8
<1>. QED
  BY <1>1, <1>2

LEMMA AudioTyped ==
    ASSUME Timeline, LastOne, cues # <<>>
    PROVE  AudioLength \in Nat
<1>1. /\ Len(cues) \in Nat /\ Len(cues) > 0 /\ Len(adj) = Len(cues) /\ adj # <<>>
      /\ adj \in Seq(Spans) /\ offset \in Nat /\ DOMAIN adj = 1..Len(adj)
  BY DEF Timeline
<1>2. \A k \in DOMAIN adj : adj[k].end \in Nat
  <2>1. \A k \in DOMAIN adj : adj[k] \in Spans
    BY <1>1
  <2>. QED
    BY <2>1 DEF Spans
<1>3. cues[1] \in Spans /\ cues[Len(cues)] \in Spans
  BY <1>1 DEF Timeline
<1>. DEFINE o == OriginalTotal + offset
            ends == {adj[k].end : k \in DOMAIN adj} \cup {o}
<1>4. o \in Int
  BY <1>1, <1>3 DEF OriginalTotal, LastEnd, Spans
<1>5. PICK k \in DOMAIN adj : \A j \in DOMAIN adj : adj[j].end <= adj[k].end
  BY <1>1 DEF LastOne
<1>6. \E t \in ends : \A u \in ends : u <= t
  <2>. HIDE DEF o
  <2>1. CASE o <= adj[k].end
    BY <2>1, <1>2, <1>4, <1>5
  <2>2. CASE ~(o <= adj[k].end)
    BY <2>2, <1>2, <1>4, <1>5
  <2>. QED
    BY <2>1, <2>2
<1>7. (CHOOSE t \in ends : \A u \in ends : u <= t) \in ends
  <2>. HIDE DEF ends
  <2>. QED
    BY <1>6
<1>8. \A t \in ends : t \in Int
  <2>. HIDE DEF o
  <2>. QED
    BY <1>2, <1>4
<1>. DEFINE longest == CHOOSE t \in ends : \A u \in ends : u <= t
<1>9. longest \in Int
  BY <1>7, <1>8
<1>10. AudioLength = IF longest > 0 THEN longest ELSE 25
  BY DEF AudioLength
<1>. HIDE DEF longest
<1>. QED
  BY <1>9, <1>10

LEMMA SpeakShaped ==
    ASSUME Inv, Shape, Speak
    PROVE  Shape'
<1>1. PICK s \in Times, e \in Times, w \in WavLengths :
         /\ cues' = Append(cues, [start |-> s, end |-> e])
         /\ adj' = Append(adj, [start |-> s + offset, end |-> s + offset + w])
  BY DEF Speak
<1>. DEFINE a == [start |-> s + offset, end |-> s + offset + w]
<1>2. a \in Spans /\ a.end \in Nat
  <2>1. s \in Nat /\ w \in Nat /\ offset \in Nat
    BY RetimeAssumption DEF Inv, Timeline
  <2>. QED
    BY <2>1 DEF Spans
<1>. HIDE DEF a
<1>3. PICK n \in Nat : n = Len(adj)
  BY DEF Inv, Timeline
<1>4. adj \in Seq(Spans) /\ adj' = Append(adj, a)
  BY <1>1 DEF Inv, Timeline, a
<1>5. /\ adj' \in Seq(Spans) /\ Len(adj') = n + 1 /\ adj'[n + 1] = a
      /\ DOMAIN adj' = 1..(n + 1) /\ DOMAIN adj = 1..n
      /\ \A k \in 1..n : adj'[k] = adj[k] /\ adj[k].end \in Nat
  <2>1. /\ adj' \in Seq(Spans) /\ Len(adj') = n + 1 /\ adj'[n + 1] = a
        /\ DOMAIN adj' = 1..(n + 1) /\ DOMAIN adj = 1..n
        /\ \A k \in 1..n : adj'[k] = adj[k] /\ adj[k] \in Spans
    BY <1>2, <1>3, <1>4
  <2>. QED
    BY <2>1 DEF Spans
<1>6. LastOne'
  <2>. DEFINE Latest(k) == k \in 1..(n + 1) /\ \A j \in 1..(n + 1) : adj'[j].end <= adj'[k].end
  <2>1. SUFFICES \E k : Latest(k)
    BY <1>5 DEF LastOne
  <2>2. CASE n = 0
    <3>1. \A j \in 1..(n + 1) : j = n + 1
      BY <2>2
    <3>2. Latest(n + 1)
      BY <3>1, <1>2, <1>5
    <3>. QED
      BY <3>2
  <2>3. CASE n # 0
    <3>1. adj # <<>>
      BY <2>3, <1>3
    <3>2. PICK k \in 1..n : \A j \in 1..n : adj[j].end <= adj[k].end
      BY <3>1, <1>5 DEF Shape, LastOne
    <3>3. CASE a.end <= adj[k].end
      <4>1. \A j \in 1..(n + 1) : adj'[j].end <= adj'[k].end
        <5>. TAKE j \in 1..(n + 1)
        <5>1. j \in 1..n \/ j = n + 1
          OBVIOUS
        <5>. QED
          BY <5>1, <3>2, <3>3, <1>5
      <4>. QED
        BY <4>1
    <3>4. CASE ~(a.end <= adj[k].end)
      <4>1. \A j \in 1..(n + 1) : adj'[j].end <= adj'[n + 1].end
        <5>. TAKE j \in 1..(n + 1)
        <5>1. j \in 1..n \/ j = n + 1
          OBVIOUS
        <5>. QED
          BY <5>1, <3>2, <3>4, <1>2, <1>5
      <4>. QED
        BY <4>1
    <3>. QED
      BY <3>3, <3>4
  <2>. QED
    BY <2>2, <2>3
<1>7. Len(cues') <= MaxCues
  <2>1. /\ Len(cues) \in Nat /\ Len(cues) < MaxCues /\ Len(cues') = Len(cues) + 1
    BY <1>1 DEF Speak, Inv, Timeline
  <2>. QED
    BY <2>1, RetimeAssumption
<1>8. pc' = pc /\ i' = i /\ clips' = clips /\ cumul' = cumul /\ shown' = shown
      /\ zh' = zh /\ zhCumul' = zhCumul
  BY DEF Speak, videoPlan, zhPlan
<1>. QED
  BY <1>6, <1>7, <1>8 DEF Shape

LEMMA LeadShaped ==
    ASSUME Inv, Shape, Lead
    PROVE  Shape'
<1>1. /\ clips = <<>> /\ cues # <<>> /\ pc' = "lay" /\ UNCHANGED <<timeline, i, shown, zh, zhCumul>>
  BY DEF Lead, Inv, zhPlan
<1>2. cues[1] \in Spans /\ adj[1] \in Spans
  BY <1>1 DEF Inv, Timeline
<1>3. cues[1].start \in Nat /\ adj[1].start \in Nat
  BY <1>2 DEF Spans
<1>4. cumul' \in Nat /\ clips' \in Seq(Clips) /\ Laid(clips', cumul')
  <2>. DEFINE c == Clip(0, 0, cues[1].start, 0, adj[1].start)
  <2>1. CASE Valid(1) /\ cues[1].start > 0 /\ adj[1].start > 0
    <3>1. clips' = <<c>> /\ cumul' = adj[1].start
      BY <2>1 DEF Lead
    <3>2. c \in Clips /\ c.pos = 0 /\ c.len = adj[1].start
      BY <1>3, NoCue DEF Clip, Clips
    <3>. HIDE DEF c
    <3>3. /\ clips' \in Seq(Clips) /\ Len(clips') = 1
          /\ \A n \in 1..Len(clips') : clips'[n] = c /\ n = 1
      BY <3>1, <3>2
    <3>4. Laid(clips', cumul')
      BY <3>1, <3>2, <3>3, <1>3 DEF Laid
    <3>. QED
      BY <3>1, <3>3, <3>4, <1>3
  <2>2. CASE ~(Valid(1) /\ cues[1].start > 0 /\ adj[1].start > 0)
    BY <2>2 DEF Lead, videoPlan, Shape
  <2>. QED
    BY <2>1, <2>2
<1>. QED
  BY <1>1, <1>4 DEF Shape, timeline, LastOne

LEMMA LayShaped ==
    ASSUME Inv, Shape, Lay
    PROVE  Shape'
<1>1. PICK k \in 1..Len(cues) : k = i
  BY DEF Lay, Inv, Valid, Timeline
<1>2. /\ pc' = "lay" /\ Valid(k) /\ i' = k + 1 /\ UNCHANGED <<timeline, shown, zh, zhCumul>>
      /\ cumul \in Nat /\ clips \in Seq(Clips) /\ Laid(clips, cumul)
      /\ Timeline /\ k \in Nat /\ pc = "lay" /\ Len(cues) \in Nat /\ Len(cues) <= MaxCues
  BY <1>1 DEF Lay, Inv, Shape, zhPlan, Timeline
<1>. DEFINE s == Segment(k)
            gap == Gap(k)
            at == IF gap = <<>> THEN cumul ELSE cumul + gap[1].len
            len == IF Dur(s) > 0 THEN Clamp(s.to - s.from, Dur(s), SubCap * Dur(s)) ELSE 0
            c == Clip(k, s.start, s.end, at, len)
<1>3. clips' = clips \o Append(gap, c) /\ cumul' = at + len
  BY <1>1 DEF Lay
<1>4. len \in Nat
  BY <1>2, LengthFacts
<1>5. s.start \in Nat /\ s.end \in Nat
  <2>1. cues[k] \in Spans
    BY <1>2 DEF Timeline
  <2>. QED
    BY <2>1, <1>2, SegmentFacts DEF Spans
<1>6. k \in 0..MaxCues
  BY <1>2, RetimeAssumption
<1>7. cumul' \in Nat /\ clips' \in Seq(Clips) /\ Laid(clips', cumul')
  <2>1. at \in Nat => c \in Clips /\ c.pos = at /\ c.len = len
    <3>. HIDE DEF s, at, len
    <3>. QED
      BY <1>4, <1>5, <1>6 DEF Clip, Clips
  <2>2. CASE gap = <<>>
    <3>1. at = cumul
      BY <2>2
    <3>. HIDE DEF at, len, c, gap
    <3>2. c \in Clips /\ c.pos = cumul /\ c.len = len
      BY <3>1, <2>1, <1>2
    <3>3. clips \o Append(gap, c) = Append(clips, c)
      <4>1. Append(gap, c) = <<c>>
        BY <2>2
      <4>. QED
        BY <4>1, <3>2, <1>2, AppendIsConcat
    <3>. QED
      BY <3>1, <3>2, <3>3, <1>2, <1>3, OneMore
  <2>3. CASE gap # <<>>
    <3>1. PICK g \in Clips : gap = <<g>> /\ g.pos = cumul
      BY <1>2, <2>3, GapTyped
    <3>2. gap[1] = g /\ g.len \in Nat
      BY <3>1 DEF Clips
    <3>3. at = cumul + g.len /\ at \in Nat
      BY <2>3, <3>2, <1>2
    <3>. HIDE DEF at, len, c, gap
    <3>4. c \in Clips /\ c.pos = cumul + g.len /\ c.len = len
      BY <3>3, <2>1
    <3>. QED
      BY <3>1, <3>3, <3>4, <1>2, <1>3, PairMore
  <2>. QED
    BY <2>2, <2>3
<1>8. i' \in Nat \ {0}
  BY <1>2
<1>. QED
  BY <1>2, <1>7, <1>8 DEF Shape, timeline, LastOne

LEMMA TrailShaped ==
    ASSUME Inv, Shape, Trail
    PROVE  Shape'
<1>1. /\ pc = "lay" /\ pc' = "encode" /\ i' = 1 /\ UNCHANGED <<timeline, shown, zh, zhCumul>>
      /\ i \in 1..(Len(cues) + 1) /\ Len(cues) \in Nat /\ Timeline /\ length \in Nat
      /\ cumul \in Nat /\ clips \in Seq(Clips) /\ Laid(clips, cumul)
  BY DEF Trail, Inv, Shape, zhPlan, Timeline
<1>. DEFINE last == Segment(i - 1).end
            c == Clip(0, last, length, cumul, length - last)
<1>2. cumul' \in Nat /\ clips' \in Seq(Clips) /\ Laid(clips', cumul')
  <2>1. CASE i > 1 /\ last < length
    <3>1. clips' = Append(clips, c) /\ cumul' = cumul + (length - last)
      BY <2>1 DEF Trail
    <3>2. last \in Nat
      <4>1. i - 1 \in 1..Len(cues)
        BY <1>1, <2>1
      <4>. QED
        BY <4>1, <1>1, SegmentEnd
    <3>. HIDE DEF last
    <3>3. length - last \in Nat
      BY <1>1, <2>1, <3>2
    <3>4. c \in Clips /\ c.pos = cumul /\ c.len = length - last
      BY <1>1, <3>2, <3>3, NoCue DEF Clip, Clips
    <3>. HIDE DEF c
    <3>. QED
      BY <1>1, <3>1, <3>4, OneMore
  <2>2. CASE ~(i > 1 /\ last < length)
    <3>1. clips' = clips /\ cumul' = cumul
      BY <2>2 DEF Trail, videoPlan
    <3>. QED
      BY <3>1, <1>1
  <2>. QED
    BY <2>1, <2>2
<1>. QED
  BY <1>1, <1>2 DEF Shape, timeline, LastOne

\* The designed length of a batch is not negative.
LEMMA EncodeShaped ==
    ASSUME Inv, Shape, EncodeBatch
    PROVE  Shape'
<1>1. PICK l \in Nat : l = Len(clips)
  BY DEF Shape
<1>2. /\ clips \in Seq(Clips) /\ Laid(clips, cumul) /\ i \in Nat /\ i > 0 /\ i <= l /\ shown \in Nat
  BY <1>1 DEF Shape, EncodeBatch
<1>. DEFINE n == Lower(MaxBatch, l - i + 1)
            designed == clips[i + n - 1].pos + clips[i + n - 1].len - clips[i].pos
<1>3. n \in Nat /\ n > 0 /\ i + n - 1 \in i..l /\ i + n \in Nat \ {0}
  BY <1>2, RetimeAssumption DEF Lower
<1>4. designed \in Nat
  <2>1. PICK j \in i..l : j = i + n - 1
    BY <1>3
  <2>2. i \in 1..l /\ j \in 1..l
    BY <1>2
  <2>3. clips[i] \in Clips /\ clips[j] \in Clips
    BY <1>1, <1>2, <2>2
  <2>4. /\ clips[i].pos \in Nat /\ clips[i].len \in Nat
        /\ clips[j].pos \in Nat /\ clips[j].len \in Nat
    BY <2>3 DEF Clips
  <2>5. i < j => clips[i].pos + clips[i].len <= clips[j].pos
    BY <1>1, <1>2, <2>2 DEF Laid
  <2>6. clips[j].pos + clips[j].len - clips[i].pos \in Nat
    <3>1. CASE i = j
      BY <3>1, <2>4
    <3>2. CASE i < j
      BY <3>2, <2>4, <2>5
    <3>. QED
      BY <3>1, <3>2, <1>2
  <2>. QED
    BY <2>1, <2>6
<1>5. \/ /\ i' = i + n /\ pc' = pc
         /\ shown' = shown \/ \E extra \in {0, n} : shown' = shown + designed + extra
      \/ i' = i /\ pc' = "failed" /\ shown' = shown
  BY <1>1 DEF EncodeBatch
<1>6. UNCHANGED <<timeline, clips, cumul, zh, zhCumul>>
  BY DEF EncodeBatch, videoPlan, zhPlan
<1>. HIDE DEF n, designed
<1>7. shown' \in Nat /\ i' \in Nat \ {0} /\ (pc' = pc \/ pc' = "failed")
  BY <1>2, <1>3, <1>4, <1>5
<1>. QED
  BY <1>6, <1>7 DEF Shape, timeline, LastOne

LEMMA FinishShaped ==
    ASSUME Inv, Shape, Finish
    PROVE  Shape'
<1>1. AudioLength \in Nat
  BY AudioTyped DEF Finish, Inv, Shape
<1>2. shown \in Nat /\ cumul \in Nat
  BY DEF Shape
<1>3. shown' = Lower(cumul, AudioLength) \/ shown' = Lower(shown, AudioLength)
  BY DEF Finish
<1>4. shown' \in Nat
  BY <1>1, <1>2, <1>3 DEF Lower
<1>5. i' = 1 /\ pc' = "zhLead" /\ UNCHANGED <<timeline, clips, cumul, zh, zhCumul>>
  BY DEF Finish, videoPlan, zhPlan
<1>. QED
  BY <1>4, <1>5 DEF Shape, timeline, LastOne

LEMMA ZhLeadShaped ==
    ASSUME Inv, Shape, ZhLead
    PROVE  Shape'
<1>1. /\ cues # <<>> /\ pc' = "zh" /\ UNCHANGED <<timeline, i, clips, cumul, shown>>
  BY DEF ZhLead, Inv, videoPlan
<1>2. cues[1] \in Spans /\ adj[1] \in Spans /\ length \in Nat
  BY <1>1 DEF Inv, Timeline
<1>3. cues[1].start \in Nat /\ adj[1].start \in Nat
  BY <1>2 DEF Spans
<1>4. Lower(cues[1].start, length) \in Nat
  BY <1>2, <1>3 DEF Lower
<1>. DEFINE c == Clip(0, 0, Lower(cues[1].start, length), 0, adj[1].start)
<1>5. c \in Clips
  BY <1>3, <1>4, NoCue DEF Clip, Clips
<1>6. (zh' = <<c>> /\ zhCumul' = adj[1].start) \/ UNCHANGED <<zh, zhCumul>>
  BY DEF ZhLead, zhPlan
<1>. HIDE DEF c
<1>7. zh' \in Seq(Clips) /\ zhCumul' \in Nat
  <2>1. <<c>> \in Seq(Clips) /\ zh \in Seq(Clips) /\ zhCumul \in Nat
    BY <1>5 DEF Shape
  <2>. QED
    BY <2>1, <1>3, <1>6
<1>. QED
  BY <1>1, <1>7 DEF Shape, timeline, LastOne

LEMMA ZhLayShaped ==
    ASSUME Inv, Shape, ZhLay
    PROVE  Shape'
<1>1. PICK k \in 1..Len(cues) : k = i
  BY DEF ZhLay, Shape, Inv, Timeline
<1>2. /\ pc' = pc /\ i' = k + 1 /\ UNCHANGED <<timeline, clips, cumul, shown>>
      /\ Timeline /\ k \in Nat /\ Len(cues) \in Nat /\ Len(cues) <= MaxCues
      /\ zh \in Seq(Clips) /\ zhCumul \in Nat /\ length \in Nat /\ cues[k].start < length
  BY <1>1 DEF ZhLay, Inv, Shape, videoPlan, Timeline
<1>3. cues[k] \in Spans /\ adj[k] \in Spans /\ cues[k].start <= cues[k].end /\ adj[k].start <= adj[k].end
  BY <1>2 DEF Timeline
<1>. DEFINE end == Lower(cues[k].end, length)
            dur == end - cues[k].start
            gap == ZhGap(k)
            at == IF gap = <<>> THEN zhCumul ELSE zhCumul + gap[1].len
            len == IF dur > 0 THEN Clamp(Dur(adj[k]), dur, SubCap * dur) ELSE 0
            c == Clip(k, cues[k].start, end, at, len)
<1>4. zh' = zh \o Append(gap, c) /\ zhCumul' = at + len
  BY <1>1 DEF ZhLay
<1>5. /\ cues[k].start \in Nat /\ cues[k].end \in Nat /\ Dur(adj[k]) \in Nat
      /\ end \in Nat /\ dur \in Nat
  <2>1. cues[k].start \in Nat /\ cues[k].end \in Nat /\ Dur(adj[k]) \in Nat
    BY <1>3 DEF Spans, Dur
  <2>2. end \in Nat /\ cues[k].start <= end
    BY <2>1, <1>2, <1>3 DEF Lower
  <2>3. dur \in Nat
    <3>. HIDE DEF end
    <3>. QED
      BY <2>1, <2>2
  <2>. QED
    BY <2>1, <2>2, <2>3
<1>6. len \in Nat
  <2>1. SubCap * dur \in Nat
    BY <1>5, CapAtLeast
  <2>2. Clamp(Dur(adj[k]), dur, SubCap * dur) \in Nat
    <3>. DEFINE d == Dur(adj[k])
                m == SubCap * dur
    <3>1. m \in Nat /\ d \in Int
      BY <2>1, <1>5
    <3>. HIDE DEF m, d, dur
    <3>2. Clamp(d, dur, m) \in Nat
      BY <3>1, <1>5, ClampNat
    <3>. QED
      BY <3>2 DEF m, d
  <2>. QED
    BY <2>2
<1>7. gap = <<>> \/ \E g \in Clips : gap = <<g>> /\ g.pos = zhCumul
  BY <1>2, ZhGapTyped
<1>8. at \in Nat
  <2>1. CASE gap = <<>>
    BY <2>1, <1>2
  <2>2. CASE gap # <<>>
    <3>1. PICK g \in Clips : gap = <<g>>
      BY <1>7, <2>2
    <3>2. gap[1] = g /\ g.len \in Nat
      BY <3>1 DEF Clips
    <3>. QED
      BY <2>2, <3>2, <1>2
  <2>. QED
    BY <2>1, <2>2
<1>9. k \in 0..MaxCues
  BY <1>2, RetimeAssumption
<1>10. c \in Clips
  <2>. HIDE DEF end, at, len
  <2>. QED
    BY <1>5, <1>6, <1>8, <1>9 DEF Clip, Clips
<1>11. zh' \in Seq(Clips) /\ zhCumul' \in Nat
  <2>. HIDE DEF c, gap, at, len
  <2>1. gap \in Seq(Clips)
    <3>1. <<>> \in Seq(Clips) /\ \A g \in Clips : <<g>> \in Seq(Clips)
      OBVIOUS
    <3>. QED
      BY <3>1, <1>7
  <2>2. Append(gap, c) \in Seq(Clips)
    BY <2>1, <1>10
  <2>. QED
    BY <2>2, <1>2, <1>4, <1>6, <1>8, ConcatProperties
<1>. QED
  BY <1>2, <1>11 DEF Shape, timeline, LastOne

LEMMA ZhTrailShaped ==
    ASSUME Inv, Shape, ZhTrail
    PROVE  Shape'
<1>1. /\ pc' = "done" /\ UNCHANGED <<timeline, i, clips, cumul, shown>>
      /\ zh \in Seq(Clips) /\ zhCumul \in Nat /\ length \in Nat /\ cues # <<>>
  BY DEF ZhTrail, Inv, Shape, videoPlan, Timeline
<1>2. LastEnd \in Nat
  <2>1. cues[Len(cues)] \in Spans
    BY <1>1 DEF Inv, Timeline
  <2>. QED
    BY <2>1 DEF LastEnd, Spans
<1>. DEFINE c == Clip(0, LastEnd, length, zhCumul, length - LastEnd)
<1>3. zh' \in Seq(Clips) /\ zhCumul' \in Nat
  <2>1. CASE LastEnd < length
    <3>1. zh' = Append(zh, c) /\ zhCumul' = zhCumul + (length - LastEnd)
      BY <2>1 DEF ZhTrail
    <3>2. length - LastEnd \in Nat
      BY <1>1, <1>2, <2>1
    <3>3. c \in Clips
      BY <1>1, <1>2, <3>2, NoCue DEF Clip, Clips
    <3>. HIDE DEF c
    <3>. QED
      BY <1>1, <3>1, <3>2, <3>3
  <2>2. CASE ~(LastEnd < length)
    BY <1>1, <2>2 DEF ZhTrail, zhPlan
  <2>. QED
    BY <2>1, <2>2
<1>. QED
  BY <1>1, <1>3 DEF Shape, timeline, LastOne

LEMMA ShapeKept ==
    ASSUME Inv, Shape, [Next]_vars
    PROVE  Shape'
<1>1. CASE Spoken \/ Check \/ Concat
  <2>1. /\ UNCHANGED <<timeline, i, clips, cumul, shown, zh, zhCumul>>
        /\ pc' \in {pc, "check", "failed", "lead", "correct"}
    BY <1>1 DEF Spoken, Check, Concat, videoPlan, zhPlan
  <2>. QED
    BY <2>1 DEF Shape, timeline, LastOne
<1>2. CASE UNCHANGED vars
  BY <1>2 DEF Shape, vars, timeline, LastOne
<1>. QED
  BY <1>1, <1>2, SpeakShaped, LeadShaped, LayShaped, TrailShaped, EncodeShaped, FinishShaped,
     ZhLeadShaped, ZhLayShaped, ZhTrailShaped DEF Next

LEMMA InitShape == Init => Shape
<1>. SUFFICES ASSUME Init PROVE Shape
  OBVIOUS
<1>1. /\ pc = "speak" /\ i = 1 /\ cues = <<>> /\ adj = <<>> /\ clips = <<>> /\ zh = <<>>
      /\ cumul = 0 /\ shown = 0 /\ zhCumul = 0
  BY DEF Init
<1>2. Len(cues) = 0 /\ Len(clips) = 0 /\ clips \in Seq(Clips) /\ zh \in Seq(Clips)
  BY <1>1
<1>. QED
  BY <1>1, <1>2, RetimeAssumption DEF Shape, Laid, LastOne

\* TypeOK: whatever the times, even of cues that overlap or reach past the
\* end of the video, no clip of either plan has a negative length or place,
\* and the output file has a length.
THEOREM RetimeTypeCorrect == Spec => []TypeOK
<1>1. Inv /\ Shape => TypeOK
  BY DEF Inv, Timeline, Shape, TypeOK, Spans
<1>. QED
  BY <1>1, Initially, Inductive, InitShape, ShapeKept, PTL DEF Spec

-----------------------------------------------------------------------------
(* Induction on the natural numbers                                        *)

\* A set with 0 and the successor of each of its naturals holds every natural:
\* of the intervals 0..n, n not in the set, one is least under inclusion.
LEMMA SetInduction ==
    ASSUME NEW P, 0 \in P, \A n \in Nat : n \in P => n + 1 \in P
    PROVE  Nat \subseteq P
<1>. SUFFICES ASSUME ~(Nat \subseteq P) PROVE FALSE
  OBVIOUS
<1>. DEFINE R == StrictSubsetOrdering(Nat)
            F == FiniteSubsetsOf(Nat)
            I == {0..n : n \in Nat \ P}
<1>1. IsWellFoundedOn(R, F)
  BY FS_StrictSubsetOrderingWellFounded
<1>2. I \subseteq F /\ I # {}
  <2>1. \A n \in Nat : IsFiniteSet(0..n) /\ 0..n \subseteq Nat
    BY FS_Interval
  <2>. QED
    BY <2>1 DEF FiniteSubsetsOf
<1>3. PICK s \in I : \A t \in I : <<t, s>> \notin R
  <2>. HIDE DEF R, F, I
  <2>. QED
    BY <1>1, <1>2, WFMin
<1>4. PICK n \in Nat \ P : s = 0..n
  BY <1>3
<1>5. n # 0 /\ n - 1 \in Nat /\ (n - 1) + 1 = n /\ n - 1 \notin P
  BY <1>4
<1>6. 0..(n - 1) \subseteq 0..n /\ n \notin 0..(n - 1) /\ n \in 0..n
  BY <1>4, <1>5
<1>7. <<0..(n - 1), s>> \in R
  BY <1>4, <1>5, <1>6 DEF StrictSubsetOrdering
<1>. QED
  BY <1>3, <1>5, <1>7


\* The sums of d up to m, by the recursion of Missing.
Sums(f, d, m) == f = [n \in 0..m |-> IF n = 0 THEN 0 ELSE f[n - 1] + d[n]]

LEMMA SumsExist ==
    ASSUME NEW d, NEW m \in Nat
    PROVE  \E f : Sums(f, d, m)
<1>. DEFINE P == {j \in Nat : \E f : Sums(f, d, j)}
<1>1. 0 \in P
  <2>1. Sums([n \in 0..0 |-> 0], d, 0)
    BY DEF Sums
  <2>. QED
    BY <2>1
<1>2. ASSUME NEW j \in Nat, j \in P PROVE j + 1 \in P
  <2>1. PICK f : Sums(f, d, j)
    BY <1>2
  <2>. DEFINE g == [n \in 0..(j + 1) |-> IF n <= j THEN f[n] ELSE f[n - 1] + d[n]]
  <2>2. \A n \in 0..j : f[n] = IF n = 0 THEN 0 ELSE f[n - 1] + d[n]
    BY <2>1 DEF Sums
  <2>3. \A n \in 0..j : g[n] = f[n]
    OBVIOUS
  <2>4. \A n \in 0..(j + 1) : n # 0 => n - 1 \in 0..j
    OBVIOUS
  <2>5. ASSUME NEW n \in 0..(j + 1) PROVE g[n] = IF n = 0 THEN 0 ELSE g[n - 1] + d[n]
    <3>1. CASE n \in 0..j
      <4>. HIDE DEF g
      <4>. QED
        BY <3>1, <2>2, <2>3, <2>4
    <3>2. CASE n = j + 1
      <4>1. n # 0 /\ n - 1 \in 0..j /\ ~(n <= j)
        BY <3>2
      <4>2. g[n] = f[n - 1] + d[n]
        BY <4>1
      <4>. HIDE DEF g
      <4>. QED
        BY <4>1, <4>2, <2>3
    <3>. QED
      BY <3>1, <3>2
  <2>6. Sums(g, d, j + 1)
    <3>. g = [n \in 0..(j + 1) |-> g[n]]
      OBVIOUS
    <3>. HIDE DEF g
    <3>. QED
      BY <2>5 DEF Sums
  <2>. QED
    BY <2>6
<1>. HIDE DEF P
<1>3. Nat \subseteq P
  BY <1>1, <1>2, SetInduction
<1>. QED
  BY <1>3 DEF P

-----------------------------------------------------------------------------
(* Drift                                                                   *)

\* What the cap takes from cue n.
Lost(n) == IF n <= Len(adj) THEN Higher(0, Dur(adj[n]) - SubCap * Dur(cues[n])) ELSE 0

LEMMA MissingFacts ==
    ASSUME Timeline
    PROVE  /\ Missing[0] = 0
           /\ \A n \in 1..MaxCues : Lost(n) \in Nat /\ Missing[n] = Missing[n - 1] + Lost(n)
           /\ \A n \in 0..MaxCues : Missing[n] \in Nat
<1>0. MaxCues \in Nat
  BY RetimeAssumption
<1>. DEFINE d == [n \in 1..MaxCues |-> Lost(n)]
<1>1. \A n \in 1..MaxCues : Lost(n) \in Nat
  <2>. TAKE n \in 1..MaxCues
  <2>1. CASE n <= Len(adj)
    <3>1. n \in 1..Len(cues) /\ cues[n] \in Spans /\ adj[n] \in Spans /\ cues[n].start <= cues[n].end
      BY <2>1 DEF Timeline
    <3>2. Dur(adj[n]) \in Int /\ Dur(cues[n]) \in Nat
      BY <3>1 DEF Spans, Dur
    <3>3. SubCap * Dur(cues[n]) \in Nat
      BY <3>2, CapAtLeast
    <3>. QED
      BY <2>1, <3>2, <3>3 DEF Lost, Higher
  <2>2. CASE ~(n <= Len(adj))
    BY <2>2 DEF Lost
  <2>. QED
    BY <2>1, <2>2
<1>2. Missing = CHOOSE f : f = [n \in 0..MaxCues |-> IF n = 0 THEN 0 ELSE f[n - 1] + Lost(n)]
  BY DEF Missing, Lost
<1>3. \A f : (f = [n \in 0..MaxCues |-> IF n = 0 THEN 0 ELSE f[n - 1] + Lost(n)]) <=> Sums(f, d, MaxCues)
  <2>. TAKE f
  <2>1. [n \in 0..MaxCues |-> IF n = 0 THEN 0 ELSE f[n - 1] + Lost(n)]
        = [n \in 0..MaxCues |-> IF n = 0 THEN 0 ELSE f[n - 1] + d[n]]
    <3>1. \A n \in 0..MaxCues : n # 0 => d[n] = Lost(n)
      OBVIOUS
    <3>. HIDE DEF d
    <3>. QED
      BY <3>1
  <2>. QED
    BY <2>1 DEF Sums
<1>4. Sums(Missing, d, MaxCues)
  <2>1. \E f : Sums(f, d, MaxCues)
    BY <1>0, SumsExist
  <2>. HIDE DEF d
  <2>2. \E f : f = [n \in 0..MaxCues |-> IF n = 0 THEN 0 ELSE f[n - 1] + Lost(n)]
    BY <2>1, <1>3
  <2>. QED
    BY <1>2, <1>3, <2>2
<1>5. \A n \in 0..MaxCues : Missing[n] = IF n = 0 THEN 0 ELSE Missing[n - 1] + d[n]
  BY <1>4 DEF Sums
<1>6. Missing[0] = 0 /\ \A n \in 1..MaxCues : Missing[n] = Missing[n - 1] + Lost(n)
  <2>1. \A n \in 1..MaxCues : n \in 0..MaxCues /\ n # 0 /\ d[n] = Lost(n)
    OBVIOUS
  <2>2. 0 \in 0..MaxCues
    BY <1>0
  <2>. HIDE DEF d
  <2>. QED
    BY <1>5, <2>1, <2>2
<1>. DEFINE P == {n \in Nat : n <= MaxCues => Missing[n] \in Nat}
<1>7. 0 \in P
  BY <1>6
<1>8. ASSUME NEW n \in Nat, n \in P PROVE n + 1 \in P
  <2>. SUFFICES ASSUME n + 1 <= MaxCues PROVE Missing[n + 1] \in Nat
    OBVIOUS
  <2>1. n + 1 \in 1..MaxCues /\ (n + 1) - 1 = n /\ Missing[n] \in Nat
    BY <1>0, <1>8
  <2>. QED
    BY <1>1, <1>6, <2>1
<1>9. Nat \subseteq P
  <2>. HIDE DEF P
  <2>. QED
    BY <1>7, <1>8, SetInduction
<1>. QED
  BY <1>0, <1>1, <1>6, <1>9

\* Before it lays cue i the loop is early by what the cap has taken at most.
Drift ==
    Ordered =>
      /\ pc = "lay" /\ i > 1 /\ cues[i - 1].end <= length =>
            Target(i - 1) <= cumul + Missing[i - 1]
      /\ DriftBounded

LEMMA DriftSame ==
    ASSUME Drift, UNCHANGED <<timeline, clips>>, pc' # "lay" \/ UNCHANGED <<pc, i, cumul>>
    PROVE  Drift'
<1>1. Missing' = Missing
  BY DEF timeline, Missing
<1>2. /\ cues' = cues /\ adj' = adj /\ clips' = clips /\ length' = length
      /\ Target(i - 1)' = Target(i' - 1) /\ (Ordered' <=> Ordered)
  BY DEF timeline, Target, Ordered
<1>3. DriftBounded' <=> DriftBounded
  BY <1>1, <1>2 DEF DriftBounded
<1>. QED
  BY <1>1, <1>2, <1>3 DEF Drift, Target

LEMMA LayDrift ==
    ASSUME Inv, Len(cues) <= MaxCues, Drift, Lay
    PROVE  Drift'
<1>1. PICK k \in 1..Len(cues) : k = i
  BY DEF Lay, Inv, Valid, Timeline
<1>2. /\ pc = "lay" /\ pc' = "lay" /\ Valid(k) /\ i' = k + 1 /\ UNCHANGED timeline
      /\ cumul \in Int /\ Timeline /\ (Ordered => Loop)
  BY <1>1 DEF Lay, Inv
<1>3. Missing' = Missing /\ cues' = cues /\ adj' = adj /\ length' = length /\ (Ordered' <=> Ordered)
  BY <1>2 DEF timeline, Missing, Ordered
<1>. SUFFICES ASSUME Ordered PROVE Drift'
  BY <1>3 DEF Drift
<1>. DEFINE s == Segment(k)
            gap == Gap(k)
            at == IF gap = <<>> THEN cumul ELSE cumul + gap[1].len
            len == IF Dur(s) > 0 THEN Clamp(s.to - s.from, Dur(s), SubCap * Dur(s)) ELSE 0
            c == Clip(k, s.start, s.end, at, len)
            new == Append(gap, c)
<1>4. clips' = clips \o new /\ cumul' = at + len
  BY <1>1 DEF Lay
<1>5. k \in Nat /\ k \in 1..MaxCues /\ k - 1 \in 0..MaxCues /\ MaxCues \in Nat
  BY <1>2, RetimeAssumption DEF Timeline
<1>6. /\ len \in Nat
      /\ cues[k].end <= length =>
            Higher(Dur(adj[k]), Dur(cues[k])) <= len + Higher(0, Dur(adj[k]) - SubCap * Dur(cues[k]))
  BY <1>2, LengthFacts
<1>7. PICK x \in Nat, y \in Nat : x = Missing[k - 1] /\ y = Lost(k) /\ Missing[k] = x + y
  BY <1>2, <1>5, MissingFacts
<1>8. \/ gap = <<>>
      \/ \E g \in Pieces : gap = <<g>> /\ g.cue = 0
  BY <1>1, <1>2, GapShape
<1>9. at \in Int
  <2>1. CASE gap = <<>>
    BY <2>1, <1>2
  <2>2. CASE gap # <<>>
    <3>1. PICK g \in Pieces : gap = <<g>>
      BY <1>8, <2>2
    <3>2. gap[1] = g /\ g.len \in Int
      BY <3>1 DEF Pieces
    <3>. QED
      BY <3>2, <2>2, <1>2
  <2>. QED
    BY <2>1, <2>2
<1>10. adj[k].start <= at + x
  <2>1. CASE k = 1
    <3>1. Uncapped(k - 1)
      BY <2>1 DEF Uncapped
    <3>2. IF gap = <<>> THEN cumul = adj[k].start ELSE cumul + gap[1].len = adj[k].start
      BY <1>1, <1>2, <3>1, GapFacts
    <3>3. at = adj[k].start
      <4>. HIDE DEF gap
      <4>. QED
        BY <3>2
    <3>. HIDE DEF at
    <3>. QED
      BY <3>3, <1>9
  <2>2. CASE k > 1
    <3>0. PICK j \in Nat : j = k - 1 /\ j \in 1..Len(cues) /\ k \in 2..Len(cues)
      BY <1>5, <2>2
    <3>1. cues[j].end <= length
      <4>1. cues[j].end <= cues[k].start /\ cues[k].start < length
        BY <1>2, <3>0 DEF Ordered, Valid
      <4>2. cues[j] \in Spans /\ cues[k] \in Spans /\ length \in Nat
        BY <1>2, <3>0 DEF Timeline
      <4>. QED
        BY <4>1, <4>2 DEF Spans
    <3>2. Target(j) <= cumul + x
      BY <1>1, <1>2, <1>7, <2>2, <3>0, <3>1 DEF Drift
    <3>3. IF gap = <<>> THEN adj[k].start <= cumul + x ELSE adj[k].start <= cumul + gap[1].len + x
      BY <1>1, <1>2, <2>2, <3>0, <3>2, GapFacts
    <3>. HIDE DEF gap
    <3>. QED
      BY <3>3
  <2>. QED
    BY <1>5, <2>1, <2>2
<1>11. s.start \in Int /\ s.end \in Int /\ c \in Pieces /\ c.cue = k /\ c.pos = at
  <2>1. cues[k] \in Spans
    BY <1>2 DEF Timeline
  <2>2. s.start \in Int /\ s.end \in Int
    BY <2>1, <1>2, SegmentFacts DEF Spans
  <2>. HIDE DEF s, at, len
  <2>. QED
    BY <1>5, <1>6, <1>9, <2>2 DEF Clip, Pieces
<1>12. new \in Seq(Pieces) /\ \A m \in 1..Len(new) : new[m].cue = 0 \/ new[m] = c
  <2>. HIDE DEF c, gap
  <2>1. CASE gap = <<>>
    BY <2>1, <1>11
  <2>2. CASE gap # <<>>
    <3>1. PICK g \in Pieces : gap = <<g>> /\ g.cue = 0
      BY <1>8, <2>2
    <3>2. Append(<<g>>, c) \in Seq(Pieces) /\ Len(Append(<<g>>, c)) = 2
          /\ Append(<<g>>, c)[1] = g /\ Append(<<g>>, c)[2] = c
      BY <1>11
    <3>. QED
      BY <3>1, <3>2
  <2>. QED
    BY <2>1, <2>2
<1>13. DriftBounded'
  <2>1. clips \in Seq(Pieces)
    BY DEF Inv
  <2>2. ASSUME NEW n \in 1..Len(clips'), clips'[n].cue > 0
        PROVE  adj[clips'[n].cue].start <= clips'[n].pos + Missing[clips'[n].cue - 1]
    <3>0. \/ n \in 1..Len(clips) /\ clips'[n] = clips[n]
          \/ \E m \in 1..Len(new) : clips'[n] = new[m]
      <4>. HIDE DEF new
      <4>. QED
        BY <1>4, <1>12, <2>1, <2>2, Longer
    <3>1. CASE n \in 1..Len(clips) /\ clips'[n] = clips[n]
      <4>1. clips[n].pos + Missing[clips[n].cue - 1] >= adj[clips[n].cue].start
        BY <2>2, <3>1 DEF Drift, DriftBounded
      <4>2. \A a, b : a >= b <=> b <= a
        OBVIOUS
      <4>. QED
        BY <3>1, <4>1, <4>2
    <3>2. CASE \E m \in 1..Len(new) : clips'[n] = new[m]
      <4>1. clips'[n] = c
        <5>1. PICK m \in 1..Len(new) : clips'[n] = new[m]
          BY <3>2
        <5>. HIDE DEF new, c
        <5>. QED
          BY <5>1, <1>12, <2>2
      <4>. HIDE DEF c, at
      <4>. QED
        BY <4>1, <1>7, <1>10, <1>11
    <3>. QED
      BY <3>0, <3>1, <3>2
  <2>. QED
    BY <1>3, <2>2 DEF DriftBounded
<1>14. ASSUME cues[k].end <= length PROVE Target(k) <= cumul' + Missing[k]
  <2>1. y = Higher(0, Dur(adj[k]) - SubCap * Dur(cues[k])) /\ adj[k] \in Spans /\ cues[k] \in Spans
    BY <1>2, <1>7 DEF Lost, Timeline
  <2>2. /\ adj[k].start \in Nat /\ Higher(Dur(adj[k]), Dur(cues[k])) \in Int
        /\ Target(k) = adj[k].start + Higher(Dur(adj[k]), Dur(cues[k]))
        /\ Higher(Dur(adj[k]), Dur(cues[k])) <= len + y
    BY <2>1, <1>6, <1>14 DEF Spans, Target, Higher, Dur
  <2>3. PICK h \in Int, b \in Nat : /\ h = Higher(Dur(adj[k]), Dur(cues[k])) /\ b = adj[k].start
                                  /\ Target(k) = b + h /\ h <= len + y
    BY <2>2
  <2>4. b <= at + x /\ cumul' = at + len /\ len \in Nat /\ Missing[k] = x + y
    BY <2>3, <1>4, <1>6, <1>7, <1>10
  <2>. HIDE DEF at, len
  <2>. QED
    BY <2>3, <2>4, <1>9
<1>15. Target(k)' = Target(k) /\ i' - 1 = k
  BY <1>2, <1>3, <1>5 DEF Target
<1>. QED
  BY <1>2, <1>3, <1>13, <1>14, <1>15 DEF Drift

LEMMA DriftKept ==
    ASSUME Inv, Len(cues) <= MaxCues, Drift, [Next]_vars
    PROVE  Drift'
<1>1. CASE Speak
  <2>1. clips' = <<>> /\ pc' = "speak"
    BY <1>1 DEF Speak, Inv, videoPlan
  <2>. QED
    BY <2>1 DEF Drift, DriftBounded
<1>2. CASE Lead
  <2>1. /\ pc' = "lay" /\ i' = 1 /\ clips = <<>>
        /\ \/ clips' = <<Clip(0, 0, cues[1].start, 0, adj[1].start)>>
           \/ clips' = <<>>
    BY <1>2 DEF Lead, Inv, videoPlan
  <2>2. \A n \in 1..Len(clips') : clips'[n].cue = 0
    BY <2>1 DEF Clip
  <2>. QED
    BY <2>1, <2>2 DEF Drift, DriftBounded
<1>3. CASE Trail
  <2>1. PICK c : UNCHANGED timeline /\ pc' = "encode" /\ c.cue = 0 /\ (clips' = clips \/ clips' = Append(clips, c))
    <3>. DEFINE last == Segment(i - 1).end
                tail == Clip(0, last, length, cumul, length - last)
    <3>1. UNCHANGED timeline /\ pc' = "encode" /\ tail.cue = 0
      BY <1>3 DEF Trail, Clip
    <3>2. CASE i > 1 /\ last < length
      <4>1. clips' = Append(clips, tail)
        BY <1>3, <3>2 DEF Trail
      <4>. HIDE DEF tail
      <4>. QED
        BY <3>1, <4>1
    <3>3. CASE ~(i > 1 /\ last < length)
      <4>1. clips' = clips
        BY <1>3, <3>3 DEF Trail, videoPlan
      <4>. HIDE DEF tail
      <4>. QED
        BY <3>1, <4>1
    <3>. HIDE DEF last, tail
    <3>. QED
      BY <3>2, <3>3
  <2>2. Missing' = Missing /\ adj' = adj /\ (Ordered' <=> Ordered) /\ clips \in Seq(Pieces)
    BY <2>1 DEF timeline, Missing, Ordered, Inv
  <2>3. ASSUME NEW n \in 1..Len(clips') PROVE clips'[n].cue = 0 \/ (n \in 1..Len(clips) /\ clips'[n] = clips[n])
    <3>1. CASE clips' = clips
      BY <3>1
    <3>2. CASE clips' = Append(clips, c)
      <4>1. \A d : /\ Len(Append(clips, d)) = Len(clips) + 1 /\ Append(clips, d)[Len(clips) + 1] = d
                   /\ \A j \in 1..Len(clips) : Append(clips, d)[j] = clips[j]
        BY <2>2
      <4>2. PICK l \in Nat : l = Len(clips)
        BY <2>2
      <4>3. Len(clips') = l + 1 /\ clips'[l + 1] = c /\ \A j \in 1..l : clips'[j] = clips[j]
        BY <3>2, <4>1, <4>2
      <4>4. n = l + 1 \/ n \in 1..l
        BY <4>3
      <4>. QED
        BY <2>1, <4>2, <4>3, <4>4
    <3>. QED
      BY <2>1, <3>1, <3>2
  <2>4. Drift => DriftBounded' \/ ~Ordered
    BY <2>2, <2>3 DEF Drift, DriftBounded
  <2>. QED
    BY <2>1, <2>2, <2>4 DEF Drift
<1>4. CASE Spoken \/ Check \/ EncodeBatch \/ Concat \/ Finish \/ ZhLead \/ ZhLay \/ ZhTrail
  <2>1. UNCHANGED <<timeline, clips>> /\ pc' # "lay"
    BY <1>4 DEF Spoken, Check, EncodeBatch, Concat, Finish, ZhLead, ZhLay, ZhTrail, videoPlan
  <2>. QED
    BY <2>1, DriftSame
<1>5. CASE UNCHANGED vars
  BY <1>5, DriftSame DEF vars, timeline
<1>. QED
  BY <1>1, <1>2, <1>3, <1>4, <1>5, LayDrift DEF Next

\* DriftBounded: in every video a cue starts early by no more than what the
\* stretch limit took from the cues before it, however many there are.
THEOREM EarlyByWhatIsLost == Spec => []DriftBounded
<1>1. Init => Drift
  <2>1. Init => clips = <<>> /\ pc = "speak"
    BY DEF Init
  <2>. QED
    BY <2>1 DEF Drift, DriftBounded
<1>2. Drift => DriftBounded
  BY DEF Drift, DriftBounded
<1>3. Shape => Len(cues) <= MaxCues
  BY DEF Shape
<1>. QED
  BY <1>1, <1>2, <1>3, Initially, Inductive, InitShape, ShapeKept, DriftKept, PTL DEF Spec

-----------------------------------------------------------------------------
(* The two copies of the arithmetic                                        *)

\* A plan that plays for at ticks.
Row(plan, at) == [plan |-> plan, at |-> at]

\* What both loops do when every cue is inside the video: in front of the
\* first cue, for cue k and the gap before it, and behind the last one.
First ==
    IF cues[1].start > 0 /\ adj[1].start > 0
      THEN Row(<<Clip(0, 0, cues[1].start, 0, adj[1].start)>>, adj[1].start)
      ELSE Row(<<>>, 0)

Between(k, at) ==
    LET prev == cues[k - 1].end
        gap == cues[k].start - prev
        needed == adj[k].start - at
        from == IF gap > 0 THEN prev ELSE Higher(0, prev - 1)
        to == IF gap > 0 THEN cues[k].start ELSE prev
    IN IF k > 1 /\ (gap > 0 \/ needed > 0) /\ to > from
         THEN <<Clip(0, from, to, at, Clamp(needed, 0, GapCap * (to - from)))>>
         ELSE <<>>

Stretched(k) ==
    IF Dur(cues[k]) > 0 THEN Clamp(Dur(adj[k]), Dur(cues[k]), SubCap * Dur(cues[k])) ELSE 0

Past(gap, at) == IF gap = <<>> THEN at ELSE at + gap[1].len

Laying(k, row) ==
    Row(row.plan \o Append(Between(k, row.at),
                           Clip(k, cues[k].start, cues[k].end,
                                Past(Between(k, row.at), row.at), Stretched(k))),
        Past(Between(k, row.at), row.at) + Stretched(k))

Ending(row) ==
    IF LastEnd < length
      THEN Row(Append(row.plan, Clip(0, LastEnd, length, row.at, length - LastEnd)),
               row.at + (length - LastEnd))
      ELSE row

\* h is the plan before the loop and after each of the first n cues.
History(h, n) == h[0] = First /\ \A k \in 1..n : h[k] = Laying(k, h[k - 1])

LEMMA FitsFacts ==
    ASSUME Timeline, Fits, NEW k \in 1..Len(cues)
    PROVE  /\ cues[k].start \in Nat /\ cues[k].end \in Nat /\ adj[k].start \in Nat /\ adj[k].end \in Nat
           /\ length \in Nat /\ cues[k].start < length /\ cues[k].end <= length
           /\ Valid(k)
           /\ Segment(k) = [start |-> cues[k].start, end |-> cues[k].end,
                            from |-> adj[k].start, to |-> adj[k].end]
<1>1. cues[k] \in Spans /\ adj[k] \in Spans /\ length \in Nat /\ k <= Len(cues)
  BY DEF Timeline
<1>2. cues[k].start < length /\ cues[k].end <= length
  BY DEF Fits
<1>3. /\ cues[k].start \in Nat /\ cues[k].end \in Nat /\ adj[k].start \in Nat /\ adj[k].end \in Nat
  BY <1>1 DEF Spans
<1>4. cues[k].end - length <= 0
  BY <1>1, <1>2, <1>3
<1>5. Segment(k) = [start |-> cues[k].start, end |-> cues[k].end,
                    from |-> adj[k].start, to |-> adj[k].end]
  BY <1>4 DEF Segment
<1>. QED
  BY <1>1, <1>2, <1>3, <1>5 DEF Valid

LEMMA GapSame ==
    ASSUME Timeline, Fits, NEW k \in 1..Len(cues)
    PROVE  Gap(k) = Between(k, cumul)
<1>1. CASE k > 1
  <2>1. k - 1 \in 1..Len(cues)
    BY <1>1 DEF Timeline
  <2>2. Segment(k - 1).end = cues[k - 1].end
    BY <2>1, FitsFacts
  <2>. QED
    BY <2>2 DEF Gap, Between
<1>2. CASE ~(k > 1)
  BY <1>2 DEF Gap, Between
<1>. QED
  BY <1>1, <1>2

LEMMA ZhGapSame ==
    ASSUME Timeline, Fits, NEW k \in 1..Len(cues), zhCumul \in Int
    PROVE  ZhGap(k) = Between(k, zhCumul)
<1>. DEFINE prev == cues[k - 1].end
            start == cues[k].start
            gap == start - prev
            needed == adj[k].start - zhCumul
            from == IF gap > 0 THEN prev ELSE Higher(0, prev - 1)
            to == IF gap > 0 THEN start ELSE prev
            piece == IF start > prev
                       THEN [from |-> prev, to |-> Lower(start, length)]
                       ELSE IF needed > 0
                         THEN [from |-> Higher(0, prev - 1), to |-> Lower(prev, length)]
                         ELSE [from |-> 0, to |-> 0]
            size == piece.to - piece.from
<1>1. ZhGap(k) = IF k > 1 /\ size > 0
                   THEN <<Clip(0, piece.from, piece.to, zhCumul, Clamp(needed, 0, GapCap * size))>>
                   ELSE <<>>
  BY DEF ZhGap
<1>2. Between(k, zhCumul) =
         IF k > 1 /\ (gap > 0 \/ needed > 0) /\ to > from
           THEN <<Clip(0, from, to, zhCumul, Clamp(needed, 0, GapCap * (to - from)))>>
           ELSE <<>>
  BY DEF Between
<1>3. CASE ~(k > 1)
  BY <1>1, <1>2, <1>3
<1>4. CASE k > 1
  <2>1. k - 1 \in 1..Len(cues)
    BY <1>4 DEF Timeline
  <2>2. prev \in Nat /\ start \in Nat /\ length \in Nat /\ start <= length /\ prev <= length /\ needed \in Int
    BY <2>1, FitsFacts
  <2>3. Lower(start, length) = start /\ Lower(prev, length) = prev
    BY <2>2 DEF Lower
  <2>4. CASE start > prev
    <3>1. gap > 0 /\ piece.from = prev /\ piece.to = start /\ from = prev /\ to = start
      BY <2>2, <2>3, <2>4
    <3>2. to > from /\ size > 0 /\ size = to - from
      BY <2>2, <3>1
    <3>. HIDE DEF gap, piece, from, to, size
    <3>. QED
      BY <1>1, <1>2, <1>4, <3>1, <3>2
  <2>5. CASE ~(start > prev) /\ needed > 0
    <3>1. ~(gap > 0) /\ piece.from = Higher(0, prev - 1) /\ piece.to = prev
      BY <2>2, <2>3, <2>5
    <3>2. from = piece.from /\ to = piece.to /\ from \in Int /\ to \in Int
      BY <2>2, <3>1 DEF Higher
    <3>3. size = to - from /\ (to > from <=> size > 0)
      <4>1. size = to - from
        BY <3>2
      <4>. HIDE DEF from, to, size
      <4>. QED
        BY <3>2, <4>1
    <3>. HIDE DEF gap, piece, from, to, size
    <3>. QED
      BY <1>1, <1>2, <1>4, <2>5, <3>1, <3>2, <3>3
  <2>6. CASE ~(start > prev) /\ ~(needed > 0)
    <3>1. ~(gap > 0) /\ ~(size > 0)
      BY <2>2, <2>6
    <3>. HIDE DEF gap, piece, from, to, size
    <3>. QED
      BY <1>1, <1>2, <2>6, <3>1
  <2>. QED
    BY <2>4, <2>5, <2>6
<1>. QED
  BY <1>3, <1>4

LEMMA LaySame ==
    ASSUME Timeline, Fits, NEW k \in 1..Len(cues), k = i, Lay
    PROVE  Row(clips', cumul') = Laying(k, Row(clips, cumul))
<1>1. Gap(k) = Between(k, cumul)
  BY GapSame
<1>2. Segment(k) = [start |-> cues[k].start, end |-> cues[k].end,
                    from |-> adj[k].start, to |-> adj[k].end]
  BY FitsFacts
<1>. DEFINE s == Segment(k)
            at == Past(Gap(k), cumul)
            len == IF Dur(s) > 0 THEN Clamp(s.to - s.from, Dur(s), SubCap * Dur(s)) ELSE 0
<1>3. /\ clips' = clips \o Append(Gap(k), Clip(k, s.start, s.end, at, len))
      /\ cumul' = at + len
  BY DEF Lay, Past
<1>4. s.start = cues[k].start /\ s.end = cues[k].end /\ Dur(s) = Dur(cues[k]) /\ s.to - s.from = Dur(adj[k])
  BY <1>2 DEF Dur
<1>5. len = Stretched(k)
  BY <1>4 DEF Stretched
<1>6. /\ clips' = clips \o Append(Gap(k), Clip(k, cues[k].start, cues[k].end, at, Stretched(k)))
      /\ cumul' = at + Stretched(k)
  <2>. HIDE DEF s, at, len
  <2>. QED
    BY <1>3, <1>4, <1>5
<1>7. Row(clips, cumul).plan = clips /\ Row(clips, cumul).at = cumul
  BY DEF Row
<1>. HIDE DEF s, len
<1>. QED
  BY <1>1, <1>6, <1>7 DEF Laying

LEMMA ZhLaySame ==
    ASSUME Timeline, Fits, NEW k \in 1..Len(cues), k = i, zhCumul \in Int, ZhLay
    PROVE  Row(zh', zhCumul') = Laying(k, Row(zh, zhCumul))
<1>1. ZhGap(k) = Between(k, zhCumul)
  BY ZhGapSame
<1>2. Lower(cues[k].end, length) = cues[k].end
  BY FitsFacts DEF Lower
<1>. DEFINE end == Lower(cues[k].end, length)
            dur == end - cues[k].start
            at == Past(ZhGap(k), zhCumul)
            len == IF dur > 0 THEN Clamp(Dur(adj[k]), dur, SubCap * dur) ELSE 0
<1>3. /\ zh' = zh \o Append(ZhGap(k), Clip(k, cues[k].start, end, at, len))
      /\ zhCumul' = at + len
  BY DEF ZhLay, Past
<1>4. dur = Dur(cues[k])
  BY <1>2 DEF Dur
<1>5. len = Stretched(k)
  BY <1>4 DEF Stretched
<1>6. Row(zh, zhCumul).plan = zh /\ Row(zh, zhCumul).at = zhCumul
  BY DEF Row
<1>. HIDE DEF len
<1>. QED
  BY <1>1, <1>2, <1>3, <1>5, <1>6 DEF Laying

LEMMA TrailSame ==
    ASSUME Timeline, Fits, cues # <<>>, i \in 1..(Len(cues) + 1), Trail
    PROVE  i = Len(cues) + 1 /\ Row(clips', cumul') = Ending(Row(clips, cumul))
<1>1. PICK n \in Nat : n = Len(cues) /\ n > 0
  BY DEF Timeline
<1>2. i = n + 1
  <2>. SUFFICES ASSUME i \in 1..n PROVE FALSE
    BY <1>1
  <2>. QED
    BY <1>1, FitsFacts DEF Trail
<1>3. Segment(n).end = LastEnd
  BY <1>1, FitsFacts DEF LastEnd
<1>4. i - 1 = n /\ i > 1
  BY <1>1, <1>2
<1>5. Row(clips, cumul).plan = clips /\ Row(clips, cumul).at = cumul
  BY DEF Row
<1>6. CASE LastEnd < length
  <2>1. /\ clips' = Append(clips, Clip(0, LastEnd, length, cumul, length - LastEnd))
        /\ cumul' = cumul + (length - LastEnd)
    BY <1>3, <1>4, <1>6 DEF Trail
  <2>. QED
    BY <1>1, <1>2, <1>5, <1>6, <2>1 DEF Ending
<1>7. CASE ~(LastEnd < length)
  <2>1. clips' = clips /\ cumul' = cumul
    BY <1>3, <1>4, <1>7 DEF Trail, videoPlan
  <2>. QED
    BY <1>1, <1>2, <1>7, <2>1 DEF Ending
<1>. QED
  BY <1>6, <1>7

LEMMA ZhTrailSame ==
    ASSUME Timeline, Fits, cues # <<>>, i \in 1..(Len(cues) + 1), ZhTrail
    PROVE  i = Len(cues) + 1 /\ Row(zh', zhCumul') = Ending(Row(zh, zhCumul))
<1>1. PICK n \in Nat : n = Len(cues) /\ n > 0
  BY DEF Timeline
<1>2. i = n + 1
  <2>. SUFFICES ASSUME i \in 1..n PROVE FALSE
    BY <1>1
  <2>1. cues[i].start < length /\ cues[i].start \in Nat /\ length \in Nat
    BY <1>1, FitsFacts
  <2>2. cues[i].start >= length
    BY <1>1 DEF ZhTrail
  <2>. QED
    BY <2>1, <2>2
<1>3. Row(zh, zhCumul).plan = zh /\ Row(zh, zhCumul).at = zhCumul
  BY DEF Row
<1>4. CASE LastEnd < length
  BY <1>1, <1>2, <1>3, <1>4 DEF Ending, ZhTrail
<1>5. CASE ~(LastEnd < length)
  <2>1. zh' = zh /\ zhCumul' = zhCumul
    BY <1>5 DEF ZhTrail, zhPlan
  <2>. QED
    BY <1>1, <1>2, <1>5, <2>1 DEF Ending
<1>. QED
  BY <1>4, <1>5

\* The history of the plan gets a row more.
LEMMA HistoryOn ==
    ASSUME NEW h, NEW k \in Nat \ {0}, History(h, k - 1), NEW row, row = Laying(k, h[k - 1])
    PROVE  \E g : History(g, k) /\ g[k] = row
<1>. DEFINE g == [j \in 0..k |-> IF j = k THEN row ELSE h[j]]
<1>1. \A j \in 0..(k - 1) : g[j] = h[j]
  OBVIOUS
<1>2. 0 \in 0..(k - 1) /\ \A j \in 1..k : j - 1 \in 0..(k - 1)
  OBVIOUS
<1>3. g[k] = row
  OBVIOUS
<1>. HIDE DEF g
<1>4. ASSUME NEW j \in 1..k PROVE g[j] = Laying(j, g[j - 1])
  <2>0. g[j - 1] = h[j - 1]
    BY <1>1, <1>2
  <2>1. CASE j = k
    BY <1>3, <2>0, <2>1
  <2>2. CASE j # k
    <3>1. j \in 1..(k - 1) /\ j \in 0..(k - 1)
      BY <2>2
    <3>. QED
      BY <1>1, <2>0, <3>1 DEF History
  <2>. QED
    BY <2>1, <2>2
<1>. QED
  BY <1>1, <1>2, <1>3, <1>4 DEF History

\* The plan in progress has a history, and the two plans have the same.
Planned == \E h : History(h, i - 1) /\ Row(clips, cumul) = h[i - 1]
Whole(h) == History(h, Len(cues)) /\ Row(clips, cumul) = Ending(h[Len(cues)])

Match ==
    /\ pc \notin {"zh", "done", "failed"} => zh = <<>> /\ zhCumul = 0
    /\ Fits =>
          /\ pc = "lay" => i \in 1..(Len(cues) + 1) /\ Planned
          /\ pc \in {"encode", "correct", "zhLead"} => \E h : Whole(h)
          /\ pc = "zh" => /\ i \in 1..(Len(cues) + 1)
                          /\ \E h : Whole(h) /\ Row(zh, zhCumul) = h[i - 1]
          /\ pc = "zhLead" => i = 1
          /\ TracksMatch

LEMMA RowEqual ==
    ASSUME NEW s, NEW t, NEW a, NEW b, Row(s, a) = Row(t, b)
    PROVE  s = t /\ a = b
BY DEF Row

LEMMA MatchSame ==
    ASSUME UNCHANGED timeline
    PROVE  /\ cues' = cues /\ adj' = adj /\ length' = length /\ LastEnd' = LastEnd
           /\ Fits' <=> Fits
           /\ First' = First
           /\ \A k, r : Laying(k, r)' = Laying(k, r)
           /\ \A h, n : History(h, n)' <=> History(h, n)
           /\ \A r : Ending(r)' = Ending(r)
<1>1. cues' = cues /\ adj' = adj /\ length' = length /\ LastEnd' = LastEnd /\ (Fits' <=> Fits)
  BY DEF timeline, LastEnd, Fits
<1>2. First' = First
  BY <1>1 DEF First
<1>3. \A k, r : Laying(k, r)' = Laying(k, r)
  BY <1>1 DEF Laying, Between, Stretched
<1>4. \A h, n : History(h, n)' <=> History(h, n)
  BY <1>2, <1>3 DEF History
<1>5. \A r : Ending(r)' = Ending(r)
  BY <1>1 DEF Ending
<1>. QED
  BY <1>1, <1>2, <1>3, <1>4, <1>5

LEMMA LeadMatch ==
    ASSUME Inv, Match, Lead
    PROVE  Match'
<1>1. /\ pc = "lead" /\ pc' = "lay" /\ UNCHANGED timeline /\ zh' = zh /\ zhCumul' = zhCumul
      /\ cues # <<>> /\ clips = <<>> /\ cumul = 0 /\ i = 1 /\ i' = 1 /\ Timeline
  BY DEF Lead, zhPlan, Inv
<1>2. zh = <<>> /\ zhCumul = 0
  BY <1>1 DEF Match
<1>3. ASSUME Fits PROVE Row(clips', cumul') = First
  <2>1. Valid(1)
    <3>1. 1 \in 1..Len(cues)
      BY <1>1 DEF Timeline
    <3>. QED
      BY <1>1, <1>3, <3>1, FitsFacts
  <2>2. CASE cues[1].start > 0 /\ adj[1].start > 0
    BY <2>1, <2>2 DEF Lead, First
  <2>3. CASE ~(cues[1].start > 0 /\ adj[1].start > 0)
    <3>1. clips' = clips /\ cumul' = cumul
      BY <2>3 DEF Lead, videoPlan
    <3>. QED
      BY <1>1, <2>3, <3>1 DEF First
  <2>. QED
    BY <2>2, <2>3
<1>4. ASSUME Fits PROVE Planned'
  <2>0. PICK h : h = [j \in {0} |-> First]
    OBVIOUS
  <2>1. h[0] = First /\ History(h, 0)
    BY <2>0 DEF History
  <2>2. i' - 1 = 0
    BY <1>1
  <2>3. History(h, 0)'
    BY <1>1, <2>1, MatchSame
  <2>4. \E g : History(g, i - 1)' /\ Row(clips', cumul') = g[i' - 1]
    <3>1. Row(clips', cumul') = h[i' - 1]
      <4>1. Row(clips', cumul') = First
        BY <1>3, <1>4
      <4>2. h[i' - 1] = h[0]
        BY <2>2
      <4>. QED
        BY <4>1, <4>2, <2>1
    <3>2. History(h, i - 1)'
      BY <2>2, <2>3 DEF History
    <3>. QED
      BY <3>1, <3>2
  <2>. QED
    BY <2>4 DEF Planned
<1>5. i' \in 1..(Len(cues') + 1)
  BY <1>1, MatchSame DEF Timeline
<1>. QED
  BY <1>1, <1>2, <1>4, <1>5, MatchSame DEF Match, TracksMatch

LEMMA LayMatch ==
    ASSUME Inv, Match, Lay
    PROVE  Match'
<1>1. PICK k \in 1..Len(cues) : k = i
  BY DEF Lay, Inv, Valid, Timeline
<1>2. /\ pc = "lay" /\ pc' = "lay" /\ UNCHANGED timeline /\ zh' = zh /\ zhCumul' = zhCumul
      /\ i' = k + 1 /\ Timeline
  BY <1>1 DEF Lay, zhPlan, Inv
<1>3. zh = <<>> /\ zhCumul = 0
  BY <1>2 DEF Match
<1>4. k \in Nat \ {0} /\ Len(cues) \in Nat /\ i' - 1 = k /\ i' \in 1..(Len(cues) + 1)
  BY <1>2 DEF Timeline
<1>5. ASSUME Fits PROVE Planned'
  <2>1. PICK h : History(h, k - 1) /\ Row(clips, cumul) = h[k - 1]
    BY <1>1, <1>2, <1>5 DEF Match, Planned
  <2>2. Row(clips', cumul') = Laying(k, h[k - 1])
    BY <1>1, <1>2, <1>5, <2>1, LaySame
  <2>3. PICK g : History(g, k) /\ g[k] = Row(clips', cumul')
    BY <1>4, <2>1, <2>2, HistoryOn
  <2>4. History(g, k)'
    BY <1>2, <2>3, MatchSame
  <2>5. History(g, i - 1)' /\ Row(clips', cumul') = g[i' - 1]
    BY <1>4, <2>3, <2>4 DEF History
  <2>. QED
    BY <2>5 DEF Planned
<1>. QED
  BY <1>2, <1>3, <1>4, <1>5, MatchSame DEF Match, TracksMatch

LEMMA TrailMatch ==
    ASSUME Inv, Match, Trail
    PROVE  Match'
<1>1. /\ pc = "lay" /\ pc' = "encode" /\ UNCHANGED timeline /\ zh' = zh /\ zhCumul' = zhCumul
      /\ cues # <<>> /\ Timeline
  BY DEF Trail, zhPlan, Inv
<1>2. zh = <<>> /\ zhCumul = 0
  BY <1>1 DEF Match
<1>3. ASSUME Fits PROVE \E h : Whole(h)'
  <2>1. PICK h : History(h, i - 1) /\ Row(clips, cumul) = h[i - 1]
    BY <1>1, <1>3 DEF Match, Planned
  <2>2. i = Len(cues) + 1 /\ Row(clips', cumul') = Ending(Row(clips, cumul))
    BY <1>1, <1>3, TrailSame DEF Match
  <2>3. PICK n \in Nat : n = Len(cues) /\ i - 1 = n
    BY <1>1, <2>2 DEF Timeline
  <2>4. History(h, n) /\ Row(clips', cumul') = Ending(h[n])
    BY <2>1, <2>2, <2>3
  <2>5. History(h, n)' /\ Row(clips', cumul') = Ending(h[n])' /\ Len(cues') = n
    BY <1>1, <2>3, <2>4, MatchSame
  <2>. QED
    BY <2>5 DEF Whole
<1>. QED
  BY <1>1, <1>2, <1>3, MatchSame DEF Match, TracksMatch

\* The file of the video is made without a look at the plan of the sound.
LEMMA FileMatch ==
    ASSUME Inv, Match, EncodeBatch \/ Concat \/ Finish
    PROVE  Match'
<1>1. /\ pc \in {"encode", "correct"} /\ pc' \in {"encode", "correct", "zhLead", "failed"}
      /\ UNCHANGED <<timeline, clips, cumul, zh, zhCumul>>
      /\ pc' = "zhLead" => i' = 1
  BY DEF EncodeBatch, Concat, Finish, videoPlan, zhPlan
<1>2. zh' = <<>> /\ zhCumul' = 0
  BY <1>1 DEF Match
<1>3. \A h : Whole(h)' <=> Whole(h)
  <2>1. \A h, n : History(h, n)' <=> History(h, n)
    BY <1>1, MatchSame
  <2>2. \A r : Ending(r)' = Ending(r)
    BY <1>1, MatchSame
  <2>3. cues' = cues /\ clips' = clips /\ cumul' = cumul
    BY <1>1 DEF timeline
  <2>4. ASSUME NEW h PROVE Whole(h)' <=> Whole(h)
    <3>1. PICK n : n = Len(cues)
      OBVIOUS
    <3>2. (History(h, n)' <=> History(h, n)) /\ (Ending(h[n])' = Ending(h[n])) /\ Len(cues') = n
      BY <2>1, <2>2, <2>3, <3>1
    <3>. QED
      BY <2>3, <3>1, <3>2 DEF Whole
  <2>. QED
    BY <2>4
<1>. QED
  BY <1>1, <1>2, <1>3, MatchSame DEF Match, TracksMatch

LEMMA ZhLeadMatch ==
    ASSUME Inv, Match, ZhLead
    PROVE  Match'
<1>1. /\ pc = "zhLead" /\ pc' = "zh" /\ UNCHANGED <<timeline, clips, cumul, i>>
      /\ cues # <<>> /\ Timeline
  BY DEF ZhLead, videoPlan, Inv
<1>2. zh = <<>> /\ zhCumul = 0
  BY <1>1 DEF Match
<1>3. ASSUME Fits PROVE Row(zh', zhCumul') = First
  <2>1. Lower(cues[1].start, length) = cues[1].start
    <3>1. 1 \in 1..Len(cues)
      BY <1>1 DEF Timeline
    <3>. QED
      BY <1>1, <1>3, <3>1, FitsFacts DEF Lower
  <2>2. CASE cues[1].start > 0 /\ adj[1].start > 0
    BY <2>1, <2>2 DEF ZhLead, First
  <2>3. CASE ~(cues[1].start > 0 /\ adj[1].start > 0)
    <3>1. zh' = zh /\ zhCumul' = zhCumul
      BY <2>3 DEF ZhLead, zhPlan
    <3>. QED
      BY <1>2, <2>3, <3>1 DEF First
  <2>. QED
    BY <2>2, <2>3
<1>4. ASSUME Fits PROVE \E h : Whole(h)' /\ Row(zh', zhCumul') = h[i' - 1]
  <2>1. PICK h : Whole(h)
    BY <1>1, <1>4 DEF Match
  <2>2. PICK n : n = Len(cues) /\ Len(cues') = n
    BY <1>1, MatchSame
  <2>3. History(h, n)' /\ Row(clips', cumul') = Ending(h[n])' /\ h[0] = First
    BY <1>1, <2>1, <2>2, MatchSame DEF Whole, History
  <2>4. Whole(h)'
    BY <2>2, <2>3 DEF Whole
  <2>5. i' - 1 = 0
    BY <1>1, <1>4 DEF Match
  <2>6. Row(zh', zhCumul') = h[i' - 1]
    <3>1. Row(zh', zhCumul') = First
      BY <1>3, <1>4
    <3>. QED
      BY <2>3, <2>5, <3>1
  <2>. QED
    BY <2>4, <2>6
<1>5. Fits => i' \in 1..(Len(cues') + 1)
  BY <1>1, MatchSame DEF Timeline, Match
<1>. QED
  BY <1>1, <1>4, <1>5, MatchSame DEF Match, TracksMatch

LEMMA ZhLayMatch ==
    ASSUME Inv, Shape, Match, ZhLay
    PROVE  Match'
<1>1. PICK k : k = i /\ k \in Nat \ {0}
  BY DEF Shape
<1>2. /\ pc = "zh" /\ pc' = "zh" /\ UNCHANGED <<timeline, clips, cumul>> /\ k \in 1..Len(cues)
      /\ i' = k + 1 /\ Timeline /\ zhCumul \in Int
  BY <1>1 DEF ZhLay, videoPlan, Inv, Shape, Timeline
<1>3. i' - 1 = k /\ Len(cues) \in Nat /\ i' \in 1..(Len(cues') + 1)
  BY <1>1, <1>2, MatchSame DEF Timeline
<1>4. ASSUME Fits PROVE \E h : Whole(h)' /\ Row(zh', zhCumul') = h[i' - 1]
  <2>1. PICK h : Whole(h) /\ Row(zh, zhCumul) = h[k - 1]
    BY <1>1, <1>2, <1>4 DEF Match
  <2>2. Row(zh', zhCumul') = Laying(k, h[k - 1])
    BY <1>1, <1>2, <1>4, <2>1, ZhLaySame
  <2>3. h[k] = Laying(k, h[k - 1])
    BY <1>2, <2>1 DEF Whole, History
  <2>4. PICK n : n = Len(cues) /\ Len(cues') = n
    BY <1>2, MatchSame
  <2>5. History(h, n)' /\ Row(clips', cumul') = Ending(h[n])'
    BY <1>2, <2>1, <2>4, MatchSame DEF Whole
  <2>6. Whole(h)'
    BY <2>4, <2>5 DEF Whole
  <2>. QED
    BY <1>3, <2>2, <2>3, <2>6
<1>. QED
  BY <1>2, <1>3, <1>4, MatchSame DEF Match, TracksMatch

LEMMA ZhTrailMatch ==
    ASSUME Inv, Match, ZhTrail
    PROVE  Match'
<1>1. /\ pc = "zh" /\ pc' = "done" /\ UNCHANGED <<timeline, clips, cumul>>
      /\ cues # <<>> /\ Timeline
  BY DEF ZhTrail, videoPlan, Inv
<1>2. ASSUME Fits PROVE zh' = clips' /\ zhCumul' = cumul'
  <2>1. PICK h : Whole(h) /\ Row(zh, zhCumul) = h[i - 1]
    BY <1>1, <1>2 DEF Match
  <2>2. i = Len(cues) + 1 /\ Row(zh', zhCumul') = Ending(Row(zh, zhCumul))
    BY <1>1, <1>2, ZhTrailSame DEF Match
  <2>3. i - 1 = Len(cues)
    BY <1>1, <2>2 DEF Timeline
  <2>4. Row(zh', zhCumul') = Row(clips', cumul')
    BY <1>1, <2>1, <2>2, <2>3 DEF Whole
  <2>. QED
    BY <2>4, RowEqual
<1>. QED
  BY <1>1, <1>2, MatchSame DEF Match, TracksMatch

LEMMA MatchKept ==
    ASSUME Inv, Shape, Match, [Next]_vars
    PROVE  Match'
<1>1. CASE Speak \/ Spoken \/ Check
  <2>1. /\ pc \in {"speak", "check"} /\ pc' \in {"speak", "check", "failed", "lead"}
        /\ zh' = zh /\ zhCumul' = zhCumul
    BY <1>1 DEF Speak, Spoken, Check, zhPlan
  <2>2. zh' = <<>> /\ zhCumul' = 0
    BY <2>1 DEF Match
  <2>3. pc' \notin {"lay", "encode", "correct", "zh", "zhLead", "done"}
    BY <2>1
  <2>. QED
    BY <2>2, <2>3, Zenon DEF Match, TracksMatch
<1>2. CASE UNCHANGED vars
  <2>1. /\ UNCHANGED timeline /\ pc' = pc /\ i' = i /\ clips' = clips /\ cumul' = cumul
        /\ zh' = zh /\ zhCumul' = zhCumul /\ cues' = cues
    BY <1>2 DEF vars, timeline
  <2>2. (Fits' <=> Fits) /\ (TracksMatch' <=> TracksMatch)
    BY <2>1, MatchSame DEF TracksMatch
  <2>3. \A h : Whole(h)' <=> Whole(h)
    BY <2>1, MatchSame DEF Whole
  <2>4. Planned' <=> Planned
    BY <2>1, MatchSame DEF Planned
  <2>. QED
    BY <2>1, <2>2, <2>3, <2>4 DEF Match
<1>. QED
  BY <1>1, <1>2, LeadMatch, LayMatch, TrailMatch, FileMatch, ZhLeadMatch, ZhLayMatch, ZhTrailMatch
     DEF Next

\* TracksMatch: whenever every cue lies inside the video, however the cues
\* overlap, gen_video.py and segment_utils.py make the same plan.
THEOREM SamePlans == Spec => []TracksMatch
<1>1. Init => Match
  BY DEF Init, Match, TracksMatch
<1>2. Match => TracksMatch
  BY DEF Match, TracksMatch
<1>. QED
  BY <1>1, <1>2, Initially, Inductive, InitShape, ShapeKept, MatchKept, PTL DEF Spec

-----------------------------------------------------------------------------
(* Length of the output                                                    *)

\* The clips of s play one after another without a pause, up to at; one that
\* shows nothing of the source takes no time.
Snug(s, at) ==
    /\ s = <<>> => at = 0
    /\ s # <<>> => s[1].pos = 0 /\ s[Len(s)].pos + s[Len(s)].len = at
    /\ \A n \in 2..Len(s) : s[n].pos = s[n - 1].pos + s[n - 1].len

Still(s) == \A n \in 1..Len(s) : s[n].start = s[n].end => s[n].len = 0

LEMMA SnugOn ==
    ASSUME NEW s \in Seq(Clips), NEW at \in Nat, Snug(s, at), Still(s), NEW c \in Clips, c.pos = at,
           c.start = c.end => c.len = 0
    PROVE  Snug(Append(s, c), at + c.len) /\ Still(Append(s, c))
<1>1. PICK l \in Nat : l = Len(s)
  OBVIOUS
<1>. DEFINE t == Append(s, c)
<1>2. Len(t) = l + 1 /\ t[l + 1] = c /\ \A n \in 1..l : t[n] = s[n]
  BY <1>1
<1>3. t # <<>>
  BY <1>1
<1>. HIDE DEF t
<1>4. t[1].pos = 0
  <2>1. CASE l = 0
    <3>1. s = <<>>
      BY <1>1, <2>1, EmptySeq
    <3>2. t[1] = c
      BY <1>2, <2>1
    <3>. QED
      BY <3>1, <3>2 DEF Snug
  <2>2. CASE l # 0
    <3>1. s # <<>> /\ 1 \in 1..l
      BY <1>1, <2>2
    <3>. QED
      BY <1>2, <3>1 DEF Snug
  <2>. QED
    BY <2>1, <2>2
<1>5. ASSUME NEW n \in 2..(l + 1) PROVE t[n].pos = t[n - 1].pos + t[n - 1].len
  <2>1. CASE n = l + 1
    <3>1. l \in 1..l /\ n - 1 = l /\ s # <<>>
      BY <1>1, <2>1
    <3>2. s[l].pos + s[l].len = at
      BY <1>1, <3>1 DEF Snug
    <3>. QED
      BY <1>2, <2>1, <3>1, <3>2
  <2>2. CASE n # l + 1
    <3>1. n \in 2..l /\ n \in 1..l /\ n - 1 \in 1..l
      BY <2>2
    <3>. QED
      BY <1>1, <1>2, <3>1 DEF Snug
  <2>. QED
    BY <2>1, <2>2
<1>6. Still(t)
  <2>. SUFFICES ASSUME NEW n \in 1..(l + 1), t[n].start = t[n].end PROVE t[n].len = 0
    BY <1>2 DEF Still
  <2>1. CASE n = l + 1
    BY <1>2, <2>1
  <2>2. CASE n # l + 1
    <3>1. n \in 1..l
      BY <2>2
    <3>. QED
      BY <1>1, <1>2, <3>1 DEF Still
  <2>. QED
    BY <2>1, <2>2
<1>7. Snug(t, at + c.len)
  BY <1>2, <1>3, <1>4, <1>5 DEF Snug
<1>. QED
  BY <1>6, <1>7 DEF t

\* Between two cues of a plan that is without a pause.
LEMMA SnugPair ==
    ASSUME NEW s \in Seq(Clips), NEW at \in Nat, Snug(s, at), Still(s),
           NEW g \in Clips, g.pos = at, g.start = g.end => g.len = 0,
           NEW c \in Clips, c.pos = at + g.len, c.start = c.end => c.len = 0
    PROVE  Snug(s \o Append(<<g>>, c), at + g.len + c.len) /\ Still(s \o Append(<<g>>, c))
<1>1. Append(s, g) \in Seq(Clips) /\ at + g.len \in Nat
  BY DEF Clips
<1>2. Snug(Append(s, g), at + g.len) /\ Still(Append(s, g))
  BY SnugOn
<1>3. Snug(Append(Append(s, g), c), at + g.len + c.len) /\ Still(Append(Append(s, g), c))
  BY <1>1, <1>2, SnugOn
<1>4. s \o Append(<<g>>, c) = Append(Append(s, g), c)
  <2>1. <<g>> \in Seq(Clips) /\ <<c>> \in Seq(Clips)
    OBVIOUS
  <2>2. Append(s, g) = s \o <<g>> /\ Append(<<g>>, c) = <<g>> \o <<c>>
    BY <2>1, AppendIsConcat
  <2>3. Append(Append(s, g), c) = Append(s, g) \o <<c>>
    BY <1>1, AppendIsConcat
  <2>. QED
    BY <2>1, <2>2, <2>3, ConcatAssociative
<1>. QED
  BY <1>3, <1>4

Even == Snug(clips, cumul) /\ Still(clips)

LEMMA LeadEven ==
    ASSUME Inv, Even, Lead
    PROVE  Even'
<1>1. clips = <<>> /\ cumul = 0 /\ Len(cues) \in Nat /\ Len(cues) > 0 /\ Timeline
  BY DEF Lead, Inv, Timeline
<1>2. cues[1] \in Spans /\ adj[1] \in Spans
  BY <1>1 DEF Timeline
<1>. DEFINE c == Clip(0, 0, cues[1].start, 0, adj[1].start)
<1>3. CASE clips' = <<c>> /\ cumul' = adj[1].start /\ cues[1].start > 0
  <2>1. c \in Clips /\ c.pos = 0 /\ c.len = adj[1].start /\ c.start # c.end
    BY <1>2, <1>3, NoCue DEF Clip, Clips, Spans
  <2>. HIDE DEF c
  <2>2. Append(clips, c) = <<c>> /\ clips \in Seq(Clips)
    BY <1>1
  <2>3. Snug(Append(clips, c), cumul + c.len) /\ Still(Append(clips, c))
    <3>1. c.pos = cumul /\ cumul \in Nat /\ Snug(clips, cumul) /\ Still(clips)
      BY <1>1, <2>1 DEF Even
    <3>. QED
      BY <2>1, <2>2, <3>1, SnugOn
  <2>4. cumul + c.len = cumul'
    BY <1>1, <1>2, <1>3, <2>1 DEF Spans
  <2>. QED
    BY <1>3, <2>2, <2>3, <2>4 DEF Even
<1>4. CASE clips' = clips /\ cumul' = cumul
  BY <1>4 DEF Even
<1>. QED
  BY <1>3, <1>4 DEF Lead, videoPlan

LEMMA LayEven ==
    ASSUME Inv, Shape, Even, Lay
    PROVE  Even'
<1>1. PICK k \in 1..Len(cues) : k = i
  BY DEF Lay, Inv, Valid, Timeline
<1>2. /\ Valid(k) /\ Timeline /\ k \in Nat /\ Len(cues) \in Nat /\ Len(cues) <= MaxCues
      /\ cumul \in Nat /\ clips \in Seq(Clips) /\ Snug(clips, cumul) /\ Still(clips)
  BY <1>1 DEF Lay, Inv, Shape, Timeline, Even
<1>. DEFINE s == Segment(k)
            gap == Gap(k)
            at == IF gap = <<>> THEN cumul ELSE cumul + gap[1].len
            len == IF Dur(s) > 0 THEN Clamp(s.to - s.from, Dur(s), SubCap * Dur(s)) ELSE 0
            c == Clip(k, s.start, s.end, at, len)
<1>3. clips' = clips \o Append(gap, c) /\ cumul' = at + len
  BY <1>1 DEF Lay
<1>4. len \in Nat
  BY <1>2, LengthFacts
<1>5. s.start \in Nat /\ s.end \in Nat
  <2>1. cues[k] \in Spans
    BY <1>2 DEF Timeline
  <2>. QED
    BY <2>1, <1>2, SegmentFacts DEF Spans
<1>6. k \in 0..MaxCues
  BY <1>2, RetimeAssumption
<1>7. s.start = s.end => len = 0
  <2>1. s.start = s.end => Dur(s) = 0
    BY <1>5 DEF Dur
  <2>. QED
    BY <2>1
<1>8. at \in Nat => c \in Clips /\ c.pos = at /\ c.len = len /\ (c.start = c.end => c.len = 0)
  <2>. HIDE DEF s, at, len
  <2>. QED
    BY <1>4, <1>5, <1>6, <1>7 DEF Clip, Clips
<1>9. CASE gap = <<>>
  <2>1. at = cumul
    BY <1>9
  <2>. HIDE DEF at, len, c, gap
  <2>2. c \in Clips /\ c.pos = cumul /\ c.len = len /\ (c.start = c.end => c.len = 0)
    BY <2>1, <1>2, <1>8
  <2>3. clips \o Append(gap, c) = Append(clips, c)
    <3>1. Append(gap, c) = <<c>>
      BY <1>9
    <3>. QED
      BY <3>1, <2>2, <1>2, AppendIsConcat
  <2>4. Snug(Append(clips, c), cumul + c.len) /\ Still(Append(clips, c))
    BY <1>2, <2>2, SnugOn
  <2>. QED
    BY <1>3, <2>1, <2>2, <2>3, <2>4 DEF Even
<1>10. CASE gap # <<>>
  <2>1. PICK g \in Clips : gap = <<g>> /\ g.pos = cumul /\ g.start # g.end
    BY <1>2, <1>10, GapTyped
  <2>2. gap[1] = g /\ g.len \in Nat
    BY <2>1 DEF Clips
  <2>3. at = cumul + g.len /\ at \in Nat
    BY <1>2, <1>10, <2>2
  <2>. HIDE DEF at, len, c, gap
  <2>4. c \in Clips /\ c.pos = cumul + g.len /\ c.len = len /\ (c.start = c.end => c.len = 0)
    BY <1>8, <2>3
  <2>5. /\ Snug(clips \o Append(<<g>>, c), cumul + g.len + c.len)
        /\ Still(clips \o Append(<<g>>, c))
    BY <1>2, <2>1, <2>4, SnugPair
  <2>. QED
    BY <1>3, <2>1, <2>3, <2>4, <2>5 DEF Even
<1>. QED
  BY <1>9, <1>10

LEMMA TrailEven ==
    ASSUME Inv, Shape, Even, Trail
    PROVE  Even'
<1>1. /\ i \in 1..(Len(cues) + 1) /\ Len(cues) \in Nat /\ Timeline /\ length \in Nat
      /\ cumul \in Nat /\ clips \in Seq(Clips) /\ Snug(clips, cumul) /\ Still(clips)
  BY DEF Trail, Inv, Shape, Timeline, Even
<1>. DEFINE last == Segment(i - 1).end
            c == Clip(0, last, length, cumul, length - last)
<1>2. CASE i > 1 /\ last < length
  <2>1. clips' = Append(clips, c) /\ cumul' = cumul + (length - last)
    BY <1>2 DEF Trail
  <2>2. last \in Nat
    <3>1. i - 1 \in 1..Len(cues)
      BY <1>1, <1>2
    <3>. QED
      BY <3>1, <1>1, SegmentEnd
  <2>. HIDE DEF last
  <2>3. length - last \in Nat
    BY <1>1, <1>2, <2>2
  <2>4. c \in Clips /\ c.pos = cumul /\ c.len = length - last /\ c.start # c.end
    BY <1>1, <1>2, <2>2, <2>3, NoCue DEF Clip, Clips
  <2>. HIDE DEF c
  <2>5. Snug(Append(clips, c), cumul + c.len) /\ Still(Append(clips, c))
    BY <1>1, <2>4, SnugOn
  <2>. QED
    BY <2>1, <2>4, <2>5 DEF Even
<1>3. CASE ~(i > 1 /\ last < length)
  <2>1. clips' = clips /\ cumul' = cumul
    BY <1>3 DEF Trail, videoPlan
  <2>. QED
    BY <2>1 DEF Even
<1>. QED
  BY <1>2, <1>3

LEMMA EvenKept ==
    ASSUME Inv, Shape, Even, [Next]_vars
    PROVE  Even'
<1>1. CASE \/ Speak \/ Spoken \/ Check \/ EncodeBatch \/ Concat \/ Finish
           \/ ZhLead \/ ZhLay \/ ZhTrail \/ UNCHANGED vars
  <2>1. clips' = clips /\ cumul' = cumul
    BY <1>1 DEF Speak, Spoken, Check, EncodeBatch, Concat, Finish, ZhLead, ZhLay, ZhTrail, vars, videoPlan
  <2>. QED
    BY <2>1 DEF Even
<1>. QED
  BY <1>1, LeadEven, LayEven, TrailEven DEF Next

\* Where clip k starts, or the plan ends.
From(k) == IF k <= Len(clips) THEN clips[k].pos ELSE cumul

LEMMA FromNext ==
    ASSUME Shape, Even, NEW k \in 1..Len(clips)
    PROVE  From(k) = clips[k].pos /\ From(k + 1) = clips[k].pos + clips[k].len
           /\ clips[k].pos \in Nat /\ clips[k].len \in Nat
<1>1. PICK l \in Nat : l = Len(clips)
  BY DEF Shape
<1>2. clips[k] \in Clips /\ clips # <<>>
  BY DEF Shape
<1>3. CASE k = l
  <2>1. k \in Nat /\ ~(k + 1 <= Len(clips)) /\ k = Len(clips)
    BY <1>1, <1>3
  <2>2. clips[k].pos + clips[k].len = cumul
    BY <1>2, <2>1 DEF Even, Snug
  <2>. QED
    BY <1>2, <2>1, <2>2 DEF From, Clips
<1>4. CASE k # l
  <2>1. k + 1 \in 2..Len(clips) /\ k + 1 <= Len(clips) /\ (k + 1) - 1 = k /\ k <= Len(clips)
    BY <1>1, <1>4
  <2>2. clips[k + 1].pos = clips[k].pos + clips[k].len
    BY <2>1 DEF Even, Snug
  <2>. QED
    BY <1>2, <2>1, <2>2 DEF From, Clips
<1>. QED
  BY <1>3, <1>4

\* Clips without a frame take no time.
LEMMA FramelessRun ==
    ASSUME Shape, Even, NEW k \in Nat \ {0}, NEW n \in Nat, k + n <= Len(clips) + 1,
           \A m \in 1..n : Frameless(k + m - 1)
    PROVE  From(k + n) = From(k)
<1>0. PICK l \in Nat : l = Len(clips)
  BY DEF Shape
<1>. DEFINE P == {m \in Nat : m <= n => From(k + m) = From(k)}
<1>1. 0 \in P
  <2>1. k + 0 = k
    OBVIOUS
  <2>. QED
    BY <2>1
<1>2. ASSUME NEW m \in Nat, m \in P PROVE m + 1 \in P
  <2>. SUFFICES ASSUME m + 1 <= n PROVE From(k + (m + 1)) = From(k)
    OBVIOUS
  <2>1. m <= n /\ k + m \in 1..l /\ k + m <= Len(clips) /\ m + 1 \in 1..n /\ k + (m + 1) - 1 = k + m
        /\ k + (m + 1) = (k + m) + 1
    BY <1>0
  <2>2. From(k + m) = From(k)
    BY <1>2, <2>1
  <2>3. Frameless(k + m)
    BY <2>1
  <2>4. clips[k + m].len = 0
    BY <1>0, <2>1, <2>3 DEF Frameless, Even, Still
  <2>5. From((k + m) + 1) = From(k + m)
    BY <1>0, <2>1, <2>4, FromNext
  <2>. QED
    BY <2>1, <2>2, <2>5
<1>3. Nat \subseteq P
  <2>. HIDE DEF P
  <2>. QED
    BY <1>1, <1>2, SetInduction
<1>. QED
  BY <1>3

\* The output file is as long as the batches that were encoded, at least.
Filmed ==
    /\ pc = "encode" => i \in 1..(Len(clips) + 1) /\ From(i) <= shown
    /\ pc = "correct" => cumul <= shown

LEMMA TrailFilmed ==
    ASSUME Inv, Inv', Shape, Shape', Even', Trail
    PROVE  Filmed'
<1>1. pc' = "encode" /\ i' = 1 /\ shown' = shown /\ shown \in Nat
  BY DEF Trail, Shape
<1>2. PICK l \in Nat : l = Len(clips')
  BY DEF Shape
<1>3. CASE l = 0
  <2>1. clips' = <<>>
    BY <1>2, <1>3, EmptySeq DEF Shape
  <2>2. cumul' = 0
    BY <2>1 DEF Even, Snug
  <2>3. From(1)' = 0
    BY <1>2, <1>3, <2>2 DEF From
  <2>. QED
    BY <1>1, <1>2, <1>3, <2>2 DEF Filmed, From
<1>4. CASE l # 0
  <2>1. clips' # <<>>
    BY <1>2, <1>4
  <2>2. clips'[1].pos = 0
    BY <2>1 DEF Even, Snug
  <2>. QED
    BY <1>1, <1>2, <1>4, <2>2 DEF Filmed, From
<1>. QED
  BY <1>3, <1>4

LEMMA EncodeFilmed ==
    ASSUME Inv, Shape, Even, Filmed, EncodeBatch
    PROVE  Filmed'
<1>1. PICK l \in Nat : l = Len(clips)
  BY DEF Shape
<1>2. PICK k \in 1..l : k = i
  BY <1>1 DEF EncodeBatch, Filmed
<1>. DEFINE n == Lower(MaxBatch, l - k + 1)
            designed == clips[k + n - 1].pos + clips[k + n - 1].len - clips[k].pos
<1>3. n \in Nat \ {0} /\ k + n - 1 \in 1..l /\ k + n \in 1..(l + 1) /\ k + n <= l + 1
  BY <1>2, RetimeAssumption DEF Lower
<1>4. UNCHANGED <<clips, cumul>> /\ pc = "encode" /\ shown \in Nat /\ From(k) <= shown
  BY <1>2 DEF EncodeBatch, videoPlan, Shape, Filmed
<1>5. /\ From(k) = clips[k].pos /\ clips[k].pos \in Nat
      /\ From(k + n) = clips[k + n - 1].pos + clips[k + n - 1].len /\ From(k + n) \in Nat
      /\ clips[k + n - 1].pos \in Nat /\ clips[k + n - 1].len \in Nat
  <2>1. PICK j \in 1..l : j = k + n - 1 /\ k + n = j + 1
    BY <1>2, <1>3
  <2>2. From(k) = clips[k].pos /\ clips[k].pos \in Nat
    BY <1>1, <1>2, FromNext
  <2>3. From(j + 1) = clips[j].pos + clips[j].len /\ clips[j].pos \in Nat /\ clips[j].len \in Nat
    BY <1>1, FromNext
  <2>. QED
    BY <2>1, <2>2, <2>3
<1>6. \A j : From(j)' = From(j)
  BY <1>4 DEF From
<1>7. \/ /\ i' = k + n /\ pc' = pc
         /\ \E extra \in {0, n} : shown' = shown + designed + extra
      \/ /\ i' = k + n /\ pc' = pc /\ shown' = shown
         /\ \A m \in 1..n : Frameless(k + m - 1)
      \/ pc' = "failed"
  <2>1. \A m \in 1..n : [j \in 1..n |-> k + j - 1][m] = k + m - 1
    OBVIOUS
  <2>. HIDE DEF designed
  <2>. QED
    BY <1>1, <1>2, <2>1 DEF EncodeBatch, designed
<1>8. CASE i' = k + n /\ pc' = pc /\ \E extra \in {0, n} : shown' = shown + designed + extra
  <2>1. PICK extra \in {0, n} : shown' = shown + designed + extra
    BY <1>8
  <2>2. extra \in Nat
    BY <1>3
  <2>3. designed = From(k + n) - From(k)
    <3>. HIDE DEF n
    <3>. QED
      BY <1>5
  <2>. HIDE DEF designed, n
  <2>4. From(k + n) <= shown'
    BY <1>4, <1>5, <2>1, <2>2, <2>3
  <2>5. From(i)' <= shown'
    BY <1>6, <1>8, <2>4 DEF From
  <2>. QED
    BY <1>1, <1>3, <1>4, <1>8, <2>5 DEF Filmed
<1>9. CASE i' = k + n /\ pc' = pc /\ shown' = shown /\ \A m \in 1..n : Frameless(k + m - 1)
  <2>. HIDE DEF n
  <2>1. From(k + n) = From(k)
    <3>1. k \in Nat \ {0} /\ n \in Nat /\ k + n <= Len(clips) + 1
      BY <1>1, <1>2, <1>3
    <3>2. \A m \in 1..n : Frameless(k + m - 1)
      BY <1>9
    <3>. QED
      BY <3>1, <3>2, FramelessRun
  <2>2. From(i)' <= shown'
    BY <1>4, <1>6, <1>9, <2>1 DEF From
  <2>. QED
    BY <1>1, <1>3, <1>4, <1>9, <2>2 DEF Filmed
<1>10. CASE pc' = "failed"
  BY <1>10 DEF Filmed
<1>. QED
  BY <1>7, <1>8, <1>9, <1>10

LEMMA FilmedKept ==
    ASSUME Inv, Inv', Shape, Shape', Even, Even', Filmed, [Next]_vars
    PROVE  Filmed'
<1>1. CASE \/ Speak \/ Spoken \/ Check \/ Lead \/ Lay \/ Finish
           \/ ZhLead \/ ZhLay \/ ZhTrail
  BY <1>1 DEF Speak, Spoken, Check, Lead, Lay, Finish, ZhLead, ZhLay, ZhTrail, Filmed
<1>2. CASE Concat
  <2>1. /\ UNCHANGED <<i, clips, cumul, shown>> /\ pc = "encode"
        /\ pc' \in {"failed", "correct", "encode"} /\ i > Len(clips)
    BY <1>2 DEF Concat, videoPlan
  <2>2. From(i) <= shown /\ i \in 1..(Len(clips) + 1) /\ Len(clips) \in Nat
    BY <2>1 DEF Filmed, Shape
  <2>3. From(i) = cumul
    BY <2>1, <2>2 DEF From
  <2>. QED
    BY <2>1, <2>2, <2>3 DEF Filmed, From
<1>3. CASE UNCHANGED vars
  BY <1>3 DEF vars, Filmed, From
<1>. QED
  BY <1>1, <1>2, <1>3, TrailFilmed, EncodeFilmed DEF Next

-----------------------------------------------------------------------------
(* Length of the speech                                                    *)

\* Where the speech of the last cue may end no other ends later.
LEMMA EndsRise ==
    ASSUME Timeline, Ordered, cues # <<>>
    PROVE  Target(Len(cues)) \in Nat /\ \A k \in 1..Len(cues) : adj[k].end <= Target(Len(cues))
<1>1. PICK l \in Nat : l = Len(cues) /\ l > 0
  BY DEF Timeline
<1>2. ASSUME NEW k \in 1..l
      PROVE  /\ cues[k].start \in Nat /\ cues[k].end \in Nat /\ adj[k].start \in Nat /\ adj[k].end \in Nat
             /\ cues[k].start <= cues[k].end /\ adj[k].start <= adj[k].end
             /\ Target(k) \in Nat /\ adj[k].start <= Target(k) /\ adj[k].end <= Target(k)
  <2>1. cues[k] \in Spans /\ adj[k] \in Spans /\ cues[k].start <= cues[k].end /\ adj[k].start <= adj[k].end
    BY <1>1 DEF Timeline
  <2>2. PICK a \in Nat, b \in Nat, c \in Nat, d \in Nat :
          cues[k].start = a /\ cues[k].end = b /\ adj[k].start = c /\ adj[k].end = d
    BY <2>1 DEF Spans
  <2>3. Target(k) = c + Higher(d - c, b - a)
    BY <2>2 DEF Target, Dur
  <2>. QED
    BY <2>1, <2>2, <2>3 DEF Higher
<1>3. ASSUME NEW k \in 1..l, k + 1 \in 1..l PROVE Target(k) <= adj[k + 1].start
  <2>1. k + 1 \in 2..Len(cues) /\ (k + 1) - 1 = k
    BY <1>1, <1>3
  <2>2. adj[k + 1].start = cues[k + 1].start + Behind(k) /\ cues[k].end <= cues[k + 1].start
    BY <2>1 DEF Timeline, Ordered
  <2>3. PICK a \in Nat, b \in Nat, c \in Nat, d \in Nat, e \in Nat :
          /\ cues[k].start = a /\ cues[k].end = b /\ adj[k].start = c /\ adj[k].end = d
          /\ cues[k + 1].start = e /\ a <= b /\ c <= d
    BY <1>2, <1>3
  <2>4. Target(k) = c + Higher(d - c, b - a) /\ Behind(k) = c - a + Higher(0, (d - c) - (b - a))
    BY <2>3 DEF Target, Behind, Dur
  <2>. QED
    BY <2>2, <2>3, <2>4 DEF Higher
<1>. DEFINE P == {m \in Nat : m \in 1..l => \A k \in 1..m : adj[k].end <= Target(m)}
<1>4. 0 \in P
  OBVIOUS
<1>5. ASSUME NEW m \in Nat, m \in P PROVE m + 1 \in P
  <2>. SUFFICES ASSUME m + 1 \in 1..l, NEW k \in 1..(m + 1) PROVE adj[k].end <= Target(m + 1)
    OBVIOUS
  <2>1. CASE k = m + 1
    BY <2>1, <1>2
  <2>2. CASE k # m + 1
    <3>1. k \in 1..m /\ m \in 1..l /\ k \in 1..l
      BY <2>2
    <3>2. adj[k].end <= Target(m)
      BY <1>5, <3>1
    <3>3. Target(m) <= adj[m + 1].start
      BY <1>3, <3>1
    <3>. QED
      BY <1>2, <3>1, <3>2, <3>3
  <2>. QED
    BY <2>1, <2>2
<1>6. Nat \subseteq P
  <2>. HIDE DEF P
  <2>. QED
    BY <1>4, <1>5, SetInduction
<1>7. l \in P /\ l \in 1..l
  BY <1>1, <1>6
<1>. QED
  BY <1>1, <1>2, <1>7

LEMMA HigherSum ==
    ASSUME NEW x \in Int, NEW y \in Int
    PROVE  Higher(0, y - x) \in Int /\ Higher(y, x) \in Int /\ x + Higher(0, y - x) = Higher(y, x)
  BY DEF Higher

LEMMA AudioBound ==
    ASSUME Timeline, LastOne, Ordered, cues # <<>>, adj[Len(adj)].end > 0
    PROVE  AudioLength \in Nat /\ AudioLength <= Target(Len(cues))
<1>1. PICK l \in Nat : l = Len(cues) /\ l > 0 /\ l = Len(adj) /\ l \in DOMAIN adj /\ DOMAIN adj = 1..l
  BY DEF Timeline
<1>2. PICK t \in Nat : t = Target(l) /\ \A k \in 1..l : adj[k].end <= t
  BY <1>1, EndsRise
<1>. DEFINE o == OriginalTotal + offset
            ends == {adj[k].end : k \in DOMAIN adj} \cup {o}
            longest == CHOOSE e \in ends : \A u \in ends : u <= e
<1>3. o <= t /\ o \in Int
  <2>1. /\ cues[l] \in Spans /\ adj[l] \in Spans /\ cues[1] \in Spans
        /\ offset = Behind(l)
    BY <1>1 DEF Timeline
  <2>2. PICK a \in Nat, b \in Nat, c \in Nat, d \in Nat, e \in Nat :
          /\ cues[l].start = a /\ cues[l].end = b /\ adj[l].start = c /\ adj[l].end = d
          /\ cues[1].start = e /\ a <= b /\ c <= d
    <3>1. cues[l].start <= cues[l].end /\ adj[l].start <= adj[l].end
      BY <1>1 DEF Timeline
    <3>. QED
      BY <2>1, <3>1 DEF Spans
  <2>3. t = c + Higher(d - c, b - a) /\ offset = c - a + Higher(0, (d - c) - (b - a))
    BY <1>2, <2>1, <2>2 DEF Target, Behind, Dur
  <2>4. o = b - e + offset
    BY <1>1, <2>2 DEF OriginalTotal, LastEnd
  <2>. HIDE DEF o
  <2>5. PICK x \in Int, y \in Int : x = b - a /\ y = d - c
    OBVIOUS
  <2>6. PICK z \in Int, w \in Int : z = Higher(0, y - x) /\ w = Higher(y, x) /\ x + z = w
    <3>. HIDE DEF ends, longest
    <3>1. Higher(0, y - x) \in Int /\ Higher(y, x) \in Int /\ x + Higher(0, y - x) = Higher(y, x)
      BY HigherSum
    <3>. QED
      BY <3>1, Zenon
  <2>7. t = c + w /\ offset = c - a + z
    BY <2>3, <2>5, <2>6
  <2>8. b - e + (c - a + z) = (c + w) - e
    BY <2>5, <2>6
  <2>9. o = t - e
    BY <2>4, <2>7, <2>8
  <2>. QED
    BY <2>9
<1>4. AudioLength \in Nat
  BY AudioTyped
<1>5. \A u \in ends : u \in Int /\ u <= t
  <2>1. \A k \in 1..l : adj[k].end \in Int
    <3>1. \A k \in 1..l : adj[k] \in Spans
      BY <1>1 DEF Timeline
    <3>. QED
      BY <3>1 DEF Spans
  <2>. HIDE DEF o
  <2>. QED
    BY <1>1, <1>2, <1>3, <2>1
<1>6. \E e \in ends : \A u \in ends : u <= e
  <2>1. PICK k \in DOMAIN adj : \A j \in DOMAIN adj : adj[j].end <= adj[k].end
    <3>1. adj # <<>>
      BY <1>1
    <3>. QED
      BY <3>1 DEF LastOne
  <2>2. adj[k].end \in ends /\ o \in ends
    BY <2>1
  <2>3. adj[k].end \in Int /\ o \in Int
    BY <1>5, <2>2
  <2>4. CASE o <= adj[k].end
    <3>1. \A u \in ends : u <= adj[k].end
      <4>. HIDE DEF o
      <4>. QED
        BY <2>1, <2>4
    <3>. QED
      BY <2>2, <3>1
  <2>5. CASE ~(o <= adj[k].end)
    <3>1. \A u \in ends : u <= o
      <4>1. \A j \in DOMAIN adj : adj[j].end \in Int
        BY <1>5
      <4>. HIDE DEF o
      <4>. QED
        BY <2>1, <2>3, <2>5, <4>1
    <3>. QED
      BY <2>2, <3>1
  <2>. QED
    BY <2>4, <2>5
<1>7. longest \in ends /\ \A u \in ends : u <= longest
  <2>. HIDE DEF ends
  <2>. QED
    BY <1>6
<1>8. adj[l].end \in ends
  BY <1>1
<1>9. AudioLength = IF longest > 0 THEN longest ELSE 25
  BY DEF AudioLength
<1>10. adj[l].end > 0 /\ adj[l].end \in Int /\ longest \in Int /\ longest <= t /\ adj[l].end <= longest
  BY <1>1, <1>5, <1>7, <1>8
<1>11. longest > 0
  <2>. HIDE DEF longest
  <2>. QED
    BY <1>10
<1>. HIDE DEF longest
<1>. QED
  BY <1>1, <1>2, <1>4, <1>9, <1>10, <1>11

\* The plan is as long as the speech of the last cue needs.
Long ==
    (pc \in {"encode", "correct"} /\ Ordered /\ Fits /\ Uncapped(Len(cues))) =>
      Target(Len(cues)) <= cumul

LEMMA TrailLong ==
    ASSUME Inv, Shape, Trail
    PROVE  Long'
<1>1. /\ pc = "lay" /\ UNCHANGED timeline /\ cues # <<>> /\ Timeline
      /\ i \in 1..(Len(cues) + 1) /\ cumul \in Nat /\ length \in Nat
  BY DEF Trail, Inv, Shape, Timeline
<1>2. /\ cues' = cues /\ (Ordered' <=> Ordered) /\ (Fits' <=> Fits)
      /\ (Uncapped(Len(cues))' <=> Uncapped(Len(cues))) /\ Target(Len(cues))' = Target(Len(cues))
  BY <1>1 DEF timeline, Ordered, Fits, Uncapped, Target
<1>. SUFFICES ASSUME Ordered, Fits, Uncapped(Len(cues)) PROVE Target(Len(cues)) <= cumul'
  BY <1>2 DEF Long
<1>3. PICK l \in Nat : l = Len(cues) /\ l > 0
  BY <1>1 DEF Timeline
<1>4. i = l + 1
  <2>1. i = Len(cues) + 1
    BY <1>1, TrailSame
  <2>. QED
    BY <1>3, <2>1
<1>5. cumul = Target(l)
  <2>1. Loop
    BY <1>1 DEF Inv
  <2>2. i > 1 /\ i - 1 = l
    BY <1>3, <1>4
  <2>3. cues[l].end <= length
    BY <1>1, <1>3, FitsFacts
  <2>. QED
    BY <1>3, <2>1, <2>2, <2>3 DEF Loop
<1>6. cumul <= cumul'
  <2>. DEFINE last == Segment(i - 1).end
  <2>1. CASE i > 1 /\ last < length
    <3>1. cumul' = cumul + (length - last)
      BY <2>1 DEF Trail
    <3>2. last \in Nat
      <4>1. i - 1 \in 1..Len(cues)
        BY <1>3, <1>4
      <4>. QED
        BY <4>1, <1>1, SegmentEnd
    <3>. HIDE DEF last
    <3>. QED
      BY <1>1, <2>1, <3>1, <3>2
  <2>2. CASE ~(i > 1 /\ last < length)
    <3>1. cumul' = cumul
      BY <2>2 DEF Trail, videoPlan
    <3>. QED
      BY <1>1, <3>1
  <2>. QED
    BY <2>1, <2>2
<1>. QED
  BY <1>3, <1>5, <1>6

LEMMA LongKept ==
    ASSUME Inv, Shape, Long, [Next]_vars
    PROVE  Long'
<1>1. CASE \/ Speak \/ Spoken \/ Check \/ Lead \/ Lay \/ Finish
           \/ ZhLead \/ ZhLay \/ ZhTrail
  BY <1>1 DEF Speak, Spoken, Check, Lead, Lay, Finish, ZhLead, ZhLay, ZhTrail, Long
<1>2. CASE EncodeBatch \/ Concat \/ UNCHANGED vars
  <2>1. UNCHANGED <<timeline, cumul>> /\ (pc' \in {"encode", "correct"} => pc \in {"encode", "correct"})
    BY <1>2 DEF EncodeBatch, Concat, vars, timeline, videoPlan
  <2>. QED
    BY <2>1 DEF Long, timeline, Ordered, Fits, Uncapped, Target
<1>. QED
  BY <1>1, <1>2, TrailLong DEF Next

LEMMA EndKept ==
    ASSUME Inv, Shape, Filmed, Long, EndsWithAudio, [Next]_vars
    PROVE  EndsWithAudio'
<1>1. CASE Finish
  <2>1. pc = "correct" /\ UNCHANGED timeline /\ cues # <<>> /\ Timeline /\ LastOne
        /\ cumul \in Nat /\ shown \in Nat /\ cumul <= shown
    BY <1>1 DEF Finish, Inv, Shape, Filmed
  <2>2. /\ cues' = cues /\ adj' = adj /\ (Ordered' <=> Ordered) /\ (Fits' <=> Fits)
        /\ (Uncapped(Len(cues))' <=> Uncapped(Len(cues))) /\ AudioLength' = AudioLength
    BY <2>1 DEF timeline, Ordered, Fits, Uncapped, AudioLength, OriginalTotal, LastEnd
  <2>. SUFFICES ASSUME Ordered, Fits, Uncapped(Len(cues)), adj[Len(adj)].end > 0
                PROVE  shown' = AudioLength
    BY <2>2 DEF EndsWithAudio
  <2>3. PICK a \in Nat : a = AudioLength /\ a <= Target(Len(cues))
    BY <2>1, AudioBound
  <2>4. Target(Len(cues)) <= cumul /\ Target(Len(cues)) \in Nat
    BY <2>1, EndsRise DEF Long
  <2>5. PICK b : shown' = Lower(b, AudioLength) /\ (b = cumul \/ b = shown)
    BY <1>1 DEF Finish
  <2>6. b \in Nat /\ a <= b
    BY <2>1, <2>3, <2>4, <2>5
  <2>. QED
    BY <2>3, <2>5, <2>6 DEF Lower
<1>2. CASE \/ Speak \/ Spoken \/ Check \/ Lead \/ Lay \/ Trail \/ EncodeBatch \/ Concat
           \/ ZhLead \/ ZhLay \/ ZhTrail
  BY <1>2 DEF Speak, Spoken, Check, Lead, Lay, Trail, EncodeBatch, Concat, ZhLead, ZhLay, ZhTrail, EndsWithAudio
<1>3. CASE UNCHANGED vars
  BY <1>3 DEF vars, EndsWithAudio, Ordered, Fits, Uncapped, AudioLength, OriginalTotal, LastEnd
<1>. QED
  BY <1>1, <1>2, <1>3 DEF Next

\* EndsWithAudio: as long as no cue needs more than the stretch allows, the
\* output ends with the speech, whatever the rounding of the batches.
THEOREM VideoEndsWithAudio == Spec => []EndsWithAudio
<1>1. Init => Even /\ Filmed /\ Long /\ EndsWithAudio
  <2>. SUFFICES ASSUME Init PROVE Even /\ Filmed /\ Long /\ EndsWithAudio
    OBVIOUS
  <2>1. clips = <<>> /\ cumul = 0 /\ pc = "speak" /\ Len(clips) = 0
    BY DEF Init
  <2>. QED
    BY <2>1 DEF Even, Snug, Still, Filmed, Long, EndsWithAudio
<1>. QED
  BY <1>1, Initially, Inductive, InitShape, ShapeKept, EvenKept, FilmedKept, LongKept, EndKept,
     PTL DEF Spec

-----------------------------------------------------------------------------
(* Joining lists                                                           *)

\* The places in the joined list where the lists up to k end.
Ends(f, p, from, to) ==
    f = [k \in (from - 1)..to |-> IF k < from THEN 0 ELSE f[k - 1] + Len(p[k])]

Pieced(f, p, from, to) ==
    [n \in 1..f[to] |->
       LET k == CHOOSE j \in from..to : f[j - 1] < n /\ n <= f[j] IN p[k][n - f[k - 1]]]

LEMMA FlatUnfolds ==
    ASSUME NEW p, NEW from \in Nat \ {0}, NEW to \in Nat, from <= to
    PROVE  \E f : Ends(f, p, from, to) /\ Flat(p, from, to) = Pieced(f, p, from, to)
<1>. DEFINE f == CHOOSE g : Ends(g, p, from, to)
<1>1. Flat(p, from, to) = Pieced(f, p, from, to)
  BY DEF Flat, Pieced, Ends
<1>2. \E g : Ends(g, p, from, to)
  <2>1. PICK b \in Nat : b = from - 1 /\ from = b + 1
    OBVIOUS
  <2>2. PICK m \in Nat : m = to - b /\ to = b + m
    BY <2>1
  <2>. DEFINE d == [j \in 1..m |-> Len(p[b + j])]
  <2>3. PICK h : Sums(h, d, m)
    BY <2>2, SumsExist
  <2>4. \A n \in 0..m : h[n] = IF n = 0 THEN 0 ELSE h[n - 1] + d[n]
    BY <2>3 DEF Sums
  <2>. DEFINE g == [k \in b..to |-> h[k - b]]
  <2>5. ASSUME NEW k \in b..to PROVE g[k] = IF k < from THEN 0 ELSE g[k - 1] + Len(p[k])
    <3>1. CASE k = b
      <4>1. g[k] = h[0] /\ k < from
        BY <2>1, <3>1
      <4>2. h[0] = 0
        <5>1. 0 \in 0..m
          OBVIOUS
        <5>. HIDE DEF d, g
        <5>. QED
          BY <2>4, <5>1
      <4>. HIDE DEF g
      <4>. QED
        BY <4>1, <4>2
    <3>2. CASE k # b
      <4>1. PICK n \in 1..m : n = k - b /\ b + n = k /\ n - 1 = (k - 1) - b
        BY <2>2, <3>2
      <4>2. k - 1 \in b..to /\ ~(k < from) /\ n \in 0..m /\ n # 0
        BY <2>1, <2>2, <3>2, <4>1
      <4>3. g[k] = h[n] /\ g[k - 1] = h[n - 1]
        BY <4>1, <4>2
      <4>4. h[n] = h[n - 1] + d[n]
        BY <2>4, <4>2
      <4>5. d[n] = Len(p[k])
        BY <4>1
      <4>. HIDE DEF g, d
      <4>. QED
        BY <4>2, <4>3, <4>4, <4>5
    <3>. QED
      BY <3>1, <3>2
  <2>6. g = [k \in b..to |-> g[k]]
    OBVIOUS
  <2>. HIDE DEF g
  <2>7. Ends(g, p, from, to)
    BY <2>1, <2>5, <2>6 DEF Ends
  <2>. QED
    BY <2>7
<1>3. Ends(f, p, from, to)
  BY <1>2
<1>. HIDE DEF f
<1>. QED
  BY <1>1, <1>3

\* p[from] to p[to], one after another: f says where each of them ends.
LEMMA EndsFacts ==
    ASSUME NEW p \in Seq(Seq(Nat)), NEW from \in Nat \ {0}, NEW to \in Nat, from <= to, to <= Len(p),
           NEW f, Ends(f, p, from, to)
    PROVE  /\ f[from - 1] = 0
           /\ \A k \in (from - 1)..to : f[k] \in Nat
           /\ \A k \in from..to : f[k] = f[k - 1] + Len(p[k]) /\ Len(p[k]) \in Nat
           /\ \A j, k \in (from - 1)..to : j <= k => f[j] <= f[k]
           /\ \A n \in 1..f[to] : \E k \in from..to : f[k - 1] < n /\ n <= f[k]
<1>1. PICK b \in Nat : b = from - 1 /\ from = b + 1
  OBVIOUS
<1>2. \A k \in b..to : f[k] = IF k < from THEN 0 ELSE f[k - 1] + Len(p[k])
  BY <1>1 DEF Ends
<1>3. f[b] = 0
  BY <1>1, <1>2
<1>4. \A k \in from..to : k \in b..to /\ f[k] = f[k - 1] + Len(p[k]) /\ Len(p[k]) \in Nat
  <2>. TAKE k \in from..to
  <2>1. k \in b..to /\ ~(k < from) /\ k \in 1..Len(p)
    BY <1>1
  <2>2. p[k] \in Seq(Nat)
    BY <2>1
  <2>. QED
    BY <1>2, <2>1, <2>2
<1>. DEFINE P == {d \in Nat : b + d <= to =>
                     /\ f[b + d] \in Nat
                     /\ \A j \in b..(b + d) : f[j] \in Nat /\ f[j] <= f[b + d]
                     /\ \A n \in 1..f[b + d] : \E k \in from..(b + d) : f[k - 1] < n /\ n <= f[k]}
<1>5. 0 \in P
  <2>1. b + 0 = b /\ b..b = {b} /\ 1..0 = {}
    OBVIOUS
  <2>2. f[b] \in Nat /\ f[b] <= f[b]
    BY <1>3
  <2>. QED
    BY <1>3, <2>1, <2>2
<1>6. ASSUME NEW d \in Nat, d \in P PROVE d + 1 \in P
  <2>. SUFFICES ASSUME b + (d + 1) <= to
                PROVE  /\ f[b + (d + 1)] \in Nat
                       /\ \A j \in b..(b + (d + 1)) : f[j] \in Nat /\ f[j] <= f[b + (d + 1)]
                       /\ \A n \in 1..f[b + (d + 1)] :
                             \E k \in from..(b + (d + 1)) : f[k - 1] < n /\ n <= f[k]
    OBVIOUS
  <2>1. PICK c \in Nat : c = b + d /\ b + (d + 1) = c + 1 /\ c <= to /\ c + 1 \in from..to /\ (c + 1) - 1 = c
    BY <1>1
  <2>2. /\ f[c] \in Nat
        /\ \A j \in b..c : f[j] \in Nat /\ f[j] <= f[c]
        /\ \A n \in 1..f[c] : \E k \in from..c : f[k - 1] < n /\ n <= f[k]
    BY <1>6, <2>1
  <2>3. f[c + 1] = f[c] + Len(p[c + 1]) /\ Len(p[c + 1]) \in Nat
    BY <1>4, <2>1
  <2>4. f[c + 1] \in Nat /\ f[c] <= f[c + 1]
    BY <2>2, <2>3
  <2>5. ASSUME NEW j \in b..(c + 1) PROVE f[j] \in Nat /\ f[j] <= f[c + 1]
    <3>1. CASE j = c + 1
      BY <3>1, <2>4
    <3>2. CASE j # c + 1
      <4>1. j \in b..c
        BY <2>1, <3>2
      <4>. QED
        BY <2>2, <2>4, <4>1
    <3>. QED
      BY <3>1, <3>2
  <2>6. ASSUME NEW n \in 1..f[c + 1] PROVE \E k \in from..(c + 1) : f[k - 1] < n /\ n <= f[k]
    <3>1. CASE n <= f[c]
      <4>1. n \in 1..f[c]
        BY <2>2, <3>1
      <4>2. PICK k \in from..c : f[k - 1] < n /\ n <= f[k]
        BY <2>2, <4>1
      <4>3. k \in from..(c + 1)
        BY <2>1
      <4>. QED
        BY <4>2, <4>3
    <3>2. CASE ~(n <= f[c])
      <4>1. f[(c + 1) - 1] < n /\ n <= f[c + 1] /\ c + 1 \in from..(c + 1)
        BY <1>1, <2>1, <2>2, <2>4, <3>2
      <4>. QED
        BY <4>1
    <3>. QED
      BY <3>1, <3>2
  <2>. QED
    BY <2>1, <2>4, <2>5, <2>6
<1>7. Nat \subseteq P
  <2>. HIDE DEF P
  <2>. QED
    BY <1>5, <1>6, SetInduction
<1>8. ASSUME NEW k \in b..to
      PROVE  /\ f[k] \in Nat
             /\ \A j \in b..k : f[j] <= f[k]
             /\ \A n \in 1..f[k] : \E j \in from..k : f[j - 1] < n /\ n <= f[j]
  <2>1. PICK d \in Nat : d = k - b /\ b + d = k
    OBVIOUS
  <2>2. d \in P
    BY <1>7, <2>1
  <2>. QED
    BY <2>1, <2>2
<1>9. to \in b..to
  BY <1>1
<1>10. \A j, k \in b..to : j <= k => f[j] <= f[k]
  <2>. TAKE j, k \in b..to
  <2>. HAVE j <= k
  <2>1. j \in b..k
    OBVIOUS
  <2>. QED
    BY <1>8, <2>1
<1>11. \A n \in 1..f[to] : \E k \in from..to : f[k - 1] < n /\ n <= f[k]
  BY <1>8, <1>9
<1>. QED
  BY <1>1, <1>3, <1>4, <1>8, <1>10, <1>11

\* Every list is in ascending order, and below the lists behind it.
InOrder(p) ==
    /\ \A a \in 1..Len(p) : \A m, n \in 1..Len(p[a]) : m < n => p[a][m] < p[a][n]
    /\ \A a, b \in 1..Len(p) : a < b =>
          \A m \in 1..Len(p[a]), n \in 1..Len(p[b]) : p[a][m] < p[b][n]

Ascending(s) == \A m, n \in 1..Len(s) : m < n => s[m] < s[n]

\* Each entry of s is one of p[from] to p[to], and each of those is in s.
EntriesOf(s, p, from, to) ==
    /\ \A n \in 1..Len(s) : \E a \in from..to : \E m \in 1..Len(p[a]) : s[n] = p[a][m]
    /\ \A a \in from..to : \A m \in 1..Len(p[a]) : \E n \in 1..Len(s) : s[n] = p[a][m]

LEMMA FlatFacts ==
    ASSUME NEW p \in Seq(Seq(Nat)), InOrder(p),
           NEW from \in Nat \ {0}, NEW to \in Nat, from <= to, to <= Len(p)
    PROVE  /\ Flat(p, from, to) \in Seq(Nat)
           /\ Ascending(Flat(p, from, to))
           /\ EntriesOf(Flat(p, from, to), p, from, to)
<1>1. PICK f : Ends(f, p, from, to) /\ Flat(p, from, to) = Pieced(f, p, from, to)
  BY FlatUnfolds
<1>2. /\ f[from - 1] = 0
      /\ \A k \in (from - 1)..to : f[k] \in Nat
      /\ \A k \in from..to : f[k] = f[k - 1] + Len(p[k]) /\ Len(p[k]) \in Nat
      /\ \A j, k \in (from - 1)..to : j <= k => f[j] <= f[k]
      /\ \A n \in 1..f[to] : \E k \in from..to : f[k - 1] < n /\ n <= f[k]
  BY <1>1, EndsFacts
<1>3. PICK l \in Nat : l = f[to]
  <2>1. to \in (from - 1)..to
    OBVIOUS
  <2>. QED
    BY <1>2, <2>1
<1>4. \A k \in from..to : k - 1 \in (from - 1)..to /\ k \in (from - 1)..to /\ k \in 1..Len(p)
  OBVIOUS
<1>. DEFINE At(n) == CHOOSE j \in from..to : f[j - 1] < n /\ n <= f[j]
<1>5. PICK s : s = Flat(p, from, to)
  OBVIOUS
<1>6. s = [n \in 1..l |-> p[At(n)][n - f[At(n) - 1]]]
  BY <1>1, <1>3, <1>5 DEF Pieced
<1>7. ASSUME NEW n \in 1..l
      PROVE  /\ At(n) \in from..to /\ f[At(n) - 1] < n /\ n <= f[At(n)]
             /\ n - f[At(n) - 1] \in 1..Len(p[At(n)])
             /\ s[n] = p[At(n)][n - f[At(n) - 1]] /\ s[n] \in Nat
  <2>1. \E j \in from..to : f[j - 1] < n /\ n <= f[j]
    BY <1>2, <1>3
  <2>2. At(n) \in from..to /\ f[At(n) - 1] < n /\ n <= f[At(n)]
    BY <2>1
  <2>3. PICK k \in from..to : k = At(n)
    BY <2>2
  <2>4. s[n] = p[k][n - f[k - 1]]
    BY <1>6, <2>3
  <2>. HIDE DEF At
  <2>5. f[k - 1] \in Nat /\ f[k] = f[k - 1] + Len(p[k]) /\ Len(p[k]) \in Nat /\ p[k] \in Seq(Nat)
    BY <1>2, <1>4
  <2>6. n - f[k - 1] \in 1..Len(p[k])
    <3>1. PICK u \in Nat, v \in Nat : u = f[k - 1] /\ v = Len(p[k])
      BY <2>5
    <3>2. u < n /\ n <= u + v
      BY <2>2, <2>3, <2>5, <3>1
    <3>3. n - u \in 1..v
      BY <3>2
    <3>. QED
      BY <3>1, <3>3
  <2>7. p[k][n - f[k - 1]] \in Nat
    <3>1. PICK t \in Seq(Nat), x \in Nat : x \in 1..Len(t) /\ t = p[k] /\ x = n - f[k - 1]
      BY <2>5, <2>6
    <3>2. t[x] \in Nat
      BY <3>1
    <3>. QED
      BY <3>1, <3>2
  <2>. QED
    BY <2>2, <2>3, <2>4, <2>6, <2>7
<1>8. s \in Seq(Nat) /\ Len(s) = l
  <2>1. s \in [1..l -> Nat]
    <3>1. s = [n \in 1..l |-> s[n]]
      BY <1>6
    <3>. HIDE DEF At
    <3>. QED
      BY <1>7, <3>1
  <2>. QED
    BY <2>1
<1>9. ASSUME NEW n \in 1..l, NEW k \in from..to, f[k - 1] < n, n <= f[k] PROVE At(n) = k
  <2>1. PICK j \in from..to : j = At(n) /\ f[j - 1] < n /\ n <= f[j]
    BY <1>7
  <2>2. CASE j = k
    BY <2>1, <2>2
  <2>3. CASE j < k
    <3>1. f[j] <= f[k - 1]
      <4>1. j \in (from - 1)..to /\ k - 1 \in (from - 1)..to /\ j <= k - 1
        BY <2>3
      <4>. QED
        BY <1>2, <4>1
    <3>2. f[j] \in Nat /\ f[k - 1] \in Nat
      BY <1>2, <1>4
    <3>. QED
      BY <1>9, <2>1, <3>1, <3>2
  <2>4. CASE k < j
    <3>1. f[k] <= f[j - 1]
      <4>1. k \in (from - 1)..to /\ j - 1 \in (from - 1)..to /\ k <= j - 1
        BY <2>4
      <4>. QED
        BY <1>2, <4>1
    <3>2. f[k] \in Nat /\ f[j - 1] \in Nat
      BY <1>2, <1>4
    <3>. QED
      BY <1>9, <2>1, <3>1, <3>2
  <2>. QED
    BY <2>2, <2>3, <2>4
<1>. HIDE DEF At
<1>10. Ascending(s)
  <2>. SUFFICES ASSUME NEW m \in 1..l, NEW n \in 1..l, m < n PROVE s[m] < s[n]
    BY <1>8 DEF Ascending
  <2>7. PICK a \in from..to : a = At(m)
    BY <1>7
  <2>8. PICK b \in from..to : b = At(n)
    BY <1>7
  <2>1. PICK x \in 1..Len(p[a]) : x = m - f[a - 1] /\ s[m] = p[a][x]
    BY <1>7, <2>7
  <2>2. PICK y \in 1..Len(p[b]) : y = n - f[b - 1] /\ s[n] = p[b][y]
    BY <1>7, <2>8
  <2>3. a \in 1..Len(p) /\ b \in 1..Len(p) /\ a \in Int /\ b \in Int
    OBVIOUS
  <2>4. CASE a = b
    <3>1. f[a - 1] \in Nat
      BY <1>2, <1>4, <2>1
    <3>2. x < y
      BY <2>1, <2>2, <2>4, <3>1
    <3>. QED
      BY <2>1, <2>2, <2>3, <2>4, <3>2 DEF InOrder
  <2>5. CASE a < b
    BY <2>1, <2>2, <2>3, <2>5 DEF InOrder
  <2>6. CASE b < a
    <3>1. f[b] <= f[a - 1]
      <4>1. b \in (from - 1)..to /\ a - 1 \in (from - 1)..to /\ b <= a - 1
        BY <2>6
      <4>. QED
        BY <1>2, <4>1
    <3>2. f[a - 1] < m /\ n <= f[b] /\ f[b] \in Nat /\ f[a - 1] \in Nat
      BY <1>2, <1>4, <1>7, <2>7, <2>8
    <3>. QED
      BY <3>1, <3>2
  <2>. QED
    BY <2>4, <2>5, <2>6
<1>11. EntriesOf(s, p, from, to)
  <2>1. ASSUME NEW n \in 1..l PROVE \E a \in from..to : \E m \in 1..Len(p[a]) : s[n] = p[a][m]
    BY <1>7
  <2>2. ASSUME NEW a \in from..to, NEW m \in 1..Len(p[a]) PROVE \E n \in 1..l : s[n] = p[a][m]
    <3>1. /\ f[a - 1] \in Nat /\ f[a] \in Nat /\ f[a] = f[a - 1] + Len(p[a]) /\ Len(p[a]) \in Nat
          /\ f[a] <= l
      <4>1. to \in (from - 1)..to /\ a \in (from - 1)..to /\ a - 1 \in (from - 1)..to /\ a <= to
        OBVIOUS
      <4>2. f[a] <= f[to] /\ f[a] \in Nat /\ f[a - 1] \in Nat
        BY <1>2, <4>1
      <4>3. f[a] = f[a - 1] + Len(p[a]) /\ Len(p[a]) \in Nat
        BY <1>2
      <4>. QED
        BY <1>3, <4>2, <4>3
    <3>0. PICK u \in Nat, v \in Nat : u = f[a - 1] /\ v = Len(p[a]) /\ f[a] = u + v /\ u + v <= l
      BY <3>1
    <3>2. PICK n \in 1..l : n = f[a - 1] + m /\ f[a - 1] < n /\ n <= f[a] /\ n - f[a - 1] = m
      <4>1. m \in 1..v
        BY <3>0
      <4>2. u + m \in 1..l /\ u < u + m /\ u + m <= u + v /\ (u + m) - u = m
        BY <3>0, <4>1
      <4>. QED
        BY <3>0, <4>2
    <3>3. At(n) = a
      BY <1>9, <3>2
    <3>4. s[n] = p[a][m]
      BY <1>7, <3>2, <3>3
    <3>. QED
      BY <3>4
  <2>. QED
    BY <1>8, <2>1, <2>2 DEF EntriesOf
<1>. QED
  BY <1>5, <1>8, <1>10, <1>11

\* The groups of n files, MaxBatch at a time: group g is FromOf(g)..ToOf(g, n).
Groups(n) == (n + MaxBatch - 1) \div MaxBatch
ToOf(g, n) == Lower(g * MaxBatch, n)
FromOf(g) == (g - 1) * MaxBatch + 1

LEMMA Quotient ==
    ASSUME NEW a \in Nat, NEW b \in Nat \ {0}
    PROVE  /\ a \div b \in Nat
           /\ (a \div b) * b <= a /\ a < (a \div b) * b + b
OBVIOUS

LEMMA TimesMonotone ==
    ASSUME NEW a \in Nat, NEW c \in Nat, NEW b \in Nat, a <= c
    PROVE  a * b <= c * b /\ a * b \in Nat
<1>1. PICK d \in Nat : c = a + d
  <2>1. c - a \in Nat /\ c = a + (c - a)
    OBVIOUS
  <2>. QED
    BY <2>1
<1>2. (a + d) * b = a * b + d * b /\ a * b \in Nat /\ d * b \in Nat
  OBVIOUS
<1>. QED
  BY <1>1, <1>2

LEMMA GroupFacts ==
    ASSUME NEW n \in Nat \ {0}
    PROVE  /\ Groups(n) \in Nat
           /\ \A g \in 1..Groups(n) :
                 /\ FromOf(g) \in Nat \ {0} /\ ToOf(g, n) \in Nat
                 /\ FromOf(g) <= ToOf(g, n) /\ ToOf(g, n) <= n
           /\ \A g, h \in 1..Groups(n) : g < h => ToOf(g, n) < FromOf(h)
           /\ \A a \in 1..n : \E g \in 1..Groups(n) : a \in FromOf(g)..ToOf(g, n)
<1>1. PICK b \in Nat \ {0} : b = MaxBatch
  BY RetimeAssumption
<1>2. n + b - 1 \in Nat
  OBVIOUS
<1>3. PICK q \in Nat : q = Groups(n) /\ q * b <= n + b - 1 /\ n + b - 1 < q * b + b
  BY <1>1, <1>2, Quotient DEF Groups
<1>4. \A g \in Nat : (g + 1) * b = g * b + b /\ g * b \in Nat
  OBVIOUS
<1>5. n <= q * b
  BY <1>3, <1>4
<1>6. ASSUME NEW g \in 1..q
      PROVE  /\ FromOf(g) = (g - 1) * b + 1 /\ ToOf(g, n) = Lower((g - 1) * b + b, n)
             /\ (g - 1) * b \in Nat /\ (g - 1) * b < n
  <2>1. PICK h \in Nat : h = g - 1 /\ g = h + 1 /\ h + 1 <= q
    OBVIOUS
  <2>2. g * b = h * b + b /\ h * b \in Nat
    BY <1>4, <2>1
  <2>3. (h + 1) * b <= q * b
    BY <2>1, TimesMonotone
  <2>4. h * b < n
    BY <1>3, <1>4, <2>2, <2>1, <2>3
  <2>. QED
    BY <1>1, <2>1, <2>2, <2>4 DEF FromOf, ToOf
<1>7. ASSUME NEW g \in 1..q
      PROVE  FromOf(g) \in Nat \ {0} /\ ToOf(g, n) \in Nat /\ FromOf(g) <= ToOf(g, n) /\ ToOf(g, n) <= n
  <2>1. PICK x \in Nat : x = (g - 1) * b /\ FromOf(g) = x + 1 /\ ToOf(g, n) = Lower(x + b, n) /\ x < n
    BY <1>6
  <2>. QED
    BY <2>1 DEF Lower
<1>8. ASSUME NEW g \in 1..q, NEW h \in 1..q, g < h PROVE ToOf(g, n) < FromOf(h)
  <2>1. g * b <= (h - 1) * b /\ g * b \in Nat
    <3>1. g \in Nat /\ h - 1 \in Nat /\ g <= h - 1
      BY <1>8
    <3>. QED
      BY <3>1, TimesMonotone
  <2>2. PICK x \in Nat, y \in Nat : x = g * b /\ y = (h - 1) * b /\ x <= y
    BY <1>6, <2>1
  <2>3. FromOf(h) = y + 1 /\ ToOf(g, n) = Lower(x, n)
    BY <1>1, <1>6, <2>2 DEF ToOf
  <2>. QED
    BY <2>2, <2>3 DEF Lower
<1>9. ASSUME NEW a \in 1..n PROVE \E g \in 1..q : a \in FromOf(g)..ToOf(g, n)
  <2>1. PICK h \in Nat : h = (a - 1) \div b /\ h * b <= a - 1 /\ a - 1 < h * b + b
    <3>1. a - 1 \in Nat
      OBVIOUS
    <3>. QED
      BY <3>1, Quotient
  <2>2. h + 1 \in 1..q
    <3>. SUFFICES ASSUME q <= h PROVE FALSE
      OBVIOUS
    <3>1. q * b <= h * b /\ h * b \in Nat /\ q * b \in Nat
      BY <1>4, TimesMonotone
    <3>. QED
      BY <1>5, <2>1, <3>1
  <2>3. PICK x \in Nat : x = h * b /\ x <= a - 1 /\ a - 1 < x + b
    BY <1>4, <2>1
  <2>4. (h + 1) - 1 = h
    OBVIOUS
  <2>5. FromOf(h + 1) = x + 1 /\ ToOf(h + 1, n) = Lower(x + b, n)
    BY <1>6, <2>2, <2>3, <2>4
  <2>6. a \in FromOf(h + 1)..ToOf(h + 1, n)
    BY <2>3, <2>5 DEF Lower
  <2>. QED
    BY <2>2, <2>6
<1>. QED
  BY <1>3, <1>7, <1>8, <1>9

-----------------------------------------------------------------------------
(* Every clip is in the file                                               *)

Has(p, k) == \E a \in 1..Len(p) : \E n \in 1..Len(p[a]) : p[a][n] = k
Below(p, k) == \A a \in 1..Len(p) : \A n \in 1..Len(p[a]) : p[a][n] < k

\* The files made so far are in order and hold every clip with a frame.
Batches ==
    /\ parts \in Seq(Seq(Nat)) /\ InOrder(parts)
    /\ pc \in {"speak", "check", "lead", "lay"} => parts = <<>>
    /\ pc = "encode" => /\ i \in 1..(Len(clips) + 1) /\ Below(parts, i)
                        /\ \A k \in 1..(i - 1) : Frameless(k) \/ Has(parts, k)
    /\ WholeConcat

\* A batch more.
LEMMA BatchOn ==
    ASSUME NEW p \in Seq(Seq(Nat)), InOrder(p), NEW k \in Nat, Below(p, k), NEW n \in Nat,
           NEW b, b = [j \in 1..n |-> k + j - 1]
    PROVE  /\ Append(p, b) \in Seq(Seq(Nat)) /\ InOrder(Append(p, b)) /\ Below(Append(p, b), k + n)
           /\ \A c \in k..(k + n - 1) : Has(Append(p, b), c)
           /\ \A c : Has(p, c) => Has(Append(p, b), c)
<1>1. b \in Seq(Nat) /\ Len(b) = n /\ \A j \in 1..n : b[j] = k + j - 1
  <2>1. b \in [1..n -> Nat]
    OBVIOUS
  <2>. QED
    BY <2>1
<1>2. PICK l \in Nat : l = Len(p)
  OBVIOUS
<1>3. PICK q : q = Append(p, b)
  OBVIOUS
<1>4. q \in Seq(Seq(Nat)) /\ Len(q) = l + 1 /\ q[l + 1] = b /\ \A a \in 1..l : q[a] = p[a]
  BY <1>1, <1>2, <1>3
<1>5. \A a \in 1..l : p[a] \in Seq(Nat)
  BY <1>2
<1>6. \A a \in 1..(l + 1) : a \in 1..l \/ a = l + 1
  OBVIOUS
<1>7. ASSUME NEW a \in 1..l, NEW m \in 1..Len(p[a]) PROVE p[a][m] \in Nat /\ p[a][m] < k
  <2>1. PICK t \in Seq(Nat) : t = p[a]
    BY <1>5
  <2>2. t[m] \in Nat
    BY <2>1
  <2>. QED
    BY <1>2, <2>1, <2>2 DEF Below
<1>8. InOrder(q)
  <2>1. ASSUME NEW a \in 1..(l + 1), NEW m \in 1..Len(q[a]), NEW x \in 1..Len(q[a]), m < x
        PROVE  q[a][m] < q[a][x]
    <3>1. CASE a \in 1..l
      <4>1. q[a] = p[a] /\ a \in 1..Len(p)
        BY <1>2, <1>4, <3>1
      <4>. QED
        BY <2>1, <4>1 DEF InOrder
    <3>2. CASE a = l + 1
      <4>1. q[a] = b /\ m \in 1..n /\ x \in 1..n
        BY <1>1, <1>4, <3>2
      <4>2. k + m - 1 < k + x - 1
        BY <2>1, <4>1
      <4>. QED
        BY <1>1, <4>1, <4>2
    <3>. QED
      BY <1>6, <3>1, <3>2
  <2>2. ASSUME NEW a \in 1..(l + 1), NEW c \in 1..(l + 1), a < c,
               NEW m \in 1..Len(q[a]), NEW x \in 1..Len(q[c])
        PROVE  q[a][m] < q[c][x]
    <3>1. a \in 1..l /\ q[a] = p[a] /\ a \in 1..Len(p)
      <4>1. a \in 1..l
        BY <2>2
      <4>. QED
        BY <1>2, <1>4, <4>1
    <3>2. CASE c \in 1..l
      <4>1. q[c] = p[c] /\ c \in 1..Len(p)
        BY <1>2, <1>4, <3>2
      <4>. QED
        BY <2>2, <3>1, <4>1 DEF InOrder
    <3>3. CASE c = l + 1
      <4>1. q[c] = b /\ x \in 1..n
        BY <1>1, <1>4, <3>3
      <4>2. b[x] = k + x - 1 /\ k <= k + x - 1
        BY <1>1, <4>1
      <4>3. p[a][m] \in Nat /\ p[a][m] < k
        BY <1>7, <3>1
      <4>. QED
        BY <3>1, <4>1, <4>2, <4>3
    <3>. QED
      BY <1>6, <3>2, <3>3
  <2>. QED
    BY <1>4, <2>1, <2>2 DEF InOrder
<1>9. Below(q, k + n)
  <2>. SUFFICES ASSUME NEW a \in 1..(l + 1), NEW m \in 1..Len(q[a]) PROVE q[a][m] < k + n
    BY <1>4 DEF Below
  <2>1. CASE a \in 1..l
    <3>1. q[a] = p[a]
      BY <1>4, <2>1
    <3>2. p[a][m] \in Nat /\ p[a][m] < k
      BY <1>7, <2>1, <3>1
    <3>. QED
      BY <3>1, <3>2
  <2>2. CASE a = l + 1
    <3>1. q[a] = b /\ m \in 1..n
      BY <1>1, <1>4, <2>2
    <3>. QED
      BY <1>1, <3>1
  <2>. QED
    BY <1>6, <2>1, <2>2
<1>10. ASSUME NEW c \in k..(k + n - 1) PROVE Has(q, c)
  <2>1. PICK j \in 1..n : j = c - k + 1 /\ k + j - 1 = c
    OBVIOUS
  <2>2. l + 1 \in 1..Len(q) /\ j \in 1..Len(q[l + 1]) /\ q[l + 1][j] = c
    BY <1>1, <1>4, <2>1
  <2>. QED
    BY <2>2 DEF Has
<1>11. ASSUME NEW c, Has(p, c) PROVE Has(q, c)
  <2>1. PICK a \in 1..l : \E m \in 1..Len(p[a]) : p[a][m] = c
    BY <1>2, <1>11 DEF Has
  <2>2. a \in 1..Len(q) /\ q[a] = p[a]
    BY <1>4
  <2>. QED
    BY <2>1, <2>2 DEF Has
<1>. QED
  BY <1>3, <1>4, <1>8, <1>9, <1>10, <1>11

\* A level of joining: the same clips in the same order.
Joins(p, l) == [g \in 1..Groups(l) |-> Flat(p, FromOf(g), ToOf(g, l))]

LEMMA JoinOn ==
    ASSUME NEW p \in Seq(Seq(Nat)), InOrder(p), NEW l \in Nat \ {0}, l = Len(p),
           NEW q, q = Joins(p, l)
    PROVE  /\ q \in Seq(Seq(Nat)) /\ InOrder(q)
           /\ \A k : Has(p, k) <=> Has(q, k)
<1>1. PICK r \in Nat : r = Groups(l)
  BY GroupFacts
<1>2. ASSUME NEW g \in 1..r
      PROVE  /\ FromOf(g) \in Nat \ {0} /\ ToOf(g, l) \in Nat
             /\ FromOf(g) <= ToOf(g, l) /\ ToOf(g, l) <= l
             /\ q[g] \in Seq(Nat) /\ Ascending(q[g]) /\ EntriesOf(q[g], p, FromOf(g), ToOf(g, l))
  <2>1. /\ FromOf(g) \in Nat \ {0} /\ ToOf(g, l) \in Nat
        /\ FromOf(g) <= ToOf(g, l) /\ ToOf(g, l) <= l
    BY <1>1, GroupFacts
  <2>2. q[g] = Flat(p, FromOf(g), ToOf(g, l))
    BY <1>1 DEF Joins
  <2>. QED
    BY <2>1, <2>2, FlatFacts
<1>3. q \in Seq(Seq(Nat)) /\ Len(q) = r
  <2>1. q \in [1..r -> Seq(Nat)]
    <3>1. q = [g \in 1..r |-> q[g]]
      BY <1>1 DEF Joins
    <3>. QED
      BY <1>2, <3>1
  <2>. QED
    BY <2>1
<1>8. ASSUME NEW g \in 1..r, NEW a \in FromOf(g)..ToOf(g, l) PROVE a \in 1..l
  <2>1. PICK u \in Nat \ {0}, v \in Nat : u = FromOf(g) /\ v = ToOf(g, l) /\ v <= l
    BY <1>2
  <2>. QED
    BY <2>1
<1>4. ASSUME NEW g \in 1..r, NEW m \in 1..Len(q[g])
      PROVE  \E a \in FromOf(g)..ToOf(g, l) : a \in 1..l /\ \E n \in 1..Len(p[a]) : q[g][m] = p[a][n]
  <2>1. PICK a \in FromOf(g)..ToOf(g, l) : \E n \in 1..Len(p[a]) : q[g][m] = p[a][n]
    BY <1>2 DEF EntriesOf
  <2>2. a \in 1..l
    BY <1>8
  <2>. QED
    BY <2>1, <2>2
<1>5. InOrder(q)
  <2>1. ASSUME NEW g \in 1..r, NEW m \in 1..Len(q[g]), NEW x \in 1..Len(q[g]), m < x
        PROVE  q[g][m] < q[g][x]
    BY <1>2, <2>1 DEF Ascending
  <2>2. ASSUME NEW g \in 1..r, NEW h \in 1..r, g < h, NEW m \in 1..Len(q[g]), NEW x \in 1..Len(q[h])
        PROVE  q[g][m] < q[h][x]
    <3>1. PICK a \in FromOf(g)..ToOf(g, l) : a \in 1..l /\ \E n \in 1..Len(p[a]) : q[g][m] = p[a][n]
      BY <1>4
    <3>2. PICK b \in FromOf(h)..ToOf(h, l) : b \in 1..l /\ \E n \in 1..Len(p[b]) : q[h][x] = p[b][n]
      BY <1>4
    <3>3. ToOf(g, l) < FromOf(h)
      BY <1>1, <2>2, GroupFacts
    <3>5. PICK u \in Nat, v \in Nat : u = ToOf(g, l) /\ v = FromOf(h) /\ FromOf(g) \in Nat /\ ToOf(h, l) \in Nat
      BY <1>2
    <3>4. a < b
      BY <3>3, <3>5
    <3>. QED
      BY <3>1, <3>2, <3>4 DEF InOrder
  <2>3. \A g \in 1..r : \A m, x \in 1..Len(q[g]) : m < x => q[g][m] < q[g][x]
    BY <2>1
  <2>4. \A g, h \in 1..r : g < h => \A m \in 1..Len(q[g]), x \in 1..Len(q[h]) : q[g][m] < q[h][x]
    BY <2>2
  <2>5. 1..Len(q) = 1..r
    BY <1>3
  <2>6. \A g \in 1..Len(q) : \A m, x \in 1..Len(q[g]) : m < x => q[g][m] < q[g][x]
    BY <2>3, <2>5, Zenon
  <2>7. \A g, h \in 1..Len(q) : g < h => \A m \in 1..Len(q[g]), x \in 1..Len(q[h]) : q[g][m] < q[h][x]
    <3>1. ASSUME NEW g \in 1..Len(q), NEW h \in 1..Len(q), g < h
          PROVE  \A m \in 1..Len(q[g]), x \in 1..Len(q[h]) : q[g][m] < q[h][x]
      <4>1. g \in 1..r /\ h \in 1..r
        BY <2>5
      <4>. QED
        BY <2>4, <3>1, <4>1, Zenon
    <3>. QED
      BY <3>1, Zenon
  <2>. QED
    BY <2>6, <2>7, Zenon DEF InOrder
<1>6. ASSUME NEW k, Has(p, k) PROVE Has(q, k)
  <2>1. PICK a \in 1..l : \E n \in 1..Len(p[a]) : p[a][n] = k
    BY <1>6 DEF Has
  <2>2. PICK g \in 1..r : a \in FromOf(g)..ToOf(g, l)
    BY <1>1, GroupFacts
  <2>3. \E n \in 1..Len(q[g]) : q[g][n] = k
    <3>1. PICK m \in 1..Len(p[a]) : p[a][m] = k
      BY <2>1
    <3>2. EntriesOf(q[g], p, FromOf(g), ToOf(g, l))
      BY <1>2
    <3>3. \A x \in 1..Len(p[a]) : \E n \in 1..Len(q[g]) : q[g][n] = p[a][x]
      BY <2>2, <3>2, Zenon DEF EntriesOf
    <3>. QED
      BY <3>1, <3>3, Zenon
  <2>. QED
    BY <1>3, <2>3 DEF Has
<1>7. ASSUME NEW k, Has(q, k) PROVE Has(p, k)
  <2>1. PICK g \in 1..r : \E n \in 1..Len(q[g]) : q[g][n] = k
    BY <1>3, <1>7 DEF Has
  <2>2. PICK n \in 1..Len(q[g]) : q[g][n] = k
    BY <2>1
  <2>3. PICK a \in 1..l : \E m \in 1..Len(p[a]) : k = p[a][m]
    <3>1. \E a \in FromOf(g)..ToOf(g, l) : a \in 1..l /\ \E m \in 1..Len(p[a]) : q[g][n] = p[a][m]
      BY <1>4, <2>2, Zenon
    <3>. QED
      BY <2>2, <3>1, Zenon
  <2>4. a \in 1..Len(p) /\ \E m \in 1..Len(p[a]) : p[a][m] = k
    BY <2>3, Zenon
  <2>. QED
    BY <2>4, Zenon DEF Has
<1>. QED
  BY <1>3, <1>5, <1>6, <1>7

LEMMA NextBatches ==
    ASSUME NEW u \in Nat, pc' = "encode", i' = u, u \in 1..(Len(clips') + 1),
           parts' \in Seq(Seq(Nat)), InOrder(parts'), Below(parts', u),
           \A c \in 1..(u - 1) : Frameless(c)' \/ Has(parts', c)
    PROVE  Batches'
BY DEF Batches, WholeConcat

LEMMA EncodeBatches ==
    ASSUME Shape, Batches, EncodeBatch
    PROVE  Batches'
<1>1. PICK l \in Nat : l = Len(clips)
  BY DEF Shape
<1>2. PICK k \in 1..l : k = i /\ pc = "encode"
  BY <1>1 DEF EncodeBatch, Batches
<1>3. /\ parts \in Seq(Seq(Nat)) /\ InOrder(parts) /\ Below(parts, k) /\ k \in Nat
      /\ \A c \in 1..(k - 1) : Frameless(c) \/ Has(parts, c)
  BY <1>2 DEF Batches
<1>. DEFINE n == Lower(MaxBatch, l - k + 1)
            batch == [j \in 1..n |-> k + j - 1]
<1>4. n \in Nat \ {0} /\ k + n \in 1..(l + 1) /\ clips' = clips
  BY <1>2, RetimeAssumption DEF Lower, EncodeBatch, videoPlan
<1>5. \A c : Frameless(c)' <=> Frameless(c)
  BY <1>4 DEF Frameless
<1>6. \/ parts' = Append(parts, batch) /\ i' = k + n /\ pc' = "encode"
      \/ /\ parts' = parts /\ i' = k + n /\ pc' = "encode"
         /\ \A m \in 1..n : Frameless(batch[m])
      \/ parts' = parts /\ pc' = "failed"
  BY <1>1, <1>2 DEF EncodeBatch
<1>7. batch = [j \in 1..n |-> k + j - 1]
  OBVIOUS
<1>. HIDE DEF n, batch
<1>8. CASE parts' = Append(parts, batch) /\ i' = k + n /\ pc' = "encode"
  <2>1. /\ parts' \in Seq(Seq(Nat)) /\ InOrder(parts') /\ Below(parts', k + n)
        /\ \A c \in k..(k + n - 1) : Has(parts', c)
        /\ \A c : Has(parts, c) => Has(parts', c)
    <3>1. PICK p : p = parts
      OBVIOUS
    <3>2. PICK b : b = batch /\ parts' = Append(p, b)
      BY <1>8, <3>1
    <3>3. p \in Seq(Seq(Nat)) /\ InOrder(p) /\ k \in Nat /\ Below(p, k) /\ n \in Nat
      BY <1>3, <1>4, <3>1
    <3>4. b = [j \in 1..n |-> k + j - 1]
      BY <1>7, <3>2
    <3>5. /\ Append(p, b) \in Seq(Seq(Nat)) /\ InOrder(Append(p, b)) /\ Below(Append(p, b), k + n)
          /\ \A c \in k..(k + n - 1) : Has(Append(p, b), c)
          /\ \A c : Has(p, c) => Has(Append(p, b), c)
      BY <3>3, <3>4, BatchOn
    <3>. QED
      BY <3>1, <3>2, <3>5
  <2>2. ASSUME NEW c \in 1..(k + n - 1) PROVE Frameless(c) \/ Has(parts', c)
    <3>1. c \in 1..(k - 1) \/ c \in k..(k + n - 1)
      BY <1>3, <1>4
    <3>. QED
      BY <1>3, <2>1, <3>1
  <2>3. PICK u \in Nat : u = k + n /\ u - 1 = k + n - 1
    BY <1>3, <1>4
  <2>4. /\ pc' = "encode" /\ i' = u /\ u \in 1..(Len(clips') + 1)
        /\ \A c \in 1..(u - 1) : Frameless(c)' \/ Has(parts', c)
    BY <1>1, <1>4, <1>5, <1>8, <2>2, <2>3
  <2>5. Below(parts', u)
    BY <2>1, <2>3
  <2>. QED
    BY <2>1, <2>4, <2>5, NextBatches
<1>9. CASE parts' = parts /\ i' = k + n /\ pc' = "encode" /\ \A m \in 1..n : Frameless(batch[m])
  <2>1. ASSUME NEW c \in 1..(k + n - 1) PROVE Frameless(c) \/ Has(parts, c)
    <3>1. CASE c \in 1..(k - 1)
      BY <1>3, <3>1
    <3>2. CASE c \notin 1..(k - 1)
      <4>1. PICK m \in 1..n : m = c - k + 1 /\ k + m - 1 = c
        BY <1>3, <1>4, <3>2
      <4>. QED
        BY <1>7, <1>9, <4>1
    <3>. QED
      BY <3>1, <3>2
  <2>2. Below(parts, k + n)
    <3>1. \A a \in 1..Len(parts) : parts[a] \in Seq(Nat)
      BY <1>3
    <3>. SUFFICES ASSUME NEW a \in 1..Len(parts), NEW m \in 1..Len(parts[a]) PROVE parts[a][m] < k + n
      BY DEF Below
    <3>2. PICK t \in Seq(Nat) : t = parts[a]
      BY <3>1
    <3>3. t[m] \in Nat /\ t[m] < k
      BY <1>3, <3>2 DEF Below
    <3>. QED
      BY <1>3, <1>4, <3>2, <3>3
  <2>3. PICK u \in Nat : u = k + n /\ u - 1 = k + n - 1
    BY <1>3, <1>4
  <2>4. /\ pc' = "encode" /\ i' = u /\ u \in 1..(Len(clips') + 1) /\ parts' = parts
        /\ \A c \in 1..(u - 1) : Frameless(c)' \/ Has(parts', c)
    BY <1>1, <1>4, <1>5, <1>9, <2>1, <2>3
  <2>5. Below(parts', u)
    BY <2>2, <2>3, <2>4
  <2>. QED
    BY <1>3, <2>4, <2>5, NextBatches
<1>10. CASE parts' = parts /\ pc' = "failed"
  BY <1>3, <1>10 DEF Batches, WholeConcat
<1>. QED
  BY <1>6, <1>8, <1>9, <1>10

LEMMA ConcatBatches ==
    ASSUME Shape, Batches, Concat
    PROVE  Batches'
<1>1. PICK l \in Nat : l = Len(parts) /\ parts \in Seq(Seq(Nat)) /\ InOrder(parts)
  BY DEF Batches
<1>2. PICK e \in Nat : e = Len(clips)
  BY DEF Shape
<1>3. /\ pc = "encode" /\ i = e + 1 /\ i' = i /\ clips' = clips
      /\ Below(parts, i) /\ \A k \in 1..e : Frameless(k) \/ Has(parts, k)
  BY <1>2 DEF Concat, Batches, videoPlan
<1>4. \A k : Frameless(k)' <=> Frameless(k)
  BY <1>3 DEF Frameless
<1>5. CASE parts' = parts /\ pc' = "failed"
  BY <1>1, <1>5 DEF Batches, WholeConcat
<1>6. CASE l = 1 /\ parts' = parts /\ pc' = "correct"
  <2>1. ASSUME NEW k \in 1..e PROVE Frameless(k) \/ \E n \in 1..Len(parts[1]) : parts[1][n] = k
    BY <1>1, <1>3, <1>6 DEF Has
  <2>2. \A m, n \in 1..Len(parts[1]) : m < n => parts[1][m] < parts[1][n]
    <3>1. 1 \in 1..Len(parts)
      BY <1>1, <1>6
    <3>. QED
      BY <1>1, <3>1 DEF InOrder
  <2>3. WholeConcat'
    BY <1>1, <1>2, <1>3, <1>4, <1>6, <2>1, <2>2 DEF WholeConcat
  <2>. QED
    BY <1>1, <1>6, <2>3 DEF Batches
<1>7. CASE l \notin {0, 1} /\ pc' = pc
           /\ parts' = Joins(parts, l)
  <2>1. /\ parts' \in Seq(Seq(Nat)) /\ InOrder(parts')
        /\ \A k : Has(parts, k) <=> Has(parts', k)
    <3>1. PICK p, q : p = parts /\ q = parts'
      OBVIOUS
    <3>2. p \in Seq(Seq(Nat)) /\ InOrder(p) /\ l \in Nat \ {0} /\ l = Len(p) /\ q = Joins(p, l)
      BY <1>1, <1>7, <3>1
    <3>3. /\ q \in Seq(Seq(Nat)) /\ InOrder(q)
          /\ \A k : Has(p, k) <=> Has(q, k)
      BY <3>2, JoinOn
    <3>. QED
      BY <3>1, <3>3
  <2>2. Below(parts', i)
    <3>. SUFFICES ASSUME NEW a \in 1..Len(parts'), NEW n \in 1..Len(parts'[a]) PROVE parts'[a][n] < i
      BY DEF Below
    <3>1. PICK k : k = parts'[a][n]
      OBVIOUS
    <3>2. Has(parts, k)
      BY <2>1, <3>1 DEF Has
    <3>. QED
      BY <1>3, <3>1, <3>2 DEF Has, Below
  <2>3. /\ pc' = "encode" /\ i' = e + 1 /\ i' \in 1..(Len(clips') + 1) /\ (e + 1) - 1 = e
        /\ \A k \in 1..e : Frameless(k)' \/ Has(parts', k)
    BY <1>2, <1>3, <1>4, <1>7, <2>1
  <2>. QED
    BY <1>3, <2>1, <2>2, <2>3 DEF Batches, WholeConcat
<1>. QED
  <2>1. \/ parts' = parts /\ pc' = "failed"
        \/ l = 1 /\ parts' = parts /\ pc' = "correct"
        \/ /\ l \notin {0, 1} /\ pc' = pc
           /\ parts' = Joins(parts, l)
    BY <1>1 DEF Concat, Joins, Groups, FromOf, ToOf
  <2>. QED
    BY <2>1, <1>5, <1>6, <1>7

LEMMA BatchesKept ==
    ASSUME Inv, Shape, Shape', Batches, [Next]_vars
    PROVE  Batches'
<1>1. CASE \/ Speak \/ Spoken \/ Check \/ Lead \/ Lay \/ Finish
           \/ ZhLead \/ ZhLay \/ ZhTrail
  <2>1. /\ parts' = parts /\ pc' \notin {"encode", "correct"}
        /\ pc' \in {"speak", "check", "lead", "lay"} => pc \in {"speak", "check", "lead", "lay"}
    BY <1>1 DEF Speak, Spoken, Check, Lead, Lay, Finish, ZhLead, ZhLay, ZhTrail
  <2>. QED
    BY <2>1 DEF Batches, WholeConcat
<1>2. CASE Trail
  <2>1. pc' = "encode" /\ i' = 1 /\ parts' = parts /\ parts = <<>> /\ Len(clips') \in Nat
    BY <1>2 DEF Trail, Batches, Shape
  <2>2. Below(parts', 1)
    BY <2>1 DEF Below
  <2>. QED
    BY <2>1, <2>2 DEF Batches, WholeConcat
<1>3. CASE UNCHANGED vars
  BY <1>3 DEF vars, Batches, WholeConcat, Frameless
<1>. QED
  BY <1>1, <1>2, <1>3, EncodeBatches, ConcatBatches DEF Next

\* WholeConcat: however many batches there are and however few go into a
\* group, every clip with a frame is in the file, once and in its place.
THEOREM NoClipLost == Spec => []WholeConcat
<1>1. Init => Batches
  <2>. SUFFICES ASSUME Init PROVE Batches
    OBVIOUS
  <2>1. parts = <<>> /\ pc = "speak"
    BY DEF Init
  <2>2. parts \in Seq(Seq(Nat)) /\ Len(parts) = 0
    BY <2>1
  <2>. QED
    BY <2>1, <2>2 DEF Batches, InOrder, WholeConcat
<1>2. Batches => WholeConcat
  BY DEF Batches
<1>. QED
  BY <1>1, <1>2, Initially, Inductive, InitShape, ShapeKept, BatchesKept, PTL DEF Spec

=============================================================================

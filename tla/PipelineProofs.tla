---------------------------- MODULE PipelineProofs ----------------------------
(***************************************************************************)
(* Proofs about module Pipeline.                                           *)
(***************************************************************************)
EXTENDS Pipeline, FiniteSetTheorems, TLAPS

-----------------------------------------------------------------------------
(* Induction on the natural numbers                                        *)

\* A set with 0 and the successor of each of its naturals holds every natural:
\* of the intervals 0..n, n not in the set, one is least under inclusion.
LEMMA SetInduction ==
    ASSUME NEW P, 0 \in P, \A n \in Nat : n \in P => n + 1 \in P
    PROVE  Nat \subseteq P
<1>. SUFFICES ASSUME ~(Nat \subseteq P) PROVE FALSE
  OBVIOUS
<1>. DEFINE R == StrictSubsetOrdering(Nat)
            F == FiniteSubsetsOf(Nat)
            I == {0..n : n \in Nat \ P}
<1>1. IsWellFoundedOn(R, F)
  BY FS_StrictSubsetOrderingWellFounded
<1>2. I \subseteq F /\ I # {}
  <2>1. \A n \in Nat : IsFiniteSet(0..n) /\ 0..n \subseteq Nat
    BY FS_Interval
  <2>. QED
    BY <2>1 DEF FiniteSubsetsOf
<1>3. PICK s \in I : \A t \in I : <<t, s>> \notin R
  <2>. HIDE DEF R, F, I
  <2>. QED
    BY <1>1, <1>2, WFMin
<1>4. PICK n \in Nat \ P : s = 0..n
  BY <1>3
<1>5. n # 0 /\ n - 1 \in Nat /\ (n - 1) + 1 = n /\ n - 1 \notin P
  BY <1>4
<1>6. 0..(n - 1) \subseteq 0..n /\ n \notin 0..(n - 1) /\ n \in 0..n
  BY <1>4, <1>5
<1>7. <<0..(n - 1), s>> \in R
  BY <1>4, <1>5, <1>6 DEF StrictSubsetOrdering
<1>. QED
  BY <1>3, <1>5, <1>7

-----------------------------------------------------------------------------
(* Checkpoint lists                                                        *)

\* No step is twice in the list.
Once(c) == \A i, j \in 1..Len(c) : c[i] = c[j] => i = j

\* A step that is not in the list yet can be appended.
LEMMA AppendFacts ==
    ASSUME NEW T, NEW c \in Seq(T), NEW s \in T
    PROVE  /\ Append(c, s) \in Seq(T)
           /\ Marked(Append(c, s)) = Marked(c) \cup {s}
           /\ Once(c) /\ s \notin Marked(c) => Once(Append(c, s))
<1>1. Append(c, s) \in Seq(T) /\ Len(Append(c, s)) = Len(c) + 1 /\ Len(c) \in Nat
  OBVIOUS
<1>2. /\ Append(c, s)[Len(c) + 1] = s
      /\ \A i \in 1..Len(c) : Append(c, s)[i] = c[i]
  OBVIOUS
<1>3. 1..(Len(c) + 1) = 1..Len(c) \cup {Len(c) + 1}
  BY <1>1
<1>. DEFINE a == Append(c, s)
<1>. HIDE DEF a
<1>4. Marked(a) = Marked(c) \cup {s}
  BY <1>1, <1>2, <1>3 DEF Marked, a
<1>5. ASSUME Once(c), s \notin Marked(c) PROVE Once(a)
  <2>. SUFFICES ASSUME NEW i \in 1..(Len(c) + 1), NEW j \in 1..(Len(c) + 1),
                       a[i] = a[j]
                PROVE  i = j
    BY <1>1 DEF Once, a
  <2>1. CASE i \in 1..Len(c) /\ j \in 1..Len(c)
    BY <2>1, <1>2, <1>5 DEF Once, a
  <2>2. CASE i = Len(c) + 1 /\ j = Len(c) + 1
    BY <2>2
  <2>3. CASE i \in 1..Len(c) /\ j = Len(c) + 1
    BY <2>3, <1>2, <1>5 DEF Marked, a
  <2>4. CASE i = Len(c) + 1 /\ j \in 1..Len(c)
    BY <2>4, <1>2, <1>5 DEF Marked, a
  <2>. QED
    BY <1>3, <2>1, <2>2, <2>3, <2>4
<1>. QED
  BY <1>1, <1>4, <1>5 DEF a

\* The first k entries of a list.
LEMMA PrefixFacts ==
    ASSUME NEW T, NEW c \in Seq(T), NEW k \in 0..Len(c)
    PROVE  /\ SubSeq(c, 1, k) \in Seq(T)
           /\ Marked(SubSeq(c, 1, k)) \subseteq Marked(c)
           /\ Once(c) => Once(SubSeq(c, 1, k))
<1>. DEFINE p == SubSeq(c, 1, k)
<1>1. Len(c) \in Nat /\ k \in Nat /\ k <= Len(c)
  OBVIOUS
<1>2. p \in Seq(T) /\ Len(p) = k /\ \A i \in 1..k : p[i] = c[i]
  BY <1>1
<1>3. 1..k \subseteq 1..Len(c)
  BY <1>1
<1>. HIDE DEF p
<1>4. Marked(p) \subseteq Marked(c)
  BY <1>2, <1>3 DEF Marked
<1>5. Once(c) => Once(p)
  BY <1>2, <1>3 DEF Once
<1>. QED
  BY <1>2, <1>4, <1>5 DEF p

\* The recursion of Without, cut off at n.
WithoutUpTo(f, c, S, n) ==
    f = [k \in 0..n |->
            IF k = 0 THEN <<>>
            ELSE IF c[k] \in S THEN f[k - 1] ELSE Append(f[k - 1], c[k])]

\* There is a function that satisfies it.
LEMMA WithoutExists ==
    ASSUME NEW c, NEW S, NEW n \in Nat
    PROVE  \E f : WithoutUpTo(f, c, S, n)
<1>. DEFINE P == {m \in Nat : \E f : WithoutUpTo(f, c, S, m)}
<1>1. 0 \in P
  <2>1. WithoutUpTo([k \in 0..0 |-> <<>>], c, S, 0)
    BY DEF WithoutUpTo
  <2>. QED
    BY <2>1
<1>2. ASSUME NEW m \in Nat, m \in P PROVE m + 1 \in P
  <2>1. PICK f : WithoutUpTo(f, c, S, m)
    BY <1>2
  <2>. DEFINE g == [k \in 0..(m + 1) |->
                      IF k <= m THEN f[k]
                      ELSE IF c[k] \in S THEN f[k - 1] ELSE Append(f[k - 1], c[k])]
  <2>2. \A k \in 0..m : f[k] = IF k = 0 THEN <<>>
                               ELSE IF c[k] \in S THEN f[k - 1]
                               ELSE Append(f[k - 1], c[k])
    BY <2>1 DEF WithoutUpTo
  <2>3. \A k \in 0..m : g[k] = f[k]
    OBVIOUS
  <2>4. \A k \in 0..(m + 1) : k # 0 => k - 1 \in 0..m
    OBVIOUS
  <2>5. \A k \in 0..(m + 1) : g[k] = IF k = 0 THEN <<>>
                                     ELSE IF c[k] \in S THEN g[k - 1]
                                     ELSE Append(g[k - 1], c[k])
    <3>. SUFFICES ASSUME NEW k \in 0..(m + 1)
                  PROVE  g[k] = IF k = 0 THEN <<>>
                                ELSE IF c[k] \in S THEN g[k - 1]
                                ELSE Append(g[k - 1], c[k])
      OBVIOUS
    <3>1. CASE k \in 0..m
      <4>. HIDE DEF g
      <4>. QED
        BY <3>1, <2>2, <2>3, <2>4
    <3>2. CASE k = m + 1
      <4>1. k # 0 /\ k - 1 \in 0..m /\ ~(k <= m)
        BY <3>2
      <4>2. g[k] = IF c[k] \in S THEN f[k - 1] ELSE Append(f[k - 1], c[k])
        BY <4>1
      <4>. HIDE DEF g
      <4>. QED
        BY <4>1, <4>2, <2>3
    <3>. QED
      BY <3>1, <3>2
  <2>6. WithoutUpTo(g, c, S, m + 1)
    <3>. g = [k \in 0..(m + 1) |-> g[k]]
      OBVIOUS
    <3>. HIDE DEF g
    <3>. QED
      BY <2>5 DEF WithoutUpTo
  <2>. QED
    BY <2>6
<1>. HIDE DEF P
<1>3. Nat \subseteq P
  BY <1>1, <1>2, SetInduction
<1>. QED
  BY <1>3 DEF P

\* Without(c, S) keeps the other steps of c, each as often as before.
LEMMA WithoutFacts ==
    ASSUME NEW T, NEW c \in Seq(T), NEW S
    PROVE  /\ Without(c, S) \in Seq(T)
           /\ Marked(Without(c, S)) = Marked(c) \ S
           /\ Once(c) => Once(Without(c, S))
<1>. DEFINE f == CHOOSE g : WithoutUpTo(g, c, S, Len(c))
<1>1. Len(c) \in Nat
  OBVIOUS
<1>2. WithoutUpTo(f, c, S, Len(c))
  BY <1>1, WithoutExists
<1>3. Without(c, S) = f[Len(c)]
  BY DEF Without, WithoutUpTo
<1>. HIDE DEF f
<1>4. \A k \in 0..Len(c) : f[k] = IF k = 0 THEN <<>>
                                  ELSE IF c[k] \in S THEN f[k - 1]
                                  ELSE Append(f[k - 1], c[k])
  BY <1>2 DEF WithoutUpTo
<1>. DEFINE Good(n) == /\ f[n] \in Seq(T)
                       /\ Marked(f[n]) = {c[i] : i \in 1..n} \ S
                       /\ Once(c) => Once(f[n])
            P == {n \in Nat : n <= Len(c) => Good(n)}
<1>5. 0 \in P
  <2>1. f[0] = <<>>
    BY <1>1, <1>4
  <2>2. <<>> \in Seq(T) /\ Len(<<>>) = 0 /\ 1..0 = {}
    OBVIOUS
  <2>. QED
    BY <2>1, <2>2 DEF Marked, Once
<1>6. ASSUME NEW n \in Nat, n \in P PROVE n + 1 \in P
  <2>. SUFFICES ASSUME n + 1 <= Len(c) PROVE Good(n + 1)
    OBVIOUS
  <2>1. Good(n) /\ n + 1 \in 1..Len(c) /\ n + 1 \in 0..Len(c)
    BY <1>1, <1>6
  <2>2. f[n + 1] = IF c[n + 1] \in S THEN f[n] ELSE Append(f[n], c[n + 1])
    BY <2>1, <1>4
  <2>3. 1..(n + 1) = 1..n \cup {n + 1} /\ n + 1 \notin 1..n /\ 1..n \subseteq 1..Len(c)
    BY <2>1
  <2>4. {c[i] : i \in 1..(n + 1)} = {c[i] : i \in 1..n} \cup {c[n + 1]}
    BY <2>3
  <2>5. c[n + 1] \in T
    BY <2>1
  <2>6. CASE c[n + 1] \in S
    BY <2>1, <2>2, <2>4, <2>6
  <2>7. CASE c[n + 1] \notin S
    <3>1. f[n + 1] = Append(f[n], c[n + 1])
      BY <2>2, <2>7
    <3>2. Append(f[n], c[n + 1]) \in Seq(T)
      BY <2>1, <2>5
    <3>3. Marked(Append(f[n], c[n + 1])) = Marked(f[n]) \cup {c[n + 1]}
      BY <2>1, <2>5, AppendFacts
    <3>4. ASSUME Once(c) PROVE Once(f[n + 1])
      <4>1. c[n + 1] \notin {c[i] : i \in 1..n}
        BY <3>4, <2>1, <2>3 DEF Once
      <4>2. c[n + 1] \notin Marked(f[n])
        BY <4>1, <2>1
      <4>. QED
        BY <4>2, <3>1, <3>4, <2>1, <2>5, AppendFacts
    <3>. QED
      BY <3>1, <3>2, <3>3, <3>4, <2>1, <2>4, <2>7
  <2>. QED
    BY <2>6, <2>7
<1>7. Nat \subseteq P
  <2>. HIDE DEF P
  <2>. QED
    BY <1>5, <1>6, SetInduction
<1>8. Good(Len(c))
  <2>1. Len(c) \in P
    BY <1>1, <1>7
  <2>2. Len(c) <= Len(c)
    BY <1>1
  <2>. HIDE DEF Good
  <2>. QED
    BY <2>1, <2>2
<1>9. Marked(c) = {c[i] : i \in 1..Len(c)}
  BY DEF Marked
<1>. QED
  BY <1>3, <1>8, <1>9

-----------------------------------------------------------------------------
(* The inductive invariants                                                *)

\* The file a request is about.
RequestInv ==
    /\ ureq.pc \in {"inval", "invalset", "purge", "flag"} => ureq.file \in EditFiles
    /\ ureq.pc \in {"clear", "clearset"} => ureq.file \in DeleteFiles

\* What the three copies of the checkpoint, the row's, the one mark() has
\* read and the one a request has read, say of each other: a request only
\* ever takes steps out of what it has read, and mark() puts back at most what
\* it has read, so a list read earlier never has a step the newer one lost.
OnceInv ==
    /\ Once(ckpt) /\ Once(mread) /\ Once(ureq.read)
    /\ ureq.pc \in {"invalset", "clearset"} => Marked(ureq.read) \subseteq Marked(ckpt)
    /\ hpc = "markset" => Marked(ckpt) \subseteq Marked(mread)
    /\ hpc \in {"run", "mark"} /\ Step \in Handler.marks => Step \notin Marked(ckpt)
    /\ hpc \in {"mark", "markset"} => Step \in Handler.marks
    /\ hpc = "markset" => Step \notin Marked(mread)

\* Nobody touches a job that is queued or runs (users are not "busy", the TUI
\* is not used), so the copies are exact.
QuietInv ==
    /\ ureq.pc # "tuipurge"
    /\ status \in {"pending", "processing"} => ureq.pc \in {"idle", "unflag"}
    /\ ureq.pc \in {"invalset", "clearset"} => ureq.read = ckpt
    /\ hpc = "markset" => mread = ckpt
    /\ ureq.pc \in {"purge", "flag"} =>
           Marked(ckpt) \cap After(StepOfName(ureq.file)) = {}
    /\ ureq.pc = "flag" => \A s \in After(StepOfName(ureq.file)) : Artifacts(s) \cap present = {}

\* A marked step has its output, but for a file that is being deleted, one
\* whose deletion was cut short, or the speech of a step that failed quietly.
PresentInv ==
    /\ hpc \in {"mark", "markset"} => Writes(Step) \subseteq present \cup lost
    /\ \A s \in Marked(ckpt) : \A f \in Writes(s) :
          \/ f \in present \cup lost
          \/ ureq.pc \in {"clear", "clearset"} /\ f = ureq.file

\* A handler that marks its steps has marked those before the one it is at.
OrderInv ==
    /\ "track" \in present => "audio" \in Steps
    /\ "out" \in present => "video" \in Steps
    /\ ureq.pc = "unflag" => edited = 0
    /\ Handler.marks = {} => Marked(ckpt) = {}
    /\ hpc \in {"check", "run", "mark", "markset"} /\ Handler.marks # {} =>
           \A j \in 1..(idx - 1) : Handler.steps[j] \in Marked(ckpt)
    /\ hpc \in {"copy", "final"} /\ Handler.marks # {} => Steps \subseteq Marked(ckpt)

\* An edit that is owed is in the edited file, in the speech if there is any,
\* and in the output of every other later step that is marked; a later step
\* that runs has read it.
EditInv(e) ==
    LET later == After(StepOfName(e[1]))
    IN  /\ e[1] \in EditFiles
        /\ e \in content[e[1]]
        /\ StepOfName(e[1]) \in Marked(ckpt)
        /\ "track" \in present => e \in content["track"]
        /\ \A s \in Marked(ckpt) \cap (later \ {"audio"}) :
              \A f \in Writes(s) : e \in content[f]
        /\ hpc = "run" /\ Step \in later => e \in snap
        /\ hpc \in {"mark", "markset"} /\ Step \in later \ {"audio"} =>
              \A f \in Writes(Step) : e \in content[f]
        /\ status = "completed" /\ edited = 0 =>
              \A f \in {"track", "out"} \cap present : e \in content[f]
        /\ ureq.pc \in {"clear", "clearset"} => StepOfName(e[1]) \notin ClearedBy(ureq.file)

OwedInv == OrderInv /\ \A e \in owed : EditInv(e)

-----------------------------------------------------------------------------
(* Type correctness                                                        *)

StepNames == {"download", "extract_audio", "whisper", "ocr", "translate", "audio", "video"}

\* What the seven handlers have in common: no step twice, every step records
\* the checkpoint or none does, and what the audio step speaks.
LEMMA HandlerFacts ==
    /\ Len(Handler.steps) \in Nat \ {0}
    /\ Handler.steps \in Seq(StepNames)
    /\ Steps \subseteq StepNames
    /\ \A i \in 1..Len(Handler.steps) : Handler.steps[i] \in Steps
    /\ Once(Handler.steps)
    /\ Handler.marks \in {{}, Steps}
    /\ Handler.srt \in {"upload", "translated"}
    /\ Handler.check \in {"files", "result", "none"}
<1>1. CASE Handler = VideoJob
  BY <1>1 DEF VideoJob, Steps, StepNames, Once
<1>2. CASE Handler = VideoNingOcrJob
  BY <1>2 DEF VideoNingOcrJob, Steps, StepNames, Once
<1>3. CASE Handler = VideoNingAutoJob
  BY <1>3 DEF VideoNingAutoJob, Steps, StepNames, Once
<1>4. CASE Handler = VideoNingOcrTranslateOnlyJob
  BY <1>4 DEF VideoNingOcrTranslateOnlyJob, Steps, StepNames, Once
<1>5. CASE Handler = VideoCustomJob
  BY <1>5 DEF VideoCustomJob, Steps, StepNames, Once
<1>6. CASE Handler = VideoAutoJob
  BY <1>6 DEF VideoAutoJob, Steps, StepNames, Once
<1>7. CASE Handler = VideoOcrJob
  BY <1>7 DEF VideoOcrJob, Steps, StepNames, Once
<1>. QED
  BY <1>1, <1>2, <1>3, <1>4, <1>5, <1>6, <1>7, PipelineAssumption DEF Handlers

\* What the steps read and write, and that no file is written by two steps.
LEMMA StepFiles ==
    /\ \A s \in StepNames : Reads(s) \subseteq Files /\ Writes(s) \subseteq Files
    /\ \A s, t \in StepNames : s # t => Writes(s) \cap Writes(t) = {}
<1>1. \A s \in StepNames : Reads(s) \subseteq Files
  BY HandlerFacts DEF StepNames, Files, Reads
<1>2. \A s \in StepNames : Writes(s) \subseteq Files
  BY DEF StepNames, Files, Writes
<1>3. \A s, t \in StepNames : s # t => Writes(s) \cap Writes(t) = {}
  BY DEF StepNames, Writes
<1>. QED
  BY <1>1, <1>2, <1>3

\* The step the handler is at is one of its steps.
LEMMA StepTyped ==
    ASSUME TypeOK
    PROVE  Step \in Steps /\ Step \in StepNames
BY HandlerFacts DEF TypeOK, Step

UreqType == [pc : {"idle", "inval", "invalset", "purge", "flag", "clear",
                   "clearset", "unflag", "tuipurge"},
             file : Files \cup {"none"}, read : Seq(Steps)]

LEMMA PipelineInitTyped == Init => TypeOK
<1>. SUFFICES ASSUME Init PROVE TypeOK
  OBVIOUS
<1>1. 1 \in 1..Len(Handler.steps)
  BY HandlerFacts
<1>2. present \subseteq Files
  BY DEF Init, Files
<1>3. Quiet \in UreqType
  BY DEF Quiet, UreqType
<1>4. used \in [Events -> Nat] /\ content \in [Files -> SUBSET Edits]
  BY DEF Init
<1>. QED
  BY <1>1, <1>2, <1>3, <1>4 DEF Init, TypeOK, UreqType

\* Spending an event keeps the counters natural.
LEMMA SpendTyped ==
    ASSUME TypeOK, NEW e \in Events, Spend(e)
    PROVE  used' \in [Events -> Nat]
BY DEF TypeOK, Spend

LEMMA TypeHandler ==
    ASSUME TypeOK, HandlerStep
    PROVE  TypeOK'
<1>. DEFINE N == Len(Handler.steps)
<1>1. /\ Step \in Steps /\ Step \in StepNames
      /\ Reads(Step) \subseteq Files /\ Writes(Step) \subseteq Files
  BY StepTyped, StepFiles
<1>2. "fault" \in Events
  BY DEF Events
<1>3. CASE PickUp
  BY <1>3, HandlerFacts DEF TypeOK, PickUp, fileVars
<1>4. CASE Skip
  <2>1. hpc' \in {"check", "copy", "final"} /\ idx' \in 1..N
    BY <1>4, HandlerFacts DEF TypeOK, Skip, Advance
  <2>2. keys' \in {"none", "full", "fallback"}
    BY <1>4 DEF TypeOK, Skip
  <2>. QED
    BY <1>4, <2>1, <2>2 DEF TypeOK, Skip, fileVars
<1>5. CASE StepBegin
  <2>1. CASE Reads(Step) \subseteq present
    <3>1. snap' = UNION {content[f] : f \in Reads(Step)}
      BY <1>5, <2>1 DEF StepBegin
    <3>2. \A f \in Reads(Step) : content[f] \subseteq Edits
      BY <1>1 DEF TypeOK
    <3>3. snap' \subseteq Edits
      BY <3>1, <3>2
    <3>. QED
      BY <1>5, <2>1, <3>3 DEF TypeOK, StepBegin, fileVars
  <2>2. CASE ~(Reads(Step) \subseteq present)
    BY <1>5, <2>2 DEF TypeOK, StepBegin, Raise, fileVars
  <2>. QED
    BY <2>1, <2>2
<1>6. CASE StepFails
  <2>1. used' \in [Events -> Nat]
    BY <1>2, <1>6, SpendTyped DEF StepFails
  <2>. QED
    BY <1>6, <2>1 DEF TypeOK, StepFails, Raise, fileVars
<1>7. CASE StepEnds
  <2>1. present' \subseteq Files /\ lost' \subseteq Files
    BY <1>1, <1>7 DEF TypeOK, StepEnds
  <2>2. content' \in [Files -> SUBSET Edits]
    BY <1>7 DEF TypeOK, StepEnds
  <2>3. keys' \in {"none", "full", "fallback"}
    BY <1>7 DEF TypeOK, StepEnds, EndStep
  <2>4. hpc' \in {"mark", "check", "copy", "final"} /\ idx' \in 1..N
    BY <1>7, HandlerFacts DEF TypeOK, StepEnds, EndStep, Advance
  <2>. QED
    BY <1>7, <2>1, <2>2, <2>3, <2>4 DEF TypeOK, StepEnds
<1>12. CASE SpeechFailsQuietly
  <2>1. used' \in [Events -> Nat] /\ lost' \subseteq Files
    BY <1>1, <1>2, <1>12, SpendTyped DEF TypeOK, SpeechFailsQuietly
  <2>2. keys' \in {"none", "full", "fallback"}
    BY <1>12 DEF TypeOK, SpeechFailsQuietly, EndStep
  <2>3. hpc' \in {"mark", "check", "copy", "final"} /\ idx' \in 1..N
    BY <1>12, HandlerFacts DEF TypeOK, SpeechFailsQuietly, EndStep, Advance
  <2>. QED
    BY <1>12, <2>1, <2>2, <2>3 DEF TypeOK, SpeechFailsQuietly, fileVars
<1>8. CASE MarkRead
  BY <1>8 DEF TypeOK, MarkRead, fileVars
<1>9. CASE MarkWrite
  <2>1. ckpt' \in Seq(Steps)
    BY <1>1, <1>9 DEF TypeOK, MarkWrite
  <2>2. hpc' \in {"check", "copy", "final"} /\ idx' \in 1..N
    BY <1>9, HandlerFacts DEF TypeOK, MarkWrite, Advance
  <2>. QED
    BY <1>9, <2>1, <2>2 DEF TypeOK, MarkWrite, fileVars
<1>10. CASE CopySrt
  <2>1. CASE "track" \in present
    <3>1. present' \subseteq Files
      BY <1>10, <2>1 DEF TypeOK, CopySrt, Files
    <3>2. content' \in [Files -> SUBSET Edits]
      BY <1>10, <2>1 DEF TypeOK, CopySrt, Files
    <3>. QED
      BY <1>10, <2>1, <3>1, <3>2 DEF TypeOK, CopySrt
  <2>2. CASE "track" \notin present
    BY <1>10, <2>2 DEF TypeOK, CopySrt, Raise, fileVars
  <2>. QED
    BY <2>1, <2>2
<1>11. CASE Final
  BY <1>11 DEF TypeOK, Final, Raise, fileVars
<1>. QED
  BY <1>3, <1>4, <1>5, <1>6, <1>7, <1>8, <1>9, <1>10, <1>11, <1>12 DEF HandlerStep

LEMMA TypeCrash ==
    ASSUME TypeOK, RequestInv, Crash
    PROVE  TypeOK'
<1>1. "fault" \in Events /\ Quiet \in UreqType
  BY DEF Events, Quiet, UreqType
<1>2. used' \in [Events -> Nat]
  BY <1>1, SpendTyped DEF Crash
<1>3. ureq' \in UreqType
  BY <1>1 DEF TypeOK, Crash, UreqType
<1>4. lost' \subseteq Files
  BY PipelineAssumption DEF TypeOK, RequestInv, Crash
<1>. QED
  BY <1>2, <1>3, <1>4 DEF TypeOK, Crash, fileVars, UreqType

LEMMA TypeUser ==
    ASSUME TypeOK, RequestInv, UserStep
    PROVE  TypeOK'
<1>. USE DEF handlerVars, fileVars
<1>1. ureq \in UreqType /\ ckpt \in Seq(Steps) /\ ureq.read \in Seq(Steps) /\ Quiet \in UreqType
  BY DEF TypeOK, UreqType, Quiet
<1>2. /\ Events = {"edit", "delete", "resubmit", "fault"}
      /\ EditFiles \subseteq Files /\ DeleteFiles \subseteq Files
  BY PipelineAssumption DEF Events, Files
<1>3. ASSUME NEW f \in EditFiles, SaveSrt(f) PROVE TypeOK'
  <2>1. used' \in [Events -> Nat]
    BY <1>2, <1>3, SpendTyped DEF SaveSrt
  <2>2. content' \in [Files -> SUBSET Edits]
    <3>1. <<f, used["edit"] + 1>> \in Edits
      BY <1>2 DEF TypeOK, Edits
    <3>. QED
      BY <1>3, <3>1 DEF TypeOK, SaveSrt
  <2>3. ureq' \in UreqType
    BY <1>2, <1>3 DEF SaveSrt, Ask, UreqType
  <2>. QED
    BY <1>3, <2>1, <2>2, <2>3 DEF TypeOK, SaveSrt, UreqType
<1>4. CASE InvalidateRead
  <2>1. ureq' \in UreqType
    BY <1>1, <1>4 DEF InvalidateRead, Ask, UreqType
  <2>. QED
    BY <1>4, <2>1 DEF TypeOK, InvalidateRead, UreqType
<1>5. CASE InvalidateWrite
  <2>1. ureq' \in UreqType
    BY <1>1, <1>5 DEF InvalidateWrite, Ask, UreqType
  <2>2. ckpt' \in Seq(Steps)
    <3>1. Without(ureq.read, After(StepOfName(ureq.file))) \in Seq(Steps)
      BY <1>1, WithoutFacts
    <3>. QED
      BY <1>1, <1>5, <3>1 DEF InvalidateWrite
  <2>3. owed' \subseteq Edits
    BY <1>5 DEF TypeOK, InvalidateWrite
  <2>. QED
    BY <1>5, <2>1, <2>2, <2>3 DEF TypeOK, InvalidateWrite, UreqType
<1>6. CASE Purge
  <2>1. ureq' \in UreqType
    BY <1>1, <1>6 DEF Purge, Ask, UreqType
  <2>2. present' \subseteq Files
    BY <1>6 DEF TypeOK, Purge
  <2>. QED
    BY <1>6, <2>1, <2>2 DEF TypeOK, Purge, UreqType
<1>7. CASE SaveFlag
  <2>1. owed' \subseteq Edits
    <3>1. ureq.file \in Files
      BY <1>2, <1>7 DEF RequestInv, SaveFlag
    <3>2. content[ureq.file] \subseteq Edits
      BY <3>1 DEF TypeOK
    <3>. QED
      BY <1>7, <3>2 DEF TypeOK, SaveFlag
  <2>. QED
    BY <1>1, <1>7, <2>1 DEF TypeOK, SaveFlag, UreqType
<1>8. ASSUME NEW f \in DeleteFiles, DeleteFile(f) PROVE TypeOK'
  <2>1. used' \in [Events -> Nat]
    BY <1>2, <1>8, SpendTyped DEF DeleteFile
  <2>2. ureq' \in UreqType
    BY <1>2, <1>8 DEF DeleteFile, Ask, UreqType
  <2>3. owed' \subseteq Edits /\ present' \subseteq Files
    BY <1>8 DEF TypeOK, DeleteFile
  <2>. QED
    BY <1>8, <2>1, <2>2, <2>3 DEF TypeOK, DeleteFile, UreqType
<1>9. CASE ClearRead
  <2>1. ureq' \in UreqType
    BY <1>1, <1>9 DEF ClearRead, Ask, UreqType
  <2>. QED
    BY <1>9, <2>1 DEF TypeOK, ClearRead, UreqType
<1>10. CASE ClearWrite
  <2>2. ckpt' \in Seq(Steps)
    <3>1. Without(ureq.read, ClearedBy(ureq.file)) \in Seq(Steps)
      BY <1>1, WithoutFacts
    <3>. QED
      BY <1>1, <1>10, <3>1 DEF ClearWrite
  <2>. QED
    BY <1>1, <1>10, <2>2 DEF TypeOK, ClearWrite, UreqType
<1>11. CASE Resubmit
  <2>1. used' \in [Events -> Nat]
    BY <1>2, <1>11, SpendTyped DEF Resubmit
  <2>2. ureq' \in UreqType
    BY <1>1, <1>11 DEF Resubmit, UreqType, Quiet
  <2>. QED
    BY <1>11, <2>1, <2>2 DEF TypeOK, Resubmit, UreqType
<1>12. CASE Unflag
  BY <1>1, <1>12 DEF TypeOK, Unflag, UreqType
<1>13. CASE SubmitAgain
  <2>1. used' \in [Events -> Nat]
    BY <1>2, <1>13, SpendTyped DEF SubmitAgain
  <2>2. /\ content' \in [Files -> SUBSET Edits]
        /\ present' \subseteq Files /\ owed' \subseteq Edits
    <3>1. <<"upload", used["edit"] + 1>> \in Edits /\ "upload" \in Files
      BY <1>2 DEF TypeOK, Edits, Files
    <3>2. CASE Handler = VideoJob
      <4>1. /\ content' = [content EXCEPT !["upload"] = {<<"upload", used["edit"] + 1>>}]
            /\ present' = present \cup {"upload"}
            /\ owed' = {<<"upload", used["edit"] + 1>>}
        BY <1>13, <3>2 DEF SubmitAgain
      <4>. QED
        BY <3>1, <4>1 DEF TypeOK
    <3>3. CASE Handler # VideoJob
      BY <1>13, <3>3 DEF TypeOK, SubmitAgain
    <3>. QED
      BY <3>2, <3>3
  <2>. QED
    BY <1>13, <2>1, <2>2 DEF TypeOK, SubmitAgain
<1>14. ASSUME NEW k \in 0..(Len(ckpt) - 1), TuiResubmit(k) PROVE TypeOK'
  <2>1. used' \in [Events -> Nat]
    BY <1>2, <1>14, SpendTyped DEF TuiResubmit
  <2>2. ckpt' \in Seq(Steps)
    <3>1. k \in 0..Len(ckpt)
      BY <1>1
    <3>. QED
      BY <1>1, <1>14, <3>1, PrefixFacts DEF TuiResubmit
  <2>3. ureq' \in UreqType
    BY <1>14, <2>2 DEF TuiResubmit, Ask, UreqType
  <2>4. owed' \subseteq Edits
    BY <1>14 DEF TypeOK, TuiResubmit
  <2>. QED
    BY <1>14, <2>1, <2>2, <2>3, <2>4 DEF TypeOK, TuiResubmit, UreqType
<1>15. CASE TuiPurge
  <2>1. present' \subseteq Files
    BY <1>15 DEF TypeOK, TuiPurge
  <2>. QED
    BY <1>1, <1>15, <2>1 DEF TypeOK, TuiPurge, UreqType
<1>. QED
  BY <1>3, <1>4, <1>5, <1>6, <1>7, <1>8, <1>9, <1>10, <1>11, <1>12, <1>13,
     <1>14, <1>15 DEF UserStep

\* The row, the files, the handler and the request have their types, and a
\* request is about a file of its kind.
PipelineTyped == TypeOK /\ RequestInv

LEMMA TypeStep == PipelineTyped /\ [Next]_vars => PipelineTyped'
<1>. SUFFICES ASSUME TypeOK, RequestInv, [Next]_vars PROVE TypeOK' /\ RequestInv'
  BY DEF PipelineTyped
<1>1. CASE UNCHANGED vars
  BY <1>1 DEF TypeOK, RequestInv, vars
<1>2. ASSUME Next PROVE TypeOK'
  BY <1>2, TypeHandler, TypeCrash, TypeUser DEF Next
<1>3. ASSUME Next PROVE RequestInv'
  <2>1. ASSUME HandlerStep \/ Crash PROVE RequestInv'
    BY <2>1 DEF RequestInv, HandlerStep, PickUp, Skip, StepBegin, StepFails, StepEnds,
       SpeechFailsQuietly, MarkRead, MarkWrite, CopySrt, Final, Crash, Quiet
  <2>2. ASSUME UserStep PROVE RequestInv'
    BY <2>2 DEF RequestInv, UserStep, SaveSrt, InvalidateRead, InvalidateWrite, Purge,
       SaveFlag, DeleteFile, ClearRead, ClearWrite, Resubmit, Unflag, SubmitAgain,
       TuiResubmit, TuiPurge, Ask, Quiet
  <2>. QED
    BY <1>3, <2>1, <2>2 DEF Next
<1>. QED
  BY <1>1, <1>2, <1>3

LEMMA PipelineAlwaysTyped == Spec => []PipelineTyped
<1>1. Init => PipelineTyped
  BY PipelineInitTyped DEF PipelineTyped, RequestInv, Init, Quiet
<1>. QED
  BY <1>1, TypeStep, PTL DEF Spec

\* The row, the files, the handler and the request keep their types, for
\* every handler and every set of users.
THEOREM PipelineTypeCorrect == Spec => []TypeOK
<1>1. PipelineTyped => TypeOK
  BY DEF PipelineTyped
<1>. QED
  BY <1>1, PipelineAlwaysTyped, PTL

-----------------------------------------------------------------------------
(* No step is marked twice                                                 *)

LEMMA OnceInit == Init => OnceInv
<1>1. Once(<<>>) /\ Marked(<<>>) = {}
  BY DEF Once, Marked
<1>. QED
  BY <1>1 DEF Init, OnceInv, Quiet

LEMMA OnceHandler ==
    ASSUME PipelineTyped, OnceInv, HandlerStep
    PROVE  OnceInv'
<1>1. /\ Step \in Steps
      /\ ckpt \in Seq(Steps) /\ mread \in Seq(Steps)
  BY StepTyped DEF PipelineTyped, TypeOK
<1>2. CASE PickUp
  BY <1>2 DEF PickUp, OnceInv
<1>3. CASE Skip
  BY <1>3 DEF Skip, Advance, OnceInv
<1>4. CASE StepBegin
  BY <1>4 DEF StepBegin, Raise, OnceInv, Step
<1>5. CASE StepFails
  BY <1>5 DEF StepFails, Raise, OnceInv
<1>6. CASE StepEnds
  BY <1>6 DEF StepEnds, EndStep, Advance, OnceInv, Step
<1>7. CASE MarkRead
  BY <1>7 DEF MarkRead, OnceInv, Step
<1>8. CASE MarkWrite
  <2>1. Once(mread) /\ Step \notin Marked(mread) /\ ckpt' = Append(mread, Step)
    BY <1>8 DEF MarkWrite, OnceInv
  <2>2. Once(ckpt') /\ Marked(ckpt') = Marked(mread) \cup {Step}
    BY <1>1, <2>1, AppendFacts
  <2>3. /\ hpc' \in {"check", "copy", "final"}
        /\ UNCHANGED <<mread, ureq>>
        /\ hpc = "markset"
    BY <1>8 DEF MarkWrite, Advance
  <2>. QED
    BY <2>1, <2>2, <2>3 DEF OnceInv
<1>9. CASE CopySrt
  BY <1>9 DEF CopySrt, Raise, OnceInv
<1>10. CASE Final
  BY <1>10 DEF Final, Raise, OnceInv
<1>11. CASE SpeechFailsQuietly
  BY <1>11 DEF SpeechFailsQuietly, EndStep, Advance, OnceInv, Step
<1>. QED
  BY <1>2, <1>3, <1>4, <1>5, <1>6, <1>7, <1>8, <1>9, <1>10, <1>11 DEF HandlerStep

LEMMA OnceUser ==
    ASSUME PipelineTyped, OnceInv, UserStep
    PROVE  OnceInv'
<1>. USE DEF handlerVars
<1>1. ureq \in UreqType /\ ureq.read \in Seq(Steps) /\ ckpt \in Seq(Steps)
  BY DEF PipelineTyped, TypeOK, UreqType
<1>2. Once(<<>>) /\ Marked(<<>>) = {}
  BY DEF Once, Marked
<1>3. Step' = Step
  BY DEF UserStep, SaveSrt, InvalidateRead, InvalidateWrite, Purge, SaveFlag, DeleteFile,
     ClearRead, ClearWrite, Resubmit, Unflag, SubmitAgain, TuiResubmit, TuiPurge, Step
<1>4. ASSUME NEW f \in EditFiles, SaveSrt(f) PROVE OnceInv'
  BY <1>2, <1>3, <1>4 DEF SaveSrt, Ask, OnceInv
<1>5. CASE InvalidateRead
  BY <1>3, <1>5 DEF InvalidateRead, Ask, OnceInv
<1>6. CASE InvalidateWrite
  <2>. DEFINE kept == Without(ureq.read, After(StepOfName(ureq.file)))
  <2>1. /\ Once(kept)
        /\ Marked(kept) \subseteq Marked(ureq.read)
    BY <1>1, WithoutFacts DEF OnceInv
  <2>2. /\ ckpt' = IF kept = ureq.read THEN ckpt ELSE kept
        /\ ureq' = [pc |-> "purge", file |-> ureq.file, read |-> <<>>]
        /\ ureq.pc = "invalset"
        /\ UNCHANGED <<hpc, mread>>
    BY <1>6 DEF InvalidateWrite, Ask
  <2>. HIDE DEF kept
  <2>3. Once(ckpt') /\ Marked(ckpt') \subseteq Marked(ckpt)
    BY <2>1, <2>2 DEF OnceInv
  <2>. QED
    BY <1>2, <1>3, <2>2, <2>3 DEF OnceInv
<1>7. CASE Purge
  BY <1>2, <1>3, <1>7 DEF Purge, Ask, OnceInv
<1>8. CASE SaveFlag
  BY <1>2, <1>3, <1>8 DEF SaveFlag, Quiet, OnceInv
<1>9. ASSUME NEW f \in DeleteFiles, DeleteFile(f) PROVE OnceInv'
  BY <1>2, <1>3, <1>9 DEF DeleteFile, Ask, OnceInv
<1>10. CASE ClearRead
  BY <1>3, <1>10 DEF ClearRead, Ask, OnceInv
<1>11. CASE ClearWrite
  <2>. DEFINE kept == Without(ureq.read, ClearedBy(ureq.file))
  <2>1. /\ Once(kept)
        /\ Marked(kept) \subseteq Marked(ureq.read)
    BY <1>1, WithoutFacts DEF OnceInv
  <2>2. /\ ckpt' = IF kept = ureq.read THEN ckpt ELSE kept
        /\ ureq' = Quiet
        /\ ureq.pc = "clearset"
        /\ UNCHANGED <<hpc, mread>>
    BY <1>11 DEF ClearWrite
  <2>. HIDE DEF kept
  <2>3. Once(ckpt') /\ Marked(ckpt') \subseteq Marked(ckpt)
    BY <2>1, <2>2 DEF OnceInv
  <2>. QED
    BY <1>2, <1>3, <2>2, <2>3 DEF OnceInv, Quiet
<1>12. CASE Resubmit
  BY <1>2, <1>3, <1>12 DEF Resubmit, Quiet, OnceInv
<1>13. CASE Unflag
  BY <1>2, <1>3, <1>13 DEF Unflag, Quiet, OnceInv
<1>14. CASE SubmitAgain
  BY <1>3, <1>14 DEF SubmitAgain, OnceInv
<1>15. ASSUME NEW k \in 0..(Len(ckpt) - 1), TuiResubmit(k) PROVE OnceInv'
  <2>1. k \in 0..Len(ckpt)
    BY <1>1
  <2>2. Once(ckpt') /\ Marked(ckpt') \subseteq Marked(ckpt)
    BY <1>1, <1>15, <2>1, PrefixFacts DEF TuiResubmit, OnceInv
  <2>3. /\ ureq' = [pc |-> "tuipurge", file |-> "none", read |-> ckpt']
        /\ UNCHANGED <<hpc, mread>>
    BY <1>15 DEF TuiResubmit, Ask
  <2>. QED
    BY <1>3, <2>2, <2>3 DEF OnceInv
<1>16. CASE TuiPurge
  BY <1>2, <1>3, <1>16 DEF TuiPurge, Quiet, OnceInv
<1>. QED
  BY <1>4, <1>5, <1>6, <1>7, <1>8, <1>9, <1>10, <1>11, <1>12, <1>13, <1>14,
     <1>15, <1>16 DEF UserStep

LEMMA OnceStep == PipelineTyped /\ OnceInv /\ [Next]_vars => OnceInv'
<1>. SUFFICES ASSUME PipelineTyped, OnceInv, [Next]_vars PROVE OnceInv'
  OBVIOUS
<1>1. CASE UNCHANGED vars
  BY <1>1 DEF OnceInv, Step, vars
<1>2. CASE Crash
  <2>1. Once(<<>>)
    BY DEF Once
  <2>2. UNCHANGED <<ckpt, mread>> /\ hpc' = "off"
    BY <1>2 DEF Crash
  <2>3. ureq' = ureq \/ ureq' = Quiet
    BY <1>2 DEF Crash
  <2>. QED
    BY <2>1, <2>2, <2>3 DEF Quiet, OnceInv
<1>. QED
  BY <1>1, <1>2, OnceHandler, OnceUser DEF Next

LEMMA PipelineAlwaysOnce == Spec => []OnceInv
BY OnceInit, OnceStep, PipelineAlwaysTyped, PTL DEF Spec

\* No step is marked twice, for every handler and every set of users, the
\* busy ones and the TUI included.
THEOREM PipelineMarkedOnce == Spec => []MarkedOnce
<1>1. OnceInv => MarkedOnce
  BY DEF OnceInv, Once, MarkedOnce
<1>. QED
  BY <1>1, PipelineAlwaysOnce, PTL

-----------------------------------------------------------------------------
(* A marked step has its output                                            *)

\* The steps after those whose output can be edited.
LEMMA AfterFacts ==
    /\ After("none") = {}
    /\ After("whisper") = {"ocr", "translate", "audio", "video"}
    /\ After("ocr") = {"translate", "audio", "video"}
    /\ After("translate") = {"audio", "video"}
BY DEF After, CheckpointOrder

\* Deleting a file clears the step that writes it, but for the files no
\* pattern names.
LEMMA ClearedWriter ==
    ASSUME NEW s \in StepNames, NEW f \in Writes(s), f \notin {"speech", "track"}
    PROVE  s \in ClearedBy(f)
BY DEF StepNames, Writes, ClearedBy, StepOfName

\* Without busy users and the TUI, a request in progress keeps the job away
\* from the queue.
LEMMA QuietRequest ==
    ASSUME PipelineTyped, QuietInv, ureq.pc \notin {"idle", "unflag"}
    PROVE  /\ hpc = "off"
           /\ status \in {"completed", "failed"}
BY DEF PipelineTyped, TypeOK, QuietInv

LEMMA QuietStep ==
    ASSUME Users \subseteq {"again"}, PipelineTyped, QuietInv, [Next]_vars
    PROVE  QuietInv'
<1>. USE DEF handlerVars
<1>1. ureq \in UreqType /\ ureq.read \in Seq(Steps) /\ ckpt \in Seq(Steps)
  BY DEF PipelineTyped, TypeOK, UreqType
<1>2. /\ MayTouch => status \notin {"pending", "processing"} /\ hpc = "off"
      /\ hpc # "off" => status = "processing"
      /\ hpc = "off" => status # "processing"
  BY DEF MayTouch, PipelineTyped, TypeOK
<1>3. "tui" \notin Users
  OBVIOUS
<1>4. CASE UNCHANGED vars
  BY <1>4 DEF QuietInv, vars
<1>5. CASE HandlerStep
  <2>1. CASE PickUp
    BY <2>1 DEF PickUp, QuietInv
  <2>2. CASE \/ Skip \/ StepBegin \/ StepFails \/ StepEnds \/ SpeechFailsQuietly
             \/ MarkRead \/ CopySrt \/ Final
    <3>1. /\ hpc # "off" /\ UNCHANGED <<ckpt, ureq>>
          /\ hpc' = "markset" => mread' = ckpt
      BY <2>2 DEF Skip, StepBegin, StepFails, StepEnds, SpeechFailsQuietly, EndStep,
         MarkRead, CopySrt, Final, Raise, Advance
    <3>. QED
      BY <1>2, <3>1 DEF QuietInv
  <2>3. CASE MarkWrite
    BY <1>2, <2>3 DEF MarkWrite, Advance, QuietInv
  <2>. QED
    BY <1>5, <2>1, <2>2, <2>3 DEF HandlerStep
<1>6. CASE Crash
  BY <1>6 DEF Crash, QuietInv, Quiet
<1>7. CASE UserStep
  <2>1. ASSUME NEW f \in EditFiles, SaveSrt(f) PROVE QuietInv'
    <3>1. status' = status /\ hpc' = "off"
      BY <1>2, <2>1 DEF SaveSrt
    <3>2. ureq'.pc \in {"flag", "inval"} /\ ureq'.file = f
      BY <2>1 DEF SaveSrt, Ask
    <3>3. ureq'.pc = "flag" => StepOfName(f) = "none"
      BY <2>1 DEF SaveSrt, Ask
    <3>. QED
      BY <1>2, <2>1, <3>1, <3>2, <3>3, AfterFacts DEF SaveSrt, QuietInv
  <2>2. CASE InvalidateRead
    BY <1>1, <2>2 DEF InvalidateRead, Ask, QuietInv
  <2>3. CASE InvalidateWrite
    <3>. DEFINE kept == Without(ureq.read, After(StepOfName(ureq.file)))
    <3>1. ckpt' = kept
      BY <2>3 DEF InvalidateWrite, QuietInv
    <3>2. Marked(ckpt') = Marked(ureq.read) \ After(StepOfName(ureq.file))
      BY <1>1, <3>1, WithoutFacts
    <3>3. ureq'.pc = "purge" /\ ureq'.file = ureq.file /\ status' = status /\ hpc' = "off"
      BY <2>3, QuietRequest DEF InvalidateWrite, Ask
    <3>. QED
      BY <2>3, <3>2, <3>3, QuietRequest DEF InvalidateWrite, QuietInv
  <2>4. CASE Purge
    BY <2>4 DEF Purge, Ask, QuietInv
  <2>5. CASE SaveFlag
    BY <2>5 DEF SaveFlag, Quiet, QuietInv
  <2>6. ASSUME NEW f \in DeleteFiles, DeleteFile(f) PROVE QuietInv'
    BY <1>2, <2>6 DEF DeleteFile, Ask, QuietInv
  <2>7. CASE ClearRead
    BY <1>1, <2>7 DEF ClearRead, Ask, QuietInv
  <2>8. CASE ClearWrite
    BY <2>8, QuietRequest DEF ClearWrite, Quiet, QuietInv
  <2>9. CASE Resubmit
    BY <2>9 DEF Resubmit, Quiet, QuietInv
  <2>10. CASE Unflag
    BY <2>10 DEF Unflag, Quiet, QuietInv
  <2>11. CASE SubmitAgain
    BY <2>11 DEF SubmitAgain, QuietInv
  <2>12. CASE TuiPurge
    BY <2>12 DEF TuiPurge, QuietInv
  <2>. QED
    BY <1>3, <1>7, <2>1, <2>2, <2>3, <2>4, <2>5, <2>6, <2>7, <2>8, <2>9, <2>10,
       <2>11, <2>12 DEF UserStep, TuiResubmit
<1>. QED
  BY <1>4, <1>5, <1>6, <1>7 DEF Next

LEMMA PresentStep ==
    ASSUME Users \subseteq {"again"}, "speech" \notin DeleteFiles,
           PipelineTyped, QuietInv, PresentInv, [Next]_vars
    PROVE  PresentInv'
<1>. USE DEF handlerVars
<1>1. /\ ureq \in UreqType /\ ureq.read \in Seq(Steps)
      /\ ckpt \in Seq(Steps) /\ mread \in Seq(Steps)
      /\ Marked(ckpt) \subseteq StepNames
  BY HandlerFacts DEF PipelineTyped, TypeOK, UreqType, Marked
<1>2. MayTouch => hpc = "off"
  BY DEF MayTouch, PipelineTyped, TypeOK
<1>3. Step \in Steps /\ Step \in StepNames
  BY StepTyped DEF PipelineTyped
<1>4. CASE UNCHANGED vars
  BY <1>4 DEF PresentInv, Step, vars
<1>5. CASE HandlerStep
  <2>1. CASE PickUp
    BY <2>1 DEF PickUp, fileVars, PresentInv
  <2>2. CASE Skip \/ StepBegin \/ StepFails \/ Final
    BY <2>2 DEF Skip, StepBegin, StepFails, Final, Raise, Advance, fileVars, PresentInv
  <2>3. CASE StepEnds
    <3>1. /\ present' = present \cup Writes(Step) /\ lost' = lost \ Writes(Step)
          /\ UNCHANGED <<ckpt, ureq>>
      BY <2>3 DEF StepEnds
    <3>2. hpc' \in {"mark", "markset"} => Step' = Step
      BY <2>3 DEF StepEnds, EndStep, Advance, Step
    <3>. QED
      BY <3>1, <3>2 DEF PresentInv
  <2>4. CASE MarkRead
    BY <2>4 DEF MarkRead, fileVars, PresentInv, Step
  <2>5. CASE MarkWrite
    <3>1. ckpt' = Append(ckpt, Step) /\ Marked(ckpt') = Marked(ckpt) \cup {Step}
      BY <1>1, <1>3, <2>5, AppendFacts DEF MarkWrite, QuietInv
    <3>2. Writes(Step) \subseteq present \cup lost
      BY <2>5 DEF MarkWrite, PresentInv
    <3>3. hpc' \notin {"mark", "markset"} /\ UNCHANGED <<present, ureq, lost>>
      BY <2>5 DEF MarkWrite, Advance, fileVars
    <3>. QED
      BY <3>1, <3>2, <3>3 DEF PresentInv
  <2>6. CASE CopySrt
    BY <2>6 DEF CopySrt, Raise, fileVars, PresentInv
  <2>7. CASE SpeechFailsQuietly
    <3>1. /\ lost' = lost \cup (Writes(Step) \ present)
          /\ UNCHANGED <<present, ckpt, ureq>>
      BY <2>7 DEF SpeechFailsQuietly, fileVars
    <3>2. hpc' \in {"mark", "markset"} => Step' = Step
      BY <2>7 DEF SpeechFailsQuietly, EndStep, Advance, Step
    <3>. QED
      BY <3>1, <3>2 DEF PresentInv
  <2>. QED
    BY <1>5, <2>1, <2>2, <2>3, <2>4, <2>5, <2>6, <2>7 DEF HandlerStep
<1>6. CASE Crash
  BY <1>6 DEF Crash, fileVars, PresentInv, QuietInv, Quiet
<1>7. CASE UserStep
  <2>. USE DEF fileVars
  <2>1. ASSUME NEW f \in EditFiles, SaveSrt(f) PROVE PresentInv'
    BY <1>2, <2>1 DEF SaveSrt, PresentInv
  <2>2. CASE InvalidateRead \/ SaveFlag
    BY <2>2 DEF InvalidateRead, SaveFlag, Ask, Quiet, PresentInv, Step
  <2>3. CASE InvalidateWrite
    <3>1. ckpt' = Without(ureq.read, After(StepOfName(ureq.file))) /\ ureq.read = ckpt
      BY <2>3 DEF InvalidateWrite, QuietInv
    <3>2. Marked(ckpt') \subseteq Marked(ckpt)
      BY <1>1, <3>1, WithoutFacts
    <3>. QED
      BY <2>3, <3>2, QuietRequest DEF InvalidateWrite, PresentInv, Step
  <2>4. CASE Purge
    <3>1. ASSUME NEW s \in Marked(ckpt), NEW t \in After(StepOfName(ureq.file))
          PROVE  Writes(s) \cap Artifacts(t) = {}
      <4>1. s # t
        BY <2>4 DEF Purge, QuietInv
      <4>2. CASE t \in StepNames
        BY <1>1, <4>1, <4>2, StepFiles DEF Artifacts
      <4>3. CASE t \notin StepNames
        BY <4>3 DEF Artifacts, StepNames
      <4>. QED
        BY <4>2, <4>3
    <3>2. /\ present' = present \ UNION {Artifacts(s) : s \in After(StepOfName(ureq.file))}
          /\ UNCHANGED <<ckpt, lost>> /\ hpc' = "off" /\ ureq.pc = "purge"
      BY <2>4, QuietRequest DEF Purge
    <3>. QED
      BY <3>1, <3>2 DEF PresentInv
  <2>5. ASSUME NEW f \in DeleteFiles, DeleteFile(f) PROVE PresentInv'
    BY <1>2, <2>5 DEF DeleteFile, Ask, PresentInv
  <2>6. CASE ClearRead
    BY <2>6, QuietRequest DEF ClearRead, Ask, PresentInv
  <2>7. CASE ClearWrite
    <3>1. ckpt' = Without(ureq.read, ClearedBy(ureq.file)) /\ ureq.read = ckpt
      BY <2>7 DEF ClearWrite, QuietInv
    <3>2. Marked(ckpt') = Marked(ckpt) \ ClearedBy(ureq.file)
      BY <1>1, <3>1, WithoutFacts
    <3>3. ureq.file \in DeleteFiles
      BY <2>7 DEF ClearWrite, PipelineTyped, RequestInv
    <3>4. \A s \in Marked(ckpt') : ureq.file \notin Writes(s)
      BY <1>1, <3>2, <3>3, ClearedWriter, PipelineAssumption
    <3>. QED
      BY <2>7, <3>2, <3>4, QuietRequest DEF ClearWrite, PresentInv
  <2>8. CASE Resubmit \/ Unflag
    BY <2>8 DEF Resubmit, Unflag, Quiet, PresentInv, Step
  <2>9. CASE SubmitAgain
    BY <2>9 DEF SubmitAgain, PresentInv, Step
  <2>10. CASE TuiPurge
    BY <2>10 DEF TuiPurge, QuietInv
  <2>. QED
    BY <1>7, <2>1, <2>2, <2>3, <2>4, <2>5, <2>6, <2>7, <2>8, <2>9, <2>10
       DEF UserStep, TuiResubmit
<1>. QED
  BY <1>4, <1>5, <1>6, <1>7 DEF Next

LEMMA PipelineAlwaysQuiet ==
    ASSUME Users \subseteq {"again"}
    PROVE  Spec => []QuietInv
<1>1. Init => QuietInv
  BY DEF Init, QuietInv, Quiet
<1>2. PipelineTyped /\ QuietInv /\ [Next]_vars => QuietInv'
  BY QuietStep
<1>. QED
  BY <1>1, <1>2, PipelineAlwaysTyped, PTL DEF Spec

\* A marked step has its output, whatever users edit, delete and submit again
\* between the runs, and wherever the server crashes, but for the deletions a
\* crash cut short and the speech steps that failed with status 0 (lost); the
\* speech that ffmpeg extracted is the one file whose whole deletion leaves its
\* step marked.
THEOREM PipelineMarkedPresent ==
    ASSUME Users \subseteq {"again"}, "speech" \notin DeleteFiles
    PROVE  Spec => []MarkedPresent
<1>1. Init => PresentInv
  BY DEF Init, PresentInv, Marked
<1>2. PipelineTyped /\ QuietInv /\ PresentInv /\ [Next]_vars => PresentInv'
  BY PresentStep
<1>3. PresentInv => MarkedPresent
  BY DEF PresentInv, MarkedPresent
<1>. QED
  BY <1>1, <1>2, <1>3, PipelineAlwaysTyped, PipelineAlwaysQuiet, PTL DEF Spec

-----------------------------------------------------------------------------
(* Edits reach the output                                                  *)

\* How the steps of the handlers that translate are ordered.
LEMMA HandlerOrder ==
    /\ "whisper" \in Steps => "ocr" \notin Steps
    /\ {"whisper", "ocr"} \cap Steps # {} => "translate" \in Steps
    /\ "translate" \in Steps => Handler.srt = "translated"
    /\ \A i \in 1..Len(Handler.steps) :
          /\ Handler.steps[i] = "audio" /\ "translate" \in Steps =>
                \E j \in 1..(i - 1) : Handler.steps[j] = "translate"
          /\ Handler.steps[i] = "video" =>
                \E j \in 1..(i - 1) : Handler.steps[j] = "audio"
<1>1. CASE Handler = VideoJob
  BY <1>1 DEF VideoJob, Steps
<1>2. CASE Handler = VideoNingOcrJob
  BY <1>2 DEF VideoNingOcrJob, Steps
<1>3. CASE Handler = VideoNingAutoJob
  BY <1>3 DEF VideoNingAutoJob, Steps
<1>4. CASE Handler = VideoNingOcrTranslateOnlyJob
  BY <1>4 DEF VideoNingOcrTranslateOnlyJob, Steps
<1>5. CASE Handler = VideoCustomJob
  BY <1>5 DEF VideoCustomJob, Steps
<1>6. CASE Handler = VideoAutoJob
  BY <1>6 DEF VideoAutoJob, Steps
<1>7. CASE Handler = VideoOcrJob
  BY <1>7 DEF VideoOcrJob, Steps
<1>. QED
  BY <1>1, <1>2, <1>3, <1>4, <1>5, <1>6, <1>7, PipelineAssumption DEF Handlers

\* The files an owed edit can be in, and the step that writes each.
LEMMA EditedFiles ==
    ASSUME NEW f \in {"whisper_srt", "ocr_srt", "translated"}
    PROVE  /\ StepOfName(f) \in {"whisper", "ocr", "translate"}
           /\ Writes(StepOfName(f)) = {f}
           /\ {"audio", "video"} \subseteq After(StepOfName(f))
BY AfterFacts DEF StepOfName, Writes

LEMMA OrderStep ==
    ASSUME Users = {}, PipelineTyped, OnceInv, QuietInv, OrderInv, [Next]_vars
    PROVE  OrderInv'
<1>. USE DEF handlerVars, fileVars
<1>1. /\ ureq.read \in Seq(Steps) /\ ckpt \in Seq(Steps) /\ mread \in Seq(Steps)
      /\ Step \in Steps /\ Step \in StepNames
      /\ idx \in 1..Len(Handler.steps) /\ Len(Handler.steps) \in Nat
      /\ Handler.marks \in {{}, Steps}
  BY StepTyped, HandlerFacts DEF PipelineTyped, TypeOK
<1>2. MayTouch => hpc = "off"
  BY DEF MayTouch, PipelineTyped, TypeOK
<1>3. ASSUME Advance, hpc \in {"check", "markset"},
             Marked(ckpt') = Marked(ckpt) \cup {Step}
      PROVE  /\ hpc' \in {"check", "copy", "final"}
             /\ hpc' = "check" /\ Handler.marks # {} =>
                  \A j \in 1..(idx' - 1) : Handler.steps[j] \in Marked(ckpt')
             /\ hpc' \in {"copy", "final"} /\ Handler.marks # {} =>
                  Steps \subseteq Marked(ckpt')
  <2>1. hpc' \in {"check", "copy", "final"}
    BY <1>3 DEF Advance
  <2>2. Handler.marks # {} =>
           \A j \in 1..idx : Handler.steps[j] \in Marked(ckpt')
    <3>1. 1..idx = 1..(idx - 1) \cup {idx}
      BY <1>1
    <3>. QED
      BY <1>3, <3>1 DEF OrderInv, Step
  <2>3. hpc' = "check" => idx' = idx + 1
    BY <1>3 DEF Advance
  <2>4. hpc' \in {"copy", "final"} => idx = Len(Handler.steps)
    BY <1>1, <1>3 DEF Advance
  <2>5. hpc' \in {"copy", "final"} /\ Handler.marks # {} => Steps \subseteq Marked(ckpt')
    BY <2>2, <2>4 DEF Steps
  <2>6. hpc' = "check" => 1..(idx' - 1) = 1..idx
    BY <1>1, <2>3
  <2>. QED
    BY <2>1, <2>2, <2>5, <2>6
<1>4. CASE UNCHANGED vars
  BY <1>4 DEF OrderInv, vars
<1>5. CASE HandlerStep
  <2>1. CASE PickUp
    BY <2>1 DEF PickUp, OrderInv
  <2>2. CASE Skip
    <3>1. Marked(ckpt') = Marked(ckpt) \cup {Step} /\ Advance /\ hpc = "check"
      BY <2>2 DEF Skip
    <3>2. UNCHANGED <<present, ureq, edited, ckpt>>
      BY <2>2 DEF Skip
    <3>. QED
      BY <1>3, <3>1, <3>2 DEF OrderInv
  <2>3. CASE StepBegin \/ StepFails \/ MarkRead \/ Final
    BY <2>3 DEF StepBegin, StepFails, MarkRead, Final, Raise, OrderInv
  <2>7. CASE SpeechFailsQuietly
    <3>1. CASE Step \in Handler.marks
      BY <1>1, <2>7, <3>1 DEF SpeechFailsQuietly, EndStep, OrderInv
    <3>2. CASE Step \notin Handler.marks
      BY <1>1, <2>7, <3>2 DEF SpeechFailsQuietly, EndStep, Advance, OrderInv
    <3>. QED
      BY <3>1, <3>2
  <2>4. CASE StepEnds
    <3>1. /\ "track" \in Writes(Step) => Step = "audio"
          /\ "out" \in Writes(Step) => Step = "video"
      BY <1>1 DEF Writes, StepNames
    <3>2. /\ present' = present \cup Writes(Step)
          /\ UNCHANGED <<ckpt, edited, ureq>>
      BY <2>4 DEF StepEnds
    <3>3. CASE Step \in Handler.marks
      BY <1>1, <2>4, <3>1, <3>2, <3>3 DEF StepEnds, EndStep, OrderInv
    <3>4. CASE Step \notin Handler.marks
      BY <1>1, <2>4, <3>1, <3>2, <3>4 DEF StepEnds, EndStep, Advance, OrderInv
    <3>. QED
      BY <3>3, <3>4
  <2>5. CASE MarkWrite
    <3>1. Marked(ckpt') = Marked(ckpt) \cup {Step} /\ Advance /\ hpc = "markset"
      BY <1>1, <2>5, AppendFacts DEF MarkWrite, QuietInv
    <3>2. UNCHANGED <<present, ureq, edited>>
      BY <2>5 DEF MarkWrite
    <3>3. Handler.marks # {}
      BY <3>1 DEF OnceInv
    <3>. QED
      BY <1>3, <3>1, <3>2, <3>3 DEF OrderInv
  <2>6. CASE CopySrt
    BY <2>6 DEF CopySrt, Raise, OrderInv
  <2>. QED
    BY <1>5, <2>1, <2>2, <2>3, <2>4, <2>5, <2>6, <2>7 DEF HandlerStep
<1>6. CASE Crash
  BY <1>6 DEF Crash, Quiet, OrderInv
<1>7. CASE UserStep
  <2>1. CASE InvalidateWrite
    <3>1. Marked(ckpt') \subseteq Marked(ckpt)
      BY <1>1, <2>1, WithoutFacts DEF InvalidateWrite, QuietInv
    <3>. QED
      BY <2>1, <3>1, QuietRequest DEF InvalidateWrite, Ask, OrderInv
  <2>2. CASE ClearWrite
    <3>1. Marked(ckpt') \subseteq Marked(ckpt)
      BY <1>1, <2>2, WithoutFacts DEF ClearWrite, QuietInv
    <3>. QED
      BY <2>2, <3>1, QuietRequest DEF ClearWrite, Quiet, OrderInv
  <2>3. ASSUME NEW f \in EditFiles, SaveSrt(f) PROVE OrderInv'
    BY <1>2, <2>3 DEF SaveSrt, Ask, OrderInv
  <2>4. ASSUME NEW f \in DeleteFiles, DeleteFile(f) PROVE OrderInv'
    BY <1>2, <2>4 DEF DeleteFile, Ask, OrderInv
  <2>5. CASE InvalidateRead \/ Purge \/ SaveFlag \/ ClearRead \/ Resubmit \/ Unflag
    BY <2>5 DEF InvalidateRead, Purge, SaveFlag, ClearRead, Resubmit, Unflag, Ask, Quiet,
       OrderInv
  <2>. QED
    BY <1>7, <2>1, <2>2, <2>3, <2>4, <2>5
       DEF UserStep, TuiResubmit, SubmitAgain, TuiPurge, QuietInv
<1>. QED
  BY <1>4, <1>5, <1>6, <1>7 DEF Next

\* A step after the edited file finds the edit in what it reads: the edited
\* file itself, or the output of a later step that is marked by then.
LEMMA OwedRead ==
    ASSUME PipelineTyped, OrderInv, hpc = "check", Reads(Step) \subseteq present,
           NEW e \in owed, EditInv(e), "upload" \notin EditFiles,
           Step \in After(StepOfName(e[1]))
    PROVE  \E f \in Reads(Step) : e \in content[f]
<1>. DEFINE src == StepOfName(e[1])
<1>1. /\ e[1] \in {"whisper_srt", "ocr_srt", "translated"}
      /\ e \in content[e[1]]
      /\ "track" \in present => e \in content["track"]
      /\ \A s \in Marked(ckpt) \cap (After(src) \ {"audio"}) :
            \A f \in Writes(s) : e \in content[f]
  BY PipelineAssumption DEF EditInv
<1>2. /\ Step \in Steps /\ idx \in 1..Len(Handler.steps)
      /\ Marked(ckpt) \subseteq Steps /\ src \in Steps /\ src \in Marked(ckpt)
  BY StepTyped DEF PipelineTyped, TypeOK, Marked, EditInv
<1>3. \A j \in 1..(idx - 1) : Handler.steps[j] \in Marked(ckpt)
  BY <1>2 DEF OrderInv
<1>4. Step \in {"ocr", "translate", "audio", "video"}
  BY <1>1, AfterFacts DEF StepOfName
<1>5. CASE Step = "ocr"
  <2>1. src = "whisper"
    BY <1>1, <1>5, AfterFacts DEF StepOfName
  <2>. QED
    BY <1>2, <1>5, <2>1, HandlerOrder
<1>6. CASE Step = "translate"
  <2>1. src \in {"whisper", "ocr"} /\ e[1] = IF src = "whisper" THEN "whisper_srt" ELSE "ocr_srt"
    BY <1>1, <1>6, AfterFacts DEF StepOfName
  <2>2. e[1] = IF "whisper" \in Steps THEN "whisper_srt" ELSE "ocr_srt"
    BY <1>2, <2>1, HandlerOrder
  <2>3. Reads(Step) = {e[1]}
    BY <1>6, <2>2 DEF Reads
  <2>. QED
    BY <1>1, <2>3
<1>7. CASE Step = "audio"
  <2>1. "translate" \in Steps
    BY <1>1, <1>2, HandlerOrder, EditedFiles
  <2>2. Reads(Step) = {"translated"}
    BY <1>7, <2>1, HandlerOrder DEF Reads
  <2>3. "translate" \in Marked(ckpt)
    BY <1>2, <1>3, <1>7, <2>1, HandlerOrder DEF Step
  <2>4. e \in content["translated"]
    BY <1>1, <2>3, AfterFacts DEF StepOfName, Writes
  <2>. QED
    BY <2>2, <2>4
<1>8. CASE Step = "video"
  <2>1. "track" \in Reads(Step)
    BY <1>8 DEF Reads
  <2>. QED
    BY <1>1, <2>1
<1>. QED
  BY <1>4, <1>5, <1>6, <1>7, <1>8

\* The handler keeps owed edits where they are, and a step that runs after
\* the edit carries it on.
LEMMA EditHandler ==
    ASSUME "upload" \notin EditFiles, PipelineTyped, OnceInv, QuietInv, OrderInv,
           NEW e \in owed, EditInv(e), HandlerStep
    PROVE  EditInv(e)'
<1>. USE DEF fileVars
<1>. DEFINE src == StepOfName(e[1])
            later == After(src)
<1>1. /\ e[1] \in {"whisper_srt", "ocr_srt", "translated"} /\ e[1] \in Files
      /\ src \in Marked(ckpt) /\ e \in content[e[1]] /\ e[1] \in EditFiles
      /\ Writes(src) = {e[1]} /\ {"audio", "video"} \subseteq later
      /\ "track" \in present => e \in content["track"]
      /\ \A s \in Marked(ckpt) \cap (later \ {"audio"}) :
            \A f \in Writes(s) : e \in content[f]
      /\ ureq.pc \in {"clear", "clearset"} => src \notin ClearedBy(ureq.file)
  <2>1. e[1] \in {"whisper_srt", "ocr_srt", "translated"}
    BY PipelineAssumption DEF EditInv
  <2>2. Writes(src) = {e[1]} /\ {"audio", "video"} \subseteq later
    BY <2>1, EditedFiles
  <2>. QED
    BY <2>1, <2>2 DEF EditInv, Files
<1>2. /\ Step \in Steps /\ Step \in StepNames
      /\ ckpt \in Seq(Steps) /\ Marked(ckpt) \subseteq Steps /\ Steps \subseteq StepNames
      /\ Handler.marks = Steps
  <2>1. /\ Step \in Steps /\ Step \in StepNames /\ Steps \subseteq StepNames
        /\ ckpt \in Seq(Steps) /\ Handler.marks \in {{}, Steps}
    BY StepTyped, HandlerFacts DEF PipelineTyped, TypeOK
  <2>2. Marked(ckpt) \subseteq Steps
    BY <2>1 DEF Marked
  <2>3. Handler.marks # {}
    BY <1>1 DEF OrderInv
  <2>. QED
    BY <2>1, <2>2, <2>3
<1>. HIDE DEF src, later
<1>3. CASE PickUp
  BY <1>1, <1>3 DEF PickUp, EditInv, src, later
<1>4. CASE Skip
  BY <1>1, <1>4 DEF Skip, Advance, EditInv, src, later
<1>5. CASE StepBegin
  <2>1. CASE Reads(Step) \subseteq present
    <3>1. hpc = "check" /\ snap' = UNION {content[f] : f \in Reads(Step)} /\ hpc' = "run"
      BY <1>5, <2>1 DEF StepBegin
    <3>2. Step \in later => e \in snap'
      BY <2>1, <3>1, OwedRead DEF src, later
    <3>3. UNCHANGED <<status, edited, ckpt, content, present, ureq>> /\ Step' = Step
      BY <1>5, <2>1 DEF StepBegin, Step
    <3>. QED
      BY <1>1, <3>1, <3>2, <3>3 DEF EditInv, src, later
  <2>2. CASE ~(Reads(Step) \subseteq present)
    <3>1. /\ hpc' = "off" /\ status' = "failed"
          /\ UNCHANGED <<edited, ckpt, content, present, ureq>>
      BY <1>5, <2>2 DEF StepBegin, Raise
    <3>. QED
      BY <1>1, <3>1 DEF EditInv, src, later
  <2>. QED
    BY <2>1, <2>2
<1>6. CASE StepFails
  BY <1>1, <1>6 DEF StepFails, Raise, EditInv, src, later
<1>7. CASE StepEnds
  <2>1. /\ hpc = "run" /\ hpc' = "mark" /\ Step' = Step
        /\ UNCHANGED <<status, edited, ckpt, ureq>>
        /\ content' = [f \in Files |-> IF f \in Writes(Step) THEN snap ELSE content[f]]
        /\ status = "processing"
    BY <1>2, <1>7 DEF StepEnds, EndStep, Step, PipelineTyped, TypeOK
  <2>2. Step \notin Marked(ckpt)
    BY <1>2, <2>1 DEF OnceInv
  <2>3. e \in content'[e[1]]
    <3>1. Writes(src) \cap Writes(Step) = {}
      BY <1>1, <1>2, <2>2, StepFiles
    <3>. QED
      BY <1>1, <2>1, <3>1
  <2>4. ASSUME NEW s \in Marked(ckpt) \cap (later \ {"audio"}), NEW f \in Writes(s)
        PROVE  e \in content'[f]
    <3>1. s # Step /\ s \in StepNames
      BY <1>2, <2>2
    <3>2. f \in Files /\ f \notin Writes(Step)
      BY <1>2, <3>1, StepFiles
    <3>. QED
      BY <1>1, <2>1, <3>2
  <2>5. ASSUME Step \in later, NEW f \in Writes(Step)
        PROVE  e \in content'[f]
    <3>1. e \in snap
      BY <2>1, <2>5 DEF EditInv, later, src
    <3>2. f \in Files
      BY <1>2, StepFiles
    <3>. QED
      BY <2>1, <3>1, <3>2
  <2>6. "track" \in present' => e \in content'["track"]
    <3>1. CASE Step = "audio"
      BY <1>1, <2>5, <3>1 DEF Writes
    <3>2. CASE Step # "audio"
      <4>1. "track" \notin Writes(Step) /\ "track" \in Files
        BY <1>2, <3>2 DEF StepNames, Writes, Files
      <4>2. present' = present \cup Writes(Step)
        BY <1>7 DEF StepEnds
      <4>. QED
        BY <1>1, <2>1, <4>1, <4>2
    <3>. QED
      BY <3>1, <3>2
  <2>. QED
    BY <1>1, <2>1, <2>3, <2>4, <2>5, <2>6 DEF EditInv, src, later
<1>8. CASE MarkRead
  <2>1. /\ hpc = "mark" /\ Step' = Step /\ hpc' = "markset"
        /\ UNCHANGED <<status, edited, ckpt, content, present, ureq>>
    BY <1>8 DEF MarkRead, Step
  <2>2. Step \in later \ {"audio"} => \A f \in Writes(Step) : e \in content[f]
    BY <2>1 DEF EditInv, src, later
  <2>3. status = "processing"
    BY <2>1 DEF PipelineTyped, TypeOK
  <2>. QED
    BY <1>1, <2>1, <2>2, <2>3 DEF EditInv, src, later
<1>9. CASE MarkWrite
  <2>1. /\ hpc = "markset" /\ hpc' \in {"check", "copy", "final"}
        /\ ckpt' = Append(ckpt, Step)
        /\ UNCHANGED <<status, edited, content, present, ureq>>
    BY <1>9 DEF MarkWrite, Advance, QuietInv
  <2>2. Step \in later \ {"audio"} => \A f \in Writes(Step) : e \in content[f]
    BY <2>1 DEF EditInv, src, later
  <2>3. Marked(ckpt') = Marked(ckpt) \cup {Step}
    BY <1>2, <2>1, AppendFacts
  <2>4. status = "processing"
    BY <2>1 DEF PipelineTyped, TypeOK
  <2>. QED
    BY <1>1, <2>1, <2>2, <2>3, <2>4 DEF EditInv, src, later
<1>10. CASE CopySrt
  <2>1. /\ hpc' \in {"final", "off"} /\ status' # "completed"
        /\ UNCHANGED <<edited, ckpt, ureq>>
    BY <1>10 DEF CopySrt, Raise, PipelineTyped, TypeOK
  <2>2. \A f \in Files : f # "copy" => content'[f] = content[f]
    BY <1>10 DEF CopySrt, PipelineTyped, TypeOK
  <2>3. \A s \in StepNames : Writes(s) \subseteq Files \ {"copy"}
    BY StepFiles DEF StepNames, Writes
  <2>4. "track" \in present' => "track" \in present /\ content'["track"] = content["track"]
    BY <1>10, <2>2 DEF CopySrt, Files
  <2>. QED
    BY <1>1, <1>2, <2>1, <2>2, <2>3, <2>4 DEF EditInv, src, later
<1>11. CASE Final
  <2>1. /\ hpc = "final" /\ hpc' = "off"
        /\ UNCHANGED <<edited, ckpt, content, present, ureq>>
    BY <1>11 DEF Final, Raise
  <2>2. Steps \subseteq Marked(ckpt)
    BY <1>1, <1>2, <2>1 DEF OrderInv
  <2>3. \A f \in {"track", "out"} \cap present : e \in content[f]
    <3>1. "track" \in present => e \in content["track"]
      BY <1>1
    <3>2. "out" \in present => e \in content["out"]
      BY <1>1, <2>2 DEF OrderInv, Writes
    <3>. QED
      BY <3>1, <3>2
  <2>. QED
    BY <1>1, <2>1, <2>3 DEF EditInv, src, later
<1>12. CASE SpeechFailsQuietly
  <2>1. /\ Step = "audio" /\ hpc' = "mark" /\ Step' = Step /\ status = "processing"
        /\ UNCHANGED <<status, edited, ckpt, content, present, ureq>>
    BY <1>2, <1>12 DEF SpeechFailsQuietly, EndStep, Step, PipelineTyped, TypeOK
  <2>. QED
    BY <1>1, <2>1 DEF EditInv, src, later
<1>. QED
  BY <1>3, <1>4, <1>5, <1>6, <1>7, <1>8, <1>9, <1>10, <1>11, <1>12 DEF HandlerStep

\* What a request does to the edits that were owed before it.
LEMMA EditUser ==
    ASSUME Users = {}, "upload" \notin EditFiles, PipelineTyped, QuietInv, OrderInv,
           NEW e \in owed, e \in owed', EditInv(e), UserStep
    PROVE  EditInv(e)'
<1>. USE DEF handlerVars, fileVars
<1>. DEFINE src == StepOfName(e[1])
            later == After(src)
<1>1. /\ e[1] \in Files /\ e[1] \in EditFiles
      /\ src \in Marked(ckpt) /\ e \in content[e[1]]
      /\ "track" \in present => e \in content["track"]
      /\ \A s \in Marked(ckpt) \cap (later \ {"audio"}) :
            \A f \in Writes(s) : e \in content[f]
      /\ status = "completed" /\ edited = 0 =>
            \A f \in {"track", "out"} \cap present : e \in content[f]
      /\ ureq.pc \in {"clear", "clearset"} => src \notin ClearedBy(ureq.file)
  BY PipelineAssumption DEF EditInv, Files
<1>2. /\ ckpt \in Seq(Steps) /\ Marked(ckpt) \subseteq StepNames
      /\ ureq.read \in Seq(Steps) /\ content \in [Files -> SUBSET Edits]
  BY HandlerFacts DEF PipelineTyped, TypeOK, Marked
<1>3. MayTouch => hpc = "off"
  BY DEF MayTouch, PipelineTyped, TypeOK
<1>. HIDE DEF src, later
<1>4. ASSUME NEW f \in EditFiles, SaveSrt(f) PROVE EditInv(e)'
  <2>1. /\ hpc' = "off" /\ UNCHANGED <<status, edited, ckpt, present>>
        /\ ureq'.pc \in {"flag", "inval"}
    BY <1>3, <1>4 DEF SaveSrt, Ask
  <2>2. \A g \in Files : content[g] \subseteq content'[g]
    BY <1>2, <1>4 DEF SaveSrt
  <2>3. \A s \in StepNames : Writes(s) \subseteq Files
    BY StepFiles
  <2>4. {"track", "out"} \subseteq Files
    BY DEF Files
  <2>. QED
    BY <1>1, <1>2, <2>1, <2>2, <2>3, <2>4 DEF EditInv, src, later
<1>5. CASE InvalidateRead
  BY <1>1, <1>5, QuietRequest DEF InvalidateRead, Ask, EditInv, src, later
<1>6. CASE InvalidateWrite
  <2>1. /\ hpc' = "off" /\ UNCHANGED <<status, edited, content, present>>
        /\ ureq'.pc = "purge"
        /\ ckpt' = Without(ckpt, After(StepOfName(ureq.file)))
        /\ src \notin After(StepOfName(ureq.file))
    BY <1>6, QuietRequest DEF InvalidateWrite, Ask, QuietInv, Superseded, src
  <2>2. Marked(ckpt') = Marked(ckpt) \ After(StepOfName(ureq.file))
    BY <1>2, <2>1, WithoutFacts
  <2>. QED
    BY <1>1, <2>1, <2>2 DEF EditInv, src, later
<1>7. CASE Purge
  BY <1>1, <1>7, QuietRequest DEF Purge, Ask, EditInv, src, later
<1>8. CASE SaveFlag
  BY <1>1, <1>8, QuietRequest DEF SaveFlag, Quiet, EditInv, src, later
<1>9. ASSUME NEW f \in DeleteFiles, DeleteFile(f) PROVE EditInv(e)'
  <2>1. /\ hpc' = "off" /\ UNCHANGED <<status, edited, content, ckpt>>
        /\ present' \subseteq present
        /\ ureq' = [pc |-> "clear", file |-> f, read |-> <<>>]
        /\ src \notin ClearedBy(f)
    BY <1>3, <1>9 DEF DeleteFile, Ask, Superseded, src
  <2>. QED
    BY <1>1, <2>1 DEF EditInv, src, later
<1>10. CASE ClearRead
  BY <1>1, <1>10, QuietRequest DEF ClearRead, Ask, EditInv, src, later
<1>11. CASE ClearWrite
  <2>1. /\ hpc' = "off" /\ UNCHANGED <<status, edited, content, present>>
        /\ ureq'.pc = "idle"
        /\ ckpt' = Without(ckpt, ClearedBy(ureq.file))
        /\ src \notin ClearedBy(ureq.file)
    BY <1>1, <1>11, QuietRequest DEF ClearWrite, Quiet, QuietInv
  <2>2. Marked(ckpt') = Marked(ckpt) \ ClearedBy(ureq.file)
    BY <1>2, <2>1, WithoutFacts
  <2>. QED
    BY <1>1, <2>1, <2>2 DEF EditInv, src, later
<1>12. CASE Resubmit
  <2>1. hpc = "off"
    BY <1>12 DEF Resubmit, PipelineTyped, TypeOK
  <2>. QED
    BY <1>1, <1>12, <2>1 DEF Resubmit, Quiet, EditInv, src, later
<1>13. CASE Unflag
  <2>1. edited = 0 /\ ureq'.pc = "idle"
        /\ UNCHANGED <<status, ckpt, present, content, hpc, idx, snap>> /\ edited' = 0
    BY <1>13 DEF Unflag, Quiet, OrderInv
  <2>. QED
    BY <1>1, <2>1 DEF EditInv, Step, src, later
<1>. QED
  BY <1>4, <1>5, <1>6, <1>7, <1>8, <1>9, <1>10, <1>11, <1>12, <1>13
     DEF UserStep, TuiResubmit, SubmitAgain, TuiPurge, QuietInv

\* An edit becomes owed when its request ends: by then no later step is marked.
LEMMA EditNew ==
    ASSUME "upload" \notin EditFiles, PipelineTyped, QuietInv, SaveFlag,
           NEW e \in owed', e \notin owed
    PROVE  EditInv(e)'
<1>. DEFINE f == ureq.file
<1>1. f \in EditFiles /\ f \in {"whisper_srt", "ocr_srt", "translated"}
  BY PipelineAssumption DEF PipelineTyped, RequestInv, SaveFlag
<1>2. /\ e \in content[f] /\ e[1] = f /\ StepOfName(f) \in Marked(ckpt)
  BY <1>1 DEF SaveFlag, StepOfName
<1>3. Marked(ckpt) \cap After(StepOfName(f)) = {}
  BY DEF SaveFlag, QuietInv
<1>4. hpc' = "off" /\ edited' = 1 /\ ureq'.pc = "idle" /\ UNCHANGED <<ckpt, content, present>>
  BY QuietRequest DEF SaveFlag, handlerVars, fileVars, Quiet
<1>5. "track" \notin present
  <2>1. Artifacts("audio") \cap present = {}
    BY <1>1, EditedFiles DEF SaveFlag, QuietInv
  <2>. QED
    BY <2>1 DEF Artifacts, Writes
<1>. QED
  BY <1>1, <1>2, <1>3, <1>4, <1>5 DEF EditInv

LEMMA OwedStep ==
    ASSUME Users = {}, "upload" \notin EditFiles, PipelineTyped, OnceInv, QuietInv,
           OwedInv, [Next]_vars
    PROVE  OwedInv'
<1>1. OrderInv'
  BY OrderStep DEF OwedInv
<1>2. ASSUME NEW e \in owed', e \in owed PROVE EditInv(e)'
  <2>1. EditInv(e) /\ OrderInv
    BY <1>2 DEF OwedInv
  <2>2. CASE UNCHANGED vars
    BY <2>1, <2>2 DEF EditInv, Step, vars
  <2>3. CASE Crash
    BY <2>1, <2>3 DEF Crash, EditInv, Quiet, fileVars, QuietInv
  <2>. QED
    BY <1>2, <2>1, <2>2, <2>3, EditHandler, EditUser DEF Next
<1>3. ASSUME NEW e \in owed', e \notin owed PROVE EditInv(e)'
  <2>1. SaveFlag
    BY <1>3 DEF Next, vars, HandlerStep, PickUp, Skip, StepBegin, StepFails, StepEnds,
       SpeechFailsQuietly, MarkRead, MarkWrite, CopySrt, Final, Crash, UserStep, SaveSrt,
       InvalidateRead, InvalidateWrite, Purge, DeleteFile, ClearRead, ClearWrite, Resubmit, Unflag,
       SubmitAgain, TuiResubmit, TuiPurge
  <2>. QED
    BY <1>3, <2>1, EditNew
<1>. QED
  BY <1>1, <1>2, <1>3 DEF OwedInv

\* An edit the user was promised reaches the speech and the video of the
\* completed job: the request takes back every later mark before it promises
\* anything, and each step run again reads what the step before it wrote.
THEOREM PipelineEditsReachOutput ==
    ASSUME Users = {}, "upload" \notin EditFiles
    PROVE  Spec => []EditsReachOutput
<1>1. Users \subseteq {"again"}
  OBVIOUS
<1>2. Init => OwedInv
  <2>. SUFFICES ASSUME Init PROVE OwedInv
    OBVIOUS
  <2>1. Marked(ckpt) = {} /\ owed = {}
    BY DEF Init, Marked
  <2>. QED
    BY <2>1 DEF Init, OwedInv, OrderInv, Quiet
<1>3. PipelineTyped /\ OnceInv /\ QuietInv /\ OwedInv /\ [Next]_vars => OwedInv'
  BY OwedStep
<1>4. OwedInv => EditsReachOutput
  BY DEF OwedInv, EditInv, EditsReachOutput
<1>5. Spec => []QuietInv
  BY <1>1, PipelineAlwaysQuiet
<1>. QED
  BY <1>2, <1>3, <1>4, <1>5, PipelineAlwaysTyped, PipelineAlwaysOnce, PTL DEF Spec
=============================================================================

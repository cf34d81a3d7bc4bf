-------------------------- MODULE SegmentCacheProofs --------------------------
(***************************************************************************)
(* Proofs about module SegmentCache.                                       *)
(***************************************************************************)
EXTENDS SegmentCache, FiniteSetTheorems, TLAPS

-----------------------------------------------------------------------------
(* Types                                                                   *)

RunType == [pc : PCs, subs : Scripts \cup {<<>>}, cache : Caches, was : Caches,
            left : SUBSET Index, i : Index, miss : BOOLEAN, slot : PartIndex,
            chunk : Nat \ {0}, att : 0..2, rec : 0..2, stop : BOOLEAN, then : PCs,
            said : Sounds, failed : SUBSET Index, mix : Seq(Sounds)]

GenType == [proc : Procs, slot : PartIndex, text : Speech, live : BOOLEAN]

\* Where a process will be once the cache is saved.
Phase(r) == IF r.pc \in {"trunc", "dump"} THEN r.then ELSE r.pc

Speaking == {"request", "wait", "read", "lost"}

\* Chunk numbers that the cues before number i may have used.
Room(i) == 2 * MaxChunks * (i - 1)

\* What holds of a process's local variables: at a cue its number is one of
\* the SRT file's, and the chunks counted so far leave room for those to come.
LocalInv(r) ==
    /\ r.pc = "off" => r = Idle
    /\ r.pc \in {"trunc", "dump"} => r.then \in {"count", "model", "seg", "combine", "write"}
    /\ Phase(r) \notin {"off", "attach", "load"} => r.subs # <<>>
    /\ Phase(r) \in {"migrate", "count", "seg"} \cup Speaking => r.i <= Len(r.subs)
    /\ Phase(r) \in {"off", "attach", "load", "stale", "model", "combine", "write"} => r.i = 1
    /\ Phase(r) \notin {"combine", "write"} \cup Speaking => r.chunk = 1
    /\ Phase(r) \in {"off", "attach", "load", "migrate", "stale", "count", "model"} => r.slot = 0
    /\ Phase(r) = "seg" => r.slot <= Room(r.i)
    /\ r.pc \in Speaking =>
          /\ r.subs[r.i] \in Speech
          /\ r.chunk <= Chunks[r.subs[r.i]]
          /\ r.slot + 1 <= Room(r.i) + r.chunk

\* A generation that a client waits for is the one its process is at.
GensInv ==
    /\ \A g \in gens : g.live =>
          /\ run[g.proc].pc = "wait"
          /\ g.slot = run[g.proc].slot
    /\ \A g, h \in gens : g.live /\ h.live /\ g.proc = h.proc => g = h

FilesTyped ==
    /\ script \in Scripts
    /\ wav \in [Index -> Sounds \cup {None}]
    /\ meta \in Caches \cup {None}
    /\ part \in [PartIndex -> Sounds \cup {None}]
    /\ daemon \in {"up", "down"}
    /\ used \in [Events -> Nat]

ProcsTyped ==
    /\ gens \subseteq GenType
    /\ run \in [Procs -> RunType]
    /\ \A p \in Procs : LocalInv(run[p]) /\ (run[p].pc = "read" => part[run[p].slot] # None)

SegmentTyped == FilesTyped /\ ProcsTyped /\ GensInv

-----------------------------------------------------------------------------
(* Numbers                                                                 *)

LEMMA RoomFacts ==
    /\ Room(1) = 0
    /\ \A i \in Index : /\ Room(i) \in Nat
                        /\ Room(i + 1) = Room(i) + 2 * MaxChunks
                        /\ \A k \in 0..(Room(i) + 2 * MaxChunks) : k \in PartIndex
<1>. DEFINE C == 2 * MaxChunks
<1>1. C \in Nat /\ MaxCues \in Nat
  BY SegmentAssumption
<1>. HIDE DEF C
<1>2. ASSUME NEW i \in 1..MaxCues
      PROVE  /\ C * (i - 1) \in Nat
             /\ C * ((i + 1) - 1) = C * (i - 1) + C
             /\ C * (i - 1) + C <= C * MaxCues
  <2>1. i \in Nat /\ i - 1 \in Nat /\ MaxCues - i \in Nat
    BY <1>1
  <2>2. C * (i - 1) \in Nat /\ C * (MaxCues - i) \in Nat
    BY <1>1, <2>1
  <2>3. C * ((i + 1) - 1) = C * (i - 1) + C
    BY <1>1, <2>1
  <2>4. C * MaxCues = C * (i - 1) + C + C * (MaxCues - i)
    BY <1>1, <2>1
  <2>. QED
    BY <1>1, <2>1, <2>2, <2>3, <2>4
<1>3. C * (1 - 1) = 0
  BY <1>1
<1>4. \A i \in 1..MaxCues : \A k \in 0..(C * (i - 1) + C) : k \in 0..(C * MaxCues)
  BY <1>1, <1>2
<1>5. \A i \in Index : Room(i) = C * (i - 1) /\ Room(i + 1) = C * ((i + 1) - 1)
  BY DEF Room, C
<1>6. PartIndex = 0..(C * MaxCues) /\ Index = 1..MaxCues /\ Room(1) = C * (1 - 1)
  BY DEF PartIndex, Index, C, Room
<1>7. ASSUME NEW i \in Index
      PROVE  /\ Room(i) \in Nat
             /\ Room(i + 1) = Room(i) + C
             /\ \A k \in 0..(Room(i) + C) : k \in PartIndex
  BY <1>2, <1>4, <1>5, <1>6
<1>8. C = 2 * MaxChunks
  BY DEF C
<1>. QED
  BY <1>3, <1>6, <1>7, <1>8

LEMMA ChunkFacts ==
    \A t \in Speech : Chunks[t] \in Nat \ {0} /\ Chunks[t] <= MaxChunks /\ MaxChunks \in Nat
BY SegmentAssumption

LEMMA ScriptFacts ==
    ASSUME NEW s \in Scripts \cup {<<>>}
    PROVE  /\ Len(s) \in Nat /\ Len(s) <= MaxCues
           /\ s # <<>> => 1 <= Len(s)
           /\ \A i \in 1..Len(s) : s[i] \in Speech \cup {Empty, Symbols} /\ i \in Index
<1>1. s \in Seq(Speech \cup {Empty, Symbols})
  <2>1. <<>> \in Seq(Speech \cup {Empty, Symbols})
    OBVIOUS
  <2>2. Scripts \subseteq Seq(Speech \cup {Empty, Symbols})
    BY SegmentAssumption
  <2>. QED
    BY <2>1, <2>2
<1>2. Len(s) \in Nat /\ MaxCues \in Nat \ {0}
  BY <1>1, SegmentAssumption
<1>3. Len(s) <= MaxCues
  <2>1. CASE s \in Scripts
    BY <2>1, SegmentAssumption
  <2>2. CASE s = <<>>
    <3>1. Len(<<>>) = 0
      OBVIOUS
    <3>. QED
      BY <1>2, <2>2, <3>1
  <2>. QED
    BY <2>1, <2>2
<1>4. ASSUME s # <<>> PROVE 1 <= Len(s)
  BY <1>1, <1>2, <1>4
<1>5. ASSUME NEW i \in 1..Len(s)
      PROVE  s[i] \in Speech \cup {Empty, Symbols} /\ i \in Index
  BY <1>1, <1>2, <1>3 DEF Index
<1>. QED
  BY <1>2, <1>3, <1>4, <1>5

LEMMA IdleTyped == Idle \in RunType /\ LocalInv(Idle)
<1>1. 1 \in Index /\ 0 \in PartIndex
  BY SegmentAssumption, RoomFacts DEF Index
<1>2. EmptyCache \in Caches
  BY DEF EmptyCache, Caches
<1>3. Silence \in Sounds
  BY DEF Silence, Sounds
<1>4. Idle \in RunType
  BY <1>1, <1>2, <1>3 DEF Idle, RunType, PCs
<1>5. LocalInv(Idle)
  BY DEF Idle, LocalInv, Phase, Speaking
<1>. QED
  BY <1>4, <1>5

-----------------------------------------------------------------------------
(* What the operators on a process's variables change                      *)

\* n and r agree but for where the process is and the fields F names.
Same(n, r, F) ==
    /\ n \in RunType
    /\ n.subs = r.subs /\ n.was = r.was /\ n.left = r.left /\ n.miss = r.miss
    /\ n.stop = r.stop /\ n.mix = r.mix
    /\ "cache" \in F \/ n.cache = r.cache
    /\ "slot" \in F \/ n.slot = r.slot
    /\ "tries" \in F
       \/ (n.chunk = r.chunk /\ n.att = r.att /\ n.rec = r.rec /\ n.said = r.said)
    /\ "failed" \in F \/ n.failed = r.failed

LEMMA NextCueFields ==
    ASSUME NEW r \in RunType, r.i <= Len(r.subs), NEW q \in PCs
    PROVE  /\ Same(NextCue(r, q), r, {})
           /\ NextCue(r, q).then = r.then
           /\ r.i < Len(r.subs) => NextCue(r, q).i = r.i + 1 /\ NextCue(r, q).pc = r.pc
           /\ ~(r.i < Len(r.subs)) => NextCue(r, q).i = 1 /\ NextCue(r, q).pc = q
<1>1. r.i \in Index /\ r.subs \in Scripts \cup {<<>>} /\ 1 \in Index
  BY SegmentAssumption DEF RunType, Index
<1>2. CASE r.i < Len(r.subs)
  <2>1. r.i + 1 \in Index
    BY <1>1, <1>2, ScriptFacts, SegmentAssumption DEF Index
  <2>2. NextCue(r, q) = [r EXCEPT !.i = r.i + 1]
    BY <1>2 DEF NextCue
  <2>. QED
    BY <1>2, <2>1, <2>2 DEF RunType, Same
<1>3. CASE ~(r.i < Len(r.subs))
  <2>1. NextCue(r, q) = [r EXCEPT !.pc = q, !.i = 1]
    BY <1>3 DEF NextCue
  <2>. QED
    BY <1>1, <1>3, <2>1 DEF RunType, Same
<1>. QED
  BY <1>2, <1>3

LEMMA SavingFields ==
    ASSUME NEW r \in RunType
    PROVE  /\ Same(Saving(r), r, {})
           /\ Saving(r).then = r.pc /\ Saving(r).pc = "trunc" /\ Saving(r).i = r.i
BY DEF Saving, RunType, PCs, Same

LEMMA SetCacheFields ==
    ASSUME NEW r \in RunType, NEW flag \in BOOLEAN,
           r.i <= Len(r.subs), r.subs[r.i] \in Speech \cup {Symbols}
    PROVE  LET n == SetCache(r, r.i, flag)
           IN  /\ Same(n, r, {"cache"})
               /\ n.i = r.i /\ n.pc = r.pc /\ n.then = r.then
               /\ n.cache = [r.cache EXCEPT ![r.i] = [content |-> r.subs[r.i], fallback |-> flag]]
<1>. DEFINE e == [content |-> r.subs[r.i], fallback |-> flag]
<1>1. e \in Entries
  BY DEF Entries
<1>. HIDE DEF e
<1>2. [r.cache EXCEPT ![r.i] = e] \in Caches
  BY <1>1 DEF RunType, Caches
<1>3. SetCache(r, r.i, flag) = [r EXCEPT !.cache[r.i] = e]
  BY DEF SetCache, e
<1>4. SetCache(r, r.i, flag) = [r EXCEPT !.cache = [r.cache EXCEPT ![r.i] = e]]
  BY <1>3 DEF RunType
<1>. QED
  BY <1>2, <1>4 DEF RunType, Same, e

LEMMA FinishedFields ==
    ASSUME NEW r \in RunType
    PROVE  /\ Same(Finished(r), r, {"tries"})
           /\ Finished(r).pc = "seg" /\ Finished(r).chunk = 1
           /\ Finished(r).i = r.i /\ Finished(r).then = r.then
<1>. DEFINE n == Finished(r)
<1>1. Silence \in Sounds
  BY DEF Silence, Sounds
<1>2. n = [r EXCEPT !.pc = "seg", !.chunk = 1, !.att = 0, !.rec = 0, !.said = Silence]
  BY DEF Finished
<1>. HIDE DEF n
<1>3. n \in RunType
  <2>1. "seg" \in PCs /\ 1 \in Nat \ {0} /\ 0 \in 0..2
    BY DEF PCs
  <2>2. PICK said \in Sounds : said = Silence
    BY <1>1
  <2>3. n = [r EXCEPT !.pc = "seg", !.chunk = 1, !.att = 0, !.rec = 0, !.said = said]
    BY <1>2, <2>2
  <2>. QED
    BY <2>1, <2>3 DEF RunType
<1>4. /\ n.pc = "seg" /\ n.chunk = 1 /\ n.i = r.i /\ n.then = r.then
      /\ n.subs = r.subs /\ n.was = r.was /\ n.left = r.left /\ n.miss = r.miss
      /\ n.stop = r.stop /\ n.mix = r.mix /\ n.cache = r.cache /\ n.slot = r.slot
      /\ n.failed = r.failed
  BY <1>2 DEF RunType
<1>5. Same(n, r, {"tries"})
  BY <1>3, <1>4 DEF Same
<1>. QED
  BY <1>4, <1>5 DEF n

LEMMA GotoFields ==
    ASSUME NEW r \in RunType, NEW q \in PCs
    PROVE  LET n == [r EXCEPT !.pc = q]
           IN  Same(n, r, {}) /\ n.pc = q /\ n.i = r.i /\ n.then = r.then
<1>. DEFINE n == [r EXCEPT !.pc = q]
<1>1. n \in RunType
  BY DEF RunType
<1>2. /\ n.pc = q /\ n.chunk = r.chunk /\ n.i = r.i /\ n.then = r.then
      /\ n.subs = r.subs /\ n.was = r.was /\ n.left = r.left /\ n.miss = r.miss
      /\ n.stop = r.stop /\ n.mix = r.mix /\ n.cache = r.cache /\ n.slot = r.slot
      /\ n.failed = r.failed /\ n.att = r.att /\ n.rec = r.rec /\ n.said = r.said
  BY DEF RunType
<1>. HIDE DEF n
<1>3. Same(n, r, {})
  BY <1>1, <1>2 DEF Same
<1>. QED
  BY <1>2, <1>3 DEF n

LEMMA DropEntryFields ==
    ASSUME NEW r \in RunType, r.i <= Len(r.subs)
    PROVE  LET n == [r EXCEPT !.cache[r.i] = None]
           IN  /\ Same(n, r, {"cache"})
               /\ n.i = r.i /\ n.pc = r.pc /\ n.then = r.then
               /\ n.cache = [r.cache EXCEPT ![r.i] = None]
<1>1. [r.cache EXCEPT ![r.i] = None] \in Caches
  BY DEF RunType, Caches
<1>. QED
  BY <1>1 DEF RunType, Same

\* A process that has settled a cue may go on to the next one.
LEMMA NextCueLocal ==
    ASSUME NEW r \in RunType, NEW q \in PCs, r.subs # <<>>, r.i <= Len(r.subs), r.chunk = 1,
           \/ r.pc = "migrate" /\ q = "stale" /\ r.slot = 0
           \/ r.pc = "count" /\ q \in {"model", "combine"} /\ r.slot = 0
           \/ r.pc = "seg" /\ q = "combine" /\ r.slot <= Room(r.i) + 2 * MaxChunks
    PROVE  LocalInv(NextCue(r, q))
<1>. DEFINE n == NextCue(r, q)
<1>1. /\ Same(n, r, {})
      /\ r.i < Len(r.subs) => n.i = r.i + 1 /\ n.pc = r.pc
      /\ ~(r.i < Len(r.subs)) => n.i = 1 /\ n.pc = q
  BY NextCueFields
<1>. SUFFICES LocalInv(n)
  OBVIOUS
<1>2. /\ r.i \in Index /\ r.i \in Nat /\ Len(r.subs) \in Nat
      /\ Room(r.i + 1) = Room(r.i) + 2 * MaxChunks
  BY ScriptFacts, RoomFacts DEF RunType, Index
<1>. HIDE DEF n
<1>3. n.subs = r.subs /\ n.chunk = 1 /\ n.slot = r.slot
  BY <1>1 DEF Same
<1>4. CASE r.i < Len(r.subs)
  <2>1. n.i = r.i + 1 /\ n.pc = r.pc /\ n.i <= Len(n.subs)
    BY <1>1, <1>2, <1>3, <1>4
  <2>2. n.pc = "seg" => n.slot <= Room(n.i)
    BY <1>2, <1>3, <2>1
  <2>3. n.pc \in {"migrate", "count", "seg"} /\ Phase(n) = n.pc
    BY <2>1 DEF Phase
  <2>4. n.pc \notin {"off", "trunc", "dump"} \cup Speaking
    BY <2>3 DEF Speaking
  <2>5. Phase(n) \in {"migrate", "count"} => n.slot = 0
    BY <1>3, <2>1, <2>3
  <2>6. n.subs # <<>> /\ n.chunk = 1
    BY <1>3
  <2>. QED
    BY <2>1, <2>2, <2>3, <2>4, <2>5, <2>6, Zenon DEF LocalInv
<1>5. CASE ~(r.i < Len(r.subs))
  <2>1. n.i = 1 /\ n.pc = q /\ q \in {"stale", "model", "combine"} /\ Phase(n) = q
    BY <1>1, <1>5 DEF Phase
  <2>2. q # "combine" => n.slot = 0
    BY <1>3
  <2>3. n.pc \notin {"off", "trunc", "dump", "migrate", "count", "seg"} \cup Speaking
    BY <2>1 DEF Speaking
  <2>. QED
    BY <1>3, <2>1, <2>2, <2>3 DEF LocalInv
<1>. QED
  BY <1>4, <1>5

LEMMA SavingLocal ==
    ASSUME NEW r \in RunType, LocalInv(r),
           r.pc \in {"count", "model", "seg", "combine", "write"}
    PROVE  LocalInv(Saving(r))
<1>. DEFINE n == Saving(r)
<1>1. Same(n, r, {}) /\ n.then = r.pc /\ n.pc = "trunc" /\ n.i = r.i
  BY SavingFields
<1>. HIDE DEF n
<1>. QED
  BY <1>1 DEF LocalInv, Phase, Same, Speaking, n

-----------------------------------------------------------------------------
(* One process's step                                                      *)

\* Process p goes on as n; generations of other processes stay what they are,
\* and p's own is the one n waits for.
LEMMA ProcStepTyped ==
    ASSUME SegmentTyped, FilesTyped',
           NEW p \in Procs, NEW n \in RunType, LocalInv(n),
           run' = [run EXCEPT ![p] = n],
           n.pc = "read" => part'[n.slot] # None,
           \A k \in PartIndex : part[k] # None => part'[k] # None,
           gens' \subseteq GenType,
           \A g \in gens' : g.live /\ g.proc # p => g \in gens,
           \A g \in gens' : g.live /\ g.proc = p => n.pc = "wait" /\ g.slot = n.slot,
           \A g, h \in gens' : g.live /\ h.live /\ g.proc = p /\ h.proc = p => g = h
    PROVE  SegmentTyped'
<1>1. run' \in [Procs -> RunType]
  BY DEF SegmentTyped, ProcsTyped
<1>2. \A q \in Procs : run'[q] = IF q = p THEN n ELSE run[q]
  BY DEF SegmentTyped, ProcsTyped
<1>3. ASSUME NEW q \in Procs
      PROVE  LocalInv(run'[q]) /\ (run'[q].pc = "read" => part'[run'[q].slot] # None)
  <2>1. CASE q = p
    BY <1>2, <2>1
  <2>2. CASE q # p
    <3>1. run'[q] = run[q] /\ run[q] \in RunType
      BY <1>2, <2>2 DEF SegmentTyped, ProcsTyped
    <3>2. run[q].slot \in PartIndex
      BY <3>1 DEF RunType
    <3>3. LocalInv(run[q]) /\ (run[q].pc = "read" => part[run[q].slot] # None)
      BY DEF SegmentTyped, ProcsTyped
    <3>. QED
      BY <3>1, <3>2, <3>3
  <2>. QED
    BY <2>1, <2>2
<1>4. ASSUME NEW g \in gens', g.live
      PROVE  run'[g.proc].pc = "wait" /\ g.slot = run'[g.proc].slot
  <2>1. g.proc \in Procs
    BY DEF GenType
  <2>2. CASE g.proc = p
    BY <1>2, <1>4, <2>1, <2>2
  <2>3. CASE g.proc # p
    BY <1>2, <1>4, <2>1, <2>3 DEF SegmentTyped, GensInv
  <2>. QED
    BY <2>2, <2>3
<1>5. ASSUME NEW g \in gens', NEW h \in gens', g.live, h.live, g.proc = h.proc
      PROVE  g = h
  <2>1. CASE g.proc = p
    BY <1>5, <2>1
  <2>2. CASE g.proc # p
    BY <1>5, <2>2 DEF SegmentTyped, GensInv
  <2>. QED
    BY <2>1, <2>2
<1>6. ProcsTyped'
  BY <1>1, <1>3 DEF ProcsTyped
<1>7. GensInv'
  BY <1>4, <1>5 DEF GensInv
<1>. QED
  BY <1>6, <1>7 DEF SegmentTyped

\* The same for a step that leaves the daemon alone, of a process that was not
\* waiting.
LEMMA QuietStepTyped ==
    ASSUME SegmentTyped, FilesTyped',
           NEW p \in Procs, NEW n \in RunType, LocalInv(n),
           run' = [run EXCEPT ![p] = n], n.pc # "read",
           UNCHANGED <<part, gens>>, run[p].pc # "wait"
    PROVE  SegmentTyped'
<1>1. gens \subseteq GenType
  BY DEF SegmentTyped, ProcsTyped
<1>2. \A g \in gens : g.live => g.proc # p
  BY DEF SegmentTyped, GensInv
<1>3. gens' = gens /\ part' = part
  OBVIOUS
<1>4. \A k \in PartIndex : part[k] # None => part'[k] # None
  BY <1>3
<1>5. /\ gens' \subseteq GenType
      /\ \A g \in gens' : g.live /\ g.proc # p => g \in gens
      /\ \A g \in gens' : ~(g.live /\ g.proc = p)
  BY <1>1, <1>2, <1>3
<1>6. /\ n.pc = "read" => part'[n.slot] # None
      /\ \A g \in gens' : g.live /\ g.proc = p => n.pc = "wait" /\ g.slot = n.slot
      /\ \A g, h \in gens' : g.live /\ h.live /\ g.proc = p /\ h.proc = p => g = h
  BY <1>5
<1>. QED
  BY <1>4, <1>5, <1>6, ProcStepTyped

LEMMA SpendTyped ==
    ASSUME used \in [Events -> Nat],
           \/ UNCHANGED used
           \/ \E e \in Events : Spend(e)
           \/ \E f \in {"term", "kill", "die", "nostart", "timeout", "busy", "tts", "long"} : Fault(f)
    PROVE  used' \in [Events -> Nat]
<1>1. ASSUME NEW e \in Events, Spend(e)
      PROVE  used' \in [Events -> Nat]
  BY <1>1 DEF Spend
<1>2. ASSUME NEW f, Fault(f)
      PROVE  \E e \in Events : Spend(e)
  BY <1>2 DEF Fault, Events
<1>. QED
  BY <1>1, <1>2

LEMMA ProcessFacts ==
    ASSUME SegmentTyped, NEW p \in Procs
    PROVE  /\ run[p] \in RunType /\ LocalInv(run[p]) /\ run \in [Procs -> RunType]
           /\ FilesTyped /\ used \in [Events -> Nat]
BY DEF SegmentTyped, FilesTyped, ProcsTyped

\* A process that ends lets go of what it had, the generation it waits for too.
LEMMA ExitTyped ==
    ASSUME SegmentTyped, FilesTyped', NEW p \in Procs, run' = [run EXCEPT ![p] = Idle],
           UNCHANGED <<part, gens>>, run[p].pc # "wait"
    PROVE  SegmentTyped'
<1>1. Idle.pc = "off"
  BY DEF Idle
<1>. QED
  BY <1>1, IdleTyped, QuietStepTyped

-----------------------------------------------------------------------------
(* The actions keep the types                                              *)

LEMMA StartTyped ==
    ASSUME SegmentTyped, NEW p \in Procs, Start(p)
    PROVE  SegmentTyped'
<1>1. PICK s \in Scripts :
         /\ script' = s
         /\ used' = [used EXCEPT !["run"] = @ + 1, !["edit"] = IF s = script THEN @ ELSE @ + 1]
         /\ run' = [run EXCEPT ![p].pc = "attach", ![p].subs = s]
  BY DEF Start
<1>. DEFINE r == run[p]
            n == [r EXCEPT !.pc = "attach", !.subs = s]
<1>2. r \in RunType /\ LocalInv(r) /\ r.pc = "off" /\ run \in [Procs -> RunType]
  BY ProcessFacts DEF Start
<1>3. n \in RunType
  <2>1. "attach" \in PCs
    BY DEF PCs
  <2>. QED
    BY <1>2, <2>1 DEF RunType
<1>4. run' = [run EXCEPT ![p] = n]
  BY <1>1, <1>2
<1>5. n.pc = "attach" /\ n.i = 1 /\ n.chunk = 1 /\ n.slot = 0
  <2>1. r = Idle
    BY <1>2 DEF LocalInv
  <2>. QED
    BY <2>1 DEF Idle
<1>. HIDE DEF n
<1>6. LocalInv(n)
  BY <1>5 DEF LocalInv, Phase, Speaking
<1>7. FilesTyped'
  <2>1. used' \in [Events -> Nat]
    <3>1. used \in [Events -> Nat]
      BY ProcessFacts
    <3>. QED
      BY <1>1, <3>1 DEF Events
  <2>. QED
    BY <1>1, <2>1, ProcessFacts DEF FilesTyped, Start, diskVars, daemonVars
<1>. QED
  BY <1>2, <1>3, <1>4, <1>5, <1>6, <1>7, QuietStepTyped DEF Start, diskVars, daemonVars

LEMMA AttachTyped ==
    ASSUME SegmentTyped, NEW p \in Procs, Attach(p)
    PROVE  SegmentTyped'
<1>. DEFINE n == [run[p] EXCEPT !.pc = "load"]
<1>1. run[p] \in RunType /\ LocalInv(run[p]) /\ run[p].pc = "attach" /\ run \in [Procs -> RunType]
  BY ProcessFacts DEF Attach
<1>2. "load" \in PCs
  BY DEF PCs
<1>3. Same(n, run[p], {}) /\ n.pc = "load" /\ n.i = run[p].i
  BY <1>1, <1>2, GotoFields
<1>4. FilesTyped'
  <2>1. used' \in [Events -> Nat]
    BY ProcessFacts, SpendTyped DEF Attach
  <2>. QED
    BY <2>1, ProcessFacts DEF FilesTyped, Attach, diskVars
<1>5. CASE Goto(p, "load")
  <2>1. run' = [run EXCEPT ![p] = n]
    BY <1>1, <1>5 DEF Goto
  <2>. HIDE DEF n
  <2>2. LocalInv(n)
    BY <1>1, <1>3 DEF LocalInv, Phase, Speaking, Same
  <2>. QED
    BY <1>1, <1>3, <1>4, <2>1, <2>2, QuietStepTyped DEF Attach, diskVars, Same
<1>6. CASE Exit(p, 0)
  BY <1>1, <1>4, <1>6, ExitTyped DEF Attach, diskVars, Exit
<1>. QED
  BY <1>5, <1>6 DEF Attach

LEMMA LoadTyped ==
    ASSUME SegmentTyped, NEW p \in Procs, Load(p)
    PROVE  SegmentTyped'
<1>. DEFINE r == run[p]
            c == IF meta = None THEN EmptyCache ELSE meta
            entries == {i \in Index : c[i] # None}
            n == [r EXCEPT !.pc = IF entries = {} THEN "count" ELSE "migrate",
                           !.cache = c, !.was = c, !.left = entries]
<1>1. r \in RunType /\ LocalInv(r) /\ r.pc = "load" /\ run \in [Procs -> RunType]
  BY ProcessFacts DEF Load
<1>2. FilesTyped'
  BY ProcessFacts DEF FilesTyped, Load, diskVars, daemonVars
<1>3. CASE r.subs = <<>>
  BY <1>1, <1>2, <1>3, ExitTyped DEF Load, Exit, diskVars, daemonVars
<1>4. CASE r.subs # <<>>
  <2>1. run' = [run EXCEPT ![p] = n]
    BY <1>1, <1>4 DEF Load
  <2>2. c \in Caches
    BY ProcessFacts DEF FilesTyped, EmptyCache, Caches
  <2>3. entries \subseteq Index
    OBVIOUS
  <2>. HIDE DEF c, entries
  <2>4. n \in RunType
    <3>1. (IF entries = {} THEN "count" ELSE "migrate") \in PCs
      BY DEF PCs
    <3>. QED
      BY <1>1, <2>2, <2>3, <3>1 DEF RunType
  <2>5. /\ n.pc \in {"count", "migrate"} /\ n.i = r.i /\ n.subs = r.subs
        /\ n.chunk = r.chunk /\ n.slot = r.slot
    BY <1>1 DEF RunType
  <2>6. n.i = 1 /\ n.chunk = 1 /\ n.slot = 0 /\ n.i <= Len(n.subs)
    BY <1>1, <1>4, <2>5, ScriptFacts DEF LocalInv, Phase, Speaking, RunType
  <2>. HIDE DEF n
  <2>7. LocalInv(n)
    BY <1>4, <2>5, <2>6 DEF LocalInv, Phase, Speaking
  <2>. QED
    BY <1>1, <1>2, <2>1, <2>4, <2>5, <2>7, QuietStepTyped DEF Load, diskVars, daemonVars
<1>. QED
  BY <1>3, <1>4

\* A process that works its way through the cues is at one of them.
LEMMA CueFacts ==
    ASSUME SegmentTyped, NEW p \in Procs, run[p].pc \in {"migrate", "count", "seg"} \cup Speaking
    PROVE  /\ run[p].subs # <<>> /\ run[p].i <= Len(run[p].subs)
           /\ run[p].i \in 1..Len(run[p].subs) /\ run[p].i \in Index
           /\ Cue(p) = run[p].subs[run[p].i] /\ Cue(p) \in Speech \cup {Empty, Symbols}
           /\ run[p].pc \in {"migrate", "count"} => run[p].slot = 0
           /\ run[p].pc \in {"migrate", "count", "seg"} => run[p].chunk = 1
           /\ run[p].pc = "seg" => run[p].slot <= Room(run[p].i)
<1>. DEFINE r == run[p]
<1>1. r \in RunType /\ LocalInv(r)
  BY ProcessFacts
<1>2. Phase(r) = r.pc
  BY DEF Phase, Speaking
<1>. HIDE DEF r
<1>. SUFFICES /\ r.subs # <<>> /\ r.i <= Len(r.subs)
              /\ r.i \in 1..Len(r.subs) /\ r.i \in Index
              /\ Cue(p) = r.subs[r.i] /\ Cue(p) \in Speech \cup {Empty, Symbols}
              /\ r.pc \in {"migrate", "count"} => r.slot = 0
              /\ r.pc \in {"migrate", "count", "seg"} => r.chunk = 1
              /\ r.pc = "seg" => r.slot <= Room(r.i)
  BY DEF r
<1>3. r.pc \in {"migrate", "count", "seg"} \cup Speaking
  BY DEF r
<1>4. /\ r.subs # <<>> /\ r.i <= Len(r.subs)
      /\ r.pc \in {"migrate", "count"} => r.slot = 0
      /\ r.pc \in {"migrate", "count", "seg"} => r.chunk = 1
      /\ r.pc = "seg" => r.slot <= Room(r.i)
  BY <1>1, <1>2, <1>3 DEF LocalInv, Speaking
<1>5. r.subs \in Scripts \cup {<<>>} /\ r.i \in Index
  BY <1>1 DEF RunType
<1>6. r.i \in 1..Len(r.subs)
  <2>1. r.i \in Nat \ {0}
    BY <1>5 DEF Index
  <2>. QED
    BY <1>4, <1>5, <2>1, ScriptFacts
<1>7. Cue(p) = r.subs[r.i]
  BY DEF Cue, r
<1>. QED
  BY <1>4, <1>5, <1>6, <1>7, ScriptFacts

LEMMA MigrateBlankTyped ==
    ASSUME SegmentTyped, NEW p \in Procs, MigrateBlank(p)
    PROVE  SegmentTyped'
<1>. DEFINE n == NextCue(run[p], "stale")
<1>1. run[p] \in RunType /\ run[p].pc = "migrate" /\ "stale" \in PCs
  BY ProcessFacts DEF MigrateBlank, PCs
<1>2. run' = [run EXCEPT ![p] = n]
  BY DEF MigrateBlank
<1>3. Same(n, run[p], {}) /\ n.pc \in {"migrate", "stale"}
  BY <1>1, CueFacts, NextCueFields
<1>4. LocalInv(n)
  BY <1>1, CueFacts, NextCueLocal
<1>5. FilesTyped'
  BY ProcessFacts DEF FilesTyped, MigrateBlank, diskVars, daemonVars
<1>. HIDE DEF n
<1>. QED
  BY <1>1, <1>2, <1>3, <1>4, <1>5, QuietStepTyped DEF MigrateBlank, diskVars, daemonVars, Same

LEMMA MigrateNewTyped ==
    ASSUME SegmentTyped, NEW p \in Procs, MigrateNew(p)
    PROVE  SegmentTyped'
<1>. DEFINE m == [run[p] EXCEPT !.cache[run[p].i] = None]
            n == NextCue(m, "stale")
<1>1. run[p] \in RunType /\ run[p].pc = "migrate" /\ "stale" \in PCs
  BY ProcessFacts DEF MigrateNew, PCs
<1>2. run' = [run EXCEPT ![p] = n]
  BY DEF MigrateNew
<1>3. Same(m, run[p], {"cache"}) /\ m.i = run[p].i /\ m.pc = "migrate"
  BY <1>1, CueFacts, DropEntryFields
<1>4. /\ m \in RunType /\ m.subs # <<>> /\ m.i <= Len(m.subs) /\ m.chunk = 1 /\ m.slot = 0
  BY <1>1, <1>3, CueFacts DEF Same
<1>. HIDE DEF m
<1>5. Same(n, m, {}) /\ n.pc \in {"migrate", "stale"}
  BY <1>1, <1>3, <1>4, NextCueFields
<1>6. LocalInv(n)
  BY <1>1, <1>3, <1>4, NextCueLocal
<1>7. FilesTyped'
  BY ProcessFacts DEF FilesTyped, MigrateNew, daemonVars
<1>. HIDE DEF n
<1>. QED
  BY <1>1, <1>2, <1>5, <1>6, <1>7, QuietStepTyped DEF MigrateNew, daemonVars, Same

LEMMA MigrateKnownTyped ==
    ASSUME SegmentTyped, NEW p \in Procs, MigrateKnown(p)
    PROVE  SegmentTyped'
<1>. DEFINE r == run[p]
            i == r.i
            flag(o) == r.cache[o] # None /\ r.cache[o].fallback
            m(o) == [r EXCEPT !.left = @ \ {o},
                              !.cache[i] = [content |-> Cue(p), fallback |-> flag(o)]]
            n(o) == NextCue(m(o), "stale")
<1>1. r \in RunType /\ r.pc = "migrate" /\ "stale" \in PCs
  BY ProcessFacts DEF MigrateKnown, PCs
<1>2. PICK o \in Matches(p) :
         \/ Exit(p, 1) /\ UNCHANGED wav
         \/ /\ run' = [run EXCEPT ![p] = n(o)]
            /\ wav' = IF o = i THEN wav
                      ELSE IF wav[i] = None
                           THEN [wav EXCEPT ![i] = wav[o], ![o] = None]
                           ELSE [wav EXCEPT ![o] = None]
  BY DEF MigrateKnown
<1>3. o \in Index
  BY <1>1 DEF Matches, RunType
<1>4. wav' \in [Index -> Sounds \cup {None}]
  <2>1. wav \in [Index -> Sounds \cup {None}]
    BY ProcessFacts DEF FilesTyped
  <2>. QED
    BY <1>2, <1>3, <2>1
<1>5. FilesTyped'
  BY <1>4, ProcessFacts DEF FilesTyped, MigrateKnown, daemonVars
<1>6. CASE Exit(p, 1)
  BY <1>1, <1>5, <1>6, ExitTyped DEF MigrateKnown, daemonVars, Exit
<1>7. CASE run' = [run EXCEPT ![p] = n(o)]
  <2>1. Cue(p) \in Speech \cup {Symbols} /\ r.subs # <<>> /\ i <= Len(r.subs)
    BY <1>1, CueFacts DEF MigrateKnown
  <2>2. /\ m(o) \in RunType /\ m(o).pc = "migrate" /\ m(o).subs = r.subs /\ m(o).i = i
        /\ m(o).chunk = 1 /\ m(o).slot = 0
    <3>1. r.chunk = 1 /\ r.slot = 0 /\ i \in Index
      BY <1>1, CueFacts
    <3>. DEFINE e == [content |-> Cue(p), fallback |-> flag(o)]
    <3>2. e \in Entries
      BY <2>1 DEF Entries
    <3>. HIDE DEF e
    <3>3. [r.cache EXCEPT ![i] = e] \in Caches
      BY <1>1, <3>2 DEF RunType, Caches
    <3>4. m(o) = [r EXCEPT !.left = r.left \ {o}, !.cache = [r.cache EXCEPT ![i] = e]]
      BY <1>1 DEF RunType, e
    <3>5. r.left \ {o} \in SUBSET Index
      BY <1>1 DEF RunType
    <3>. QED
      BY <1>1, <3>1, <3>3, <3>4, <3>5 DEF RunType
  <2>. HIDE DEF m
  <2>3. Same(n(o), m(o), {}) /\ n(o).pc \in {"migrate", "stale"}
    BY <1>1, <2>1, <2>2, NextCueFields
  <2>4. LocalInv(n(o))
    BY <1>1, <2>1, <2>2, NextCueLocal
  <2>. HIDE DEF n
  <2>. QED
    BY <1>1, <1>5, <1>7, <2>3, <2>4, QuietStepTyped DEF MigrateKnown, daemonVars, Same
<1>. QED
  BY <1>2, <1>6, <1>7

LEMMA MigrateStaleTyped ==
    ASSUME SegmentTyped, NEW p \in Procs, MigrateStale(p)
    PROVE  SegmentTyped'
<1>. DEFINE r == run[p]
            gone == {o \in r.left : r.cache[o] # None}
            c == [o \in Index |-> IF o \in gone THEN None ELSE r.cache[o]]
            n == [r EXCEPT !.pc = "trunc", !.then = "count", !.was = EmptyCache, !.left = {},
                           !.cache = c]
<1>1. r \in RunType /\ LocalInv(r) /\ r.pc = "stale" /\ run \in [Procs -> RunType]
  BY ProcessFacts DEF MigrateStale
<1>2. run' = [run EXCEPT ![p] = n]
  BY <1>1 DEF MigrateStale
<1>3. wav' \in [Index -> Sounds \cup {None}]
  BY ProcessFacts DEF FilesTyped, MigrateStale
<1>4. FilesTyped'
  BY <1>3, ProcessFacts DEF FilesTyped, MigrateStale, daemonVars
<1>5. c \in Caches /\ EmptyCache \in Caches
  BY <1>1 DEF Caches, RunType, EmptyCache
<1>. HIDE DEF c
<1>6. n \in RunType
  <2>1. "trunc" \in PCs /\ "count" \in PCs /\ {} \in SUBSET Index
    BY DEF PCs
  <2>. QED
    BY <1>1, <1>5, <2>1 DEF RunType
<1>7. /\ n.pc = "trunc" /\ n.then = "count" /\ n.subs = r.subs /\ n.i = r.i
      /\ n.chunk = r.chunk /\ n.slot = r.slot
  BY <1>1 DEF RunType
<1>8. r.subs # <<>> /\ r.i = 1 /\ r.chunk = 1 /\ r.slot = 0 /\ r.i <= Len(r.subs)
  <2>1. r.subs # <<>> /\ r.i = 1 /\ r.chunk = 1 /\ r.slot = 0
    BY <1>1 DEF LocalInv, Phase, Speaking
  <2>. QED
    BY <1>1, <2>1, ScriptFacts DEF RunType
<1>. HIDE DEF n
<1>9. LocalInv(n)
  BY <1>7, <1>8 DEF LocalInv, Phase, Speaking
<1>. QED
  BY <1>1, <1>2, <1>4, <1>6, <1>7, <1>9, QuietStepTyped DEF MigrateStale, daemonVars

LEMMA SaveOpenTyped ==
    ASSUME SegmentTyped, NEW p \in Procs, SaveOpen(p)
    PROVE  SegmentTyped'
<1>. DEFINE n == [run[p] EXCEPT !.pc = "dump"]
<1>1. run[p] \in RunType /\ LocalInv(run[p]) /\ run[p].pc = "trunc" /\ run \in [Procs -> RunType]
  BY ProcessFacts DEF SaveOpen
<1>2. "dump" \in PCs
  BY DEF PCs
<1>3. Same(n, run[p], {}) /\ n.pc = "dump" /\ n.i = run[p].i /\ n.then = run[p].then
  BY <1>1, <1>2, GotoFields
<1>4. run' = [run EXCEPT ![p] = n]
  BY <1>1 DEF SaveOpen, Goto
<1>5. FilesTyped'
  BY ProcessFacts DEF FilesTyped, SaveOpen, daemonVars
<1>. HIDE DEF n
<1>6. LocalInv(n)
  BY <1>1, <1>3 DEF LocalInv, Phase, Speaking, Same
<1>. QED
  BY <1>1, <1>3, <1>4, <1>5, <1>6, QuietStepTyped DEF SaveOpen, daemonVars, Same

LEMMA SaveDumpTyped ==
    ASSUME SegmentTyped, NEW p \in Procs, SaveDump(p)
    PROVE  SegmentTyped'
<1>. DEFINE n == [run[p] EXCEPT !.pc = run[p].then]
<1>1. run[p] \in RunType /\ LocalInv(run[p]) /\ run[p].pc = "dump" /\ run \in [Procs -> RunType]
  BY ProcessFacts DEF SaveDump
<1>2. run[p].then \in PCs
  BY <1>1 DEF RunType
<1>3. Same(n, run[p], {}) /\ n.pc = run[p].then /\ n.i = run[p].i /\ n.then = run[p].then
  BY <1>1, <1>2, GotoFields
<1>4. run' = [run EXCEPT ![p] = n]
  BY <1>1 DEF SaveDump, Goto
<1>5. FilesTyped'
  BY <1>1, ProcessFacts DEF FilesTyped, SaveDump, daemonVars, RunType
<1>. HIDE DEF n
<1>6. n.pc \in {"count", "model", "seg", "combine", "write"}
  BY <1>1, <1>3 DEF LocalInv
<1>7. LocalInv(n)
  <2>1. Phase(n) = Phase(run[p])
    BY <1>1, <1>3, <1>6 DEF Phase
  <2>. QED
    BY <1>1, <1>3, <1>6, <2>1 DEF LocalInv, Speaking, Same
<1>. QED
  BY <1>1, <1>3, <1>4, <1>5, <1>6, <1>7, QuietStepTyped DEF SaveDump, daemonVars, Same

LEMMA CountOneTyped ==
    ASSUME SegmentTyped, NEW p \in Procs, CountOne(p)
    PROVE  SegmentTyped'
<1>. DEFINE i == run[p].i
            hit == Cue(p) = Empty \/ Hit(p, i)
            r == [run[p] EXCEPT !.miss = @ \/ ~hit]
            go == IF r.miss THEN "model" ELSE "combine"
            n == IF Cue(p) # Empty /\ Recovered(p, i)
                 THEN Saving(NextCue(SetCache(r, i, FALSE), go))
                 ELSE NextCue(r, go)
<1>1. run[p] \in RunType /\ run[p].pc = "count"
  BY ProcessFacts DEF CountOne
<1>2. run' = [run EXCEPT ![p] = n]
  BY DEF CountOne
<1>3. r \in RunType
  <2>1. (run[p].miss \/ ~hit) \in BOOLEAN
    OBVIOUS
  <2>. QED
    BY <1>1, <2>1 DEF RunType
<1>4. /\ r.i = run[p].i /\ r.pc = "count" /\ r.subs = run[p].subs /\ r.chunk = run[p].chunk
      /\ r.slot = run[p].slot
  BY <1>1 DEF RunType
<1>5. go \in PCs /\ go \in {"model", "combine"}
  BY DEF PCs
<1>. HIDE DEF hit, r, go
<1>6. /\ r.subs # <<>> /\ r.i <= Len(r.subs) /\ r.chunk = 1 /\ r.slot = 0
      /\ Cue(p) = r.subs[r.i] /\ Cue(p) \in Speech \cup {Empty, Symbols}
  BY <1>1, <1>4, CueFacts
<1>7. n \in RunType /\ LocalInv(n) /\ n.pc \in {"trunc", "count", "model", "combine"}
  <2>1. CASE Cue(p) # Empty /\ Recovered(p, i)
    <3>. DEFINE m == SetCache(r, r.i, FALSE)
                k == NextCue(m, go)
    <3>1. Same(m, r, {"cache"}) /\ m.i = r.i /\ m.pc = "count"
      BY <1>3, <1>4, <1>6, <2>1, SetCacheFields
    <3>2. m \in RunType /\ m.subs # <<>> /\ m.i <= Len(m.subs) /\ m.chunk = 1 /\ m.slot = 0
      BY <1>6, <3>1 DEF Same
    <3>3. n = Saving(k)
      BY <1>4, <2>1
    <3>. HIDE DEF m
    <3>4. Same(k, m, {}) /\ k.pc \in {"count", "model", "combine"}
      BY <1>5, <3>1, <3>2, NextCueFields
    <3>5. LocalInv(k) /\ k \in RunType
      BY <1>5, <3>1, <3>2, <3>4, NextCueLocal DEF Same
    <3>. HIDE DEF k
    <3>6. LocalInv(Saving(k)) /\ Same(Saving(k), k, {}) /\ Saving(k).pc = "trunc"
      BY <3>4, <3>5, SavingLocal, SavingFields
    <3>. QED
      BY <3>3, <3>6 DEF Same
  <2>2. CASE ~(Cue(p) # Empty /\ Recovered(p, i))
    <3>1. n = NextCue(r, go)
      BY <2>2
    <3>2. Same(NextCue(r, go), r, {}) /\ NextCue(r, go).pc \in {"count", "model", "combine"}
      BY <1>3, <1>4, <1>5, <1>6, NextCueFields
    <3>3. LocalInv(NextCue(r, go))
      BY <1>3, <1>4, <1>5, <1>6, NextCueLocal
    <3>. QED
      BY <3>1, <3>2, <3>3 DEF Same
  <2>. QED
    BY <2>1, <2>2
<1>8. FilesTyped'
  BY ProcessFacts DEF FilesTyped, CountOne, diskVars, daemonVars
<1>. HIDE DEF n
<1>. QED
  BY <1>1, <1>2, <1>7, <1>8, QuietStepTyped DEF CountOne, diskVars, daemonVars

LEMMA EnsureModelTyped ==
    ASSUME SegmentTyped, NEW p \in Procs, EnsureModel(p)
    PROVE  SegmentTyped'
<1>. DEFINE n == [run[p] EXCEPT !.pc = "seg"]
<1>1. run[p] \in RunType /\ LocalInv(run[p]) /\ run[p].pc = "model" /\ run \in [Procs -> RunType]
  BY ProcessFacts DEF EnsureModel
<1>2. "seg" \in PCs
  BY DEF PCs
<1>3. Same(n, run[p], {}) /\ n.pc = "seg" /\ n.i = run[p].i
  BY <1>1, <1>2, GotoFields
<1>4. FilesTyped'
  <2>1. used' \in [Events -> Nat]
    BY ProcessFacts, SpendTyped DEF EnsureModel, Busy
  <2>. QED
    BY <2>1, ProcessFacts DEF FilesTyped, EnsureModel, diskVars, daemonVars
<1>5. CASE Goto(p, "seg")
  <2>1. run' = [run EXCEPT ![p] = n]
    BY <1>1, <1>5 DEF Goto
  <2>2. run[p].subs # <<>> /\ run[p].i = 1 /\ run[p].chunk = 1 /\ run[p].slot = 0
    BY <1>1 DEF LocalInv, Phase, Speaking
  <2>3. run[p].i <= Len(run[p].subs) /\ 0 <= Room(1)
    BY <1>1, <2>2, ScriptFacts, RoomFacts DEF RunType
  <2>. HIDE DEF n
  <2>4. LocalInv(n)
    BY <1>3, <2>2, <2>3 DEF LocalInv, Phase, Speaking, Same
  <2>. QED
    BY <1>1, <1>3, <1>4, <2>1, <2>4, QuietStepTyped DEF EnsureModel, diskVars, daemonVars, Same
<1>6. CASE Exit(p, 1)
  BY <1>1, <1>4, <1>6, ExitTyped DEF EnsureModel, diskVars, daemonVars, Exit
<1>. QED
  BY <1>5, <1>6 DEF EnsureModel

\* A process that has settled a segment, its chunks counted, saves the cache.
LEMMA SettledTyped ==
    ASSUME NEW r \in RunType, NEW flag \in BOOLEAN,
           r.subs # <<>>, r.i <= Len(r.subs), r.subs[r.i] \in Speech \cup {Symbols},
           r.pc = "seg", r.chunk = 1, r.slot <= Room(r.i) + 2 * MaxChunks
    PROVE  LET n == Saving(NextCue(SetCache(r, r.i, flag), "combine"))
           IN  n \in RunType /\ LocalInv(n) /\ n.pc = "trunc"
<1>. DEFINE m == SetCache(r, r.i, flag)
            k == NextCue(m, "combine")
<1>1. "combine" \in PCs
  BY DEF PCs
<1>2. Same(m, r, {"cache"}) /\ m.i = r.i /\ m.pc = "seg"
  BY SetCacheFields
<1>3. /\ m \in RunType /\ m.subs # <<>> /\ m.i <= Len(m.subs) /\ m.chunk = 1
      /\ m.slot <= Room(m.i) + 2 * MaxChunks
  BY <1>2 DEF Same
<1>. HIDE DEF m
<1>4. Same(k, m, {}) /\ k.pc \in {"seg", "combine"}
  BY <1>1, <1>2, <1>3, NextCueFields
<1>5. LocalInv(k) /\ k \in RunType
  BY <1>1, <1>2, <1>3, <1>4, NextCueLocal DEF Same
<1>. HIDE DEF k
<1>6. LocalInv(Saving(k)) /\ Same(Saving(k), k, {}) /\ Saving(k).pc = "trunc"
  BY <1>4, <1>5, SavingLocal, SavingFields
<1>7. Saving(k) \in RunType
  BY <1>6 DEF Same
<1>. QED
  BY <1>6, <1>7 DEF k, m

LEMMA SegmentBlankTyped ==
    ASSUME SegmentTyped, NEW p \in Procs, SegmentBlank(p)
    PROVE  SegmentTyped'
<1>. DEFINE m == [run[p] EXCEPT !.cache[run[p].i] = None]
            n == NextCue(m, "combine")
<1>1. run[p] \in RunType /\ run[p].pc = "seg" /\ "combine" \in PCs
  BY ProcessFacts DEF SegmentBlank, PCs
<1>2. run' = [run EXCEPT ![p] = n]
  BY DEF SegmentBlank
<1>3. Same(m, run[p], {"cache"}) /\ m.i = run[p].i /\ m.pc = "seg"
  BY <1>1, CueFacts, DropEntryFields
<1>4. /\ m \in RunType /\ m.subs # <<>> /\ m.i <= Len(m.subs) /\ m.chunk = 1
      /\ m.slot <= Room(m.i) + 2 * MaxChunks
  <2>1. /\ run[p].slot \in Nat /\ Room(run[p].i) \in Nat /\ MaxChunks \in Nat
        /\ run[p].slot <= Room(run[p].i)
    BY <1>1, CueFacts, RoomFacts, SegmentAssumption DEF RunType, PartIndex
  <2>. QED
    BY <1>1, <1>3, <2>1, CueFacts DEF Same
<1>. HIDE DEF m
<1>5. Same(n, m, {}) /\ n.pc \in {"seg", "combine"}
  BY <1>1, <1>3, <1>4, NextCueFields
<1>6. LocalInv(n)
  BY <1>1, <1>3, <1>4, NextCueLocal
<1>7. FilesTyped'
  <2>1. Silence \in Sounds
    BY DEF Silence, Sounds
  <2>. QED
    BY <2>1, ProcessFacts DEF FilesTyped, SegmentBlank, daemonVars
<1>. HIDE DEF n
<1>. QED
  BY <1>1, <1>2, <1>5, <1>6, <1>7, QuietStepTyped DEF SegmentBlank, daemonVars, Same

LEMMA SegmentSymbolsTyped ==
    ASSUME SegmentTyped, NEW p \in Procs, SegmentSymbols(p)
    PROVE  SegmentTyped'
<1>. DEFINE r == run[p]
            n == Saving(NextCue(SetCache(r, r.i, FALSE), "combine"))
<1>1. r \in RunType /\ r.pc = "seg"
  BY ProcessFacts DEF SegmentSymbols
<1>2. run' = [run EXCEPT ![p] = n]
  BY DEF SegmentSymbols
<1>3. r.slot <= Room(r.i) + 2 * MaxChunks
  <2>1. /\ r.slot \in Nat /\ Room(r.i) \in Nat /\ MaxChunks \in Nat
        /\ r.slot <= Room(r.i)
    BY <1>1, CueFacts, RoomFacts, SegmentAssumption DEF RunType, PartIndex
  <2>. QED
    BY <2>1
<1>4. /\ r.subs # <<>> /\ r.i <= Len(r.subs) /\ r.chunk = 1
      /\ r.subs[r.i] \in Speech \cup {Symbols}
  BY <1>1, CueFacts DEF SegmentSymbols
<1>5. n \in RunType /\ LocalInv(n) /\ n.pc = "trunc"
  BY <1>1, <1>3, <1>4, SettledTyped
<1>6. FilesTyped'
  <2>1. Silence \in Sounds
    BY DEF Silence, Sounds
  <2>. QED
    BY <2>1, ProcessFacts DEF FilesTyped, SegmentSymbols, daemonVars
<1>. HIDE DEF n
<1>. QED
  BY <1>1, <1>2, <1>5, <1>6, QuietStepTyped DEF SegmentSymbols, daemonVars

LEMMA SegmentCachedTyped ==
    ASSUME SegmentTyped, NEW p \in Procs, SegmentCached(p)
    PROVE  SegmentTyped'
<1>. DEFINE i == run[p].i
            r == [run[p] EXCEPT !.slot = @ + Chunks[Cue(p)]]
            n == IF Recovered(p, i)
                 THEN Saving(NextCue(SetCache(r, i, FALSE), "combine"))
                 ELSE NextCue(r, "combine")
<1>1. run[p] \in RunType /\ run[p].pc = "seg" /\ "combine" \in PCs
  BY ProcessFacts DEF SegmentCached, PCs
<1>2. run' = [run EXCEPT ![p] = n]
  BY DEF SegmentCached
<1>3. /\ run[p].slot + Chunks[Cue(p)] \in PartIndex
      /\ run[p].slot + Chunks[Cue(p)] <= Room(i) + 2 * MaxChunks
  <2>1. /\ run[p].slot \in Nat /\ Room(i) \in Nat /\ MaxChunks \in Nat
        /\ run[p].slot <= Room(i)
        /\ \A k \in 0..(Room(i) + 2 * MaxChunks) : k \in PartIndex
    BY <1>1, CueFacts, RoomFacts, SegmentAssumption DEF RunType, PartIndex
  <2>2. Chunks[Cue(p)] \in Nat /\ Chunks[Cue(p)] <= MaxChunks
    BY ChunkFacts DEF SegmentCached
  <2>. QED
    BY <2>1, <2>2
<1>4. /\ r \in RunType /\ r.i = i /\ r.pc = "seg" /\ r.subs = run[p].subs
      /\ r.chunk = run[p].chunk /\ r.slot = run[p].slot + Chunks[Cue(p)]
  BY <1>1, <1>3 DEF RunType
<1>. HIDE DEF r
<1>5. /\ r.subs # <<>> /\ r.i <= Len(r.subs) /\ r.chunk = 1
      /\ r.slot <= Room(r.i) + 2 * MaxChunks /\ r.subs[r.i] \in Speech \cup {Symbols}
  BY <1>1, <1>3, <1>4, CueFacts DEF SegmentCached
<1>6. n \in RunType /\ LocalInv(n) /\ n.pc # "read"
  <2>1. CASE Recovered(p, i)
    BY <1>4, <1>5, <2>1, SettledTyped
  <2>2. CASE ~Recovered(p, i)
    <3>1. n = NextCue(r, "combine")
      BY <2>2
    <3>2. Same(NextCue(r, "combine"), r, {}) /\ NextCue(r, "combine").pc \in {"seg", "combine"}
      BY <1>1, <1>4, <1>5, NextCueFields
    <3>3. LocalInv(NextCue(r, "combine"))
      BY <1>1, <1>4, <1>5, NextCueLocal
    <3>. QED
      BY <3>1, <3>2, <3>3 DEF Same
  <2>. QED
    BY <2>1, <2>2
<1>7. FilesTyped'
  BY ProcessFacts DEF FilesTyped, SegmentCached, diskVars, daemonVars
<1>. HIDE DEF n
<1>. QED
  BY <1>1, <1>2, <1>6, <1>7, QuietStepTyped DEF SegmentCached, diskVars, daemonVars

LEMMA SegmentMissingTyped ==
    ASSUME SegmentTyped, NEW p \in Procs, SegmentMissing(p)
    PROVE  SegmentTyped'
<1>. DEFINE r == run[p]
            n == [r EXCEPT !.pc = "request", !.chunk = 1, !.att = 0, !.rec = 0, !.said = Silence]
<1>1. r \in RunType /\ r.pc = "seg" /\ run \in [Procs -> RunType]
  BY ProcessFacts DEF SegmentMissing
<1>2. FilesTyped'
  BY ProcessFacts DEF FilesTyped, SegmentMissing, diskVars, daemonVars
<1>3. CASE r.stop
  BY <1>1, <1>2, <1>3, ExitTyped DEF SegmentMissing, diskVars, daemonVars, Exit
<1>4. CASE ~r.stop
  <2>1. run' = [run EXCEPT ![p] = n]
    BY <1>1, <1>4 DEF SegmentMissing
  <2>2. n \in RunType
    <3>1. "request" \in PCs /\ 1 \in Nat \ {0} /\ 0 \in 0..2 /\ Silence \in Sounds
      BY DEF PCs, Silence, Sounds
    <3>. QED
      BY <1>1, <3>1 DEF RunType
  <2>3. /\ n.pc = "request" /\ n.i = r.i /\ n.subs = r.subs /\ n.chunk = 1 /\ n.slot = r.slot
    BY <1>1 DEF RunType
  <2>. HIDE DEF n
  <2>4. /\ n.subs # <<>> /\ n.i <= Len(n.subs) /\ n.subs[n.i] \in Speech
        /\ n.slot + 1 <= Room(n.i) + n.chunk /\ n.chunk <= Chunks[n.subs[n.i]]
    <3>1. r.slot \in Nat /\ Room(r.i) \in Nat /\ r.slot <= Room(r.i)
      BY <1>1, CueFacts, RoomFacts DEF RunType, PartIndex
    <3>2. Cue(p) \in Speech /\ Cue(p) = r.subs[r.i]
      BY <1>1, CueFacts DEF SegmentMissing
    <3>3. 1 <= Chunks[Cue(p)]
      BY <3>2, ChunkFacts
    <3>. QED
      BY <1>1, <2>3, <3>1, <3>2, <3>3, CueFacts
  <2>5. LocalInv(n)
    BY <2>3, <2>4 DEF LocalInv, Phase, Speaking
  <2>. QED
    BY <1>1, <1>2, <2>1, <2>2, <2>3, <2>5, QuietStepTyped DEF SegmentMissing, diskVars, daemonVars
<1>. QED
  BY <1>3, <1>4

LEMMA SpeakingFacts ==
    ASSUME SegmentTyped, NEW p \in Procs, run[p].pc \in Speaking
    PROVE  LET r == run[p]
           IN  /\ r.subs # <<>> /\ r.i <= Len(r.subs) /\ r.i \in Index
               /\ Cue(p) = r.subs[r.i] /\ Cue(p) \in Speech
               /\ r.chunk \in Nat /\ Chunks[Cue(p)] \in Nat /\ MaxChunks \in Nat
               /\ r.chunk <= Chunks[Cue(p)] /\ Chunks[Cue(p)] <= MaxChunks
               /\ r.slot \in Nat /\ Room(r.i) \in Nat /\ r.slot + 1 <= Room(r.i) + r.chunk
               /\ \A k \in 0..(Room(r.i) + 2 * MaxChunks) : k \in PartIndex
<1>. DEFINE r == run[p]
<1>1. r \in RunType /\ LocalInv(r)
  BY ProcessFacts
<1>2. r.subs # <<>> /\ r.i <= Len(r.subs) /\ r.i \in Index /\ Cue(p) = r.subs[r.i]
  BY CueFacts
<1>. HIDE DEF r
<1>3. r.pc \in Speaking
  BY DEF r
<1>4. r.subs[r.i] \in Speech /\ r.chunk <= Chunks[r.subs[r.i]] /\ r.slot + 1 <= Room(r.i) + r.chunk
  BY <1>1, <1>3 DEF LocalInv
<1>5. r.chunk \in Nat /\ r.slot \in Nat
  BY <1>1, SegmentAssumption DEF RunType, PartIndex
<1>. QED
  BY <1>2, <1>4, <1>5, ChunkFacts, RoomFacts DEF r

LEMMA Counting ==
    ASSUME NEW slot \in Nat, NEW room \in Nat, NEW c \in Nat, NEW n \in Nat, NEW m \in Nat,
           slot + 1 <= room + c, c <= n, n <= m
    PROVE  /\ slot + 1 \in 0..(room + 2 * m) /\ slot + n \in 0..(room + 2 * m)
           /\ c < n => c + 1 <= n /\ (slot + 1) + 1 <= room + (c + 1)
  OBVIOUS

\* The chunk numbers that a segment may go on to.
LEMMA SlotFacts ==
    ASSUME SegmentTyped, NEW p \in Procs, run[p].pc \in Speaking
    PROVE  LET r == run[p]
           IN  /\ r.slot + 1 \in PartIndex /\ r.slot + Chunks[Cue(p)] \in PartIndex
               /\ r.slot + Chunks[Cue(p)] <= Room(r.i) + 2 * MaxChunks
               /\ r.chunk < Chunks[Cue(p)] =>
                      /\ r.chunk + 1 <= Chunks[Cue(p)]
                      /\ (r.slot + 1) + 1 <= Room(r.i) + (r.chunk + 1)
<1>1. PICK slot, room, c, n : slot = run[p].slot /\ room = Room(run[p].i) /\ c = run[p].chunk
                              /\ n = Chunks[Cue(p)]
  OBVIOUS
<1>2. /\ c \in Nat /\ n \in Nat /\ MaxChunks \in Nat /\ c <= n /\ n <= MaxChunks
      /\ slot \in Nat /\ room \in Nat /\ slot + 1 <= room + c
      /\ \A k \in 0..(room + 2 * MaxChunks) : k \in PartIndex
  BY <1>1, SpeakingFacts
<1>3. /\ slot + 1 \in 0..(room + 2 * MaxChunks) /\ slot + n \in 0..(room + 2 * MaxChunks)
      /\ c < n => c + 1 <= n /\ (slot + 1) + 1 <= room + (c + 1)
  BY <1>2, Counting
<1>4. slot + n <= room + 2 * MaxChunks
  BY <1>2, <1>3
<1>5. slot + 1 \in PartIndex /\ slot + n \in PartIndex
  BY <1>2, <1>3
<1>. QED
  BY <1>1, <1>3, <1>4, <1>5

\* Process p goes on, neither waiting nor with an answer.
Moves(p) == \E n \in RunType : /\ LocalInv(n) /\ n.pc \notin {"wait", "read"}
                              /\ run' = [run EXCEPT ![p] = n]

LEMMA GiveUpMoves ==
    ASSUME SegmentTyped, NEW p \in Procs, run[p].pc \in Speaking, GiveUp(p)
    PROVE  Moves(p) /\ wav' \in [Index -> Sounds \cup {None}] /\ UNCHANGED <<meta, part, output>>
<1>. DEFINE r == run[p]
            f == Finished(r)
            m == [f EXCEPT !.failed = f.failed \cup {r.i}, !.slot = f.slot + Chunks[Cue(p)]]
            n == Saving(NextCue(SetCache(m, r.i, TRUE), "combine"))
<1>1. r \in RunType
  BY ProcessFacts
<1>2. run' = [run EXCEPT ![p] = n]
  BY DEF GiveUp
<1>3. /\ f \in RunType /\ f.pc = "seg" /\ f.chunk = 1 /\ f.i = r.i /\ f.subs = r.subs
      /\ f.slot = r.slot
  BY <1>1, FinishedFields DEF Same
<1>. HIDE DEF f
<1>4. r.slot + Chunks[Cue(p)] \in PartIndex /\ r.slot + Chunks[Cue(p)] <= Room(r.i) + 2 * MaxChunks
  BY SlotFacts
<1>5. /\ m \in RunType /\ m.pc = "seg" /\ m.chunk = 1 /\ m.i = r.i /\ m.subs = r.subs
      /\ m.slot = r.slot + Chunks[Cue(p)]
  <2>1. f.failed \cup {r.i} \in SUBSET Index
    BY <1>1, <1>3 DEF RunType
  <2>. QED
    BY <1>3, <1>4, <2>1 DEF RunType
<1>. HIDE DEF m
<1>6. n \in RunType /\ LocalInv(n) /\ n.pc = "trunc"
  <2>. DEFINE k == Saving(NextCue(SetCache(m, m.i, TRUE), "combine"))
  <2>1. m.subs # <<>> /\ m.i <= Len(m.subs) /\ m.subs[m.i] \in Speech \cup {Symbols}
        /\ m.slot <= Room(m.i) + 2 * MaxChunks
    BY <1>4, <1>5, SpeakingFacts
  <2>2. k \in RunType /\ LocalInv(k) /\ k.pc = "trunc"
    BY <1>5, <2>1, SettledTyped
  <2>3. n = k
    BY <1>5
  <2>. HIDE DEF n, k
  <2>. QED
    BY <2>2, <2>3
<1>7. wav' \in [Index -> Sounds \cup {None}]
  <2>1. Silence \in Sounds /\ wav \in [Index -> Sounds \cup {None}]
    BY ProcessFacts DEF Silence, Sounds, FilesTyped
  <2>. QED
    BY <2>1 DEF GiveUp
<1>. HIDE DEF n
<1>8. Moves(p)
  BY <1>2, <1>6 DEF Moves
<1>9. UNCHANGED <<meta, part, output>>
  BY DEF GiveUp
<1>. QED
  BY <1>7, <1>8, <1>9

LEMMA RetryMoves ==
    ASSUME SegmentTyped, NEW p \in Procs, run[p].pc \in Speaking, Retry(p)
    PROVE  Moves(p) /\ wav' \in [Index -> Sounds \cup {None}] /\ UNCHANGED <<meta, part, output>>
<1>. DEFINE r == run[p]
            n == [r EXCEPT !.att = @ + 1, !.pc = "request"]
<1>1. r \in RunType /\ LocalInv(r) /\ run \in [Procs -> RunType]
  BY ProcessFacts
<1>2. CASE r.att < 2
  <2>1. run' = [run EXCEPT ![p] = n]
    BY <1>1, <1>2 DEF Retry
  <2>2. n \in RunType
    <3>1. "request" \in PCs /\ r.att + 1 \in 0..2
      BY <1>1, <1>2 DEF PCs, RunType
    <3>. QED
      BY <1>1, <3>1 DEF RunType
  <2>3. n.pc = "request" /\ n.i = r.i /\ n.subs = r.subs /\ n.chunk = r.chunk /\ n.slot = r.slot
    BY <1>1 DEF RunType
  <2>. HIDE DEF n
  <2>4. LocalInv(n)
    BY <2>3, SpeakingFacts DEF LocalInv, Phase, Speaking
  <2>5. wav' \in [Index -> Sounds \cup {None}] /\ UNCHANGED <<meta, part, output>>
    BY <1>2, ProcessFacts DEF Retry, diskVars, FilesTyped
  <2>. QED
    BY <2>1, <2>2, <2>3, <2>4, <2>5 DEF Moves
<1>3. CASE ~(r.att < 2)
  BY <1>3, GiveUpMoves DEF Retry
<1>. QED
  BY <1>2, <1>3

LEMMA MovesTyped ==
    ASSUME SegmentTyped, FilesTyped', NEW p \in Procs, Moves(p),
           UNCHANGED <<part, gens>>, run[p].pc # "wait"
    PROVE  SegmentTyped'
BY QuietStepTyped DEF Moves

LEMMA RequestTyped ==
    ASSUME SegmentTyped, NEW p \in Procs, Request(p)
    PROVE  SegmentTyped'
<1>. DEFINE r == run[p]
<1>1. r \in RunType /\ LocalInv(r) /\ r.pc = "request" /\ run \in [Procs -> RunType]
  BY ProcessFacts DEF Request
<1>2. r.pc \in Speaking
  BY <1>1 DEF Speaking
<1>3. ASSUME NEW q \in {"wait", "lost"}, Goto(p, q), UNCHANGED <<diskVars, used>>
      PROVE  LET n == [r EXCEPT !.pc = q]
             IN  /\ n \in RunType /\ LocalInv(n) /\ n.pc = q /\ n.slot = r.slot
                 /\ run' = [run EXCEPT ![p] = n] /\ FilesTyped'
  <2>. DEFINE n == [r EXCEPT !.pc = q]
  <2>1. q \in PCs
    BY DEF PCs
  <2>2. Same(n, r, {}) /\ n.pc = q /\ n.i = r.i
    BY <1>1, <2>1, GotoFields
  <2>3. run' = [run EXCEPT ![p] = n]
    BY <1>1, <1>3 DEF Goto
  <2>. HIDE DEF n
  <2>4. LocalInv(n)
    BY <1>2, <2>2, SpeakingFacts DEF LocalInv, Phase, Speaking, Same
  <2>5. FilesTyped'
    BY <1>3, ProcessFacts DEF FilesTyped, Request, diskVars
  <2>6. n \in RunType /\ n.slot = r.slot
    BY <2>2 DEF Same
  <2>. QED
    BY <2>2, <2>3, <2>4, <2>5, <2>6 DEF n
<1>4. CASE /\ gens' = gens \cup {[proc |-> p, slot |-> r.slot, text |-> Cue(p), live |-> TRUE]}
           /\ Goto(p, "wait")
           /\ UNCHANGED <<diskVars, used>>
  <2>. DEFINE g == [proc |-> p, slot |-> r.slot, text |-> Cue(p), live |-> TRUE]
              n == [r EXCEPT !.pc = "wait"]
  <2>1. /\ n \in RunType /\ LocalInv(n) /\ n.pc = "wait" /\ n.slot = r.slot
        /\ run' = [run EXCEPT ![p] = n] /\ FilesTyped'
    BY <1>3, <1>4
  <2>2. g \in GenType
    BY <1>1, <1>2, SpeakingFacts DEF GenType, RunType
  <2>3. g.proc = p /\ g.slot = r.slot
    OBVIOUS
  <2>. HIDE DEF g, n
  <2>4. gens' = gens \cup {g} /\ part' = part
    BY <1>4 DEF g, diskVars
  <2>5. gens' \subseteq GenType
    BY <2>2, <2>4 DEF SegmentTyped, ProcsTyped
  <2>6. \A h \in gens : h.live => h.proc # p
    BY <1>1 DEF SegmentTyped, GensInv
  <2>7. /\ \A h \in gens' : h.live /\ h.proc # p => h \in gens
        /\ \A h \in gens' : h.live /\ h.proc = p => n.pc = "wait" /\ h.slot = n.slot
        /\ \A h, k \in gens' : h.live /\ k.live /\ h.proc = p /\ k.proc = p => h = k
    BY <2>1, <2>3, <2>4, <2>6
  <2>8. n.pc # "read" /\ \A k \in PartIndex : part[k] # None => part'[k] # None
    BY <2>1, <2>4
  <2>. QED
    BY <2>1, <2>5, <2>7, <2>8, ProcStepTyped
<1>5. CASE Goto(p, "lost") /\ UNCHANGED <<diskVars, gens, used>>
  <2>. DEFINE n == [r EXCEPT !.pc = "lost"]
  <2>1. /\ n \in RunType /\ LocalInv(n) /\ n.pc = "lost"
        /\ run' = [run EXCEPT ![p] = n] /\ FilesTyped'
    BY <1>3, <1>5
  <2>. HIDE DEF n
  <2>. QED
    BY <1>1, <1>5, <2>1, QuietStepTyped DEF diskVars
<1>6. CASE Busy /\ GiveUp(p) /\ UNCHANGED gens
  <2>1. Moves(p) /\ wav' \in [Index -> Sounds \cup {None}] /\ UNCHANGED <<meta, part, output>>
    BY <1>2, <1>6, GiveUpMoves
  <2>2. used' \in [Events -> Nat]
    BY <1>6, ProcessFacts, SpendTyped DEF Busy
  <2>3. FilesTyped'
    BY <2>1, <2>2, ProcessFacts DEF FilesTyped, Request
  <2>. QED
    BY <1>1, <1>6, <2>1, <2>3, MovesTyped
<1>. QED
  BY <1>4, <1>5, <1>6 DEF Request

LEMMA GeneratedTyped ==
    ASSUME SegmentTyped, NEW g \in gens, Generated(g)
    PROVE  SegmentTyped'
<1>. DEFINE p == g.proc
            r == run[p]
            n == [r EXCEPT !.pc = "read"]
<1>1. g \in GenType /\ gens' = gens \ {g} /\ gens \subseteq GenType
  BY DEF Generated, SegmentTyped, ProcsTyped
<1>2. p \in Procs /\ g.slot \in PartIndex /\ g.text \in Speech
  BY <1>1 DEF GenType
<1>3. r \in RunType /\ LocalInv(r) /\ run \in [Procs -> RunType]
  BY <1>2, ProcessFacts
<1>4. g.live => r.pc = "wait" /\ g.slot = r.slot
  BY DEF SegmentTyped, GensInv
<1>5. \A h \in gens' : h.live /\ h.proc = p => ~g.live
  BY <1>1 DEF SegmentTyped, GensInv
<1>6. used' \in [Events -> Nat]
  BY <1>2, ProcessFacts, SpendTyped DEF Generated
<1>7. \A h \in gens' : h.live => (r.pc = "wait" /\ h.slot = r.slot) \/ h.proc # p
  BY <1>1 DEF SegmentTyped, GensInv
<1>8. \A h, k \in gens' : h.live /\ k.live /\ h.proc = k.proc => h = k
  BY <1>1 DEF SegmentTyped, GensInv
<1>9. /\ gens' \subseteq GenType
      /\ \A h \in gens' : h.live /\ h.proc # p => h \in gens
  BY <1>1
<1>10. wav \in [Index -> Sounds \cup {None}] /\ part \in [PartIndex -> Sounds \cup {None}]
  BY ProcessFacts, <1>2 DEF FilesTyped
<1>. HIDE DEF p, r, n
<1>11. ASSUME part' = part, wav' \in [Index -> Sounds \cup {None}], UNCHANGED <<meta, output>>
       PROVE  FilesTyped'
  BY <1>2, <1>6, <1>11, ProcessFacts DEF FilesTyped, Generated
<1>12. CASE \E w \in Sounds : /\ part' = [part EXCEPT ![g.slot] = w]
                              /\ IF g.live THEN Goto(p, "read") ELSE UNCHANGED run
                              /\ UNCHANGED <<wav, meta, output>>
  <2>1. PICK w \in Sounds : part' = [part EXCEPT ![g.slot] = w]
    BY <1>12
  <2>2. w # None
    BY SegmentAssumption
  <2>3. part' \in [PartIndex -> Sounds \cup {None}] /\ part'[g.slot] # None
    BY <1>2, <1>10, <2>1, <2>2
  <2>4. \A k \in PartIndex : part[k] # None => part'[k] # None
    BY <1>10, <2>1, <2>2
  <2>5. FilesTyped'
    BY <1>2, <1>6, <1>12, <2>3, ProcessFacts DEF FilesTyped, Generated
  <2>6. CASE g.live
    <3>1. "read" \in PCs
      BY DEF PCs
    <3>2. Same(n, r, {}) /\ n.pc = "read" /\ n.i = r.i
      BY <1>3, <3>1, GotoFields DEF n
    <3>3. run' = [run EXCEPT ![p] = n]
      BY <1>3, <1>12, <2>6 DEF Goto, n, r
    <3>4. r.pc \in Speaking /\ run[p] = r
      BY <1>4, <2>6 DEF Speaking, r
    <3>5. LocalInv(n)
      BY <1>2, <3>2, <3>4, SpeakingFacts DEF LocalInv, Phase, Speaking, Same
    <3>6. n \in RunType /\ part'[n.slot] # None
      BY <1>4, <2>3, <2>6, <3>2 DEF Same
    <3>7. /\ \A h \in gens' : h.live /\ h.proc = p => n.pc = "wait" /\ h.slot = n.slot
          /\ \A h, k \in gens' : h.live /\ k.live /\ h.proc = p /\ k.proc = p => h = k
      BY <1>5, <1>8, <2>6
    <3>. QED
      BY <1>2, <1>9, <2>4, <2>5, <3>3, <3>5, <3>6, <3>7, ProcStepTyped
  <2>7. CASE ~g.live
    <3>1. run' = [run EXCEPT ![p] = r]
      BY <1>2, <1>3, <1>12, <2>7 DEF r
    <3>2. r.pc = "read" => part'[r.slot] # None
      <4>1. r.pc = "read" => part[r.slot] # None
        BY <1>2 DEF SegmentTyped, ProcsTyped, r
      <4>. QED
        BY <1>3, <2>4, <4>1 DEF RunType
    <3>3. /\ \A h \in gens' : h.live /\ h.proc = p => r.pc = "wait" /\ h.slot = r.slot
          /\ \A h, k \in gens' : h.live /\ k.live /\ h.proc = p /\ k.proc = p => h = k
      BY <1>7, <1>8
    <3>. QED
      BY <1>2, <1>3, <1>9, <2>4, <2>5, <3>1, <3>2, <3>3, ProcStepTyped
  <2>. QED
    BY <2>6, <2>7
<1>13. CASE Fault("tts") /\ (IF g.live THEN GiveUp(p) ELSE UNCHANGED <<run, diskVars>>)
  <2>1. CASE g.live
    <3>1. r.pc \in Speaking /\ run[p] = r
      BY <1>4, <2>1 DEF Speaking, r
    <3>2. Moves(p) /\ wav' \in [Index -> Sounds \cup {None}] /\ UNCHANGED <<meta, part, output>>
      BY <1>2, <1>13, <2>1, <3>1, GiveUpMoves
    <3>3. FilesTyped'
      BY <1>11, <3>2
    <3>4. PICK m \in RunType : /\ LocalInv(m) /\ m.pc \notin {"wait", "read"}
                              /\ run' = [run EXCEPT ![p] = m]
      BY <3>2 DEF Moves
    <3>5. /\ \A h \in gens' : h.live /\ h.proc = p => m.pc = "wait" /\ h.slot = m.slot
          /\ \A h, k \in gens' : h.live /\ k.live /\ h.proc = p /\ k.proc = p => h = k
      BY <1>5, <1>8, <2>1
    <3>6. \A k \in PartIndex : part[k] # None => part'[k] # None
      BY <3>2
    <3>. QED
      BY <1>2, <1>9, <3>3, <3>4, <3>5, <3>6, ProcStepTyped
  <2>2. CASE ~g.live
    <3>1. run' = [run EXCEPT ![p] = r] /\ part' = part
      BY <1>2, <1>3, <1>13, <2>2 DEF r, diskVars
    <3>2. FilesTyped'
      BY <1>10, <1>11, <1>13, <2>2 DEF diskVars
    <3>3. r.pc = "read" => part'[r.slot] # None
      BY <1>2, <3>1 DEF SegmentTyped, ProcsTyped, r
    <3>4. /\ \A h \in gens' : h.live /\ h.proc = p => r.pc = "wait" /\ h.slot = r.slot
          /\ \A h, k \in gens' : h.live /\ k.live /\ h.proc = p /\ k.proc = p => h = k
      BY <1>7, <1>8
    <3>5. \A k \in PartIndex : part[k] # None => part'[k] # None
      BY <3>1
    <3>. QED
      BY <1>2, <1>3, <1>9, <3>1, <3>2, <3>3, <3>4, <3>5, ProcStepTyped
  <2>. QED
    BY <2>1, <2>2
<1>14. \/ \E w \in Sounds : /\ part' = [part EXCEPT ![g.slot] = w]
                            /\ IF g.live THEN Goto(p, "read") ELSE UNCHANGED run
                            /\ UNCHANGED <<wav, meta, output>>
       \/ Fault("tts") /\ (IF g.live THEN GiveUp(p) ELSE UNCHANGED <<run, diskVars>>)
  <2>1. /\ Silence \in Sounds
        /\ \A b \in BOOLEAN : [says |-> {g.text}, long |-> b] \in Sounds
    BY <1>2 DEF Silence, Sounds
  <2>. QED
    BY <2>1 DEF Generated, p
<1>. QED
  BY <1>12, <1>13, <1>14

LEMMA ReadChunkTyped ==
    ASSUME SegmentTyped, NEW p \in Procs, ReadChunk(p)
    PROVE  SegmentTyped'
<1>. DEFINE r == run[p]
            heard == part[r.slot]
            said == [says |-> r.said.says \cup heard.says, long |-> r.said.long \/ heard.long]
            k == [r EXCEPT !.said = said, !.slot = @ + 1]
            m == [k EXCEPT !.chunk = @ + 1, !.att = 0, !.rec = 0, !.pc = "request"]
            n == Saving(NextCue(SetCache(Finished(k), r.i, FALSE), "combine"))
<1>1. r \in RunType /\ LocalInv(r) /\ r.pc = "read" /\ run \in [Procs -> RunType]
  BY ProcessFacts DEF ReadChunk
<1>2. r.pc \in Speaking
  BY <1>1 DEF Speaking
<1>3. heard \in Sounds
  <2>1. heard # None
    BY <1>1 DEF SegmentTyped, ProcsTyped
  <2>. QED
    BY <1>1, <2>1, ProcessFacts DEF FilesTyped, RunType
<1>4. said \in Sounds
  <2>1. /\ r.said.says \cup heard.says \in SUBSET Speech
        /\ (r.said.long \/ heard.long) \in BOOLEAN
    BY <1>1, <1>3 DEF RunType, Sounds
  <2>. QED
    BY <2>1 DEF Sounds
<1>. HIDE DEF said
<1>5. /\ r.slot + 1 \in PartIndex
      /\ r.slot + 1 <= Room(r.i) + r.chunk
      /\ r.slot + 1 <= Room(r.i) + 2 * MaxChunks
  <2>1. /\ r.chunk \in Nat /\ Chunks[Cue(p)] \in Nat /\ MaxChunks \in Nat
        /\ r.chunk <= Chunks[Cue(p)] /\ Chunks[Cue(p)] <= MaxChunks
        /\ r.slot \in Nat /\ Room(r.i) \in Nat /\ r.slot + 1 <= Room(r.i) + r.chunk
        /\ \A j \in 0..(Room(r.i) + 2 * MaxChunks) : j \in PartIndex
    BY <1>2, SpeakingFacts
  <2>2. r.slot + 1 <= Room(r.i) + 2 * MaxChunks
    BY <2>1
  <2>. QED
    BY <2>1, <2>2
<1>6. /\ k \in RunType /\ k.subs = r.subs /\ k.i = r.i /\ k.chunk = r.chunk /\ k.slot = r.slot + 1
  BY <1>1, <1>4, <1>5 DEF RunType
<1>7. CASE Retry(p)
  <2>1. Moves(p) /\ wav' \in [Index -> Sounds \cup {None}] /\ UNCHANGED <<meta, part, output>>
    BY <1>2, <1>7, RetryMoves
  <2>2. FilesTyped'
    BY <2>1, ProcessFacts DEF FilesTyped, ReadChunk, daemonVars
  <2>. QED
    BY <1>1, <2>1, <2>2, MovesTyped DEF ReadChunk, daemonVars
<1>8. CASE r.chunk < Chunks[Cue(p)] /\ run' = [run EXCEPT ![p] = m] /\ UNCHANGED diskVars
  <2>. HIDE DEF k
  <2>1. /\ m \in RunType /\ m.pc = "request" /\ m.subs = r.subs /\ m.i = r.i
        /\ m.chunk = r.chunk + 1 /\ m.slot = r.slot + 1
    <3>1. "request" \in PCs /\ k.chunk + 1 \in Nat \ {0} /\ 0 \in 0..2
      BY <1>6 DEF PCs, RunType
    <3>. QED
      BY <1>6, <3>1 DEF RunType
  <2>. HIDE DEF m
  <2>2. /\ m.subs # <<>> /\ m.i <= Len(m.subs) /\ m.subs[m.i] \in Speech
        /\ m.chunk <= Chunks[m.subs[m.i]] /\ m.slot + 1 <= Room(m.i) + m.chunk
    <3>1. /\ r.subs # <<>> /\ r.i <= Len(r.subs)
          /\ Cue(p) = r.subs[r.i] /\ Cue(p) \in Speech
          /\ r.chunk \in Nat /\ Chunks[Cue(p)] \in Nat
          /\ r.slot \in Nat /\ Room(r.i) \in Nat /\ r.slot + 1 <= Room(r.i) + r.chunk
      BY <1>2, SpeakingFacts
    <3>2. r.chunk + 1 <= Chunks[Cue(p)] /\ (r.slot + 1) + 1 <= Room(r.i) + (r.chunk + 1)
      BY <1>2, <1>8, SlotFacts
    <3>. QED
      BY <2>1, <3>1, <3>2
  <2>3. LocalInv(m)
    BY <2>1, <2>2 DEF LocalInv, Phase, Speaking
  <2>4. FilesTyped'
    BY <1>8, ProcessFacts DEF FilesTyped, ReadChunk, daemonVars, diskVars
  <2>. QED
    BY <1>1, <1>8, <2>1, <2>3, <2>4, QuietStepTyped DEF ReadChunk, daemonVars, diskVars
<1>9. CASE /\ wav' = [wav EXCEPT ![r.i] = said]
           /\ run' = [run EXCEPT ![p] = n]
           /\ UNCHANGED <<meta, part, output>>
  <2>. HIDE DEF k
  <2>. DEFINE f == Finished(k)
              d == Saving(NextCue(SetCache(f, f.i, FALSE), "combine"))
  <2>1. /\ f \in RunType /\ f.pc = "seg" /\ f.chunk = 1 /\ f.i = r.i /\ f.subs = r.subs
        /\ f.slot = r.slot + 1
    BY <1>6, FinishedFields DEF Same
  <2>. HIDE DEF f
  <2>2. /\ f.subs # <<>> /\ f.i <= Len(f.subs) /\ f.subs[f.i] \in Speech \cup {Symbols}
        /\ f.slot <= Room(f.i) + 2 * MaxChunks
    BY <1>2, <1>5, <2>1, SpeakingFacts
  <2>3. d \in RunType /\ LocalInv(d) /\ d.pc = "trunc"
    BY <2>1, <2>2, SettledTyped
  <2>4. n = d
    BY <2>1 DEF f
  <2>5. FilesTyped'
    <3>1. wav' \in [Index -> Sounds \cup {None}]
      BY <1>4, <1>9, ProcessFacts DEF FilesTyped
    <3>. QED
      BY <1>9, <3>1, ProcessFacts DEF FilesTyped, ReadChunk, daemonVars
  <2>. HIDE DEF n, d
  <2>. QED
    BY <1>1, <1>9, <2>3, <2>4, <2>5, QuietStepTyped DEF ReadChunk, daemonVars
<1>10. \/ Retry(p)
       \/ r.chunk < Chunks[Cue(p)] /\ run' = [run EXCEPT ![p] = m] /\ UNCHANGED diskVars
       \/ /\ wav' = [wav EXCEPT ![r.i] = said]
          /\ run' = [run EXCEPT ![p] = n]
          /\ UNCHANGED <<meta, part, output>>
  BY DEF ReadChunk, said
<1>. QED
  BY <1>7, <1>8, <1>9, <1>10

LEMMA RecoverTyped ==
    ASSUME SegmentTyped, NEW p \in Procs, Recover(p)
    PROVE  SegmentTyped'
<1>. DEFINE r == run[p]
            n == [r EXCEPT !.att = @ + 1, !.rec = @ + 1, !.pc = "request"]
<1>1. r \in RunType /\ LocalInv(r) /\ r.pc = "lost" /\ run \in [Procs -> RunType]
  BY ProcessFacts DEF Recover
<1>2. r.pc \in Speaking
  BY <1>1 DEF Speaking
<1>3. used' \in [Events -> Nat]
  BY ProcessFacts, SpendTyped DEF Recover
<1>4. daemon' \in {"up", "down"}
  BY ProcessFacts DEF Recover, FilesTyped
<1>5. ASSUME UNCHANGED diskVars
      PROVE  FilesTyped'
  BY <1>3, <1>4, <1>5, ProcessFacts DEF FilesTyped, Recover, diskVars
<1>6. CASE Exit(p, 1) /\ UNCHANGED diskVars
  BY <1>1, <1>5, <1>6, ExitTyped DEF Recover, Exit, diskVars
<1>7. CASE r.rec < 2 /\ r.att < 2 /\ run' = [run EXCEPT ![p] = n] /\ UNCHANGED diskVars
  <2>1. n \in RunType
    <3>1. "request" \in PCs /\ r.att + 1 \in 0..2 /\ r.rec + 1 \in 0..2
      BY <1>1, <1>7 DEF PCs, RunType
    <3>. QED
      BY <1>1, <3>1 DEF RunType
  <2>2. n.pc = "request" /\ n.i = r.i /\ n.subs = r.subs /\ n.chunk = r.chunk /\ n.slot = r.slot
    BY <1>1 DEF RunType
  <2>. HIDE DEF n
  <2>3. LocalInv(n)
    BY <1>2, <2>2, SpeakingFacts DEF LocalInv, Phase, Speaking
  <2>. QED
    BY <1>1, <1>5, <1>7, <2>1, <2>2, <2>3, QuietStepTyped DEF Recover, diskVars
<1>8. CASE GiveUp(p) /\ UNCHANGED gens
  <2>1. Moves(p) /\ wav' \in [Index -> Sounds \cup {None}] /\ UNCHANGED <<meta, part, output>>
    BY <1>2, <1>8, GiveUpMoves
  <2>2. FilesTyped'
    BY <1>3, <1>4, <2>1, ProcessFacts DEF FilesTyped, Recover
  <2>. QED
    BY <1>1, <1>8, <2>1, <2>2, MovesTyped
<1>9. \/ Exit(p, 1) /\ UNCHANGED diskVars
      \/ r.rec < 2 /\ r.att < 2 /\ run' = [run EXCEPT ![p] = n] /\ UNCHANGED diskVars
      \/ GiveUp(p) /\ UNCHANGED gens
  <2>1. ASSUME r.att < 2,
               run' = [run EXCEPT ![p].att = @ + 1, ![p].rec = @ + 1, ![p].pc = "request"]
        PROVE  run' = [run EXCEPT ![p] = n]
    BY <1>1, <2>1
  <2>. QED
    BY <2>1 DEF Recover
<1>. QED
  BY <1>6, <1>7, <1>8, <1>9

LEMMA CombineTyped ==
    ASSUME SegmentTyped, NEW p \in Procs, Combine(p)
    PROVE  SegmentTyped'
<1>. DEFINE r == run[p]
            segments == 1..Len(r.subs)
            m == [r EXCEPT !.pc = "write", !.mix = [i \in segments |-> wav[i]]]
<1>1. r \in RunType /\ LocalInv(r) /\ r.pc = "combine" /\ run \in [Procs -> RunType]
  BY ProcessFacts DEF Combine
<1>2. FilesTyped'
  BY ProcessFacts DEF FilesTyped, Combine, diskVars, daemonVars
<1>3. ASSUME NEW c, Exit(p, c)
      PROVE  SegmentTyped'
  BY <1>1, <1>2, <1>3, ExitTyped DEF Combine, Exit, diskVars, daemonVars
<1>4. CASE (\A i \in segments : wav[i] # None) /\ run' = [run EXCEPT ![p] = Saving(m)]
  <2>. DEFINE mix == [i \in segments |-> wav[i]]
  <2>1. mix \in Seq(Sounds)
    <3>1. Len(r.subs) \in Nat /\ \A i \in segments : i \in Index
      BY <1>1, ScriptFacts DEF RunType
    <3>2. \A i \in segments : wav[i] \in Sounds
      BY <1>4, <3>1, ProcessFacts DEF FilesTyped
    <3>. QED
      BY <3>1, <3>2
  <2>. HIDE DEF mix
  <2>2. m = [r EXCEPT !.pc = "write", !.mix = mix]
    BY DEF mix
  <2>3. m \in RunType
    <3>1. "write" \in PCs
      BY DEF PCs
    <3>. QED
      BY <1>1, <2>1, <2>2, <3>1 DEF RunType
  <2>4. m.pc = "write" /\ m.i = r.i /\ m.subs = r.subs /\ m.chunk = r.chunk /\ m.slot = r.slot
    BY <1>1, <2>2 DEF RunType
  <2>. HIDE DEF m
  <2>5. LocalInv(m)
    BY <1>1, <2>4 DEF LocalInv, Phase, Speaking
  <2>6. LocalInv(Saving(m)) /\ Same(Saving(m), m, {}) /\ Saving(m).pc = "trunc"
    BY <2>3, <2>4, <2>5, SavingLocal, SavingFields
  <2>7. Saving(m) \in RunType
    BY <2>6 DEF Same
  <2>. QED
    BY <1>1, <1>2, <1>4, <2>6, <2>7, QuietStepTyped DEF Combine, diskVars, daemonVars
<1>5. \/ Exit(p, 0) \/ Exit(p, 1)
      \/ (\A i \in segments : wav[i] # None) /\ run' = [run EXCEPT ![p] = Saving(m)]
  BY DEF Combine
<1>. QED
  BY <1>3, <1>4, <1>5

LEMMA WriteOutputTyped ==
    ASSUME SegmentTyped, NEW p \in Procs, WriteOutput(p)
    PROVE  SegmentTyped'
<1>1. FilesTyped'
  BY ProcessFacts DEF FilesTyped, WriteOutput, daemonVars
<1>. QED
  BY <1>1, ExitTyped DEF WriteOutput, Exit, daemonVars

LEMMA TerminateTyped ==
    ASSUME SegmentTyped, NEW p \in Procs, Terminate(p)
    PROVE  SegmentTyped'
<1>. DEFINE r == run[p]
            n == [r EXCEPT !.stop = TRUE]
<1>1. r \in RunType /\ LocalInv(r) /\ r.pc # "off" /\ run \in [Procs -> RunType]
  BY ProcessFacts DEF Terminate
<1>2. run' = [run EXCEPT ![p] = n]
  BY <1>1 DEF Terminate
<1>3. /\ n \in RunType /\ n.pc = r.pc /\ n.then = r.then /\ n.i = r.i /\ n.subs = r.subs
      /\ n.chunk = r.chunk /\ n.slot = r.slot
  BY <1>1 DEF RunType
<1>. HIDE DEF n
<1>4. LocalInv(n)
  BY <1>1, <1>3 DEF LocalInv, Phase
<1>5. UNCHANGED <<part, gens>>
  BY DEF Terminate, diskVars, daemonVars
<1>6. FilesTyped'
  <2>1. used' \in [Events -> Nat]
    BY ProcessFacts, SpendTyped DEF Terminate
  <2>. QED
    BY <2>1, ProcessFacts DEF FilesTyped, Terminate, diskVars, daemonVars
<1>7. n.pc = "read" => part'[n.slot] # None
  BY <1>3, <1>5 DEF SegmentTyped, ProcsTyped
<1>8. \A k \in PartIndex : part[k] # None => part'[k] # None
  BY <1>5
<1>9. /\ gens' \subseteq GenType
      /\ \A g \in gens' : g.live /\ g.proc # p => g \in gens
      /\ \A g \in gens' : g.live /\ g.proc = p => n.pc = "wait" /\ g.slot = n.slot
      /\ \A g, h \in gens' : g.live /\ h.live /\ g.proc = p /\ h.proc = p => g = h
  <2>1. gens' = gens
    BY <1>5
  <2>. QED
    BY <1>3, <2>1 DEF SegmentTyped, ProcsTyped, GensInv
<1>. QED
  BY <1>2, <1>3, <1>4, <1>6, <1>7, <1>8, <1>9, ProcStepTyped

\* What a process leaves behind in the daemon is nobody's.
LEMMA ForgetFacts ==
    ASSUME SegmentTyped, NEW p \in Procs
    PROVE  /\ Forget(p) \subseteq GenType
           /\ \A g \in Forget(p) : g.live => g.proc # p /\ g \in gens
<1>1. gens \subseteq GenType
  BY DEF SegmentTyped, ProcsTyped
<1>2. ASSUME NEW g \in gens
      PROVE  LET h == IF g.proc = p THEN [g EXCEPT !.live = FALSE] ELSE g
             IN  h \in GenType /\ (h.live => h.proc # p /\ h = g)
  BY <1>1 DEF GenType
<1>. QED
  BY <1>2 DEF Forget

LEMMA KillTyped ==
    ASSUME SegmentTyped, NEW p \in Procs, Kill(p)
    PROVE  SegmentTyped'
<1>1. FilesTyped'
  <2>1. used' \in [Events -> Nat]
    BY ProcessFacts, SpendTyped DEF Kill
  <2>. QED
    BY <2>1, ProcessFacts DEF FilesTyped, Kill, diskVars
<1>2. run' = [run EXCEPT ![p] = Idle] /\ gens' = Forget(p) /\ part' = part /\ Idle.pc = "off"
  BY DEF Kill, Exit, diskVars, Idle
<1>3. /\ gens' \subseteq GenType
      /\ \A g \in gens' : g.live => g.proc # p /\ g \in gens
  BY <1>2, ForgetFacts
<1>4. \A k \in PartIndex : part[k] # None => part'[k] # None
  BY <1>2
<1>. QED
  BY <1>1, <1>2, <1>3, <1>4, IdleTyped, ProcStepTyped

LEMMA TimeoutTyped ==
    ASSUME SegmentTyped, NEW p \in Procs, Timeout(p)
    PROVE  SegmentTyped'
<1>. DEFINE r == run[p]
            n == [r EXCEPT !.pc = "lost"]
<1>1. r \in RunType /\ LocalInv(r) /\ r.pc = "wait" /\ run \in [Procs -> RunType]
  BY ProcessFacts DEF Timeout
<1>2. r.pc \in Speaking /\ "lost" \in PCs
  BY <1>1 DEF Speaking, PCs
<1>3. Same(n, r, {}) /\ n.pc = "lost" /\ n.i = r.i
  BY <1>1, <1>2, GotoFields
<1>4. run' = [run EXCEPT ![p] = n]
  BY <1>1 DEF Timeout, Goto
<1>. HIDE DEF n
<1>5. LocalInv(n)
  BY <1>2, <1>3, SpeakingFacts DEF LocalInv, Phase, Speaking, Same
<1>6. FilesTyped'
  <2>1. used' \in [Events -> Nat]
    BY ProcessFacts, SpendTyped DEF Timeout
  <2>. QED
    BY <2>1, ProcessFacts DEF FilesTyped, Timeout, diskVars
<1>7. /\ gens' \subseteq GenType
      /\ \A g \in gens' : g.live => g.proc # p /\ g \in gens
  BY ForgetFacts DEF Timeout
<1>8. \A k \in PartIndex : part[k] # None => part'[k] # None
  BY DEF Timeout, diskVars
<1>9. n \in RunType
  BY <1>3 DEF Same
<1>. QED
  BY <1>3, <1>4, <1>5, <1>6, <1>7, <1>8, <1>9, ProcStepTyped

LEMMA DaemonDiesTyped ==
    ASSUME SegmentTyped, DaemonDies
    PROVE  SegmentTyped'
<1>1. FilesTyped'
  <2>1. used' \in [Events -> Nat]
    BY SpendTyped DEF DaemonDies, SegmentTyped, FilesTyped
  <2>. QED
    BY <2>1 DEF FilesTyped, DaemonDies, diskVars, SegmentTyped
<1>2. ASSUME NEW p \in Procs
      PROVE  /\ run'[p] \in RunType /\ LocalInv(run'[p])
             /\ run'[p].pc = "read" => part'[run'[p].slot] # None
  <2>. DEFINE r == run[p]
              n == [r EXCEPT !.pc = "lost"]
  <2>1. r \in RunType /\ LocalInv(r) /\ (r.pc = "read" => part[r.slot] # None)
    BY ProcessFacts DEF SegmentTyped, ProcsTyped
  <2>2. run'[p] = IF r.pc = "wait" THEN n ELSE r
    BY DEF DaemonDies
  <2>3. CASE r.pc = "wait"
    <3>1. r.pc \in Speaking /\ "lost" \in PCs
      BY <2>3 DEF Speaking, PCs
    <3>2. Same(n, r, {}) /\ n.pc = "lost" /\ n.i = r.i
      BY <2>1, <3>1, GotoFields
    <3>. HIDE DEF n
    <3>3. LocalInv(n)
      BY <3>1, <3>2, SpeakingFacts DEF LocalInv, Phase, Speaking, Same
    <3>. QED
      BY <2>2, <2>3, <3>2, <3>3 DEF Same
  <2>4. CASE r.pc # "wait"
    BY <2>1, <2>2, <2>4 DEF DaemonDies, diskVars
  <2>. QED
    BY <2>3, <2>4
<1>3. run' \in [Procs -> RunType] /\ gens' = {}
  BY <1>2 DEF DaemonDies
<1>. QED
  BY <1>1, <1>2, <1>3 DEF SegmentTyped, ProcsTyped, GensInv

-----------------------------------------------------------------------------
(* Type correctness                                                        *)

LEMMA SegmentInitTyped == Init => SegmentTyped
<1>. SUFFICES ASSUME Init PROVE SegmentTyped
  OBVIOUS
<1>1. FilesTyped
  BY DEF Init, FilesTyped, EmptyCache, Caches
<1>2. ProcsTyped /\ GensInv
  <2>1. Idle.pc = "off"
    BY DEF Idle
  <2>. QED
    BY <2>1, IdleTyped DEF Init, ProcsTyped, GensInv
<1>. QED
  BY <1>1, <1>2 DEF SegmentTyped

LEMMA SegmentNextTyped == SegmentTyped /\ [Next]_vars => SegmentTyped'
<1>. SUFFICES ASSUME SegmentTyped, [Next]_vars PROVE SegmentTyped'
  OBVIOUS
<1>1. ASSUME NEW p \in Procs, ProcStep(p)
      PROVE  SegmentTyped'
  BY <1>1, AttachTyped, LoadTyped, MigrateBlankTyped, MigrateNewTyped, MigrateKnownTyped,
     MigrateStaleTyped, SaveOpenTyped, SaveDumpTyped, CountOneTyped, EnsureModelTyped,
     SegmentBlankTyped, SegmentSymbolsTyped, SegmentCachedTyped, SegmentMissingTyped,
     RequestTyped, ReadChunkTyped, RecoverTyped, CombineTyped, WriteOutputTyped DEF ProcStep
<1>2. CASE UNCHANGED vars
  BY <1>2 DEF vars, SegmentTyped, FilesTyped, ProcsTyped, GensInv
<1>. QED
  BY <1>1, <1>2, StartTyped, TerminateTyped, KillTyped, TimeoutTyped, GeneratedTyped,
     DaemonDiesTyped DEF Next

LEMMA TypedTypeOK == SegmentTyped => TypeOK
<1>. SUFFICES ASSUME SegmentTyped PROVE TypeOK
  OBVIOUS
<1>1. \A p \in Procs :
          /\ run[p].pc \in PCs /\ run[p].subs \in Scripts \cup {<<>>}
          /\ run[p].cache \in Caches /\ run[p].i \in Index /\ run[p].slot \in PartIndex
          /\ run[p].att \in 0..2 /\ run[p].rec \in 0..2
  BY DEF SegmentTyped, ProcsTyped, RunType
<1>. QED
  BY <1>1 DEF SegmentTyped, FilesTyped, ProcsTyped, GenType, TypeOK

\* The files, the cache and the processes' variables stay in their sets: no
\* cue's number leaves its SRT file, no chunk's number the range that the
\* counting of a segment given up allows for (gen_audio.py:885), and three
\* attempts and two recoveries are all there are.
THEOREM SegmentTypeCorrect == Spec => []TypeOK
<1>1. Spec => []SegmentTyped
  BY SegmentInitTyped, SegmentNextTyped, PTL DEF Spec
<1>. QED
  BY <1>1, TypedTypeOK, PTL

-----------------------------------------------------------------------------
(* The cache while no process is killed and no generation left behind      *)

\* The texts of the cues differ, and no text is under two numbers.
TextsStayInPlace ==
    \A s, t \in Scripts : \A i \in 1..Len(s), j \in 1..Len(t) :
        s[i] = t[j] /\ s[i] # Empty => i = j

Audible(i) == wav[i] # None /\ wav[i].says # {}

\* c names the text of every audible segment file.
Agree(c) ==
    \A i \in Index : Audible(i) =>
        c[i] # None /\ wav[i].says = {c[i].content} /\ ~c[i].fallback

\* c's entries are for the cues of s.
Fits(c, s) == \A i \in Index : c[i] # None => i <= Len(s) /\ c[i].content = s[i]

\* c's entries are for cues of SRT files.
Origin(c) == \A i \in Index : c[i] # None => \E s \in Scripts : i <= Len(s) /\ c[i].content = s[i]

\* What a sound may be for cue i of s.
Right(w, i, s, failed) ==
    IF s[i] \in Speech
    THEN w # None /\ (w.says = {s[i]} \/ (w.says = {} /\ i \in failed))
    ELSE w # None => w.says = {}

\* The cues whose segments are as they have to be.
Settled(r) ==
    IF Phase(r) \in {"combine", "write"} THEN 1..Len(r.subs)
    ELSE IF Phase(r) \in {"seg"} \cup Speaking \/ (Phase(r) = "count" /\ ~r.miss)
         THEN 1..(r.i - 1)
         ELSE {}

Early == {"off", "attach", "load"}
Migrating == {"migrate", "stale"}

\* The entries that _migrate_cache has come to, and the files with them.
Migrated(r) ==
    /\ meta = r.was
    /\ \A j \in Index :
          /\ j \in r.left => r.was[j] # None
          /\ r.cache[j] = r.was[j] \/ (r.cache[j] = None /\ wav[j] = None)
          /\ r.cache[j] # None => j \in r.left \/ (j <= Len(r.subs) /\ r.cache[j].content = r.subs[j])
          /\ r.pc = "migrate" /\ j >= r.i =>
                r.cache[j] = r.was[j] /\ (r.was[j] # None => j \in r.left)

CacheInv(r) ==
    /\ r.pc \notin {"trunc", "dump"} => meta # None /\ Agree(meta)
    /\ r.pc \in Migrating => Migrated(r)
    /\ Phase(r) \notin Early \cup Migrating => Agree(r.cache) /\ Fits(r.cache, r.subs)
    /\ Origin(r.cache) /\ Origin(r.was)
    /\ meta # None => Origin(meta)

VoiceInv(r) ==
    /\ r.pc \in Speaking => r.said.says \subseteq {r.subs[r.i]}
    /\ r.pc = "read" => part[r.slot].says \subseteq {r.subs[r.i]}
    /\ \A g \in gens : g.live /\ g.text = r.subs[r.i]

SettledInv(r) ==
    /\ \A j \in Settled(r) : Right(wav[j], j, r.subs, r.failed)
    /\ Phase(r) = "write" =>
          Len(r.mix) = Len(r.subs) /\ \A j \in 1..Len(r.subs) : Right(r.mix[j], j, r.subs, r.failed)

CleanInv == \A p \in Procs : CacheInv(run[p]) /\ VoiceInv(run[p]) /\ SettledInv(run[p])
Clean == used["abandon"] = 0 => CleanInv /\ OutputSpeaks

\* A process that is done with cue r.i, in phase `from', goes on to the next one
\* or to phase q.
Advanced(n, r, from, q) ==
    /\ n.subs = r.subs
    /\ r.i < Len(r.subs) => n.i = r.i + 1 /\ Phase(n) = from
    /\ ~(r.i < Len(r.subs)) => n.i = 1 /\ Phase(n) = q

LEMMA NextCueAdvances ==
    ASSUME NEW r \in RunType, r.i <= Len(r.subs), NEW q \in PCs \ {"trunc", "dump"},
           r.pc \notin {"trunc", "dump"}
    PROVE  LET n == NextCue(r, q)
           IN  Advanced(n, r, r.pc, q) /\ Same(n, r, {}) /\ n.pc \in {r.pc, q}
<1>. DEFINE n == NextCue(r, q)
<1>1. /\ Same(n, r, {})
      /\ r.i < Len(r.subs) => n.i = r.i + 1 /\ n.pc = r.pc
      /\ ~(r.i < Len(r.subs)) => n.i = 1 /\ n.pc = q
  BY NextCueFields
<1>. SUFFICES Advanced(n, r, r.pc, q) /\ Same(n, r, {}) /\ n.pc \in {r.pc, q}
  OBVIOUS
<1>. HIDE DEF n
<1>. QED
  BY <1>1 DEF Advanced, Phase, Same

LEMMA SettledAdvances ==
    ASSUME NEW r \in RunType, NEW flag \in BOOLEAN, NEW q \in PCs \ {"trunc", "dump"},
           r.pc \notin {"trunc", "dump"},
           r.i <= Len(r.subs), r.subs[r.i] \in Speech \cup {Symbols}
    PROVE  LET n == Saving(NextCue(SetCache(r, r.i, flag), q))
           IN  /\ Advanced(n, r, r.pc, q) /\ Same(n, r, {"cache"}) /\ n.pc = "trunc"
               /\ n.cache = [r.cache EXCEPT ![r.i] = [content |-> r.subs[r.i], fallback |-> flag]]
<1>. DEFINE m == SetCache(r, r.i, flag)
            k == NextCue(m, q)
            n == Saving(k)
            c == [r.cache EXCEPT ![r.i] = [content |-> r.subs[r.i], fallback |-> flag]]
<1>1. Same(m, r, {"cache"}) /\ m.i = r.i /\ m.pc = r.pc /\ m.cache = c
  BY SetCacheFields
<1>2. m \in RunType /\ m.subs = r.subs
  BY <1>1 DEF Same
<1>. HIDE DEF m, c
<1>3. Advanced(k, m, m.pc, q) /\ Same(k, m, {}) /\ k.pc \in {m.pc, q}
  BY <1>1, <1>2, NextCueAdvances
<1>. HIDE DEF k
<1>4. k \in RunType
  BY <1>3 DEF Same
<1>5. Same(n, k, {}) /\ n.then = k.pc /\ n.pc = "trunc" /\ n.i = k.i
  BY <1>4, SavingFields
<1>. HIDE DEF n
<1>6. Phase(n) = Phase(k) /\ n.subs = k.subs /\ n.cache = c
  BY <1>1, <1>3, <1>5 DEF Phase, Same
<1>7. Advanced(n, r, r.pc, q)
  BY <1>1, <1>2, <1>3, <1>5, <1>6 DEF Advanced
<1>8. Same(n, r, {"cache"})
  BY <1>1, <1>3, <1>5 DEF Same
<1>. QED
  BY <1>5, <1>6, <1>7, <1>8 DEF n, k, m, c

\* A segment that is given up.
LEMMA GiveUpAdvances ==
    ASSUME SegmentTyped, NEW p \in Procs, run[p].pc \in Speaking, GiveUp(p)
    PROVE  \E n \in RunType :
              /\ run' = [run EXCEPT ![p] = n]
              /\ Advanced(n, run[p], "seg", "combine") /\ n.pc = "trunc"
              /\ n.was = run[p].was /\ n.left = run[p].left /\ n.miss = run[p].miss
              /\ n.stop = run[p].stop /\ n.mix = run[p].mix
              /\ n.failed = run[p].failed \cup {run[p].i}
              /\ n.cache = [run[p].cache EXCEPT ![run[p].i] =
                              [content |-> run[p].subs[run[p].i], fallback |-> TRUE]]
<1>. DEFINE r == run[p]
            f == Finished(r)
            m == [f EXCEPT !.failed = f.failed \cup {r.i}, !.slot = f.slot + Chunks[Cue(p)]]
            n == Saving(NextCue(SetCache(m, r.i, TRUE), "combine"))
            k == Saving(NextCue(SetCache(m, m.i, TRUE), "combine"))
<1>1. r \in RunType /\ "combine" \in PCs \ {"trunc", "dump"}
  BY ProcessFacts DEF PCs
<1>2. run' = [run EXCEPT ![p] = n]
  BY DEF GiveUp
<1>3. Same(f, r, {"tries"}) /\ f.pc = "seg" /\ f.i = r.i
  BY <1>1, FinishedFields
<1>4. /\ f \in RunType /\ f.subs = r.subs /\ f.slot = r.slot /\ f.failed = r.failed
      /\ f.cache = r.cache /\ f.was = r.was /\ f.left = r.left /\ f.miss = r.miss
      /\ f.stop = r.stop /\ f.mix = r.mix
  BY <1>3 DEF Same
<1>. HIDE DEF f
<1>5. r.slot + Chunks[Cue(p)] \in PartIndex
  BY SlotFacts
<1>6. /\ m \in RunType /\ m.pc = "seg" /\ m.i = r.i /\ m.subs = r.subs
      /\ m.cache = r.cache /\ m.was = r.was /\ m.left = r.left /\ m.miss = r.miss
      /\ m.stop = r.stop /\ m.mix = r.mix /\ m.failed = r.failed \cup {r.i}
  <2>1. f.failed \cup {r.i} \in SUBSET Index
    BY <1>1, <1>4 DEF RunType
  <2>. QED
    BY <1>3, <1>4, <1>5, <2>1 DEF RunType
<1>. HIDE DEF m
<1>7. n = k
  BY <1>6
<1>8. m.i <= Len(m.subs) /\ m.subs[m.i] \in Speech \cup {Symbols}
  BY <1>6, SpeakingFacts
<1>9. /\ Advanced(k, m, m.pc, "combine") /\ Same(k, m, {"cache"}) /\ k.pc = "trunc"
      /\ k.cache = [m.cache EXCEPT ![m.i] = [content |-> m.subs[m.i], fallback |-> TRUE]]
  BY <1>1, <1>6, <1>8, SettledAdvances
<1>. HIDE DEF n, k
<1>10. Advanced(n, r, "seg", "combine")
  BY <1>6, <1>7, <1>9 DEF Advanced
<1>11. /\ n \in RunType /\ n.pc = "trunc"
       /\ n.was = r.was /\ n.left = r.left /\ n.miss = r.miss
       /\ n.stop = r.stop /\ n.mix = r.mix
       /\ n.failed = r.failed \cup {r.i}
  BY <1>6, <1>7, <1>9 DEF Same
<1>12. n.cache = [r.cache EXCEPT ![r.i] = [content |-> r.subs[r.i], fallback |-> TRUE]]
  BY <1>6, <1>7, <1>9
<1>. QED
  BY <1>2, <1>10, <1>11, <1>12

\* Nothing is left in the daemon but what its client waits for.
LEMMA CleanGens ==
    ASSUME SegmentTyped, CleanInv, NEW P, Procs = {P}
    PROVE  /\ run[P].pc # "wait" => gens = {}
           /\ \A g \in gens : gens = {g} /\ g.proc = P /\ g.live
                            /\ g.slot = run[P].slot /\ g.text = run[P].subs[run[P].i]
<1>1. P \in Procs /\ gens \subseteq GenType
  BY DEF SegmentTyped, ProcsTyped
<1>2. \A g \in gens : g.proc = P
  BY <1>1 DEF GenType
<1>3. \A g \in gens : g.live /\ g.text = run[P].subs[run[P].i]
  BY <1>1 DEF CleanInv, VoiceInv
<1>4. \A g \in gens : run[P].pc = "wait" /\ g.slot = run[P].slot
  BY <1>2, <1>3 DEF SegmentTyped, GensInv
<1>5. \A g, h \in gens : g = h
  BY <1>2, <1>3 DEF SegmentTyped, GensInv
<1>. QED
  BY <1>2, <1>3, <1>4, <1>5

\* Process P settles its cue and goes on as n: w is the cue's segment now, e its
\* entry.
SettlesAs(P, r, n, w, e) ==
    /\ r \in RunType /\ r = run[P] /\ r.pc \in {"seg"} \cup Speaking
    /\ n \in RunType /\ run' = [run EXCEPT ![P] = n]
    /\ Advanced(n, r, "seg", "combine") /\ n.was = r.was /\ r.failed \subseteq n.failed
    /\ wav' = [wav EXCEPT ![r.i] = w]
    /\ e \in Entries \cup {None} /\ n.cache = [r.cache EXCEPT ![r.i] = e]
    /\ e # None => e.content = r.subs[r.i]
    /\ w # None /\ w.says # {} => e # None /\ w.says = {e.content} /\ ~e.fallback
    /\ Right(w, r.i, r.subs, n.failed)
    /\ n.pc \in {"trunc", "seg", "combine"}
    /\ n.pc # "trunc" => w = wav[r.i] \/ w.says = {}
    /\ meta' = meta /\ gens' = {}

LEMMA CleanSettles ==
    ASSUME SegmentTyped, CleanInv, NEW P, Procs = {P}, NEW r, NEW n, NEW w, NEW e,
           SettlesAs(P, r, n, w, e)
    PROVE  CleanInv'
<1>. USE DEF SettlesAs
<1>1. P \in Procs /\ run'[P] = n /\ run[P].pc \in {"migrate", "count", "seg"} \cup Speaking
  BY DEF SegmentTyped, ProcsTyped
<1>2. /\ r.subs # <<>> /\ r.i <= Len(r.subs) /\ r.i \in 1..Len(r.subs) /\ r.i \in Index
      /\ n.subs = r.subs /\ r.subs \in Scripts /\ Len(r.subs) \in Nat
      /\ \A j \in 1..Len(r.subs) : j \in Index
  BY <1>1, CueFacts, ScriptFacts DEF Advanced, RunType
<1>3. Phase(r) = r.pc /\ Phase(n) \in {"seg", "combine"}
  <2>1. r.pc \notin {"trunc", "dump"}
    BY DEF Speaking
  <2>. QED
    BY <2>1 DEF Advanced, Phase
<1>4. /\ meta # None /\ Agree(meta) /\ Agree(r.cache) /\ Fits(r.cache, r.subs)
      /\ Origin(r.cache) /\ Origin(r.was) /\ Origin(meta)
  <2>1. CacheInv(r)
    BY <1>1 DEF CleanInv
  <2>2. r.pc \notin {"trunc", "dump"} \cup Early \cup Migrating
    BY DEF Speaking, Early, Migrating
  <2>. QED
    BY <1>3, <2>1, <2>2 DEF CacheInv
<1>5. wav \in [Index -> Sounds \cup {None}] /\ r.cache \in [Index -> Entries \cup {None}]
  BY ProcessFacts, <1>1 DEF FilesTyped, RunType, Caches
<1>6. /\ wav'[r.i] = w /\ n.cache[r.i] = e
      /\ \A j \in Index : j # r.i => wav'[j] = wav[j] /\ n.cache[j] = r.cache[j]
  BY <1>2, <1>5
<1>7. CacheInv(n)'
  <2>1. n.pc # "trunc" => meta' # None /\ Agree(meta)'
    BY <1>2, <1>4, <1>5, <1>6 DEF Agree, Audible
  <2>2. Agree(n.cache)'
    BY <1>2, <1>4, <1>6 DEF Agree, Audible
  <2>3. Fits(n.cache, n.subs)
    BY <1>2, <1>4, <1>6 DEF Fits
  <2>4. Origin(n.cache)
    BY <1>2, <1>4, <1>6 DEF Origin
  <2>5. n.pc \notin Migrating \cup {"dump"}
    BY DEF Migrating
  <2>. QED
    BY <1>4, <2>1, <2>2, <2>3, <2>4, <2>5 DEF CacheInv
<1>8. VoiceInv(n)'
  BY DEF VoiceInv, Speaking
<1>9. SettledInv(n)'
  <2>1. SettledInv(r)
    BY <1>1 DEF CleanInv
  <2>2. Settled(r) = 1..(r.i - 1)
    BY <1>3 DEF Settled, Speaking
  <2>3. \A j \in Settled(n) : j \in 1..Len(r.subs) /\ (j = r.i \/ j \in Settled(r))
    <3>1. CASE r.i < Len(r.subs)
      <4>1. Settled(n) = 1..((r.i + 1) - 1)
        BY <3>1 DEF Settled, Advanced
      <4>. QED
        BY <1>2, <2>2, <3>1, <4>1
    <3>2. CASE ~(r.i < Len(r.subs))
      <4>1. Settled(n) = 1..Len(r.subs)
        BY <3>2 DEF Settled, Advanced
      <4>. QED
        BY <1>2, <2>2, <3>2, <4>1
    <3>. QED
      BY <3>1, <3>2
  <2>4. ASSUME NEW j \in Settled(n)
        PROVE  Right(wav'[j], j, n.subs, n.failed)
    <3>1. CASE j = r.i
      BY <1>2, <1>6, <3>1
    <3>2. CASE j # r.i
      <4>1. wav'[j] = wav[j] /\ Right(wav[j], j, r.subs, r.failed)
        BY <1>2, <1>6, <2>1, <2>3, <3>2 DEF SettledInv
      <4>. QED
        BY <1>2, <4>1 DEF Right
    <3>. QED
      BY <3>1, <3>2
  <2>. QED
    BY <1>3, <2>4 DEF SettledInv
<1>. QED
  BY <1>1, <1>7, <1>8, <1>9 DEF CleanInv

\* What a process knows while nothing is killed or left behind.
LEMMA CleanFacts ==
    ASSUME SegmentTyped, CleanInv, NEW P, Procs = {P}
    PROVE  /\ P \in Procs /\ run[P] \in RunType /\ LocalInv(run[P]) /\ run \in [Procs -> RunType]
           /\ CacheInv(run[P]) /\ VoiceInv(run[P]) /\ SettledInv(run[P])
           /\ wav \in [Index -> Sounds \cup {None}] /\ meta \in Caches \cup {None}
           /\ run[P].cache \in [Index -> Entries \cup {None}]
           /\ run[P].was \in [Index -> Entries \cup {None}]
<1>1. P \in Procs
  OBVIOUS
<1>2. run[P] \in RunType /\ LocalInv(run[P]) /\ run \in [Procs -> RunType]
  BY <1>1, ProcessFacts
<1>. QED
  BY <1>1, <1>2, ProcessFacts DEF CleanInv, FilesTyped, RunType, Caches

\* A process that ends, with cache_meta.json as the files are.
LEMMA CleanExits ==
    ASSUME SegmentTyped, CleanInv, NEW P, Procs = {P},
           run[P].pc \notin {"trunc", "dump", "wait"},
           run' = [run EXCEPT ![P] = Idle], UNCHANGED <<wav, meta, gens>>
    PROVE  CleanInv'
<1>1. P \in Procs /\ run'[P] = Idle /\ CacheInv(run[P])
  BY CleanFacts
<1>2. meta # None /\ Agree(meta) /\ Origin(meta)
  BY <1>1 DEF CacheInv
<1>3. gens' = {}
  BY CleanGens
<1>4. /\ Idle.pc = "off" /\ Phase(Idle) = "off" /\ Idle.cache = EmptyCache
      /\ Idle.was = EmptyCache
  BY DEF Idle, Phase
<1>5. Origin(EmptyCache)
  BY DEF Origin, EmptyCache
<1>6. CacheInv(Idle)'
  BY <1>2, <1>4, <1>5 DEF CacheInv, Agree, Audible, Early, Migrating
<1>7. VoiceInv(Idle)' /\ SettledInv(Idle)'
  BY <1>3, <1>4 DEF VoiceInv, Speaking, SettledInv, Settled
<1>. QED
  BY <1>1, <1>6, <1>7 DEF CleanInv

\* A process that goes on to another place, with its variables and the files as
\* they are; what it has said and how often it has tried may change.
LEMMA CleanGoes ==
    ASSUME SegmentTyped, CleanInv, NEW P, Procs = {P},
           NEW r \in RunType, r = run[P], NEW n \in RunType, run' = [run EXCEPT ![P] = n],
           n.subs = r.subs, n.cache = r.cache, n.was = r.was, n.left = r.left,
           n.failed = r.failed, n.mix = r.mix, n.i = r.i, n.miss = r.miss,
           \/ n.pc = r.pc /\ n.then = r.then
           \/ /\ r.pc \in {"seg"} \cup Speaking /\ n.pc \in {"seg"} \cup Speaking
           \/ /\ r.pc = "model" /\ n.pc = "seg" /\ n.i = 1
           \/ /\ r.pc = "attach" /\ n.pc = "load",
           UNCHANGED <<wav, meta>>, VoiceInv(n)'
    PROVE  CleanInv'
<1>1. P \in Procs /\ run'[P] = n /\ CacheInv(r) /\ SettledInv(r)
  BY CleanFacts
<1>2. CacheInv(n)'
  <2>1. \A c : Agree(c)' = Agree(c)
    BY DEF Agree, Audible
  <2>2. CASE n.pc = r.pc /\ n.then = r.then
    <3>1. Phase(n) = Phase(r)
      BY <2>2 DEF Phase
    <3>2. Migrated(r) => Migrated(n)'
      BY <2>2 DEF Migrated
    <3>. QED
      BY <1>1, <2>1, <2>2, <3>1, <3>2 DEF CacheInv
  <2>3. CASE ~(n.pc = r.pc /\ n.then = r.then)
    <3>1. /\ r.pc \notin {"trunc", "dump"} \cup Migrating /\ n.pc \notin {"trunc", "dump"} \cup Migrating
          /\ Phase(r) = r.pc /\ Phase(n) = n.pc
          /\ r.pc \in Early => n.pc \in Early
      BY <2>3 DEF Phase, Speaking, Migrating, Early
    <3>. QED
      BY <1>1, <2>1, <3>1 DEF CacheInv
  <2>. QED
    BY <2>2, <2>3
<1>3. SettledInv(n)'
  <2>1. CASE n.pc = r.pc /\ n.then = r.then
    <3>1. Phase(n) = Phase(r)
      BY <2>1 DEF Phase
    <3>. QED
      BY <1>1, <3>1 DEF SettledInv, Settled
  <2>2. CASE r.pc \in {"seg"} \cup Speaking /\ n.pc \in {"seg"} \cup Speaking
    <3>1. Phase(n) = n.pc /\ Phase(r) = r.pc /\ n.pc \notin {"combine", "write"}
      BY <2>2 DEF Phase, Speaking
    <3>2. Settled(n) = Settled(r)
      BY <2>2, <3>1 DEF Settled, Speaking
    <3>. QED
      BY <1>1, <3>1, <3>2 DEF SettledInv
  <2>3. CASE (r.pc = "model" /\ n.pc = "seg" /\ n.i = 1) \/ (r.pc = "attach" /\ n.pc = "load")
    <3>1. Phase(n) = n.pc /\ n.pc \in {"seg", "load"}
      BY <2>3 DEF Phase
    <3>2. Settled(n) = {}
      <4>1. CASE n.pc = "seg"
        <5>1. n.i = 1
          BY <2>3, <4>1
        <5>2. Settled(n) = 1..(1 - 1)
          BY <3>1, <4>1, <5>1 DEF Settled
        <5>. QED
          BY <5>2
      <4>2. CASE n.pc = "load"
        BY <3>1, <4>2 DEF Settled, Speaking
      <4>. QED
        BY <3>1, <4>1, <4>2
    <3>. QED
      BY <3>1, <3>2 DEF SettledInv
  <2>. QED
    BY <2>1, <2>2, <2>3
<1>. QED
  BY <1>1, <1>2, <1>3 DEF CleanInv

LEMMA StartClean ==
    ASSUME SegmentTyped, CleanInv, NEW P, Procs = {P}, Start(P)
    PROVE  CleanInv'
<1>. DEFINE r == run[P]
<1>1. PICK s \in Scripts : run' = [run EXCEPT ![P].pc = "attach", ![P].subs = s]
  BY DEF Start
<1>. PICK n : n = [r EXCEPT !.pc = "attach", !.subs = s]
  OBVIOUS
<1>2. r \in RunType /\ r.pc = "off" /\ P \in Procs /\ CacheInv(r) /\ run \in [Procs -> RunType]
  BY CleanFacts DEF Start
<1>3. run'[P] = n
  BY <1>1, <1>2
<1>4. n.pc = "attach" /\ n.cache = r.cache /\ n.was = r.was
  BY <1>2 DEF RunType
<1>5. UNCHANGED <<wav, meta, gens>> /\ gens = {}
  BY <1>2, CleanGens DEF Start, diskVars, daemonVars
<1>6. Phase(n) = "attach"
  BY <1>4 DEF Phase
<1>7. CacheInv(n)'
  BY <1>2, <1>4, <1>5, <1>6 DEF CacheInv, Agree, Audible, Early, Migrating
<1>8. VoiceInv(n)' /\ SettledInv(n)'
  BY <1>4, <1>5, <1>6 DEF VoiceInv, SettledInv, Settled, Speaking
<1>. QED
  BY <1>3, <1>7, <1>8 DEF CleanInv

LEMMA AttachClean ==
    ASSUME SegmentTyped, CleanInv, NEW P, Procs = {P}, Attach(P)
    PROVE  CleanInv'
<1>. PICK n : n = [run[P] EXCEPT !.pc = "load"]
  OBVIOUS
<1>1. run[P] \in RunType /\ run[P].pc = "attach" /\ run \in [Procs -> RunType] /\ P \in Procs
  BY CleanFacts DEF Attach
<1>2. UNCHANGED <<wav, meta, gens>> /\ gens = {}
  BY <1>1, CleanGens DEF Attach, diskVars
<1>3. CASE Goto(P, "load")
  <2>1. run' = [run EXCEPT ![P] = n]
    BY <1>1, <1>3 DEF Goto
  <2>2. /\ n \in RunType /\ n.subs = run[P].subs /\ n.cache = run[P].cache /\ n.was = run[P].was
        /\ n.left = run[P].left /\ n.failed = run[P].failed /\ n.mix = run[P].mix
        /\ n.i = run[P].i /\ n.miss = run[P].miss /\ n.pc = "load"
    <3>1. "load" \in PCs
      BY DEF PCs
    <3>. QED
      BY <1>1, <3>1, GotoFields DEF Same
  <2>3. VoiceInv(n)'
    BY <1>2, <2>2 DEF VoiceInv, Speaking
  <2>. QED
    BY <1>1, <1>2, <2>1, <2>2, <2>3, CleanGoes
<1>4. CASE Exit(P, 0)
  BY <1>1, <1>2, <1>4, CleanExits DEF Exit
<1>. QED
  BY <1>3, <1>4 DEF Attach

LEMMA LoadClean ==
    ASSUME SegmentTyped, CleanInv, NEW P, Procs = {P}, Load(P)
    PROVE  CleanInv'
<1>. DEFINE r == run[P]
            c == IF meta = None THEN EmptyCache ELSE meta
            entries == {i \in Index : c[i] # None}
<1>. PICK n : n = [r EXCEPT !.pc = IF entries = {} THEN "count" ELSE "migrate",
                            !.cache = c, !.was = c, !.left = entries]
  OBVIOUS
<1>1. /\ r \in RunType /\ LocalInv(r) /\ r.pc = "load" /\ run \in [Procs -> RunType]
      /\ P \in Procs /\ CacheInv(r)
  BY CleanFacts DEF Load
<1>2. UNCHANGED <<wav, meta, gens>> /\ gens = {}
  BY <1>1, CleanGens DEF Load, diskVars, daemonVars
<1>3. CASE r.subs = <<>>
  BY <1>1, <1>2, <1>3, CleanExits DEF Load, Exit
<1>4. CASE r.subs # <<>>
  <2>1. meta # None /\ Agree(meta) /\ Origin(meta)
    BY <1>1 DEF CacheInv
  <2>2. c = meta /\ \A j \in Index : j \in entries <=> c[j] # None
    BY <2>1
  <2>3. run'[P] = n
    BY <1>1, <1>4 DEF Load
  <2>. HIDE DEF c, entries
  <2>4. /\ n.pc = IF entries = {} THEN "count" ELSE "migrate"
        /\ n.cache = c /\ n.was = c /\ n.left = entries /\ n.subs = r.subs /\ n.i = r.i
    BY <1>1 DEF RunType
  <2>5. n.i = 1
    BY <1>1, <2>4 DEF LocalInv, Phase
  <2>6. Phase(n) = n.pc /\ n.pc \in {"count", "migrate"}
    BY <2>4 DEF Phase
  <2>7. n.pc = "count" => \A j \in Index : c[j] = None
    BY <2>2, <2>4
  <2>8. n.pc = "migrate" => Migrated(n)'
    BY <1>2, <2>2, <2>4 DEF Migrated
  <2>9. CacheInv(n)'
    <3>1. Agree(n.cache)' /\ Agree(meta)'
      BY <1>2, <2>1, <2>2, <2>4 DEF Agree, Audible
    <3>2. n.pc = "count" => Fits(n.cache, n.subs)
      BY <2>4, <2>7 DEF Fits
    <3>. QED
      BY <1>2, <2>1, <2>2, <2>4, <2>6, <2>8, <3>1, <3>2 DEF CacheInv, Early, Migrating
  <2>10. VoiceInv(n)' /\ SettledInv(n)'
    <3>1. Settled(n) = {}
      <4>1. 1..(1 - 1) = {}
        OBVIOUS
      <4>. QED
        BY <2>5, <2>6, <4>1 DEF Settled, Speaking
    <3>. QED
      BY <1>2, <2>6, <3>1 DEF VoiceInv, SettledInv, Speaking
  <2>. QED
    BY <2>3, <2>9, <2>10 DEF CleanInv
<1>. QED
  BY <1>3, <1>4

\* _migrate_cache has come to cue r.i.
LEMMA MigrateFacts ==
    ASSUME SegmentTyped, CleanInv, NEW P, Procs = {P}, run[P].pc = "migrate"
    PROVE  /\ gens = {} /\ Phase(run[P]) = "migrate"
           /\ meta # None /\ Agree(meta) /\ Migrated(run[P])
           /\ Origin(run[P].cache) /\ Origin(run[P].was) /\ Origin(meta)
           /\ run[P].i \in Index /\ run[P].i \in 1..Len(run[P].subs) /\ run[P].subs \in Scripts
           /\ Len(run[P].subs) \in Nat
           /\ Cue(P) = run[P].subs[run[P].i]
<1>1. P \in Procs /\ run[P] \in RunType /\ CacheInv(run[P])
  BY CleanFacts
<1>2. gens = {}
  BY CleanGens
<1>3. Phase(run[P]) = "migrate"
  BY DEF Phase
<1>4. /\ run[P].i \in Index /\ run[P].i \in 1..Len(run[P].subs) /\ run[P].subs # <<>>
      /\ Cue(P) = run[P].subs[run[P].i]
  BY <1>1, CueFacts
<1>5. run[P].subs \in Scripts /\ Len(run[P].subs) \in Nat
  BY <1>1, <1>4, ScriptFacts DEF RunType
<1>. QED
  BY <1>1, <1>2, <1>3, <1>4, <1>5 DEF CacheInv, Migrating

\* The step to the next cue: n's entry for cue r.i is what _migrate_cache makes
\* of it, and the other cues' entries and files are what they were.
LEMMA MigrateAdvances ==
    ASSUME SegmentTyped, CleanInv, NEW P, Procs = {P},
           NEW r \in RunType, r = run[P], r.pc = "migrate",
           NEW n \in RunType, run' = [run EXCEPT ![P] = n],
           Advanced(n, r, "migrate", "stale"), n.pc \in {"migrate", "stale"}, n.was = r.was,
           \A j \in Index : j # r.i =>
              wav'[j] = wav[j] /\ n.cache[j] = r.cache[j] /\ (j \in n.left <=> j \in r.left),
           r.i \in n.left => r.i \in r.left,
           \/ /\ wav'[r.i] = wav[r.i] /\ n.cache[r.i] = r.cache[r.i]
              /\ r.i \in n.left \/ r.cache[r.i] = None \/ r.cache[r.i].content = r.subs[r.i]
           \/ /\ wav'[r.i] = None /\ n.cache[r.i] = None,
           UNCHANGED <<meta, gens>>
    PROVE  CleanInv'
<1>1. P \in Procs /\ run'[P] = n
  BY CleanFacts
<1>2. /\ gens = {} /\ meta # None /\ Agree(meta) /\ Migrated(r)
      /\ Origin(r.cache) /\ Origin(r.was) /\ Origin(meta)
      /\ r.i \in Index /\ r.i \in 1..Len(r.subs) /\ Len(r.subs) \in Nat
  BY MigrateFacts
<1>3. Phase(n) = n.pc /\ n.subs = r.subs
  BY DEF Phase, Advanced
<1>4. n.pc = "migrate" => n.i = r.i + 1
  BY <1>2, <1>3 DEF Advanced
<1>5. Agree(meta)'
  BY <1>2 DEF Agree, Audible
<1>6. Migrated(n)'
  <2>1. ASSUME NEW j \in Index, j = r.i
        PROVE  /\ j \in n.left => n.was[j] # None
               /\ n.cache[j] = n.was[j] \/ (n.cache[j] = None /\ wav'[j] = None)
               /\ n.cache[j] # None =>
                     j \in n.left \/ (j <= Len(n.subs) /\ n.cache[j].content = n.subs[j])
    BY <1>2, <1>3, <2>1 DEF Migrated
  <2>2. ASSUME NEW j \in Index, j # r.i
        PROVE  /\ j \in n.left => n.was[j] # None
               /\ n.cache[j] = n.was[j] \/ (n.cache[j] = None /\ wav'[j] = None)
               /\ n.cache[j] # None =>
                     j \in n.left \/ (j <= Len(n.subs) /\ n.cache[j].content = n.subs[j])
    BY <1>2, <1>3, <2>2 DEF Migrated
  <2>3. ASSUME NEW j \in Index, n.pc = "migrate", j >= n.i
        PROVE  n.cache[j] = n.was[j] /\ (n.was[j] # None => j \in n.left)
    <3>1. j # r.i /\ j >= r.i
      BY <1>2, <1>4, <2>3 DEF Index
    <3>. QED
      BY <1>2, <3>1 DEF Migrated
  <2>4. meta' = n.was
    BY <1>2 DEF Migrated
  <2>. QED
    BY <2>1, <2>2, <2>3, <2>4 DEF Migrated
<1>7. Origin(n.cache)
  BY <1>2 DEF Origin
<1>8. CacheInv(n)'
  BY <1>2, <1>3, <1>5, <1>6, <1>7 DEF CacheInv, Early, Migrating
<1>9. VoiceInv(n)' /\ SettledInv(n)'
  <2>1. Settled(n) = {}
    BY <1>3 DEF Settled, Speaking
  <2>. QED
    BY <1>2, <1>3, <2>1 DEF VoiceInv, SettledInv, Speaking
<1>. QED
  BY <1>1, <1>8, <1>9 DEF CleanInv

LEMMA MigrateBlankClean ==
    ASSUME SegmentTyped, CleanInv, NEW P, Procs = {P}, MigrateBlank(P)
    PROVE  CleanInv'
<1>1. PICK r : r = run[P]
  OBVIOUS
<1>2. PICK n : n = NextCue(r, "stale")
  OBVIOUS
<1>3. r \in RunType /\ r.pc = "migrate" /\ P \in Procs
  BY <1>1, CleanFacts DEF MigrateBlank
<1>4. /\ Migrated(r) /\ r.i \in Index /\ r.i \in 1..Len(r.subs) /\ Len(r.subs) \in Nat
  BY <1>1, <1>3, MigrateFacts
<1>5. Advanced(n, r, "migrate", "stale") /\ Same(n, r, {}) /\ n.pc \in {"migrate", "stale"}
  <2>1. "stale" \in PCs \ {"trunc", "dump"} /\ r.i <= Len(r.subs)
    BY <1>4 DEF PCs
  <2>. QED
    BY <1>2, <1>3, <2>1, NextCueAdvances
<1>6. n \in RunType /\ n.was = r.was /\ n.left = r.left /\ n.cache = r.cache
  BY <1>5 DEF Same
<1>7. run' = [run EXCEPT ![P] = n] /\ UNCHANGED <<wav, meta, gens>>
  BY <1>1, <1>2 DEF MigrateBlank, diskVars, daemonVars
<1>8. r.i \in r.left \/ r.cache[r.i] = None
  BY <1>3, <1>4 DEF Migrated, Index
<1>. QED
  BY <1>1, <1>3, <1>5, <1>6, <1>7, <1>8, MigrateAdvances

LEMMA MigrateNewClean ==
    ASSUME SegmentTyped, CleanInv, NEW P, Procs = {P}, MigrateNew(P)
    PROVE  CleanInv'
<1>1. PICK r : r = run[P]
  OBVIOUS
<1>2. PICK m : m = [r EXCEPT !.cache[r.i] = None]
  OBVIOUS
<1>3. PICK n : n = NextCue(m, "stale")
  OBVIOUS
<1>4. r \in RunType /\ r.pc = "migrate" /\ P \in Procs /\ r.cache \in [Index -> Entries \cup {None}]
  BY <1>1, CleanFacts DEF MigrateNew
<1>5. /\ Migrated(r) /\ r.i \in Index /\ r.i \in 1..Len(r.subs) /\ Len(r.subs) \in Nat
  BY <1>1, <1>4, MigrateFacts
<1>6. /\ Same(m, r, {"cache"}) /\ m.i = r.i /\ m.pc = "migrate"
      /\ m.cache = [r.cache EXCEPT ![r.i] = None]
  BY <1>2, <1>4, <1>5, DropEntryFields
<1>7. Advanced(n, m, "migrate", "stale") /\ Same(n, m, {}) /\ n.pc \in {"migrate", "stale"}
  <2>1. "stale" \in PCs \ {"trunc", "dump"} /\ m.i <= Len(m.subs) /\ m \in RunType
    BY <1>5, <1>6 DEF PCs, Same
  <2>. QED
    BY <1>3, <1>6, <2>1, NextCueAdvances
<1>8. /\ n \in RunType /\ n.was = r.was /\ n.left = r.left
      /\ n.cache = [r.cache EXCEPT ![r.i] = None]
  BY <1>6, <1>7 DEF Same
<1>9. Advanced(n, r, "migrate", "stale")
  BY <1>6, <1>7 DEF Advanced, Same
<1>10. run' = [run EXCEPT ![P] = n] /\ UNCHANGED <<meta, gens>> /\ wav' = [wav EXCEPT ![r.i] = None]
  BY <1>1, <1>2, <1>3 DEF MigrateNew, daemonVars
<1>11. wav \in [Index -> Sounds \cup {None}]
  BY CleanFacts
<1>12. /\ wav'[r.i] = None /\ n.cache[r.i] = None
       /\ \A j \in Index : j # r.i =>
             wav'[j] = wav[j] /\ n.cache[j] = r.cache[j] /\ (j \in n.left <=> j \in r.left)
  BY <1>4, <1>5, <1>8, <1>10, <1>11
<1>13. n \in RunType /\ n.was = r.was /\ (r.i \in n.left => r.i \in r.left)
  BY <1>8
<1>14. run' = [run EXCEPT ![P] = n] /\ UNCHANGED <<meta, gens>> /\ n.pc \in {"migrate", "stale"}
  BY <1>7, <1>10
<1>15. r \in RunType /\ r.pc = "migrate"
  BY <1>4
<1>. QED
  BY <1>1, <1>9, <1>12, <1>13, <1>14, <1>15, MigrateAdvances

LEMMA MigrateKnownClean ==
    ASSUME SegmentTyped, CleanInv, NEW P, Procs = {P}, TextsStayInPlace, MigrateKnown(P)
    PROVE  CleanInv'
<1>1. PICK r : r = run[P]
  OBVIOUS
<1>2. /\ r \in RunType /\ r.pc = "migrate" /\ P \in Procs
      /\ r.cache \in [Index -> Entries \cup {None}] /\ r.was \in [Index -> Entries \cup {None}]
      /\ r.left \subseteq Index
  BY <1>1, CleanFacts DEF MigrateKnown, RunType
<1>3. /\ Migrated(r) /\ r.i \in Index /\ r.i \in 1..Len(r.subs) /\ Len(r.subs) \in Nat
      /\ Origin(r.was) /\ r.subs \in Scripts /\ Cue(P) = r.subs[r.i]
  BY <1>1, <1>2, MigrateFacts
<1>4. ASSUME NEW o \in Matches(P)
      PROVE  o = r.i /\ r.was[o] # None /\ r.was[o].content = r.subs[r.i]
  <2>1. o \in r.left /\ o \in Index /\ r.was[o].content = r.subs[r.i]
    BY <1>1, <1>2, <1>3 DEF Matches
  <2>2. r.was[o] # None
    BY <1>3, <2>1 DEF Migrated
  <2>3. PICK s \in Scripts : o <= Len(s) /\ r.was[o].content = s[o]
    BY <1>3, <2>1, <2>2 DEF Origin
  <2>4. o \in 1..Len(s)
    BY <2>1, <2>3, ScriptFacts DEF Index
  <2>5. r.subs[r.i] # Empty
    BY <1>1, <1>3 DEF MigrateKnown
  <2>. QED
    BY <1>3, <2>1, <2>2, <2>3, <2>4, <2>5 DEF TextsStayInPlace
<1>5. PICK o \in Matches(P) :
         LET i == r.i
             flag == r.cache[o] # None /\ r.cache[o].fallback
             moved == NextCue([r EXCEPT !.left = @ \ {o},
                                        !.cache[i] = [content |-> Cue(P), fallback |-> flag]], "stale")
         IN IF o # i /\ wav[i] # None /\ wav[o] = None
            THEN Exit(P, 1) /\ UNCHANGED wav
            ELSE /\ run' = [run EXCEPT ![P] = moved]
                 /\ wav' = IF o = i THEN wav
                           ELSE IF wav[i] = None
                                THEN [wav EXCEPT ![i] = wav[o], ![o] = None]
                                ELSE [wav EXCEPT ![o] = None]
  BY <1>1 DEF MigrateKnown
<1>6. o = r.i /\ r.was[o] # None /\ r.was[o].content = r.subs[r.i]
  BY <1>4
<1>7. PICK e : e = [content |-> Cue(P), fallback |-> r.cache[o] # None /\ r.cache[o].fallback]
  OBVIOUS
<1>8. e = r.cache[r.i] /\ r.cache[r.i].content = r.subs[r.i]
  <2>1. r.cache[r.i] = r.was[r.i] /\ r.cache[r.i] \in Entries /\ r.cache[r.i] # None
    <3>1. r.i \in Nat /\ r.i >= r.i
      BY <1>3
    <3>2. r.cache[r.i] = r.was[r.i]
      BY <1>2, <1>3, <3>1 DEF Migrated
    <3>. QED
      BY <1>2, <1>3, <1>6, <3>2
  <2>. QED
    BY <1>3, <1>6, <1>7, <2>1 DEF Entries
<1>9. PICK m : m = [r EXCEPT !.left = r.left \ {o}, !.cache = [r.cache EXCEPT ![r.i] = e]]
  OBVIOUS
<1>10. PICK n : n = NextCue(m, "stale")
  OBVIOUS
<1>11. [r EXCEPT !.left = r.left \ {o}, !.cache[r.i] = e] = m
  BY <1>2, <1>9 DEF RunType
<1>12. run' = [run EXCEPT ![P] = n] /\ UNCHANGED <<wav, meta, gens>>
  BY <1>5, <1>6, <1>7, <1>10, <1>11 DEF MigrateKnown, daemonVars
<1>13. [r.cache EXCEPT ![r.i] = e] = r.cache
  BY <1>2, <1>3, <1>8
<1>14. /\ m \in RunType /\ m.pc = "migrate" /\ m.subs = r.subs /\ m.i = r.i /\ m.was = r.was
       /\ m.cache = r.cache /\ m.left = r.left \ {r.i}
  BY <1>2, <1>6, <1>9, <1>13 DEF RunType
<1>15. Advanced(n, m, "migrate", "stale") /\ Same(n, m, {}) /\ n.pc \in {"migrate", "stale"}
  <2>1. "stale" \in PCs \ {"trunc", "dump"} /\ m.i <= Len(m.subs)
    BY <1>3, <1>14 DEF PCs
  <2>. QED
    BY <1>10, <1>14, <2>1, NextCueAdvances
<1>16. /\ n \in RunType /\ n.was = r.was /\ n.left = r.left \ {r.i} /\ n.cache = r.cache
       /\ Advanced(n, r, "migrate", "stale")
  BY <1>14, <1>15 DEF Same, Advanced
<1>. QED
  BY <1>1, <1>2, <1>8, <1>12, <1>15, <1>16, MigrateAdvances

LEMMA MigrateStaleClean ==
    ASSUME SegmentTyped, CleanInv, NEW P, Procs = {P}, MigrateStale(P)
    PROVE  CleanInv'
<1>1. PICK r : r = run[P]
  OBVIOUS
<1>. DEFINE gone == {o \in r.left : r.cache[o] # None}
<1>2. PICK c : c = [o \in Index |-> IF o \in gone THEN None ELSE r.cache[o]]
  OBVIOUS
<1>3. PICK n : n = [r EXCEPT !.pc = "trunc", !.then = "count", !.was = EmptyCache, !.left = {},
                             !.cache = c]
  OBVIOUS
<1>4. /\ r \in RunType /\ r.pc = "stale" /\ P \in Procs /\ run \in [Procs -> RunType]
      /\ CacheInv(r) /\ LocalInv(r)
  BY <1>1, CleanFacts DEF MigrateStale
<1>5. run'[P] = n
  BY <1>1, <1>2, <1>3, <1>4 DEF MigrateStale
<1>6. /\ wav' = [o \in Index |-> IF o \in gone THEN None ELSE wav[o]] /\ UNCHANGED <<meta, gens>>
      /\ gens = {}
  BY <1>1, <1>4, CleanGens DEF MigrateStale, daemonVars
<1>7. /\ n.pc = "trunc" /\ n.then = "count" /\ n.was = EmptyCache /\ n.cache = c
      /\ n.subs = r.subs /\ n.i = r.i /\ n.miss = r.miss
  BY <1>3, <1>4 DEF RunType
<1>8. Migrated(r) /\ Agree(meta) /\ Origin(r.cache) /\ Origin(meta) /\ meta # None
  BY <1>4 DEF CacheInv, Migrating
<1>9. Fits(c, r.subs) /\ Origin(c) /\ Origin(EmptyCache)
  BY <1>2, <1>8 DEF Fits, Origin, Migrated, EmptyCache
<1>10. Agree(c)'
  <2>1. ASSUME NEW j \in Index, Audible(j)'
        PROVE  c[j] # None /\ wav'[j].says = {c[j].content} /\ ~c[j].fallback
    <3>1. j \notin gone /\ wav'[j] = wav[j] /\ c[j] = r.cache[j]
      BY <1>2, <1>6, <2>1 DEF Audible
    <3>2. Audible(j)
      BY <2>1, <3>1 DEF Audible
    <3>3. meta[j] # None /\ wav[j].says = {meta[j].content} /\ ~meta[j].fallback
      BY <1>8, <3>2 DEF Agree
    <3>4. r.cache[j] = meta[j]
      BY <1>8, <3>2 DEF Migrated, Audible
    <3>. QED
      BY <3>1, <3>3, <3>4
  <2>. QED
    BY <2>1 DEF Agree
<1>11. Phase(n) = "count"
  BY <1>7 DEF Phase
<1>12. CacheInv(n)'
  BY <1>6, <1>7, <1>8, <1>9, <1>10, <1>11 DEF CacheInv, Early, Migrating
<1>13. VoiceInv(n)' /\ SettledInv(n)'
  <2>1. r.i = 1
    BY <1>4 DEF LocalInv, Phase
  <2>2. Settled(n) = {}
    <3>1. 1..(1 - 1) = {}
      OBVIOUS
    <3>. QED
      BY <1>7, <1>11, <2>1, <3>1 DEF Settled, Speaking
  <2>. QED
    BY <1>6, <1>7, <1>11, <2>2 DEF VoiceInv, SettledInv, Speaking
<1>. QED
  BY <1>5, <1>12, <1>13 DEF CleanInv

LEMMA SaveOpenClean ==
    ASSUME SegmentTyped, CleanInv, NEW P, Procs = {P}, SaveOpen(P)
    PROVE  CleanInv'
<1>1. PICK r : r = run[P]
  OBVIOUS
<1>2. PICK n : n = [r EXCEPT !.pc = "dump"]
  OBVIOUS
<1>3. /\ r \in RunType /\ r.pc = "trunc" /\ P \in Procs /\ run \in [Procs -> RunType]
      /\ CacheInv(r) /\ SettledInv(r) /\ LocalInv(r)
  BY <1>1, CleanFacts DEF SaveOpen
<1>4. /\ run'[P] = n /\ meta' = None /\ UNCHANGED <<wav, gens>> /\ gens = {}
  BY <1>1, <1>2, <1>3, CleanGens DEF SaveOpen, Goto, daemonVars
<1>5. Same(n, r, {}) /\ n.pc = "dump" /\ n.i = r.i /\ n.then = r.then
  <2>1. "dump" \in PCs
    BY DEF PCs
  <2>. QED
    BY <1>2, <1>3, <2>1, GotoFields
<1>6. /\ n.subs = r.subs /\ n.cache = r.cache /\ n.was = r.was /\ n.miss = r.miss
      /\ n.failed = r.failed /\ n.mix = r.mix
  BY <1>5 DEF Same
<1>7. Phase(n) = Phase(r) /\ Phase(r) \notin Early \cup Migrating
  BY <1>3, <1>5 DEF Phase, LocalInv, Early, Migrating
<1>8. CacheInv(n)'
  <2>1. Agree(r.cache)' = Agree(r.cache)
    BY <1>4 DEF Agree, Audible
  <2>. QED
    BY <1>3, <1>4, <1>5, <1>6, <1>7, <2>1 DEF CacheInv, Migrating
<1>9. VoiceInv(n)' /\ SettledInv(n)'
  BY <1>3, <1>4, <1>5, <1>6, <1>7 DEF VoiceInv, SettledInv, Settled, Speaking
<1>. QED
  BY <1>4, <1>8, <1>9 DEF CleanInv

LEMMA SaveDumpClean ==
    ASSUME SegmentTyped, CleanInv, NEW P, Procs = {P}, SaveDump(P)
    PROVE  CleanInv'
<1>1. PICK r : r = run[P]
  OBVIOUS
<1>2. PICK n : n = [r EXCEPT !.pc = r.then]
  OBVIOUS
<1>3. /\ r \in RunType /\ r.pc = "dump" /\ P \in Procs /\ run \in [Procs -> RunType]
      /\ CacheInv(r) /\ SettledInv(r) /\ LocalInv(r)
  BY <1>1, CleanFacts DEF SaveDump
<1>4. /\ run'[P] = n /\ meta' = r.cache /\ UNCHANGED <<wav, gens>> /\ gens = {}
  BY <1>1, <1>2, <1>3, CleanGens DEF SaveDump, Goto, daemonVars
<1>5. Same(n, r, {}) /\ n.pc = r.then /\ n.i = r.i /\ n.then = r.then
  <2>1. r.then \in PCs
    BY <1>3 DEF RunType
  <2>. QED
    BY <1>2, <1>3, <2>1, GotoFields
<1>6. /\ n.subs = r.subs /\ n.cache = r.cache /\ n.was = r.was /\ n.miss = r.miss
      /\ n.failed = r.failed /\ n.mix = r.mix
  BY <1>5 DEF Same
<1>7. /\ n.pc \in {"count", "model", "seg", "combine", "write"}
      /\ Phase(n) = Phase(r) /\ Phase(r) \notin Early \cup Migrating
  BY <1>3, <1>5 DEF Phase, LocalInv, Early, Migrating
<1>8. CacheInv(n)'
  <2>1. Agree(r.cache)' = Agree(r.cache)
    BY <1>4 DEF Agree, Audible
  <2>2. r.cache # None
    BY <1>3, SegmentAssumption DEF RunType
  <2>3. Agree(r.cache) /\ Fits(r.cache, r.subs) /\ Origin(r.cache) /\ Origin(r.was)
    BY <1>3, <1>7 DEF CacheInv
  <2>. QED
    BY <1>4, <1>5, <1>6, <1>7, <2>1, <2>2, <2>3 DEF CacheInv, Migrating
<1>9. VoiceInv(n)' /\ SettledInv(n)'
  <2>1. Settled(n) = Settled(r)
    BY <1>5, <1>6, <1>7 DEF Settled
  <2>. QED
    BY <1>3, <1>4, <1>6, <1>7, <2>1 DEF VoiceInv, SettledInv, Speaking
<1>. QED
  BY <1>4, <1>8, <1>9 DEF CleanInv

\* What is audible is heard rightly: it speaks the cue's text.
LEMMA AudibleIsRight ==
    ASSUME SegmentTyped, NEW r \in RunType, Agree(r.cache), Fits(r.cache, r.subs),
           NEW i \in 1..Len(r.subs), i \in Index
    PROVE  /\ Audible(i) => /\ r.cache[i] # None /\ r.subs[i] \in Speech
                            /\ wav[i].says = {r.subs[i]}
           /\ r.subs[i] \notin Speech => \A failed : Right(wav[i], i, r.subs, failed)
           /\ Audible(i) => \A failed : Right(wav[i], i, r.subs, failed)
<1>1. wav \in [Index -> Sounds \cup {None}]
  BY DEF SegmentTyped, FilesTyped
<1>2. ASSUME Audible(i)
      PROVE  r.cache[i] # None /\ r.subs[i] \in Speech /\ wav[i].says = {r.subs[i]}
  <2>1. r.cache[i] # None /\ wav[i].says = {r.cache[i].content} /\ r.cache[i].content = r.subs[i]
    BY <1>2 DEF Agree, Fits
  <2>2. wav[i] \in Sounds
    BY <1>1, <1>2 DEF Audible
  <2>3. wav[i].says \subseteq Speech
    BY <2>2 DEF Sounds
  <2>. QED
    BY <2>1, <2>3
<1>. QED
  BY <1>2 DEF Right, Audible

LEMMA CountOneClean ==
    ASSUME SegmentTyped, CleanInv, NEW P, Procs = {P}, CountOne(P)
    PROVE  CleanInv'
<1>1. PICK r : r = run[P]
  OBVIOUS
<1>. DEFINE hit == Cue(P) = Empty \/ Hit(P, r.i)
<1>2. PICK m : m = [r EXCEPT !.miss = @ \/ ~hit]
  OBVIOUS
<1>3. PICK go : go = IF m.miss THEN "model" ELSE "combine"
  OBVIOUS
<1>4. PICK n : n = NextCue(m, go)
  OBVIOUS
<1>5. /\ r \in RunType /\ r.pc = "count" /\ P \in Procs /\ run \in [Procs -> RunType]
      /\ CacheInv(r) /\ SettledInv(r)
  BY <1>1, CleanFacts DEF CountOne
<1>6. /\ r.i \in 1..Len(r.subs) /\ r.i \in Index /\ Cue(P) = r.subs[r.i] /\ Len(r.subs) \in Nat
  BY <1>1, <1>5, CueFacts, ScriptFacts DEF RunType
<1>7. Phase(r) = "count"
  BY <1>5 DEF Phase
<1>8. /\ meta # None /\ Agree(meta) /\ Agree(r.cache) /\ Fits(r.cache, r.subs)
      /\ Origin(r.cache) /\ Origin(r.was) /\ Origin(meta)
  BY <1>5, <1>7 DEF CacheInv, Early, Migrating
<1>9. ~Recovered(P, r.i)
  BY <1>1, <1>6, <1>8 DEF Recovered, Hit, IsSilent, Agree, Audible
<1>10. UNCHANGED <<wav, meta, gens>> /\ gens = {}
  BY <1>1, <1>5, CleanGens DEF CountOne, diskVars, daemonVars
<1>11. /\ m \in RunType /\ m.pc = "count" /\ m.subs = r.subs /\ m.i = r.i
       /\ m.cache = r.cache /\ m.was = r.was /\ m.failed = r.failed
       /\ m.miss = (r.miss \/ ~hit)
  <2>1. (r.miss \/ ~hit) \in BOOLEAN
    OBVIOUS
  <2>. HIDE DEF hit
  <2>. QED
    BY <1>2, <1>5, <2>1 DEF RunType
<1>12. run'[P] = n
  BY <1>1, <1>2, <1>3, <1>4, <1>5, <1>9 DEF CountOne
<1>. HIDE DEF hit
<1>13. Advanced(n, m, "count", go) /\ Same(n, m, {}) /\ n.pc \in {"count", go}
  <2>1. go \in PCs \ {"trunc", "dump"} /\ m.i <= Len(m.subs)
    BY <1>3, <1>6, <1>11 DEF PCs
  <2>. QED
    BY <1>4, <1>11, <2>1, NextCueAdvances
<1>14. /\ n.subs = r.subs /\ n.cache = r.cache /\ n.was = r.was /\ n.failed = r.failed
       /\ n.miss = (r.miss \/ ~hit) /\ n.pc \in {"count", "model", "combine"}
  BY <1>3, <1>11, <1>13 DEF Same
<1>15. Phase(n) = n.pc
  BY <1>14 DEF Phase
<1>16. CacheInv(n)'
  <2>1. Agree(r.cache)' /\ Agree(meta)'
    BY <1>8, <1>10 DEF Agree, Audible
  <2>. QED
    BY <1>8, <1>10, <1>14, <1>15, <2>1 DEF CacheInv, Migrating
<1>17. \A j \in Settled(n) : Right(wav[j], j, r.subs, r.failed)
  <2>1. CASE n.miss
    <3>1. go = "model"
      BY <1>3, <1>11, <1>14, <2>1
    <3>2. n.pc # "combine"
      BY <1>13, <3>1
    <3>3. Settled(n) = {}
      BY <1>14, <1>15, <2>1, <3>2 DEF Settled, Speaking
    <3>. QED
      BY <3>3
  <2>2. CASE ~n.miss
    <3>1. ~r.miss /\ hit
      BY <1>14, <2>2
    <3>2. Settled(r) = 1..(r.i - 1)
      BY <1>7, <3>1 DEF Settled
    <3>3. \A j \in Settled(n) : j = r.i \/ j \in Settled(r)
      <4>1. CASE r.i < Len(r.subs)
        <5>1. Phase(n) = "count" /\ n.i = r.i + 1
          BY <1>11, <1>13, <4>1 DEF Advanced
        <5>2. Settled(n) = 1..((r.i + 1) - 1)
          BY <2>2, <5>1 DEF Settled
        <5>. QED
          BY <1>6, <3>2, <5>2
      <4>2. CASE ~(r.i < Len(r.subs))
        <5>1. Phase(n) = "combine"
          BY <1>3, <1>11, <1>13, <1>14, <2>2, <4>2 DEF Advanced
        <5>2. Settled(n) = 1..Len(r.subs)
          BY <1>14, <5>1 DEF Settled
        <5>. QED
          BY <1>6, <3>2, <4>2, <5>2
      <4>. QED
        BY <4>1, <4>2
    <3>4. Right(wav[r.i], r.i, r.subs, r.failed)
      <4>1. CASE Cue(P) = Empty
        <5>1. r.subs[r.i] \notin Speech
          BY <1>6, <4>1, SegmentAssumption
        <5>. QED
          BY <1>5, <1>6, <1>8, <5>1, AudibleIsRight
      <4>2. CASE Hit(P, r.i)
        <5>1. Audible(r.i)
          BY <4>2 DEF Hit, Audible, IsSilent
        <5>. QED
          BY <1>5, <1>6, <1>8, <5>1, AudibleIsRight
      <4>. QED
        BY <3>1, <4>1, <4>2 DEF hit
    <3>. QED
      BY <1>5, <3>3, <3>4 DEF SettledInv
  <2>. QED
    BY <2>1, <2>2
<1>18. SettledInv(n)'
  BY <1>10, <1>14, <1>15, <1>17 DEF SettledInv
<1>19. VoiceInv(n)'
  BY <1>10, <1>14 DEF VoiceInv, Speaking
<1>. QED
  BY <1>12, <1>16, <1>18, <1>19 DEF CleanInv

LEMMA EnsureModelClean ==
    ASSUME SegmentTyped, CleanInv, NEW P, Procs = {P}, EnsureModel(P)
    PROVE  CleanInv'
<1>1. PICK r : r = run[P]
  OBVIOUS
<1>2. PICK n : n = [r EXCEPT !.pc = "seg"]
  OBVIOUS
<1>3. r \in RunType /\ r.pc = "model" /\ run \in [Procs -> RunType] /\ P \in Procs /\ LocalInv(r)
  BY <1>1, CleanFacts DEF EnsureModel
<1>4. UNCHANGED <<wav, meta, gens>> /\ gens = {}
  BY <1>1, <1>3, CleanGens DEF EnsureModel, diskVars, daemonVars
<1>5. CASE Goto(P, "seg")
  <2>1. run' = [run EXCEPT ![P] = n]
    BY <1>1, <1>2, <1>3, <1>5 DEF Goto
  <2>2. /\ n \in RunType /\ n.subs = r.subs /\ n.cache = r.cache /\ n.was = r.was
        /\ n.left = r.left /\ n.failed = r.failed /\ n.mix = r.mix
        /\ n.i = r.i /\ n.miss = r.miss /\ n.pc = "seg"
    <3>1. "seg" \in PCs
      BY DEF PCs
    <3>. QED
      BY <1>2, <1>3, <3>1, GotoFields DEF Same
  <2>3. r.i = 1
    BY <1>3 DEF LocalInv, Phase
  <2>4. VoiceInv(n)'
    BY <1>4, <2>2 DEF VoiceInv, Speaking
  <2>. QED
    BY <1>1, <1>3, <1>4, <2>1, <2>2, <2>3, <2>4, CleanGoes
<1>6. CASE Exit(P, 1)
  BY <1>1, <1>3, <1>4, <1>6, CleanExits DEF Exit
<1>. QED
  BY <1>5, <1>6 DEF EnsureModel

LEMMA SegmentFacts ==
    ASSUME SegmentTyped, CleanInv, NEW P, Procs = {P}, run[P].pc = "seg"
    PROVE  /\ gens = {} /\ run[P].i <= Len(run[P].subs)
           /\ run[P].i \in Index /\ run[P].i \in 1..Len(run[P].subs)
           /\ Cue(P) = run[P].subs[run[P].i]
           /\ Agree(run[P].cache) /\ Fits(run[P].cache, run[P].subs)
           /\ "combine" \in PCs \ {"trunc", "dump"}
<1>1. P \in Procs /\ CacheInv(run[P])
  BY CleanFacts
<1>2. Phase(run[P]) = "seg"
  BY DEF Phase
<1>3. Agree(run[P].cache) /\ Fits(run[P].cache, run[P].subs)
  BY <1>1, <1>2 DEF CacheInv, Early, Migrating
<1>4. "combine" \in PCs \ {"trunc", "dump"}
  BY DEF PCs
<1>. QED
  BY <1>1, <1>3, <1>4, CueFacts, CleanGens

LEMMA SegmentBlankClean ==
    ASSUME SegmentTyped, CleanInv, NEW P, Procs = {P}, SegmentBlank(P)
    PROVE  CleanInv'
<1>1. PICK r : r = run[P]
  OBVIOUS
<1>2. PICK m : m = [r EXCEPT !.cache[r.i] = None]
  OBVIOUS
<1>3. PICK n : n = NextCue(m, "combine")
  OBVIOUS
<1>4. r \in RunType /\ r.pc = "seg" /\ P \in Procs
  BY <1>1, CleanFacts DEF SegmentBlank
<1>5. /\ gens = {} /\ r.i <= Len(r.subs) /\ Cue(P) = r.subs[r.i]
      /\ "combine" \in PCs \ {"trunc", "dump"}
  BY <1>1, <1>4, SegmentFacts
<1>6. /\ Same(m, r, {"cache"}) /\ m.i = r.i /\ m.pc = "seg"
      /\ m.cache = [r.cache EXCEPT ![r.i] = None]
  BY <1>2, <1>4, <1>5, DropEntryFields
<1>7. m \in RunType /\ m.subs = r.subs /\ m.was = r.was /\ m.failed = r.failed
  BY <1>6 DEF Same
<1>8. Advanced(n, m, "seg", "combine") /\ Same(n, m, {}) /\ n.pc \in {"seg", "combine"}
  BY <1>3, <1>5, <1>6, <1>7, NextCueAdvances
<1>9. /\ n \in RunType /\ n.was = r.was /\ n.failed = r.failed
      /\ n.cache = [r.cache EXCEPT ![r.i] = None] /\ Advanced(n, r, "seg", "combine")
  BY <1>6, <1>7, <1>8 DEF Same, Advanced
<1>10. run' = [run EXCEPT ![P] = n] /\ wav' = [wav EXCEPT ![r.i] = Silence] /\ meta' = meta
  BY <1>1, <1>2, <1>3 DEF SegmentBlank
<1>11. gens' = {}
  BY <1>5 DEF SegmentBlank, daemonVars
<1>12. Silence.says = {} /\ r.subs[r.i] \notin Speech
  BY <1>1, <1>5, SegmentAssumption DEF SegmentBlank, Silence
<1>13. PICK w, e : w = Silence /\ e = None
  OBVIOUS
<1>14. Right(w, r.i, r.subs, n.failed) /\ w.says = {}
  BY <1>12, <1>13 DEF Right
<1>15. SettlesAs(P, r, n, w, e)
  BY <1>1, <1>4, <1>8, <1>9, <1>10, <1>11, <1>13, <1>14 DEF SettlesAs
<1>. QED
  BY <1>15, CleanSettles

LEMMA SegmentSymbolsClean ==
    ASSUME SegmentTyped, CleanInv, NEW P, Procs = {P}, SegmentSymbols(P)
    PROVE  CleanInv'
<1>1. PICK r : r = run[P]
  OBVIOUS
<1>2. PICK n : n = Saving(NextCue(SetCache(r, r.i, FALSE), "combine"))
  OBVIOUS
<1>3. PICK e : e = [content |-> r.subs[r.i], fallback |-> FALSE]
  OBVIOUS
<1>4. r \in RunType /\ r.pc = "seg" /\ P \in Procs
  BY <1>1, CleanFacts DEF SegmentSymbols
<1>5. /\ gens = {} /\ r.i <= Len(r.subs) /\ r.subs[r.i] = Symbols
      /\ "combine" \in PCs \ {"trunc", "dump"}
  BY <1>1, <1>4, SegmentFacts DEF SegmentSymbols
<1>6. /\ Advanced(n, r, "seg", "combine") /\ Same(n, r, {"cache"}) /\ n.pc = "trunc"
      /\ n.cache = [r.cache EXCEPT ![r.i] = e]
  BY <1>2, <1>3, <1>4, <1>5, SettledAdvances
<1>7. n \in RunType /\ n.was = r.was /\ n.failed = r.failed
  BY <1>6 DEF Same
<1>8. run' = [run EXCEPT ![P] = n] /\ wav' = [wav EXCEPT ![r.i] = Silence] /\ meta' = meta
  BY <1>1, <1>2 DEF SegmentSymbols
<1>9. gens' = {}
  BY <1>5 DEF SegmentSymbols, daemonVars
<1>10. Silence.says = {} /\ r.subs[r.i] \notin Speech /\ e \in Entries /\ e.content = r.subs[r.i]
  BY <1>3, <1>5, SegmentAssumption DEF Silence, Entries
<1>11. PICK w : w = Silence
  OBVIOUS
<1>12. Right(w, r.i, r.subs, n.failed) /\ w.says = {}
  BY <1>10, <1>11 DEF Right
<1>13. SettlesAs(P, r, n, w, e)
  BY <1>1, <1>4, <1>6, <1>7, <1>8, <1>9, <1>10, <1>11, <1>12 DEF SettlesAs
<1>. QED
  BY <1>13, CleanSettles

LEMMA SegmentCachedClean ==
    ASSUME SegmentTyped, CleanInv, NEW P, Procs = {P}, SegmentCached(P)
    PROVE  CleanInv'
<1>1. PICK r : r = run[P]
  OBVIOUS
<1>2. PICK m : m = [r EXCEPT !.slot = @ + Chunks[Cue(P)]]
  OBVIOUS
<1>3. PICK n : n = NextCue(m, "combine")
  OBVIOUS
<1>4. /\ r \in RunType /\ r.pc = "seg" /\ P \in Procs
      /\ wav \in [Index -> Sounds \cup {None}] /\ r.cache \in [Index -> Entries \cup {None}]
  BY <1>1, CleanFacts DEF SegmentCached
<1>5. /\ gens = {} /\ r.i <= Len(r.subs) /\ r.i \in Index /\ r.i \in 1..Len(r.subs)
      /\ Cue(P) = r.subs[r.i] /\ Agree(r.cache) /\ Fits(r.cache, r.subs)
      /\ "combine" \in PCs \ {"trunc", "dump"}
  BY <1>1, <1>4, SegmentFacts
<1>6. Hit(P, r.i)
  BY <1>1 DEF SegmentCached
<1>7. Audible(r.i)
  BY <1>6 DEF Hit, Audible, IsSilent
<1>8. /\ r.cache[r.i] # None /\ wav[r.i].says = {r.cache[r.i].content} /\ ~r.cache[r.i].fallback
      /\ r.cache[r.i].content = r.subs[r.i]
  BY <1>5, <1>7 DEF Agree, Fits
<1>9. run' = [run EXCEPT ![P] = n] /\ UNCHANGED <<wav, meta>> /\ gens' = {}
  BY <1>1, <1>2, <1>3, <1>5, <1>8 DEF SegmentCached, Recovered, diskVars, daemonVars
<1>10. /\ m \in RunType /\ m.pc = "seg" /\ m.i = r.i /\ m.subs = r.subs /\ m.was = r.was
       /\ m.failed = r.failed /\ m.cache = r.cache
  <2>1. r.slot + Chunks[Cue(P)] \in PartIndex
    <3>1. /\ r.slot \in Nat /\ Room(r.i) \in Nat /\ MaxChunks \in Nat
          /\ r.slot <= Room(r.i)
          /\ \A k \in 0..(Room(r.i) + 2 * MaxChunks) : k \in PartIndex
      BY <1>1, <1>4, CueFacts, RoomFacts, SegmentAssumption DEF RunType, PartIndex
    <3>2. Chunks[Cue(P)] \in Nat /\ Chunks[Cue(P)] <= MaxChunks
      BY ChunkFacts DEF SegmentCached
    <3>. QED
      BY <3>1, <3>2
  <2>. QED
    BY <1>2, <1>4, <2>1 DEF RunType
<1>11. Advanced(n, m, "seg", "combine") /\ Same(n, m, {}) /\ n.pc \in {"seg", "combine"}
  BY <1>3, <1>5, <1>10, NextCueAdvances
<1>12. /\ n \in RunType /\ n.was = r.was /\ n.failed = r.failed /\ n.cache = r.cache
       /\ Advanced(n, r, "seg", "combine")
  BY <1>10, <1>11 DEF Same, Advanced
<1>13. PICK w, e : w = wav[r.i] /\ e = r.cache[r.i]
  OBVIOUS
<1>14. /\ wav' = [wav EXCEPT ![r.i] = w] /\ n.cache = [r.cache EXCEPT ![r.i] = e]
       /\ e \in Entries \cup {None}
  BY <1>4, <1>5, <1>9, <1>12, <1>13
<1>15. Right(w, r.i, r.subs, n.failed)
  BY <1>4, <1>5, <1>7, <1>13, AudibleIsRight
<1>16. SettlesAs(P, r, n, w, e)
  BY <1>1, <1>4, <1>8, <1>9, <1>11, <1>12, <1>13, <1>14, <1>15 DEF SettlesAs
<1>. QED
  BY <1>16, CleanSettles

LEMMA SegmentMissingClean ==
    ASSUME SegmentTyped, CleanInv, NEW P, Procs = {P}, SegmentMissing(P)
    PROVE  CleanInv'
<1>1. PICK r : r = run[P]
  OBVIOUS
<1>2. PICK n : n = [r EXCEPT !.pc = "request", !.chunk = 1, !.att = 0, !.rec = 0, !.said = Silence]
  OBVIOUS
<1>3. r \in RunType /\ r.pc = "seg" /\ run \in [Procs -> RunType] /\ P \in Procs
  BY <1>1, CleanFacts DEF SegmentMissing
<1>4. UNCHANGED <<wav, meta, gens>> /\ gens = {}
  BY <1>1, <1>3, CleanGens DEF SegmentMissing, diskVars, daemonVars
<1>5. CASE r.stop
  BY <1>1, <1>3, <1>4, <1>5, CleanExits DEF SegmentMissing, Exit
<1>6. CASE ~r.stop
  <2>1. run' = [run EXCEPT ![P] = n]
    BY <1>1, <1>2, <1>3, <1>6 DEF SegmentMissing
  <2>2. /\ n \in RunType /\ n.subs = r.subs /\ n.cache = r.cache /\ n.was = r.was
        /\ n.left = r.left /\ n.failed = r.failed /\ n.mix = r.mix
        /\ n.i = r.i /\ n.miss = r.miss /\ n.pc = "request" /\ n.said.says = {}
    <3>1. /\ "request" \in PCs /\ 1 \in Nat \ {0} /\ 0 \in 0..2
          /\ Silence \in Sounds /\ Silence.says = {}
      BY DEF PCs, Silence, Sounds
    <3>. QED
      BY <1>2, <1>3, <3>1 DEF RunType
  <2>3. VoiceInv(n)'
    BY <1>4, <2>2 DEF VoiceInv
  <2>4. n.pc \in Speaking
    BY <2>2 DEF Speaking
  <2>. QED
    BY <1>1, <1>3, <1>4, <2>1, <2>2, <2>3, <2>4, CleanGoes
<1>. QED
  BY <1>5, <1>6

LEMMA NoneFacts ==
    /\ None \notin Sounds /\ None \notin Entries
    /\ Silence \in Sounds /\ Silence.says = {}
<1>1. None \notin Sounds /\ None \notin Entries
  BY SegmentAssumption
<1>2. Silence \in Sounds /\ Silence.says = {}
  BY DEF Silence, Sounds
<1>. QED
  BY <1>1, <1>2

LEMMA GiveUpClean ==
    ASSUME SegmentTyped, CleanInv, NEW P, Procs = {P}, run[P].pc \in Speaking,
           GiveUp(P), gens' = {}
    PROVE  CleanInv'
<1>1. PICK r : r = run[P]
  OBVIOUS
<1>2. r \in RunType /\ r.pc \in Speaking /\ P \in Procs
  BY <1>1, CleanFacts
<1>3. PICK e : e = [content |-> r.subs[r.i], fallback |-> TRUE]
  OBVIOUS
<1>4. PICK n \in RunType :
         /\ run' = [run EXCEPT ![P] = n]
         /\ Advanced(n, r, "seg", "combine") /\ n.pc = "trunc"
         /\ n.was = r.was /\ n.failed = r.failed \cup {r.i}
         /\ n.cache = [r.cache EXCEPT ![r.i] = e]
  <2>1. run[P].pc \in Speaking
    OBVIOUS
  <2>2. PICK n \in RunType :
           /\ run' = [run EXCEPT ![P] = n]
           /\ Advanced(n, run[P], "seg", "combine") /\ n.pc = "trunc"
           /\ n.was = run[P].was /\ n.left = run[P].left /\ n.miss = run[P].miss
           /\ n.stop = run[P].stop /\ n.mix = run[P].mix
           /\ n.failed = run[P].failed \cup {run[P].i}
           /\ n.cache = [run[P].cache EXCEPT ![run[P].i] =
                           [content |-> run[P].subs[run[P].i], fallback |-> TRUE]]
    BY <1>2, GiveUpAdvances
  <2>. QED
    BY <1>1, <1>3, <2>2
<1>5. PICK w : w = Silence
  OBVIOUS
<1>6. wav' = [wav EXCEPT ![r.i] = w] /\ meta' = meta
  BY <1>1, <1>5 DEF GiveUp
<1>7. w.says = {} /\ w \in Sounds /\ w # None
  BY <1>5, NoneFacts
<1>8. e \in Entries /\ e.content = r.subs[r.i]
  <2>1. Cue(P) = r.subs[r.i] /\ Cue(P) \in Speech
    BY <1>1, <1>2, SpeakingFacts
  <2>. QED
    BY <1>3, <2>1 DEF Entries
<1>9. Right(w, r.i, r.subs, n.failed)
  BY <1>4, <1>7 DEF Right
<1>10. SettlesAs(P, r, n, w, e)
  BY <1>1, <1>2, <1>4, <1>6, <1>7, <1>8, <1>9 DEF SettlesAs
<1>. QED
  BY <1>10, CleanSettles

\* A process at a segment that goes on with it.
LEMMA SpeakingGoes ==
    ASSUME SegmentTyped, CleanInv, NEW P, Procs = {P}, NEW r, r = run[P], r.pc \in Speaking,
           NEW n \in RunType, run' = [run EXCEPT ![P] = n],
           n.subs = r.subs /\ n.cache = r.cache /\ n.was = r.was /\ n.left = r.left
           /\ n.failed = r.failed /\ n.mix = r.mix /\ n.i = r.i /\ n.miss = r.miss,
           n.pc \in Speaking, n.said.says \subseteq {r.subs[r.i]},
           n.pc = "read" => part'[n.slot].says \subseteq {r.subs[r.i]},
           \A g \in gens' : g.live /\ g.text = r.subs[r.i],
           UNCHANGED <<wav, meta>>
    PROVE  CleanInv'
<1>1. VoiceInv(n)'
  BY DEF VoiceInv
<1>2. r \in RunType
  BY CleanFacts
<1>. QED
  BY <1>1, <1>2, CleanGoes

LEMMA RetryClean ==
    ASSUME SegmentTyped, CleanInv, NEW P, Procs = {P}, run[P].pc \in Speaking,
           Retry(P), gens' = {}
    PROVE  CleanInv'
<1>1. PICK r : r = run[P]
  OBVIOUS
<1>2. PICK n : n = [r EXCEPT !.att = @ + 1, !.pc = "request"]
  OBVIOUS
<1>3. /\ r \in RunType /\ r.pc \in Speaking /\ P \in Procs /\ run \in [Procs -> RunType]
      /\ VoiceInv(r)
  BY <1>1, CleanFacts
<1>4. CASE r.att < 2
  <2>1. run' = [run EXCEPT ![P] = n] /\ UNCHANGED <<wav, meta>>
    BY <1>1, <1>2, <1>3, <1>4 DEF Retry, diskVars
  <2>2. /\ n \in RunType /\ n.pc = "request" /\ n.said = r.said
        /\ n.subs = r.subs /\ n.cache = r.cache /\ n.was = r.was /\ n.left = r.left
        /\ n.failed = r.failed /\ n.mix = r.mix /\ n.i = r.i /\ n.miss = r.miss
    <3>1. "request" \in PCs /\ r.att + 1 \in 0..2
      BY <1>3, <1>4 DEF PCs, RunType
    <3>. QED
      BY <1>2, <1>3, <3>1 DEF RunType
  <2>3. r.said.says \subseteq {r.subs[r.i]} /\ n.pc \in Speaking
    BY <1>3, <2>2 DEF VoiceInv, Speaking
  <2>. QED
    BY <1>1, <1>3, <2>1, <2>2, <2>3, SpeakingGoes
<1>5. CASE ~(r.att < 2)
  BY <1>1, <1>3, <1>5, GiveUpClean DEF Retry
<1>. QED
  BY <1>4, <1>5

LEMMA RequestClean ==
    ASSUME SegmentTyped, CleanInv, NEW P, Procs = {P}, Request(P)
    PROVE  CleanInv'
<1>1. PICK r : r = run[P]
  OBVIOUS
<1>2. /\ r \in RunType /\ r.pc = "request" /\ r.pc \in Speaking /\ P \in Procs
      /\ run \in [Procs -> RunType] /\ VoiceInv(r)
  BY <1>1, CleanFacts DEF Request, Speaking
<1>3. gens = {}
  BY <1>1, <1>2, CleanGens
<1>4. r.said.says \subseteq {r.subs[r.i]} /\ Cue(P) = r.subs[r.i]
  BY <1>1, <1>2, SpeakingFacts DEF VoiceInv
<1>5. ASSUME NEW q \in {"wait", "lost"}, Goto(P, q), UNCHANGED <<diskVars, used>>,
             \A g \in gens' : g.live /\ g.text = r.subs[r.i]
      PROVE  CleanInv'
  <2>1. PICK n : n = [r EXCEPT !.pc = q]
    OBVIOUS
  <2>2. q \in PCs /\ q \in Speaking /\ q # "read"
    BY DEF PCs, Speaking
  <2>3. Same(n, r, {}) /\ n.pc = q /\ n.i = r.i
    BY <1>2, <2>1, <2>2, GotoFields
  <2>4. /\ n \in RunType /\ n.said = r.said
        /\ n.subs = r.subs /\ n.cache = r.cache /\ n.was = r.was /\ n.left = r.left
        /\ n.failed = r.failed /\ n.mix = r.mix /\ n.i = r.i /\ n.miss = r.miss
    BY <2>3 DEF Same
  <2>5. run' = [run EXCEPT ![P] = n] /\ UNCHANGED <<wav, meta>>
    BY <1>1, <1>2, <1>5, <2>1 DEF Goto, diskVars
  <2>6. /\ n.pc \in Speaking /\ n.pc # "read" /\ n.said.says \subseteq {r.subs[r.i]}
        /\ \A g \in gens' : g.live /\ g.text = r.subs[r.i]
    BY <1>4, <1>5, <2>2, <2>3, <2>4
  <2>. QED
    BY <1>1, <1>2, <2>4, <2>5, <2>6, SpeakingGoes
<1>6. CASE /\ gens' = gens \cup {[proc |-> P, slot |-> r.slot, text |-> Cue(P), live |-> TRUE]}
           /\ Goto(P, "wait")
           /\ UNCHANGED <<diskVars, used>>
  BY <1>3, <1>4, <1>5, <1>6
<1>7. CASE Goto(P, "lost") /\ UNCHANGED <<diskVars, gens, used>>
  BY <1>3, <1>5, <1>7
<1>8. CASE GiveUp(P) /\ UNCHANGED gens
  BY <1>1, <1>2, <1>3, <1>8, GiveUpClean
<1>. QED
  BY <1>1, <1>6, <1>7, <1>8 DEF Request

LEMMA GeneratedClean ==
    ASSUME SegmentTyped, CleanInv, NEW P, Procs = {P}, NEW g \in gens, Generated(g)
    PROVE  CleanInv'
<1>1. PICK r : r = run[P]
  OBVIOUS
<1>2. /\ r \in RunType /\ P \in Procs /\ run \in [Procs -> RunType] /\ VoiceInv(r)
  BY <1>1, CleanFacts
<1>3. /\ gens = {g} /\ g.proc = P /\ g.live /\ g.slot = r.slot /\ g.text = r.subs[r.i]
      /\ r.pc = "wait"
  BY <1>1, CleanGens
<1>4. r.pc \in Speaking
  BY <1>3 DEF Speaking
<1>5. gens' = {}
  BY <1>3 DEF Generated
<1>6. r.said.says \subseteq {r.subs[r.i]}
  BY <1>2, <1>4 DEF VoiceInv
<1>7. CASE GiveUp(P)
  BY <1>1, <1>4, <1>5, <1>7, GiveUpClean
<1>8. CASE /\ \E w : w.says \subseteq {r.subs[r.i]} /\ part' = [part EXCEPT ![r.slot] = w]
           /\ Goto(P, "read") /\ UNCHANGED <<wav, meta>>
  <2>1. PICK n : n = [r EXCEPT !.pc = "read"]
    OBVIOUS
  <2>2. "read" \in PCs /\ "read" \in Speaking
    BY DEF PCs, Speaking
  <2>3. Same(n, r, {}) /\ n.pc = "read" /\ n.i = r.i
    BY <1>2, <2>1, <2>2, GotoFields
  <2>4. /\ n \in RunType /\ n.said = r.said /\ n.slot = r.slot
        /\ n.subs = r.subs /\ n.cache = r.cache /\ n.was = r.was /\ n.left = r.left
        /\ n.failed = r.failed /\ n.mix = r.mix /\ n.miss = r.miss
    BY <2>3 DEF Same
  <2>5. run' = [run EXCEPT ![P] = n] /\ UNCHANGED <<wav, meta>>
    BY <1>1, <1>2, <1>8, <2>1 DEF Goto
  <2>6. part'[n.slot].says \subseteq {r.subs[r.i]}
    <3>1. part \in [PartIndex -> Sounds \cup {None}] /\ r.slot \in PartIndex
      BY <1>2, ProcessFacts DEF FilesTyped, RunType
    <3>2. PICK w : w.says \subseteq {r.subs[r.i]} /\ part' = [part EXCEPT ![r.slot] = w]
      BY <1>8
    <3>3. part'[n.slot] = w
      BY <2>4, <3>1, <3>2
    <3>. QED
      BY <3>2, <3>3
  <2>. QED
    BY <1>1, <1>4, <1>5, <1>6, <2>2, <2>3, <2>4, <2>5, <2>6, SpeakingGoes
<1>9. \/ GiveUp(P)
      \/ /\ \E w : w.says \subseteq {r.subs[r.i]} /\ part' = [part EXCEPT ![r.slot] = w]
         /\ Goto(P, "read") /\ UNCHANGED <<wav, meta>>
  <2>1. ASSUME NEW w, w.says \subseteq {g.text}, part' = [part EXCEPT ![g.slot] = w]
        PROVE  \E v : v.says \subseteq {r.subs[r.i]} /\ part' = [part EXCEPT ![r.slot] = v]
    BY <1>3, <2>1
  <2>2. /\ Silence.says \subseteq {g.text}
        /\ \A b \in BOOLEAN : [says |-> {g.text}, long |-> b].says \subseteq {g.text}
    BY DEF Silence
  <2>3. \/ GiveUp(P)
        \/ /\ \/ part' = [part EXCEPT ![g.slot] = [says |-> {g.text}, long |-> FALSE]]
              \/ part' = [part EXCEPT ![g.slot] = [says |-> {g.text}, long |-> TRUE]]
              \/ part' = [part EXCEPT ![g.slot] = Silence]
           /\ Goto(P, "read") /\ UNCHANGED <<wav, meta>>
    BY <1>3 DEF Generated
  <2>. QED
    BY <2>1, <2>2, <2>3
<1>. QED
  BY <1>7, <1>8, <1>9

LEMMA ReadChunkClean ==
    ASSUME SegmentTyped, CleanInv, NEW P, Procs = {P}, ReadChunk(P)
    PROVE  CleanInv'
<1>1. PICK r : r = run[P]
  OBVIOUS
<1>2. PICK heard : heard = part[r.slot]
  OBVIOUS
<1>3. PICK said : said = [says |-> r.said.says \cup heard.says, long |-> r.said.long \/ heard.long]
  OBVIOUS
<1>4. PICK k : k = [r EXCEPT !.said = said, !.slot = @ + 1]
  OBVIOUS
<1>5. /\ r \in RunType /\ r.pc = "read" /\ r.pc \in Speaking /\ P \in Procs
      /\ run \in [Procs -> RunType] /\ VoiceInv(r)
  BY <1>1, CleanFacts DEF ReadChunk, Speaking
<1>6. gens' = {}
  BY <1>1, <1>5, CleanGens DEF ReadChunk, daemonVars
<1>7. heard \in Sounds
  <2>1. heard # None
    BY <1>1, <1>2, <1>5 DEF SegmentTyped, ProcsTyped
  <2>. QED
    BY <1>2, <1>5, <2>1, ProcessFacts DEF FilesTyped, RunType
<1>8. said \in Sounds /\ said.says = r.said.says \cup heard.says
  <2>1. /\ r.said.says \cup heard.says \in SUBSET Speech
        /\ (r.said.long \/ heard.long) \in BOOLEAN
    BY <1>5, <1>7 DEF RunType, Sounds
  <2>. QED
    BY <1>3, <2>1 DEF Sounds
<1>9. heard.says \subseteq {r.subs[r.i]} /\ said.says \subseteq {r.subs[r.i]}
  BY <1>2, <1>5, <1>8 DEF VoiceInv
<1>10. /\ r.slot + 1 \in PartIndex /\ Cue(P) = r.subs[r.i] /\ Cue(P) \in Speech
       /\ r.i <= Len(r.subs)
  <2>1. Cue(P) = r.subs[r.i] /\ Cue(P) \in Speech /\ r.i <= Len(r.subs)
    BY <1>1, <1>5, SpeakingFacts
  <2>2. r.slot + 1 \in PartIndex
    BY <1>1, <1>5, SlotFacts
  <2>. QED
    BY <2>1, <2>2
<1>11. /\ k \in RunType /\ k.said = said /\ k.subs = r.subs /\ k.cache = r.cache /\ k.was = r.was
       /\ k.left = r.left /\ k.failed = r.failed /\ k.mix = r.mix /\ k.i = r.i /\ k.miss = r.miss
  BY <1>4, <1>5, <1>8, <1>10 DEF RunType
<1>12. CASE Retry(P)
  BY <1>1, <1>5, <1>6, <1>12, RetryClean
<1>13. CASE /\ run' = [run EXCEPT ![P] = [k EXCEPT !.chunk = @ + 1, !.att = 0, !.rec = 0,
                                                    !.pc = "request"]]
            /\ UNCHANGED diskVars
  <2>1. PICK n : n = [k EXCEPT !.chunk = @ + 1, !.att = 0, !.rec = 0, !.pc = "request"]
    OBVIOUS
  <2>2. "request" \in PCs /\ k.chunk + 1 \in Nat \ {0} /\ 0 \in 0..2
    BY <1>11 DEF PCs, RunType
  <2>3. /\ n \in RunType /\ n.pc = "request" /\ n.said = said
        /\ n.subs = r.subs /\ n.cache = r.cache /\ n.was = r.was /\ n.left = r.left
        /\ n.failed = r.failed /\ n.mix = r.mix /\ n.i = r.i /\ n.miss = r.miss
    BY <1>11, <2>1, <2>2 DEF RunType
  <2>4. n.pc \in Speaking
    BY <2>3 DEF Speaking
  <2>5. run' = [run EXCEPT ![P] = n] /\ UNCHANGED <<wav, meta>>
    BY <1>13, <2>1 DEF diskVars
  <2>. QED
    BY <1>1, <1>5, <1>6, <1>9, <2>3, <2>4, <2>5, SpeakingGoes
<1>14. CASE /\ ~IsSilent(heard) /\ wav' = [wav EXCEPT ![r.i] = said]
            /\ run' = [run EXCEPT ![P] =
                    Saving(NextCue(SetCache(Finished(k), r.i, FALSE), "combine"))]
            /\ UNCHANGED <<meta, part, output>>
  <2>1. PICK f : f = Finished(k)
    OBVIOUS
  <2>2. Same(f, k, {"tries"}) /\ f.pc = "seg" /\ f.i = r.i
    BY <1>11, <2>1, FinishedFields
  <2>3. /\ f \in RunType /\ f.subs = r.subs /\ f.cache = r.cache /\ f.was = r.was
        /\ f.failed = r.failed
    BY <1>11, <2>2 DEF Same
  <2>4. PICK n : n = Saving(NextCue(SetCache(f, f.i, FALSE), "combine"))
    OBVIOUS
  <2>5. PICK e : e = [content |-> f.subs[f.i], fallback |-> FALSE]
    OBVIOUS
  <2>6. "combine" \in PCs \ {"trunc", "dump"}
    BY DEF PCs
  <2>7. /\ Advanced(n, f, "seg", "combine") /\ Same(n, f, {"cache"}) /\ n.pc = "trunc"
        /\ n.cache = [f.cache EXCEPT ![f.i] = e]
    <3>1. f.i <= Len(f.subs) /\ f.subs[f.i] \in Speech \cup {Symbols} /\ f.pc \notin {"trunc", "dump"}
      BY <1>10, <2>2, <2>3
    <3>. QED
      BY <2>2, <2>3, <2>4, <2>5, <2>6, <3>1, SettledAdvances
  <2>8. /\ n \in RunType /\ n.was = r.was /\ n.failed = r.failed /\ n.pc = "trunc"
        /\ n.cache = [r.cache EXCEPT ![r.i] = e] /\ Advanced(n, r, "seg", "combine")
    BY <2>2, <2>3, <2>7 DEF Same, Advanced
  <2>9. run' = [run EXCEPT ![P] = n] /\ meta' = meta
    BY <1>14, <2>1, <2>2, <2>4
  <2>10. e \in Entries /\ e.content = r.subs[r.i] /\ ~e.fallback /\ e # None
    <3>1. f.subs[f.i] \in Speech \cup {Symbols} /\ f.subs[f.i] = r.subs[r.i]
      BY <1>10, <2>2, <2>3
    <3>2. e \in Entries /\ e.content = r.subs[r.i] /\ ~e.fallback
      BY <2>5, <3>1 DEF Entries
    <3>. QED
      BY <3>2, NoneFacts
  <2>11. said.says = {r.subs[r.i]} /\ said # None
    <3>1. heard.says # {} /\ said # None
      BY <1>8, <1>14, NoneFacts DEF IsSilent
    <3>. QED
      BY <1>8, <1>9, <3>1
  <2>12. Right(said, r.i, r.subs, n.failed)
    BY <1>10, <2>11 DEF Right
  <2>13. SettlesAs(P, r, n, said, e)
    BY <1>1, <1>5, <1>6, <1>14, <2>8, <2>9, <2>10, <2>11, <2>12 DEF SettlesAs
  <2>. QED
    BY <2>13, CleanSettles
<1>15. \/ Retry(P)
       \/ /\ run' = [run EXCEPT ![P] = [k EXCEPT !.chunk = @ + 1, !.att = 0, !.rec = 0,
                                                    !.pc = "request"]]
          /\ UNCHANGED diskVars
       \/ /\ ~IsSilent(heard) /\ wav' = [wav EXCEPT ![r.i] = said]
          /\ run' = [run EXCEPT ![P] =
                    Saving(NextCue(SetCache(Finished(k), r.i, FALSE), "combine"))]
          /\ UNCHANGED <<meta, part, output>>
  BY <1>1, <1>2, <1>3, <1>4 DEF ReadChunk
<1>. QED
  BY <1>12, <1>13, <1>14, <1>15

LEMMA RecoverClean ==
    ASSUME SegmentTyped, CleanInv, NEW P, Procs = {P}, Recover(P)
    PROVE  CleanInv'
<1>1. PICK r : r = run[P]
  OBVIOUS
<1>2. PICK n : n = [r EXCEPT !.att = @ + 1, !.rec = @ + 1, !.pc = "request"]
  OBVIOUS
<1>3. /\ r \in RunType /\ r.pc = "lost" /\ r.pc \in Speaking /\ P \in Procs
      /\ run \in [Procs -> RunType] /\ VoiceInv(r)
  BY <1>1, CleanFacts DEF Recover, Speaking
<1>4. gens = {} /\ gens' = {}
  BY <1>1, <1>3, CleanGens DEF Recover
<1>5. CASE Exit(P, 1) /\ UNCHANGED diskVars
  BY <1>1, <1>3, <1>4, <1>5, CleanExits DEF Exit, diskVars
<1>6. CASE r.rec < 2 /\ r.att < 2 /\ run' = [run EXCEPT ![P] = n] /\ UNCHANGED diskVars
  <2>1. /\ n \in RunType /\ n.pc = "request" /\ n.said = r.said
        /\ n.subs = r.subs /\ n.cache = r.cache /\ n.was = r.was /\ n.left = r.left
        /\ n.failed = r.failed /\ n.mix = r.mix /\ n.i = r.i /\ n.miss = r.miss
    <3>1. "request" \in PCs /\ r.att + 1 \in 0..2 /\ r.rec + 1 \in 0..2
      BY <1>3, <1>6 DEF PCs, RunType
    <3>. QED
      BY <1>2, <1>3, <3>1 DEF RunType
  <2>2. r.said.says \subseteq {r.subs[r.i]} /\ n.pc \in Speaking
    BY <1>3, <2>1 DEF VoiceInv, Speaking
  <2>3. UNCHANGED <<wav, meta>>
    BY <1>6 DEF diskVars
  <2>. QED
    BY <1>1, <1>3, <1>4, <1>6, <2>1, <2>2, <2>3, SpeakingGoes
<1>7. CASE GiveUp(P)
  BY <1>1, <1>3, <1>4, <1>7, GiveUpClean
<1>8. \/ Exit(P, 1) /\ UNCHANGED diskVars
      \/ r.rec < 2 /\ r.att < 2 /\ run' = [run EXCEPT ![P] = n] /\ UNCHANGED diskVars
      \/ GiveUp(P)
  <2>1. ASSUME r.att < 2,
               run' = [run EXCEPT ![P].att = @ + 1, ![P].rec = @ + 1, ![P].pc = "request"]
        PROVE  run' = [run EXCEPT ![P] = n]
    BY <1>1, <1>2, <1>3, <2>1
  <2>. QED
    BY <1>1, <2>1 DEF Recover
<1>. QED
  BY <1>5, <1>6, <1>7, <1>8

LEMMA CombineClean ==
    ASSUME SegmentTyped, CleanInv, NEW P, Procs = {P}, Combine(P)
    PROVE  CleanInv'
<1>1. PICK r : r = run[P]
  OBVIOUS
<1>2. PICK mix : mix = [i \in 1..Len(r.subs) |-> wav[i]]
  OBVIOUS
<1>3. PICK n : n = [r EXCEPT !.pc = "trunc", !.then = "write", !.mix = mix]
  OBVIOUS
<1>4. /\ r \in RunType /\ r.pc = "combine" /\ P \in Procs /\ run \in [Procs -> RunType]
      /\ CacheInv(r) /\ VoiceInv(r) /\ SettledInv(r)
  BY <1>1, CleanFacts DEF Combine
<1>5. UNCHANGED <<wav, meta, gens>> /\ gens = {}
  BY <1>1, <1>4, CleanGens DEF Combine, diskVars, daemonVars
<1>6. CASE \E c : Exit(P, c)
  BY <1>1, <1>4, <1>5, <1>6, CleanExits DEF Exit
<1>7. CASE run' = [run EXCEPT ![P] = n]
  <2>1. /\ n.pc = "trunc" /\ n.then = "write" /\ n.subs = r.subs /\ n.cache = r.cache
        /\ n.was = r.was /\ n.failed = r.failed /\ n.mix = mix
    BY <1>3, <1>4 DEF RunType
  <2>2. Phase(n) = "write" /\ Phase(r) = "combine" /\ run'[P] = n
    BY <1>4, <1>7, <2>1 DEF Phase
  <2>3. CacheInv(n)'
    <3>1. Agree(r.cache) /\ Fits(r.cache, r.subs) /\ Origin(r.cache) /\ Origin(r.was) /\ Origin(meta)
          /\ meta # None
      BY <1>4, <2>2 DEF CacheInv, Early, Migrating
    <3>. QED
      BY <1>5, <2>1, <2>2, <3>1 DEF CacheInv, Agree, Audible, Early, Migrating
  <2>4. VoiceInv(n)'
    BY <1>5, <2>1 DEF VoiceInv, Speaking
  <2>5. SettledInv(n)'
    <3>1. Settled(r) = 1..Len(r.subs) /\ Settled(n) = 1..Len(r.subs)
      BY <2>1, <2>2 DEF Settled
    <3>2. \A j \in 1..Len(r.subs) : Right(wav[j], j, r.subs, r.failed)
      BY <1>4, <3>1 DEF SettledInv
    <3>3. Len(mix) = Len(r.subs) /\ \A j \in 1..Len(r.subs) : mix[j] = wav[j]
      <4>1. Len(r.subs) \in Nat
        BY <1>4, ScriptFacts DEF RunType
      <4>. QED
        BY <1>2, <4>1
    <3>. QED
      BY <1>5, <2>1, <2>2, <3>1, <3>2, <3>3 DEF SettledInv
  <2>. QED
    BY <1>4, <2>2, <2>3, <2>4, <2>5 DEF CleanInv
<1>8. (\E c : Exit(P, c)) \/ run' = [run EXCEPT ![P] = n]
  <2>1. ASSUME run' = [run EXCEPT ![P] =
                          Saving([@ EXCEPT !.pc = "write", !.mix = [i \in 1..Len(r.subs) |-> wav[i]]])]
        PROVE  run' = [run EXCEPT ![P] = n]
    <3>1. PICK k : k = [r EXCEPT !.pc = "write", !.mix = mix]
      OBVIOUS
    <3>2. run' = [run EXCEPT ![P] = Saving(k)]
      BY <1>1, <1>2, <1>4, <2>1, <3>1
    <3>3. Saving(k) = n
      BY <1>3, <1>4, <3>1 DEF Saving, RunType
    <3>. QED
      BY <3>2, <3>3
  <2>. QED
    BY <1>1, <2>1 DEF Combine
<1>. QED
  BY <1>6, <1>7, <1>8

LEMMA WriteOutputClean ==
    ASSUME SegmentTyped, CleanInv, NEW P, Procs = {P}, WriteOutput(P)
    PROVE  CleanInv' /\ OutputSpeaks'
<1>1. PICK r : r = run[P]
  OBVIOUS
<1>2. r \in RunType /\ r.pc = "write" /\ SettledInv(r)
  BY <1>1, CleanFacts DEF WriteOutput
<1>3. Phase(r) = "write"
  BY <1>2 DEF Phase
<1>4. Len(r.mix) = Len(r.subs) /\ \A j \in 1..Len(r.subs) : Right(r.mix[j], j, r.subs, r.failed)
  BY <1>2, <1>3 DEF SettledInv
<1>5. UNCHANGED <<wav, meta, gens>>
  BY DEF WriteOutput, daemonVars
<1>6. CleanInv'
  BY <1>1, <1>2, <1>5, CleanExits DEF WriteOutput, Exit
<1>7. ASSUME NEW i \in 1..Len(r.subs)
      PROVE  IF r.subs[i] \in Speech
             THEN \/ r.mix[i].says = {r.subs[i]}
                  \/ IsSilent(r.mix[i]) /\ i \in r.failed
             ELSE IsSilent(r.mix[i])
  <2>1. i \in 1..Len(r.mix) /\ r.mix \in Seq(Sounds)
    BY <1>2, <1>4 DEF RunType
  <2>2. r.mix[i] \in Sounds
    BY <2>1
  <2>3. r.mix[i] # None
    BY <2>2, NoneFacts
  <2>. QED
    BY <1>4, <2>3 DEF Right, IsSilent
<1>8. output' = [subs |-> r.subs, mix |-> r.mix, failed |-> r.failed]
  BY <1>1 DEF WriteOutput
<1>. QED
  BY <1>6, <1>7, <1>8 DEF OutputSpeaks

LEMMA TerminateClean ==
    ASSUME SegmentTyped, CleanInv, NEW P, Procs = {P}, Terminate(P)
    PROVE  CleanInv'
<1>1. PICK r : r = run[P]
  OBVIOUS
<1>2. PICK n : n = [r EXCEPT !.stop = TRUE]
  OBVIOUS
<1>3. r \in RunType /\ P \in Procs /\ run \in [Procs -> RunType] /\ VoiceInv(r)
  BY <1>1, CleanFacts
<1>4. run' = [run EXCEPT ![P] = n] /\ UNCHANGED <<wav, meta, part, gens>>
  BY <1>1, <1>2, <1>3 DEF Terminate, diskVars, daemonVars
<1>5. /\ n \in RunType /\ n.pc = r.pc /\ n.then = r.then /\ n.said = r.said /\ n.slot = r.slot
      /\ n.subs = r.subs /\ n.cache = r.cache /\ n.was = r.was /\ n.left = r.left
      /\ n.failed = r.failed /\ n.mix = r.mix /\ n.i = r.i /\ n.miss = r.miss
  BY <1>2, <1>3 DEF RunType
<1>6. VoiceInv(n)'
  BY <1>3, <1>4, <1>5 DEF VoiceInv
<1>. QED
  BY <1>1, <1>3, <1>4, <1>5, <1>6, CleanGoes

LEMMA DaemonDiesClean ==
    ASSUME SegmentTyped, CleanInv, NEW P, Procs = {P}, DaemonDies
    PROVE  CleanInv'
<1>1. PICK r : r = run[P]
  OBVIOUS
<1>2. PICK n : n = IF r.pc = "wait" THEN [r EXCEPT !.pc = "lost"] ELSE r
  OBVIOUS
<1>3. r \in RunType /\ P \in Procs /\ run \in [Procs -> RunType] /\ VoiceInv(r)
  BY <1>1, CleanFacts
<1>4. run' = [run EXCEPT ![P] = n] /\ UNCHANGED <<wav, meta, part>> /\ gens' = {}
  BY <1>1, <1>2, <1>3 DEF DaemonDies, diskVars
<1>5. /\ n \in RunType /\ n.then = r.then /\ n.said = r.said /\ n.slot = r.slot
      /\ n.subs = r.subs /\ n.cache = r.cache /\ n.was = r.was /\ n.left = r.left
      /\ n.failed = r.failed /\ n.mix = r.mix /\ n.i = r.i /\ n.miss = r.miss
      /\ n.pc = r.pc \/ (r.pc = "wait" /\ n.pc = "lost")
  <2>1. "lost" \in PCs
    BY DEF PCs
  <2>. QED
    BY <1>2, <1>3, <2>1 DEF RunType
<1>6. n.pc = r.pc \/ (r.pc \in Speaking /\ n.pc \in Speaking /\ n.pc # "read")
  BY <1>5 DEF Speaking
<1>7. VoiceInv(n)'
  BY <1>3, <1>4, <1>5, <1>6 DEF VoiceInv
<1>. QED
  BY <1>1, <1>3, <1>4, <1>5, <1>6, <1>7, CleanGoes

\* Every step but a kill and a timeout keeps cache and files as they have to be.
LEMMA CleanStep ==
    ASSUME SegmentTyped, CleanInv, OutputSpeaks, NEW P, Procs = {P}, TextsStayInPlace,
           [Next]_vars, used'["abandon"] = 0
    PROVE  CleanInv' /\ OutputSpeaks'
<1>1. output' = output => OutputSpeaks'
  BY DEF OutputSpeaks
<1>2. CASE UNCHANGED vars
  <2>1. CleanInv'
    BY <1>2 DEF vars, CleanInv, CacheInv, VoiceInv, SettledInv, Migrated, Agree, Audible
  <2>. QED
    BY <1>1, <1>2, <2>1 DEF vars
<1>3. CASE Start(P)
  BY <1>1, <1>3, StartClean DEF Start, diskVars
<1>4. CASE Attach(P)
  BY <1>1, <1>4, AttachClean DEF Attach, diskVars
<1>5. CASE Load(P)
  BY <1>1, <1>5, LoadClean DEF Load, diskVars
<1>6. CASE MigrateBlank(P)
  BY <1>1, <1>6, MigrateBlankClean DEF MigrateBlank, diskVars
<1>7. CASE MigrateNew(P)
  BY <1>1, <1>7, MigrateNewClean DEF MigrateNew
<1>8. CASE MigrateKnown(P)
  BY <1>1, <1>8, MigrateKnownClean DEF MigrateKnown
<1>9. CASE MigrateStale(P)
  BY <1>1, <1>9, MigrateStaleClean DEF MigrateStale
<1>10. CASE SaveOpen(P)
  BY <1>1, <1>10, SaveOpenClean DEF SaveOpen
<1>11. CASE SaveDump(P)
  BY <1>1, <1>11, SaveDumpClean DEF SaveDump
<1>12. CASE CountOne(P)
  BY <1>1, <1>12, CountOneClean DEF CountOne, diskVars
<1>13. CASE EnsureModel(P)
  BY <1>1, <1>13, EnsureModelClean DEF EnsureModel, diskVars
<1>14. CASE SegmentBlank(P)
  BY <1>1, <1>14, SegmentBlankClean DEF SegmentBlank
<1>15. CASE SegmentSymbols(P)
  BY <1>1, <1>15, SegmentSymbolsClean DEF SegmentSymbols
<1>16. CASE SegmentCached(P)
  BY <1>1, <1>16, SegmentCachedClean DEF SegmentCached, diskVars
<1>17. CASE SegmentMissing(P)
  BY <1>1, <1>17, SegmentMissingClean DEF SegmentMissing, diskVars
<1>18. CASE Request(P)
  BY <1>1, <1>18, RequestClean DEF Request, GiveUp, diskVars
<1>19. CASE ReadChunk(P)
  BY <1>1, <1>19, ReadChunkClean DEF ReadChunk, Retry, GiveUp, diskVars
<1>20. CASE Recover(P)
  BY <1>1, <1>20, RecoverClean DEF Recover, GiveUp, diskVars
<1>21. CASE Combine(P)
  BY <1>1, <1>21, CombineClean DEF Combine, diskVars
<1>22. CASE WriteOutput(P)
  BY <1>22, WriteOutputClean
<1>23. CASE Terminate(P)
  BY <1>1, <1>23, TerminateClean DEF Terminate, diskVars
<1>24. CASE \E g \in gens : Generated(g)
  <2>1. PICK g \in gens : Generated(g)
    BY <1>24
  <2>2. output' = output
    BY <2>1 DEF Generated, GiveUp, diskVars
  <2>. QED
    BY <1>1, <2>1, <2>2, GeneratedClean
<1>25. CASE DaemonDies
  BY <1>1, <1>25, DaemonDiesClean DEF DaemonDies, diskVars
<1>26. ~(Kill(P) \/ Timeout(P))
  <2>1. used \in [Events -> Nat] /\ "abandon" \in Events
    BY DEF SegmentTyped, FilesTyped, Events
  <2>2. Kill(P) \/ Timeout(P) => used' = [used EXCEPT !["abandon"] = @ + 1]
    BY DEF Kill, Timeout, Fault, Spend
  <2>. QED
    BY <2>1, <2>2
<1>. QED
  BY <1>2, <1>3, <1>4, <1>5, <1>6, <1>7, <1>8, <1>9, <1>10, <1>11, <1>12, <1>13, <1>14,
     <1>15, <1>16, <1>17, <1>18, <1>19, <1>20, <1>21, <1>22, <1>23, <1>24, <1>25, <1>26
  DEF Next, ProcStep

\* Runs, edits, faults, kills and timeouts are counted, and never counted back.
LEMMA SpentGrows ==
    ASSUME SegmentTyped, [Next]_vars, NEW e \in Events, used'[e] = 0
    PROVE  used[e] = 0
<1>1. used \in [Events -> Nat] /\ Events = {"run", "edit", "fault", "abandon"}
  BY DEF SegmentTyped, FilesTyped, Events
<1>2. ASSUME NEW d, Spend(d) PROVE used[e] = 0
  BY <1>1, <1>2 DEF Spend
<1>3. ASSUME NEW f, Fault(f) PROVE used[e] = 0
  BY <1>2, <1>3 DEF Fault
<1>4. ASSUME used' = used PROVE used[e] = 0
  BY <1>4
<1>5. CASE UNCHANGED vars
  BY <1>4, <1>5 DEF vars
<1>6. ASSUME NEW p \in Procs, ProcStep(p) PROVE used[e] = 0
  BY <1>3, <1>4, <1>6 DEF ProcStep, Attach, Load, MigrateBlank, MigrateNew, MigrateKnown,
     MigrateStale, SaveOpen, SaveDump, CountOne, EnsureModel, Busy, SegmentBlank, SegmentSymbols,
     SegmentCached, SegmentMissing, Request, ReadChunk, Recover, Combine, WriteOutput
<1>7. ASSUME NEW p \in Procs, Start(p) PROVE used[e] = 0
  BY <1>1, <1>7 DEF Start
<1>8. ASSUME NEW p \in Procs, Terminate(p) \/ Kill(p) \/ Timeout(p) PROVE used[e] = 0
  BY <1>3, <1>8 DEF Terminate, Kill, Timeout
<1>9. ASSUME NEW g \in gens, Generated(g) PROVE used[e] = 0
  BY <1>3, <1>4, <1>9 DEF Generated
<1>10. CASE DaemonDies
  BY <1>3, <1>10 DEF DaemonDies
<1>. QED
  BY <1>5, <1>6, <1>7, <1>8, <1>9, <1>10 DEF Next

LEMMA CleanInit ==
    ASSUME Init PROVE CleanInv /\ OutputSpeaks
<1>1. /\ Idle.pc = "off" /\ Phase(Idle) = "off" /\ Idle.cache = EmptyCache /\ Idle.was = EmptyCache
  BY DEF Idle, Phase
<1>2. Origin(EmptyCache) /\ EmptyCache # None
  <2>1. EmptyCache \in Caches
    BY DEF EmptyCache, Caches
  <2>. QED
    BY <2>1, SegmentAssumption DEF Origin, EmptyCache
<1>3. /\ meta = EmptyCache /\ gens = {} /\ output = None
      /\ \A i \in Index : ~Audible(i)
      /\ \A p \in Procs : run[p] = Idle
  BY DEF Init, Audible
<1>4. ASSUME NEW p \in Procs PROVE CacheInv(run[p]) /\ VoiceInv(run[p]) /\ SettledInv(run[p])
  <2>1. run[p] = Idle
    BY <1>3
  <2>2. CacheInv(Idle)
    BY <1>1, <1>2, <1>3 DEF CacheInv, Agree, Early, Migrating
  <2>3. VoiceInv(Idle) /\ SettledInv(Idle)
    BY <1>1, <1>3 DEF VoiceInv, SettledInv, Settled, Speaking
  <2>. QED
    BY <2>1, <2>2, <2>3
<1>. QED
  BY <1>3, <1>4 DEF CleanInv, OutputSpeaks

LEMMA CleanNext ==
    ASSUME NEW P, Procs = {P}, TextsStayInPlace, SegmentTyped, Clean, [Next]_vars
    PROVE  Clean'
<1>. SUFFICES ASSUME used'["abandon"] = 0 PROVE CleanInv' /\ OutputSpeaks'
  BY DEF Clean
<1>1. CleanInv /\ OutputSpeaks
  BY SpentGrows DEF Clean, Events
<1>. QED
  BY <1>1, CleanStep

LEMMA CleanWorkRecorded ==
    ASSUME NEW P, Procs = {P}, SegmentTyped, Clean
    PROVE  WorkRecorded
<1>. SUFFICES ASSUME Quiet, used["abandon"] = 0, NEW i \in Index, wav[i] # None, wav[i].says # {}
              PROVE  /\ meta # None /\ meta[i] # None
                     /\ wav[i].says = {meta[i].content} /\ ~meta[i].fallback
  BY DEF WorkRecorded
<1>1. P \in Procs /\ run[P].pc = "off" /\ CacheInv(run[P])
  BY DEF Quiet, Clean, CleanInv
<1>. QED
  BY <1>1 DEF CacheInv, Agree, Audible

\* While one process at a time runs and the texts are edited in place, the
\* cache is whole however the runs end, kills and timeouts apart: after a
\* fault, a SIGTERM or an exception at any step (gen_audio.py:113-248,
\* 629-960) cache_meta.json names the text of every audible segment file, so
\* that no work is lost and none is mistaken for another cue's.
THEOREM SegmentWorkRecorded ==
    ASSUME \E p : Procs = {p}, TextsStayInPlace
    PROVE  Spec => []WorkRecorded
<1>. PICK P : Procs = {P}
  OBVIOUS
<1>1. Init => Clean
  BY CleanInit DEF Clean
<1>2. SegmentTyped /\ Clean /\ [Next]_vars => Clean'
  BY CleanNext
<1>3. SegmentTyped /\ Clean => WorkRecorded
  BY CleanWorkRecorded
<1>. QED
  BY <1>1, <1>2, <1>3, SegmentInitTyped, SegmentNextTyped, PTL DEF Spec

-----------------------------------------------------------------------------
(* Induction on the natural numbers                                        *)

\* A set with 0 and the successor of each of its naturals holds every natural:
\* of the intervals 0..n, n not in the set, one is least under inclusion.
LEMMA SetInduction ==
    ASSUME NEW P, 0 \in P, \A n \in Nat : n \in P => n + 1 \in P
    PROVE  Nat \subseteq P
<1>. SUFFICES ASSUME ~(Nat \subseteq P) PROVE FALSE
  OBVIOUS
<1>. DEFINE R == StrictSubsetOrdering(Nat)
            F == FiniteSubsetsOf(Nat)
            I == {0..n : n \in Nat \ P}
<1>1. IsWellFoundedOn(R, F)
  BY FS_StrictSubsetOrderingWellFounded
<1>2. I \subseteq F /\ I # {}
  <2>1. \A n \in Nat : IsFiniteSet(0..n) /\ 0..n \subseteq Nat
    BY FS_Interval
  <2>. QED
    BY <2>1 DEF FiniteSubsetsOf
<1>3. PICK s \in I : \A t \in I : <<t, s>> \notin R
  <2>. HIDE DEF R, F, I
  <2>. QED
    BY <1>1, <1>2, WFMin
<1>4. PICK n \in Nat \ P : s = 0..n
  BY <1>3
<1>5. n # 0 /\ n - 1 \in Nat /\ (n - 1) + 1 = n /\ n - 1 \notin P
  BY <1>4
<1>6. 0..(n - 1) \subseteq 0..n /\ n \notin 0..(n - 1) /\ n \in 0..n
  BY <1>4, <1>5
<1>7. <<0..(n - 1), s>> \in R
  BY <1>4, <1>5, <1>6 DEF StrictSubsetOrdering
<1>. QED
  BY <1>3, <1>5, <1>7

\* f has the sums of the first m of d.
Sums(f, d, m) == f = [n \in 0..m |-> IF n = 0 THEN 0 ELSE f[n - 1] + d[n]]

LEMMA SumsExist ==
    ASSUME NEW d, NEW m \in Nat
    PROVE  \E f : Sums(f, d, m)
<1>. DEFINE P == {j \in Nat : \E f : Sums(f, d, j)}
<1>1. 0 \in P
  <2>1. Sums([n \in 0..0 |-> 0], d, 0)
    BY DEF Sums
  <2>. QED
    BY <2>1
<1>2. ASSUME NEW j \in Nat, j \in P PROVE j + 1 \in P
  <2>1. PICK f : Sums(f, d, j)
    BY <1>2
  <2>. DEFINE g == [n \in 0..(j + 1) |-> IF n <= j THEN f[n] ELSE f[n - 1] + d[n]]
  <2>2. \A n \in 0..j : f[n] = IF n = 0 THEN 0 ELSE f[n - 1] + d[n]
    BY <2>1 DEF Sums
  <2>3. \A n \in 0..j : g[n] = f[n]
    OBVIOUS
  <2>4. \A n \in 0..(j + 1) : n # 0 => n - 1 \in 0..j
    OBVIOUS
  <2>5. ASSUME NEW n \in 0..(j + 1) PROVE g[n] = IF n = 0 THEN 0 ELSE g[n - 1] + d[n]
    <3>1. CASE n \in 0..j
      <4>. HIDE DEF g
      <4>. QED
        BY <3>1, <2>2, <2>3, <2>4
    <3>2. CASE n = j + 1
      <4>1. n # 0 /\ n - 1 \in 0..j /\ ~(n <= j)
        BY <3>2
      <4>2. g[n] = f[n - 1] + d[n]
        BY <4>1
      <4>. HIDE DEF g
      <4>. QED
        BY <4>1, <4>2, <2>3
    <3>. QED
      BY <3>1, <3>2
  <2>6. Sums(g, d, j + 1)
    <3>. g = [n \in 0..(j + 1) |-> g[n]]
      OBVIOUS
    <3>. HIDE DEF g
    <3>. QED
      BY <2>5 DEF Sums
  <2>. QED
    BY <2>6
<1>. HIDE DEF P
<1>3. Nat \subseteq P
  BY <1>1, <1>2, SetInduction
<1>. QED
  BY <1>3 DEF P

-----------------------------------------------------------------------------
(* Chunk numbers while no segment is given up                              *)

Needed(s) == [n \in 1..Len(s) |-> IF s[n] \in Speech THEN Chunks[s[n]] ELSE 0]

\* How many chunks the first n cues of s have.
Used(s) == CHOOSE f : Sums(f, Needed(s), Len(s))

\* Chunk number k is one of cue i's.
Owns(s, i, k) == s[i] \in Speech /\ Used(s)[i - 1] <= k /\ k < Used(s)[i]

LEMMA UsedFacts ==
    ASSUME NEW s \in Scripts \cup {<<>>}
    PROVE  /\ Used(s)[0] = 0
           /\ \A n \in 0..Len(s) : Used(s)[n] \in Nat
           /\ \A n \in 1..Len(s) : /\ s[n] \in Speech => Used(s)[n] = Used(s)[n - 1] + Chunks[s[n]]
                                   /\ s[n] \notin Speech => Used(s)[n] = Used(s)[n - 1]
<1>1. PICK l \in Nat : l = Len(s) /\ \A n \in 1..l : s[n] \in Speech \cup {Empty, Symbols}
  BY ScriptFacts
<1>2. PICK f : f = Used(s)
  OBVIOUS
<1>3. PICK d : d = Needed(s)
  OBVIOUS
<1>4. Sums(f, d, l)
  <2>1. \E g : Sums(g, d, l)
    BY <1>1, SumsExist
  <2>. QED
    BY <1>1, <1>2, <1>3, <2>1 DEF Used
<1>5. \A n \in 0..l : f[n] = IF n = 0 THEN 0 ELSE f[n - 1] + d[n]
  BY <1>4 DEF Sums
<1>6. \A n \in 1..l : /\ d[n] \in Nat
                      /\ s[n] \in Speech => d[n] = Chunks[s[n]]
                      /\ s[n] \notin Speech => d[n] = 0
  BY <1>1, <1>3, ChunkFacts DEF Needed
<1>7. \A n \in 0..l : f[n] \in Nat
  <2>. DEFINE Q == {n \in Nat : n <= l => f[n] \in Nat}
  <2>1. 0 \in Q
    BY <1>5
  <2>2. ASSUME NEW n \in Nat, n \in Q PROVE n + 1 \in Q
    <3>1. CASE n + 1 <= l
      <4>1. n + 1 \in 1..l /\ n + 1 \in 0..l /\ (n + 1) - 1 = n /\ n <= l /\ n + 1 # 0
        BY <1>1, <3>1
      <4>2. f[n + 1] = f[n] + d[n + 1] /\ f[n] \in Nat /\ d[n + 1] \in Nat
        BY <1>5, <1>6, <2>2, <4>1
      <4>. QED
        BY <4>2
    <3>2. CASE ~(n + 1 <= l)
      BY <3>2
    <3>. QED
      BY <3>1, <3>2
  <2>. HIDE DEF Q
  <2>3. Nat \subseteq Q
    BY <2>1, <2>2, SetInduction
  <2>. QED
    BY <2>3 DEF Q
<1>8. ASSUME NEW n \in 1..l
      PROVE  /\ s[n] \in Speech => f[n] = f[n - 1] + Chunks[s[n]]
             /\ s[n] \notin Speech => f[n] = f[n - 1]
  <2>1. n \in 0..l /\ n # 0 /\ n - 1 \in 0..l
    BY <1>1
  <2>2. f[n] = f[n - 1] + d[n] /\ f[n - 1] \in Nat
    BY <1>5, <1>7, <2>1
  <2>. QED
    BY <1>6, <2>2
<1>9. f[0] = 0
  BY <1>1, <1>5
<1>. QED
  BY <1>1, <1>2, <1>7, <1>8, <1>9

LEMMA UsedGrows ==
    ASSUME NEW s \in Scripts \cup {<<>>}, NEW i \in 0..Len(s), NEW j \in 0..Len(s), i <= j
    PROVE  Used(s)[i] <= Used(s)[j]
<1>1. PICK l \in Nat : l = Len(s)
  BY ScriptFacts
<1>2. PICK f : f = Used(s)
  OBVIOUS
<1>3. /\ \A n \in 0..l : f[n] \in Nat
      /\ \A n \in 1..l : f[n - 1] <= f[n]
  <2>1. \A n \in 0..l : f[n] \in Nat
    BY <1>1, <1>2, UsedFacts
  <2>2. ASSUME NEW n \in 1..l PROVE f[n - 1] <= f[n]
    <3>1. s[n] \in Speech => f[n] = f[n - 1] + Chunks[s[n]] /\ Chunks[s[n]] \in Nat
      BY <1>1, <1>2, UsedFacts, ChunkFacts
    <3>2. s[n] \notin Speech => f[n] = f[n - 1]
      BY <1>1, <1>2, UsedFacts
    <3>3. n - 1 \in 0..l
      OBVIOUS
    <3>4. f[n - 1] \in Nat
      BY <2>1, <3>3
    <3>. QED
      BY <3>1, <3>2, <3>4
  <2>. QED
    BY <2>1, <2>2
<1>. DEFINE Q == {m \in Nat : i + m <= l => f[i] <= f[i + m]}
<1>4. 0 \in Q
  BY <1>1, <1>3
<1>5. ASSUME NEW m \in Nat, m \in Q PROVE m + 1 \in Q
  <2>1. CASE i + (m + 1) <= l
    <3>1. PICK k \in 0..l : k = i + m
      BY <1>1, <2>1
    <3>2. k + 1 \in 1..l /\ (k + 1) - 1 = k /\ i + (m + 1) = k + 1 /\ i \in 0..l /\ k + 1 \in 0..l
      BY <1>1, <2>1, <3>1
    <3>3. f[i] <= f[k] /\ f[k] <= f[k + 1] /\ f[i] \in Nat /\ f[k] \in Nat /\ f[k + 1] \in Nat
      BY <1>1, <1>3, <1>5, <3>1, <3>2
    <3>. QED
      BY <3>2, <3>3
  <2>2. CASE ~(i + (m + 1) <= l)
    BY <2>2
  <2>. QED
    BY <2>1, <2>2
<1>. HIDE DEF Q
<1>6. Nat \subseteq Q
  BY <1>4, <1>5, SetInduction
<1>7. j - i \in Nat /\ i + (j - i) = j /\ j <= l
  BY <1>1
<1>. QED
  BY <1>2, <1>6, <1>7 DEF Q

\* No chunk number is two cues'.
LEMMA OneOwner ==
    ASSUME NEW s \in Scripts \cup {<<>>}, NEW i \in 1..Len(s), NEW j \in 1..Len(s), NEW k \in Nat,
           Owns(s, i, k), Owns(s, j, k)
    PROVE  i = j
<1>1. PICK l \in Nat : l = Len(s)
  BY ScriptFacts
<1>2. ASSUME NEW m \in 1..l, NEW n \in 1..l, m < n, Owns(s, m, k), Owns(s, n, k) PROVE FALSE
  <2>1. m \in 0..l /\ n - 1 \in 0..l /\ m <= n - 1
    BY <1>2
  <2>2. Used(s)[m] <= Used(s)[n - 1] /\ Used(s)[m] \in Nat /\ Used(s)[n - 1] \in Nat
    BY <1>1, <2>1, UsedGrows, UsedFacts
  <2>3. k < Used(s)[m] /\ Used(s)[n - 1] <= k
    BY <1>2 DEF Owns
  <2>. QED
    BY <2>2, <2>3
<1>. QED
  BY <1>1, <1>2

-----------------------------------------------------------------------------
(* The cache while nothing is edited and nothing fails, kills and timeouts apart *)

\* Each file has the sound of its cue, and so has every chunk's file and every
\* generation, also one that nobody waits for any more: chunk numbers are
\* counted alike in each run.
PlainFiles ==
    /\ \A i \in Index : Audible(i) => i <= Len(script) /\ wav[i].says = {script[i]}
    /\ meta # None => Fits(meta, script)
    /\ \A i \in 1..Len(script) : \A k \in PartIndex :
          Owns(script, i, k) /\ part[k] # None => part[k].says = {script[i]}
    /\ \A g \in gens : \A i \in 1..Len(script) : Owns(script, i, g.slot) => g.text = script[i]

\* A process has counted the chunks of the cues before its own, and what it has
\* passed is audible.
PlainProc(r) ==
    /\ r.pc # "off" => r.subs = script
    /\ Fits(r.cache, script) /\ Fits(r.was, script)
    /\ \A o \in r.left : r.was[o] # None
    /\ ~r.stop
    /\ Phase(r) = "seg" => r.slot = Used(script)[r.i - 1]
    /\ r.pc \in Speaking =>
          /\ r.slot + 1 = Used(script)[r.i - 1] + r.chunk
          /\ r.att = r.rec
          /\ r.said.says \subseteq {script[r.i]}
    /\ \A j \in Settled(r) : script[j] \in Speech => Audible(j)
    /\ Phase(r) = "write" =>
          Len(r.mix) = Len(script) /\ \A j \in 1..Len(script) : Right(r.mix[j], j, script, {})

PlainInv == PlainFiles /\ \A p \in Procs : PlainProc(run[p])

Plain == used["edit"] = 0 /\ used["fault"] = 0 => PlainInv /\ OutputSpeaks

LEMMA PlainFacts ==
    ASSUME SegmentTyped, PlainInv, NEW P, Procs = {P}
    PROVE  /\ P \in Procs /\ run[P] \in RunType /\ LocalInv(run[P]) /\ run \in [Procs -> RunType]
           /\ PlainProc(run[P]) /\ PlainFiles
           /\ wav \in [Index -> Sounds \cup {None}] /\ meta \in Caches \cup {None}
           /\ part \in [PartIndex -> Sounds \cup {None}] /\ gens \subseteq GenType
           /\ run[P].cache \in [Index -> Entries \cup {None}]
           /\ run[P].was \in [Index -> Entries \cup {None}]
           /\ script \in Scripts /\ Len(script) \in Nat
           /\ \A i \in 1..Len(script) : i \in Index /\ script[i] \in Speech \cup {Empty, Symbols}
<1>1. P \in Procs
  OBVIOUS
<1>2. run[P] \in RunType /\ LocalInv(run[P]) /\ run \in [Procs -> RunType]
  BY <1>1, ProcessFacts
<1>3. script \in Scripts
  BY DEF SegmentTyped, FilesTyped
<1>. QED
  BY <1>1, <1>2, <1>3, ScriptFacts DEF PlainInv, SegmentTyped, FilesTyped, ProcsTyped, RunType, Caches

\* A process at a cue.
LEMMA PlainCue ==
    ASSUME SegmentTyped, PlainInv, NEW P, Procs = {P},
           run[P].pc \in {"migrate", "count", "seg"} \cup Speaking
    PROVE  /\ run[P].subs = script /\ run[P].i \in 1..Len(script) /\ run[P].i \in Index
           /\ run[P].i <= Len(run[P].subs)
           /\ Cue(P) = script[run[P].i] /\ Cue(P) \in Speech \cup {Empty, Symbols}
<1>1. P \in Procs /\ PlainProc(run[P])
  BY PlainFacts
<1>2. run[P].pc # "off"
  BY DEF Speaking
<1>3. run[P].subs = script
  BY <1>1, <1>2 DEF PlainProc
<1>. QED
  BY <1>1, <1>3, CueFacts

\* The process goes on as n, and the files are as they should be.
LEMMA PlainOn ==
    ASSUME SegmentTyped, NEW P, Procs = {P}, NEW n, run' = [run EXCEPT ![P] = n],
           PlainFiles', PlainProc(n)'
    PROVE  PlainInv'
<1>1. run'[P] = n
  BY DEF SegmentTyped, ProcsTyped
<1>. QED
  BY <1>1 DEF PlainInv

LEMMA FilesSame ==
    ASSUME PlainFiles, UNCHANGED <<script, wav, meta, part, gens>>
    PROVE  PlainFiles'
BY DEF PlainFiles, Audible

\* A process that ends, killed or not.
LEMMA PlainExits ==
    ASSUME SegmentTyped, PlainInv, NEW P, Procs = {P},
           run' = [run EXCEPT ![P] = Idle], PlainFiles'
    PROVE  PlainInv'
<1>1. PlainProc(Idle)'
  <2>1. /\ Idle.pc = "off" /\ Phase(Idle) = "off" /\ Idle.cache = EmptyCache /\ Idle.was = EmptyCache
        /\ Idle.left = {} /\ ~Idle.stop
    BY DEF Idle, Phase
  <2>2. Fits(EmptyCache, script')
    BY DEF Fits, EmptyCache
  <2>3. Settled(Idle) = {}
    BY <2>1 DEF Settled, Speaking
  <2>. QED
    BY <2>1, <2>2, <2>3 DEF PlainProc, Speaking
<1>. QED
  BY <1>1, PlainOn

LEMMA PlainLeaves ==
    ASSUME SegmentTyped, PlainInv, NEW P, Procs = {P}, NEW c, Exit(P, c),
           UNCHANGED <<script, wav, meta, part, gens>>
    PROVE  PlainInv'
<1>1. PlainFiles'
  BY FilesSame DEF PlainInv
<1>. QED
  BY <1>1, PlainExits DEF Exit

LEMMA StartPlain ==
    ASSUME SegmentTyped, PlainInv, NEW P, Procs = {P}, Start(P), used'["edit"] = 0
    PROVE  PlainInv'
<1>1. PICK r : r = run[P]
  OBVIOUS
<1>2. PICK s \in Scripts : /\ run' = [run EXCEPT ![P].pc = "attach", ![P].subs = s]
                           /\ script' = s
                           /\ used' = [used EXCEPT !["run"] = @ + 1,
                                                   !["edit"] = IF s = script THEN @ ELSE @ + 1]
  BY DEF Start
<1>3. used \in [Events -> Nat] /\ Events = {"run", "edit", "fault", "abandon"}
  BY DEF SegmentTyped, FilesTyped, Events
<1>4. s = script
  BY <1>2, <1>3
<1>5. PICK n : n = [r EXCEPT !.pc = "attach", !.subs = s]
  OBVIOUS
<1>6. r \in RunType /\ r.pc = "off" /\ run \in [Procs -> RunType] /\ P \in Procs /\ PlainProc(r)
  BY <1>1, PlainFacts DEF Start
<1>7. run' = [run EXCEPT ![P] = n]
  BY <1>1, <1>2, <1>5, <1>6
<1>8. /\ n.pc = "attach" /\ n.subs = s /\ n.cache = r.cache /\ n.was = r.was /\ n.left = r.left
      /\ n.stop = r.stop
  BY <1>5, <1>6 DEF RunType
<1>9. Phase(n) = "attach"
  BY <1>8 DEF Phase
<1>10. Settled(n) = {}
  BY <1>9 DEF Settled, Speaking
<1>11. PlainFiles'
  BY <1>2, <1>4, FilesSame DEF PlainInv, Start, diskVars, daemonVars
<1>12. PlainProc(n)'
  BY <1>2, <1>4, <1>6, <1>8, <1>9, <1>10 DEF PlainProc, Speaking
<1>. QED
  BY <1>7, <1>11, <1>12, PlainOn

LEMMA AttachPlain ==
    ASSUME SegmentTyped, PlainInv, NEW P, Procs = {P}, Attach(P)
    PROVE  PlainInv'
<1>1. PICK r : r = run[P]
  OBVIOUS
<1>2. PICK n : n = [r EXCEPT !.pc = "load"]
  OBVIOUS
<1>3. r \in RunType /\ r.pc = "attach" /\ run \in [Procs -> RunType] /\ P \in Procs /\ PlainProc(r)
  BY <1>1, PlainFacts DEF Attach
<1>4. UNCHANGED <<script, wav, meta, part, gens>>
  BY DEF Attach, diskVars
<1>5. CASE Goto(P, "load")
  <2>1. run' = [run EXCEPT ![P] = n]
    BY <1>1, <1>2, <1>3, <1>5 DEF Goto
  <2>2. "load" \in PCs
    BY DEF PCs
  <2>3. Same(n, r, {}) /\ n.pc = "load"
    BY <1>2, <1>3, <2>2, GotoFields
  <2>4. Phase(n) = "load" /\ Settled(n) = {}
    BY <2>3 DEF Phase, Settled, Speaking
  <2>5. PlainProc(n)'
    BY <1>3, <1>4, <2>3, <2>4 DEF PlainProc, Speaking, Same
  <2>6. PlainFiles'
    BY <1>4, FilesSame DEF PlainInv
  <2>. QED
    BY <2>1, <2>5, <2>6, PlainOn
<1>6. CASE Exit(P, 0)
  BY <1>4, <1>6, PlainLeaves
<1>. QED
  BY <1>5, <1>6 DEF Attach

LEMMA LoadPlain ==
    ASSUME SegmentTyped, PlainInv, NEW P, Procs = {P}, Load(P)
    PROVE  PlainInv'
<1>1. PICK r : r = run[P]
  OBVIOUS
<1>2. PICK c : c = IF meta = None THEN EmptyCache ELSE meta
  OBVIOUS
<1>3. PICK entries : entries = {i \in Index : c[i] # None}
  OBVIOUS
<1>4. PICK n : n = [r EXCEPT !.pc = IF entries = {} THEN "count" ELSE "migrate",
                             !.cache = c, !.was = c, !.left = entries]
  OBVIOUS
<1>5. /\ r \in RunType /\ r.pc = "load" /\ run \in [Procs -> RunType] /\ P \in Procs /\ PlainProc(r)
      /\ LocalInv(r) /\ PlainFiles
  BY <1>1, PlainFacts DEF Load
<1>6. UNCHANGED <<script, wav, meta, part, gens>>
  BY DEF Load, diskVars, daemonVars
<1>7. CASE Exit(P, 0)
  BY <1>6, <1>7, PlainLeaves
<1>8. CASE run' = [run EXCEPT ![P] = n]
  <2>1. /\ n.pc = IF entries = {} THEN "count" ELSE "migrate"
        /\ n.cache = c /\ n.was = c /\ n.left = entries /\ n.subs = r.subs /\ n.i = r.i
        /\ n.stop = r.stop
    BY <1>4, <1>5 DEF RunType
  <2>2. n.i = 1 /\ n.pc \in {"count", "migrate"}
    BY <1>5, <2>1 DEF LocalInv, Phase
  <2>3. Phase(n) = n.pc
    BY <2>2 DEF Phase
  <2>4. Settled(n) = {}
    <3>1. 1..(1 - 1) = {}
      OBVIOUS
    <3>. QED
      BY <2>2, <2>3, <3>1 DEF Settled, Speaking
  <2>5. Fits(c, script)
    BY <1>2, <1>5 DEF PlainFiles, Fits, EmptyCache
  <2>6. \A o \in n.left : n.was[o] # None
    BY <1>3, <2>1
  <2>7. PlainProc(n)'
    BY <1>5, <1>6, <2>1, <2>2, <2>3, <2>4, <2>5, <2>6 DEF PlainProc, Speaking
  <2>8. PlainFiles'
    BY <1>6, FilesSame DEF PlainInv
  <2>. QED
    BY <1>8, <2>7, <2>8, PlainOn
<1>9. Exit(P, 0) \/ run' = [run EXCEPT ![P] = n]
  <2>1. ASSUME r.subs # <<>>
        PROVE  run' = [run EXCEPT ![P] = n]
    <3>1. run' = [run EXCEPT ![P].pc = IF entries = {} THEN "count" ELSE "migrate",
                             ![P].cache = c, ![P].was = c, ![P].left = entries]
      BY <1>1, <1>2, <1>3, <2>1 DEF Load
    <3>. QED
      BY <1>1, <1>4, <1>5, <3>1
  <2>. QED
    BY <1>1, <2>1 DEF Load
<1>. QED
  BY <1>7, <1>8, <1>9

\* Only segment files change, and each that is audible is its cue's.
LEMMA FilesWav ==
    ASSUME PlainFiles, UNCHANGED <<script, meta, part, gens>>,
           \A j \in Index : Audible(j)' => j <= Len(script) /\ wav'[j].says = {script[j]}
    PROVE  PlainFiles'
BY DEF PlainFiles

\* The step to the next cue of _migrate_cache.
LEMMA PlainMigrates ==
    ASSUME SegmentTyped, PlainInv, NEW P, Procs = {P},
           NEW r \in RunType, r = run[P], r.pc = "migrate",
           NEW n \in RunType, run' = [run EXCEPT ![P] = n], n.pc \in {"migrate", "stale"},
           n.subs = r.subs, n.was = r.was, n.left \subseteq r.left, n.stop = r.stop,
           Fits(n.cache, script), PlainFiles', script' = script
    PROVE  PlainInv'
<1>1. PlainProc(r)
  BY PlainFacts
<1>2. Phase(n) = n.pc /\ Settled(n) = {}
  BY DEF Phase, Settled, Speaking
<1>3. PlainProc(n)'
  BY <1>1, <1>2 DEF PlainProc, Speaking
<1>. QED
  BY <1>3, PlainOn

\* _migrate_cache is at a cue.
LEMMA PlainMigrating ==
    ASSUME SegmentTyped, PlainInv, NEW P, Procs = {P}, run[P].pc = "migrate"
    PROVE  /\ run[P] \in RunType /\ run[P].subs = script /\ run[P].i \in 1..Len(script)
           /\ run[P].i \in Index /\ run[P].i <= Len(run[P].subs) /\ Cue(P) = script[run[P].i]
           /\ Fits(run[P].cache, script) /\ Fits(run[P].was, script)
           /\ \A o \in run[P].left : run[P].was[o] # None
           /\ "stale" \in PCs \ {"trunc", "dump"}
           /\ \A j \in Index : Audible(j) => j <= Len(script) /\ wav[j].says = {script[j]}
<1>1. /\ run[P].subs = script /\ run[P].i \in 1..Len(script) /\ run[P].i \in Index
      /\ run[P].i <= Len(run[P].subs) /\ Cue(P) = script[run[P].i]
  BY PlainCue
<1>2. run[P] \in RunType /\ PlainProc(run[P]) /\ PlainFiles
  BY PlainFacts
<1>3. "stale" \in PCs \ {"trunc", "dump"}
  BY DEF PCs
<1>. QED
  BY <1>1, <1>2, <1>3 DEF PlainProc, PlainFiles

LEMMA MigrateBlankPlain ==
    ASSUME SegmentTyped, PlainInv, NEW P, Procs = {P}, MigrateBlank(P)
    PROVE  PlainInv'
<1>1. PICK r : r = run[P]
  OBVIOUS
<1>2. PICK n : n = NextCue(r, "stale")
  OBVIOUS
<1>3. r.pc = "migrate" /\ run' = [run EXCEPT ![P] = n] /\ UNCHANGED <<script, wav, meta, part, gens>>
  BY <1>1, <1>2 DEF MigrateBlank, diskVars, daemonVars
<1>4. /\ r \in RunType /\ r.i <= Len(r.subs) /\ Fits(r.cache, script)
      /\ "stale" \in PCs \ {"trunc", "dump"}
  BY <1>1, <1>3, PlainMigrating
<1>5. Advanced(n, r, "migrate", "stale") /\ Same(n, r, {}) /\ n.pc \in {"migrate", "stale"}
  BY <1>2, <1>3, <1>4, NextCueAdvances
<1>6. /\ n \in RunType /\ n.subs = r.subs /\ n.was = r.was /\ n.left = r.left /\ n.stop = r.stop
      /\ n.cache = r.cache
  BY <1>5 DEF Same
<1>7. PlainFiles'
  BY <1>3, FilesSame DEF PlainInv
<1>. QED
  BY <1>1, <1>3, <1>4, <1>5, <1>6, <1>7, PlainMigrates

LEMMA MigrateNewPlain ==
    ASSUME SegmentTyped, PlainInv, NEW P, Procs = {P}, MigrateNew(P)
    PROVE  PlainInv'
<1>1. PICK r : r = run[P]
  OBVIOUS
<1>2. PICK m : m = [r EXCEPT !.cache[r.i] = None]
  OBVIOUS
<1>3. PICK n : n = NextCue(m, "stale")
  OBVIOUS
<1>4. /\ r.pc = "migrate" /\ run' = [run EXCEPT ![P] = n]
      /\ wav' = [wav EXCEPT ![r.i] = None] /\ UNCHANGED <<script, meta, part, gens>>
  BY <1>1, <1>2, <1>3 DEF MigrateNew, daemonVars
<1>5. /\ r \in RunType /\ r.i <= Len(r.subs) /\ Fits(r.cache, script) /\ r.i \in Index
      /\ "stale" \in PCs \ {"trunc", "dump"}
      /\ \A j \in Index : Audible(j) => j <= Len(script) /\ wav[j].says = {script[j]}
  BY <1>1, <1>4, PlainMigrating
<1>6. /\ Same(m, r, {"cache"}) /\ m.i = r.i /\ m.pc = "migrate"
      /\ m.cache = [r.cache EXCEPT ![r.i] = None]
  BY <1>2, <1>4, <1>5, DropEntryFields
<1>7. Advanced(n, m, "migrate", "stale") /\ Same(n, m, {}) /\ n.pc \in {"migrate", "stale"}
  <2>1. m.i <= Len(m.subs) /\ m \in RunType
    BY <1>5, <1>6 DEF Same
  <2>. QED
    BY <1>3, <1>5, <1>6, <2>1, NextCueAdvances
<1>8. /\ n \in RunType /\ n.subs = r.subs /\ n.was = r.was /\ n.left = r.left /\ n.stop = r.stop
      /\ n.cache = [r.cache EXCEPT ![r.i] = None]
  BY <1>6, <1>7 DEF Same
<1>9. /\ wav \in [Index -> Sounds \cup {None}] /\ r.cache \in [Index -> Entries \cup {None}]
      /\ PlainFiles
  BY <1>1, PlainFacts
<1>10. Fits(n.cache, script)
  BY <1>5, <1>8, <1>9 DEF Fits
<1>11. \A j \in Index : Audible(j)' => j <= Len(script) /\ wav'[j].says = {script[j]}
  BY <1>4, <1>5, <1>9 DEF Audible
<1>12. PlainFiles'
  BY <1>4, <1>9, <1>11, FilesWav
<1>. QED
  BY <1>1, <1>4, <1>5, <1>7, <1>8, <1>10, <1>12, PlainMigrates

LEMMA MigrateKnownPlain ==
    ASSUME SegmentTyped, PlainInv, NEW P, Procs = {P}, MigrateKnown(P)
    PROVE  PlainInv'
<1>1. PICK r : r = run[P]
  OBVIOUS
<1>2. r.pc = "migrate" /\ UNCHANGED <<script, meta, part, gens>>
  BY <1>1 DEF MigrateKnown, daemonVars
<1>3. /\ r \in RunType /\ r.i <= Len(r.subs) /\ r.i \in Index /\ Cue(P) = script[r.i]
      /\ r.i \in 1..Len(script) /\ Fits(r.cache, script) /\ Fits(r.was, script)
      /\ \A o \in r.left : r.was[o] # None
      /\ "stale" \in PCs \ {"trunc", "dump"} /\ r.subs = script
      /\ \A j \in Index : Audible(j) => j <= Len(script) /\ wav[j].says = {script[j]}
  BY <1>1, <1>2, PlainMigrating
<1>4. /\ wav \in [Index -> Sounds \cup {None}] /\ r.cache \in [Index -> Entries \cup {None}]
      /\ PlainFiles /\ r.left \subseteq Index
      /\ \A j \in 1..Len(script) : script[j] \in Speech \cup {Empty, Symbols}
  BY <1>1, PlainFacts DEF RunType
<1>5. PICK o \in Matches(P) :
         LET i == r.i
             flag == r.cache[o] # None /\ r.cache[o].fallback
             moved == NextCue([r EXCEPT !.left = @ \ {o},
                                        !.cache[i] = [content |-> Cue(P), fallback |-> flag]], "stale")
         IN IF o # i /\ wav[i] # None /\ wav[o] = None
            THEN Exit(P, 1) /\ UNCHANGED wav
            ELSE /\ run' = [run EXCEPT ![P] = moved]
                 /\ wav' = IF o = i THEN wav
                           ELSE IF wav[i] = None
                                THEN [wav EXCEPT ![i] = wav[o], ![o] = None]
                                ELSE [wav EXCEPT ![o] = None]
  BY <1>1 DEF MigrateKnown
<1>6. o \in Index /\ o \in r.left /\ o <= Len(script) /\ script[o] = script[r.i]
  <2>1. o \in r.left /\ o \in Index /\ r.was[o].content = script[r.i]
    BY <1>1, <1>3, <1>4 DEF Matches
  <2>. QED
    BY <1>3, <2>1 DEF Fits
<1>7. PICK e : e = [content |-> script[r.i], fallback |-> r.cache[o] # None /\ r.cache[o].fallback]
  OBVIOUS
<1>8. e \in Entries /\ e.content = script[r.i]
  <2>1. script[r.i] \in Speech \cup {Symbols}
    BY <1>1, <1>3, <1>4 DEF MigrateKnown
  <2>2. (r.cache[o] # None /\ r.cache[o].fallback) \in BOOLEAN
    BY <1>4, <1>6 DEF Entries
  <2>. QED
    BY <1>7, <2>1, <2>2 DEF Entries
<1>9. PICK m : m = [r EXCEPT !.left = r.left \ {o}, !.cache = [r.cache EXCEPT ![r.i] = e]]
  OBVIOUS
<1>10. PICK n : n = NextCue(m, "stale")
  OBVIOUS
<1>11. [r EXCEPT !.left = r.left \ {o}, !.cache[r.i] = e] = m
  BY <1>3, <1>9 DEF RunType
<1>12. CASE Exit(P, 1) /\ UNCHANGED wav
  BY <1>2, <1>12, PlainLeaves
<1>13. CASE /\ run' = [run EXCEPT ![P] = n]
            /\ wav' = IF o = r.i THEN wav
                      ELSE IF wav[r.i] = None
                           THEN [wav EXCEPT ![r.i] = wav[o], ![o] = None]
                           ELSE [wav EXCEPT ![o] = None]
  <2>1. [r.cache EXCEPT ![r.i] = e] \in Caches
    BY <1>4, <1>8 DEF Caches
  <2>2. /\ m \in RunType /\ m.pc = "migrate" /\ m.subs = r.subs /\ m.i = r.i /\ m.was = r.was
        /\ m.cache = [r.cache EXCEPT ![r.i] = e] /\ m.left = r.left \ {o} /\ m.stop = r.stop
    BY <1>2, <1>3, <1>9, <2>1 DEF RunType
  <2>3. Advanced(n, m, "migrate", "stale") /\ Same(n, m, {}) /\ n.pc \in {"migrate", "stale"}
    <3>1. m.i <= Len(m.subs)
      BY <1>3, <2>2
    <3>. QED
      BY <1>3, <1>10, <2>2, <3>1, NextCueAdvances
  <2>4. /\ n \in RunType /\ n.was = r.was /\ n.left \subseteq r.left /\ n.subs = r.subs
        /\ n.stop = r.stop /\ n.cache = [r.cache EXCEPT ![r.i] = e]
    BY <2>2, <2>3 DEF Same
  <2>5. Fits(n.cache, script)
    BY <1>3, <1>4, <1>8, <2>4 DEF Fits
  <2>6. ASSUME NEW j \in Index, Audible(j)'
        PROVE  j <= Len(script) /\ wav'[j].says = {script[j]}
    <3>1. CASE wav'[j] = wav[j]
      BY <1>3, <2>6, <3>1 DEF Audible
    <3>2. CASE wav'[j] # wav[j]
      <4>1. wav'[j] # None
        BY <2>6 DEF Audible
      <4>2. j = r.i /\ wav'[j] = wav[o]
        BY <1>3, <1>4, <1>6, <1>13, <3>2, <4>1
      <4>3. Audible(o)
        BY <2>6, <4>2 DEF Audible
      <4>. QED
        BY <1>3, <1>6, <4>2, <4>3
    <3>. QED
      BY <3>1, <3>2
  <2>7. PlainFiles'
    BY <1>2, <1>4, <2>6, FilesWav
  <2>. QED
    BY <1>1, <1>2, <1>3, <1>13, <2>3, <2>4, <2>5, <2>7, PlainMigrates
<1>. QED
  BY <1>3, <1>5, <1>7, <1>10, <1>11, <1>12, <1>13

LEMMA MigrateStalePlain ==
    ASSUME SegmentTyped, PlainInv, NEW P, Procs = {P}, MigrateStale(P)
    PROVE  PlainInv'
<1>1. PICK r : r = run[P]
  OBVIOUS
<1>. DEFINE gone == {o \in r.left : r.cache[o] # None}
<1>2. PICK c : c = [o \in Index |-> IF o \in gone THEN None ELSE r.cache[o]]
  OBVIOUS
<1>3. PICK n : n = [r EXCEPT !.pc = "trunc", !.then = "count", !.was = EmptyCache, !.left = {},
                             !.cache = c]
  OBVIOUS
<1>4. /\ r \in RunType /\ r.pc = "stale" /\ P \in Procs /\ run \in [Procs -> RunType]
      /\ PlainProc(r) /\ LocalInv(r) /\ PlainFiles
  BY <1>1, PlainFacts DEF MigrateStale
<1>5. run' = [run EXCEPT ![P] = n]
  BY <1>1, <1>2, <1>3, <1>4 DEF MigrateStale
<1>6. /\ wav' = [o \in Index |-> IF o \in gone THEN None ELSE wav[o]]
      /\ UNCHANGED <<script, meta, part, gens>>
  BY <1>1 DEF MigrateStale, daemonVars
<1>7. /\ n.pc = "trunc" /\ n.then = "count" /\ n.was = EmptyCache /\ n.cache = c
      /\ n.subs = r.subs /\ n.i = r.i /\ n.miss = r.miss /\ n.left = {} /\ n.stop = r.stop
  BY <1>3, <1>4 DEF RunType
<1>8. Fits(c, script) /\ Fits(EmptyCache, script)
  BY <1>2, <1>4 DEF Fits, PlainProc, EmptyCache
<1>9. PlainFiles'
  <2>1. \A j \in Index : Audible(j)' => j <= Len(script) /\ wav'[j].says = {script[j]}
    BY <1>4, <1>6 DEF Audible, PlainFiles
  <2>. QED
    BY <1>4, <1>6, <2>1, FilesWav
<1>10. r.i = 1 /\ r.subs = script /\ ~r.stop
  BY <1>4 DEF LocalInv, Phase, PlainProc
<1>11. Phase(n) = "count"
  BY <1>7 DEF Phase
<1>12. Settled(n) = {}
  <2>1. 1..(1 - 1) = {}
    OBVIOUS
  <2>. QED
    BY <1>7, <1>10, <1>11, <2>1 DEF Settled, Speaking
<1>13. PlainProc(n)'
  BY <1>6, <1>7, <1>8, <1>10, <1>11, <1>12 DEF PlainProc, Speaking
<1>. QED
  BY <1>5, <1>9, <1>13, PlainOn

LEMMA SaveOpenPlain ==
    ASSUME SegmentTyped, PlainInv, NEW P, Procs = {P}, SaveOpen(P)
    PROVE  PlainInv'
<1>1. PICK r : r = run[P]
  OBVIOUS
<1>2. PICK n : n = [r EXCEPT !.pc = "dump"]
  OBVIOUS
<1>3. /\ r \in RunType /\ r.pc = "trunc" /\ P \in Procs /\ run \in [Procs -> RunType]
      /\ PlainProc(r) /\ PlainFiles
  BY <1>1, PlainFacts DEF SaveOpen
<1>4. /\ run' = [run EXCEPT ![P] = n] /\ meta' = None /\ UNCHANGED <<script, wav, part, gens>>
  BY <1>1, <1>2, <1>3 DEF SaveOpen, Goto, daemonVars
<1>5. Same(n, r, {}) /\ n.pc = "dump" /\ n.i = r.i /\ n.then = r.then
  <2>1. "dump" \in PCs
    BY DEF PCs
  <2>. QED
    BY <1>2, <1>3, <2>1, GotoFields
<1>6. /\ n.subs = r.subs /\ n.cache = r.cache /\ n.was = r.was /\ n.miss = r.miss
      /\ n.left = r.left /\ n.stop = r.stop /\ n.slot = r.slot /\ n.mix = r.mix
  BY <1>5 DEF Same
<1>7. Phase(n) = Phase(r)
  BY <1>3, <1>5 DEF Phase
<1>8. Settled(n) = Settled(r)
  BY <1>3, <1>5, <1>6, <1>7 DEF Settled, Speaking
<1>9. PlainProc(n)'
  BY <1>3, <1>4, <1>5, <1>6, <1>7, <1>8 DEF PlainProc, Speaking, Audible
<1>10. PlainFiles'
  BY <1>3, <1>4 DEF PlainFiles, Audible
<1>. QED
  BY <1>4, <1>9, <1>10, PlainOn

LEMMA SaveDumpPlain ==
    ASSUME SegmentTyped, PlainInv, NEW P, Procs = {P}, SaveDump(P)
    PROVE  PlainInv'
<1>1. PICK r : r = run[P]
  OBVIOUS
<1>2. PICK n : n = [r EXCEPT !.pc = r.then]
  OBVIOUS
<1>3. /\ r \in RunType /\ r.pc = "dump" /\ P \in Procs /\ run \in [Procs -> RunType]
      /\ PlainProc(r) /\ PlainFiles /\ LocalInv(r)
  BY <1>1, PlainFacts DEF SaveDump
<1>4. run' = [run EXCEPT ![P] = n] /\ meta' = r.cache /\ UNCHANGED <<script, wav, part, gens>>
  BY <1>1, <1>2, <1>3 DEF SaveDump, Goto, daemonVars
<1>5. Same(n, r, {}) /\ n.pc = r.then /\ n.i = r.i /\ n.then = r.then
  <2>1. r.then \in PCs
    BY <1>3 DEF RunType
  <2>. QED
    BY <1>2, <1>3, <2>1, GotoFields
<1>6. /\ n.subs = r.subs /\ n.cache = r.cache /\ n.was = r.was /\ n.miss = r.miss
      /\ n.left = r.left /\ n.stop = r.stop /\ n.slot = r.slot /\ n.mix = r.mix
  BY <1>5 DEF Same
<1>7. Phase(n) = Phase(r) /\ n.pc \in {"count", "model", "seg", "combine", "write"}
  BY <1>3, <1>5 DEF Phase, LocalInv
<1>8. Settled(n) = Settled(r)
  BY <1>3, <1>5, <1>6, <1>7 DEF Settled, Speaking
<1>9. PlainProc(n)'
  BY <1>3, <1>4, <1>5, <1>6, <1>7, <1>8 DEF PlainProc, Speaking, Audible
<1>10. PlainFiles'
  BY <1>3, <1>4 DEF PlainFiles, Audible, PlainProc
<1>. QED
  BY <1>4, <1>9, <1>10, PlainOn

\* What is audible at a cue is a hit unless the cache names it otherwise.
LEMMA HitSpeaks ==
    ASSUME SegmentTyped, PlainInv, NEW P, Procs = {P}, NEW i \in 1..Len(script),
           run[P].subs = script, i \in Index
    PROVE  /\ Hit(P, i) => Audible(i) /\ wav[i].says = {script[i]}
           /\ Recovered(P, i) => script[i] \in Speech
<1>1. PlainFiles /\ wav \in [Index -> Sounds \cup {None}]
  BY PlainFacts
<1>2. ASSUME Hit(P, i) PROVE Audible(i) /\ wav[i].says = {script[i]} /\ script[i] \in Speech
  <2>1. Audible(i)
    BY <1>2 DEF Hit, Audible, IsSilent
  <2>2. wav[i].says = {script[i]}
    BY <1>1, <2>1 DEF PlainFiles
  <2>3. wav[i].says \subseteq Speech
    BY <1>1, <2>1 DEF Audible, Sounds
  <2>. QED
    BY <2>1, <2>2, <2>3
<1>. QED
  BY <1>2 DEF Recovered

\* The cues that are settled once cue r.i is.
LEMMA SettledOn ==
    ASSUME NEW s \in Scripts, NEW r, r.i \in 1..Len(s), NEW n, n.subs = s, NEW from,
           \/ r.i < Len(s) /\ n.i = r.i + 1 /\ Phase(n) = from
           \/ ~(r.i < Len(s)) /\ Phase(n) = "combine",
           from = "seg" \/ (from = "count" /\ ~n.miss),
           NEW j \in Settled(n)
    PROVE  j \in 1..Len(s) /\ (j = r.i \/ j \in 1..(r.i - 1))
<1>1. Len(s) \in Nat
  BY ScriptFacts
<1>2. CASE r.i < Len(s)
  <2>1. Settled(n) = 1..((r.i + 1) - 1)
    BY <1>2 DEF Settled
  <2>. QED
    BY <1>1, <1>2, <2>1
<1>3. CASE ~(r.i < Len(s))
  <2>1. Settled(n) = 1..Len(s)
    BY <1>3 DEF Settled
  <2>. QED
    BY <1>1, <1>3, <2>1
<1>. QED
  BY <1>2, <1>3

LEMMA CountOnePlain ==
    ASSUME SegmentTyped, PlainInv, NEW P, Procs = {P}, CountOne(P)
    PROVE  PlainInv'
<1>1. PICK r : r = run[P]
  OBVIOUS
<1>. DEFINE hit == Cue(P) = Empty \/ Hit(P, r.i)
<1>2. PICK m : m = [r EXCEPT !.miss = @ \/ ~hit]
  OBVIOUS
<1>3. PICK go : go = IF m.miss THEN "model" ELSE "combine"
  OBVIOUS
<1>4. PICK n : n = IF Cue(P) # Empty /\ Recovered(P, r.i)
                   THEN Saving(NextCue(SetCache(m, m.i, FALSE), go)) ELSE NextCue(m, go)
  OBVIOUS
<1>5. /\ r \in RunType /\ r.pc = "count" /\ P \in Procs /\ run \in [Procs -> RunType]
      /\ PlainProc(r) /\ LocalInv(r) /\ PlainFiles /\ script \in Scripts
      /\ r.cache \in [Index -> Entries \cup {None}]
  BY <1>1, PlainFacts DEF CountOne
<1>6. /\ r.i \in 1..Len(script) /\ r.i \in Index /\ Cue(P) = script[r.i] /\ r.subs = script
      /\ r.i <= Len(r.subs)
  BY <1>1, <1>5, PlainCue
<1>7. Phase(r) = "count" /\ r.slot = 0
  BY <1>5 DEF Phase, LocalInv
<1>8. UNCHANGED <<script, wav, meta, part, gens>>
  BY DEF CountOne, diskVars, daemonVars
<1>9. /\ m \in RunType /\ m.pc = "count" /\ m.subs = r.subs /\ m.i = r.i
      /\ m.cache = r.cache /\ m.was = r.was /\ m.left = r.left /\ m.stop = r.stop
      /\ m.miss = (r.miss \/ ~hit)
  <2>1. (r.miss \/ ~hit) \in BOOLEAN
    OBVIOUS
  <2>. HIDE DEF hit
  <2>. QED
    BY <1>2, <1>5, <2>1 DEF RunType
<1>10. run' = [run EXCEPT ![P] = n]
  BY <1>1, <1>2, <1>3, <1>4, <1>5, <1>9 DEF CountOne
<1>. HIDE DEF hit
<1>11. /\ Advanced(n, m, "count", go) /\ Same(n, m, {"cache"})
       /\ n.pc \in {"trunc", "count", go}
       /\ Fits(n.cache, script)
  <2>1. go \in PCs \ {"trunc", "dump"} /\ m.i <= Len(m.subs)
    BY <1>3, <1>6, <1>9 DEF PCs
  <2>2. CASE Cue(P) # Empty /\ Recovered(P, r.i)
    <3>1. m.subs[m.i] \in Speech \cup {Symbols}
      BY <1>1, <1>6, <1>9, <2>2, HitSpeaks
    <3>2. PICK e : e = [content |-> m.subs[m.i], fallback |-> FALSE]
      OBVIOUS
    <3>3. /\ Advanced(n, m, "count", go) /\ Same(n, m, {"cache"}) /\ n.pc = "trunc"
          /\ n.cache = [m.cache EXCEPT ![m.i] = e]
      <4>1. n = Saving(NextCue(SetCache(m, m.i, FALSE), go))
        BY <1>4, <2>2
      <4>2. m \in RunType /\ m.pc \notin {"trunc", "dump"} /\ m.pc = "count"
        BY <1>9
      <4>3. go \in PCs \ {"trunc", "dump"} /\ m.i <= Len(m.subs)
        BY <2>1
      <4>4. /\ Advanced(n, m, m.pc, go) /\ Same(n, m, {"cache"}) /\ n.pc = "trunc"
            /\ n.cache = [m.cache EXCEPT ![m.i] = [content |-> m.subs[m.i], fallback |-> FALSE]]
        BY <3>1, <4>1, <4>2, <4>3, SettledAdvances
      <4>. QED
        BY <3>2, <4>2, <4>4
    <3>4. e.content = script[r.i]
      BY <1>6, <1>9, <3>2
    <3>5. Fits(n.cache, script)
      BY <1>5, <1>6, <1>9, <3>3, <3>4 DEF Fits, PlainProc
    <3>. QED
      BY <3>3, <3>5
  <2>3. CASE ~(Cue(P) # Empty /\ Recovered(P, r.i))
    <3>1. Advanced(n, m, "count", go) /\ Same(n, m, {}) /\ n.pc \in {"count", go}
      BY <1>4, <1>9, <2>1, <2>3, NextCueAdvances
    <3>2. Same(n, m, {"cache"}) /\ n.cache = r.cache
      BY <1>9, <3>1 DEF Same
    <3>. QED
      BY <1>5, <3>1, <3>2 DEF PlainProc
  <2>. QED
    BY <2>2, <2>3
<1>12. /\ n.subs = script /\ n.was = r.was /\ n.left = r.left /\ n.stop = r.stop
       /\ n.miss = (r.miss \/ ~hit) /\ n.pc \in {"trunc", "count", "model", "combine"}
  BY <1>3, <1>6, <1>9, <1>11 DEF Same
<1>13. Phase(n) \in {"count", go} /\ Phase(n) \in {"count", "model", "combine"}
  BY <1>3, <1>11 DEF Advanced
<1>14. \A j \in Settled(n) : script[j] \in Speech => Audible(j)
  <2>1. CASE n.miss
    <3>1. go = "model"
      BY <1>3, <1>9, <1>12, <2>1
    <3>2. Phase(n) \in {"count", "model"} /\ n.pc \notin Speaking
      BY <1>12, <1>13, <3>1 DEF Speaking
    <3>3. Settled(n) = {}
      BY <2>1, <3>2 DEF Settled, Speaking
    <3>. QED
      BY <3>3
  <2>2. CASE ~n.miss
    <3>1. ~r.miss /\ hit /\ go = "combine"
      BY <1>3, <1>9, <1>12, <2>2
    <3>2. Settled(r) = 1..(r.i - 1)
      BY <1>7, <3>1 DEF Settled
    <3>3. \/ r.i < Len(script) /\ n.i = r.i + 1 /\ Phase(n) = "count"
          \/ ~(r.i < Len(script)) /\ Phase(n) = "combine"
      BY <1>6, <1>9, <1>11, <3>1 DEF Advanced
    <3>4. \A j \in Settled(n) : j = r.i \/ j \in Settled(r)
      BY <1>5, <1>6, <1>12, <2>2, <3>2, <3>3, SettledOn
    <3>5. script[r.i] \in Speech => Audible(r.i)
      <4>1. Empty \notin Speech
        BY SegmentAssumption
      <4>. QED
        BY <1>1, <1>6, <3>1, <4>1, HitSpeaks DEF hit
    <3>. QED
      BY <1>5, <3>4, <3>5 DEF PlainProc
  <2>. QED
    BY <2>1, <2>2
<1>15. PlainProc(n)'
  BY <1>5, <1>8, <1>11, <1>12, <1>13, <1>14 DEF PlainProc, Speaking, Audible
<1>16. PlainFiles'
  BY <1>5, <1>8, FilesSame
<1>. QED
  BY <1>10, <1>15, <1>16, PlainOn

LEMMA EnsureModelPlain ==
    ASSUME SegmentTyped, PlainInv, NEW P, Procs = {P}, EnsureModel(P)
    PROVE  PlainInv'
<1>1. PICK r : r = run[P]
  OBVIOUS
<1>2. PICK n : n = [r EXCEPT !.pc = "seg"]
  OBVIOUS
<1>3. /\ r \in RunType /\ r.pc = "model" /\ run \in [Procs -> RunType] /\ P \in Procs
      /\ LocalInv(r) /\ PlainProc(r) /\ PlainFiles /\ script \in Scripts
  BY <1>1, PlainFacts DEF EnsureModel
<1>4. UNCHANGED <<script, wav, meta, part, gens>>
  BY DEF EnsureModel, diskVars, daemonVars
<1>5. CASE Goto(P, "seg")
  <2>1. run' = [run EXCEPT ![P] = n]
    BY <1>1, <1>2, <1>3, <1>5 DEF Goto
  <2>2. Same(n, r, {}) /\ n.pc = "seg" /\ n.i = r.i
    <3>1. "seg" \in PCs
      BY DEF PCs
    <3>. QED
      BY <1>2, <1>3, <3>1, GotoFields
  <2>3. r.i = 1 /\ r.slot = 0
    BY <1>3 DEF LocalInv, Phase
  <2>4. /\ n.subs = r.subs /\ n.cache = r.cache /\ n.was = r.was /\ n.left = r.left
        /\ n.stop = r.stop /\ n.slot = 0 /\ n.i = 1
    BY <2>2, <2>3 DEF Same
  <2>5. n.slot = Used(script)[n.i - 1]
    <3>1. Used(script)[0] = 0
      BY <1>3, UsedFacts
    <3>2. 1 - 1 = 0
      OBVIOUS
    <3>. QED
      BY <2>4, <3>1, <3>2
  <2>6. Phase(n) = "seg"
    BY <2>2 DEF Phase
  <2>7. Settled(n) = {}
    <3>1. 1..(1 - 1) = {}
      OBVIOUS
    <3>. QED
      BY <2>4, <2>6, <3>1 DEF Settled
  <2>8. PlainProc(n)'
    BY <1>3, <1>4, <2>2, <2>4, <2>5, <2>6, <2>7 DEF PlainProc, Speaking
  <2>9. PlainFiles'
    BY <1>3, <1>4, FilesSame
  <2>. QED
    BY <2>1, <2>8, <2>9, PlainOn
<1>6. CASE Exit(P, 1)
  BY <1>4, <1>6, PlainLeaves
<1>. QED
  BY <1>5, <1>6 DEF EnsureModel

\* Process P settles its cue and goes on as n: w is the cue's segment now, e its
\* entry.
PlainSettling(P, r, n, w, e) ==
    /\ r \in RunType /\ r = run[P] /\ r.pc \in {"seg"} \cup Speaking
    /\ n \in RunType /\ run' = [run EXCEPT ![P] = n]
    /\ Advanced(n, r, "seg", "combine") /\ n.pc \in {"trunc", "seg", "combine"}
    /\ n.was = r.was /\ n.left = r.left /\ n.stop = r.stop
    /\ n.slot = Used(script)[r.i]
    /\ n.cache = [r.cache EXCEPT ![r.i] = e] /\ (e # None => e.content = script[r.i])
    /\ wav' = [wav EXCEPT ![r.i] = w]
    /\ w # None /\ w.says # {} => w.says = {script[r.i]}
    /\ script[r.i] \in Speech => w # None /\ w.says # {}
    /\ UNCHANGED <<script, meta, part, gens>>

LEMMA PlainSettles ==
    ASSUME SegmentTyped, PlainInv, NEW P, Procs = {P}, NEW r, NEW n, NEW w, NEW e,
           PlainSettling(P, r, n, w, e)
    PROVE  PlainInv'
<1>. USE DEF PlainSettling
<1>1. run[P].pc \in {"migrate", "count", "seg"} \cup Speaking
  OBVIOUS
<1>2. /\ r.subs = script /\ r.i \in 1..Len(script) /\ r.i \in Index
  BY <1>1, PlainCue
<1>3. /\ PlainProc(r) /\ PlainFiles /\ script \in Scripts /\ Len(script) \in Nat
      /\ wav \in [Index -> Sounds \cup {None}] /\ r.cache \in [Index -> Entries \cup {None}]
      /\ \A j \in 1..Len(script) : j \in Index
  BY PlainFacts
<1>4. /\ wav'[r.i] = w /\ n.cache[r.i] = e
      /\ \A j \in Index : j # r.i => wav'[j] = wav[j] /\ n.cache[j] = r.cache[j]
  BY <1>2, <1>3
<1>5. PlainFiles'
  <2>1. ASSUME NEW j \in Index, Audible(j)'
        PROVE  j <= Len(script) /\ wav'[j].says = {script[j]}
    <3>1. CASE j = r.i
      BY <1>2, <1>4, <2>1, <3>1 DEF Audible
    <3>2. CASE j # r.i
      BY <1>3, <1>4, <2>1, <3>2 DEF Audible, PlainFiles
    <3>. QED
      BY <3>1, <3>2
  <2>. QED
    BY <1>3, <2>1, FilesWav
<1>6. Fits(n.cache, script)
  BY <1>2, <1>3, <1>4 DEF Fits, PlainProc
<1>7. Settled(r) = 1..(r.i - 1)
  <2>1. Phase(r) = r.pc
    BY DEF Phase, Speaking
  <2>. QED
    BY <2>1 DEF Settled, Speaking
<1>8. /\ n.subs = script
      /\ \/ r.i < Len(script) /\ n.i = r.i + 1 /\ Phase(n) = "seg"
         \/ ~(r.i < Len(script)) /\ Phase(n) = "combine"
  BY <1>2 DEF Advanced
<1>9. \A j \in Settled(n) : j \in 1..Len(script) /\ (j = r.i \/ j \in Settled(r))
  BY <1>2, <1>3, <1>7, <1>8, SettledOn
<1>10. ASSUME NEW j \in Settled(n), script[j] \in Speech PROVE Audible(j)'
  <2>1. CASE j = r.i
    BY <1>4, <1>10, <2>1 DEF Audible
  <2>2. CASE j # r.i
    BY <1>3, <1>4, <1>9, <1>10, <2>2 DEF Audible, PlainProc
  <2>. QED
    BY <2>1, <2>2
<1>11. Phase(n) = "seg" => n.slot = Used(script)[n.i - 1]
  <2>. SUFFICES ASSUME Phase(n) = "seg" PROVE n.slot = Used(script)[n.i - 1]
    OBVIOUS
  <2>1. n.i = r.i + 1
    BY <1>8
  <2>2. n.i - 1 = r.i
    BY <1>2, <2>1
  <2>. QED
    BY <2>2
<1>12. n.pc \notin Speaking /\ Phase(n) # "write"
  BY <1>8 DEF Speaking
<1>13. PlainProc(n)'
  BY <1>3, <1>6, <1>8, <1>10, <1>11, <1>12 DEF PlainProc
<1>. QED
  BY <1>5, <1>13, PlainOn

\* A cue whose segment is to be settled.
LEMMA PlainSegment ==
    ASSUME SegmentTyped, PlainInv, NEW P, Procs = {P}, run[P].pc = "seg"
    PROVE  /\ run[P] \in RunType /\ run[P].pc \in {"seg"} \cup Speaking
           /\ run[P].subs = script /\ script \in Scripts
           /\ run[P].i \in 1..Len(script) /\ run[P].i \in Index /\ run[P].i <= Len(run[P].subs)
           /\ Cue(P) = script[run[P].i]
           /\ run[P].slot = Used(script)[run[P].i - 1]
           /\ "combine" \in PCs \ {"trunc", "dump"}
           /\ Used(script)[run[P].i] = run[P].slot +
                 (IF script[run[P].i] \in Speech THEN Chunks[script[run[P].i]] ELSE 0)
<1>1. /\ run[P].subs = script /\ run[P].i \in 1..Len(script) /\ run[P].i \in Index
      /\ run[P].i <= Len(run[P].subs) /\ Cue(P) = script[run[P].i]
  BY PlainCue
<1>2. run[P] \in RunType /\ PlainProc(run[P]) /\ script \in Scripts
  BY PlainFacts
<1>3. run[P].slot = Used(script)[run[P].i - 1] /\ "combine" \in PCs \ {"trunc", "dump"}
  BY <1>2 DEF PlainProc, Phase, PCs
<1>4. Used(script)[run[P].i] = run[P].slot +
         (IF script[run[P].i] \in Speech THEN Chunks[script[run[P].i]] ELSE 0)
  <2>1. run[P].slot \in Nat
    BY <1>2 DEF RunType, PartIndex
  <2>2. PICK i \in 1..Len(script) : i = run[P].i
    BY <1>1
  <2>. QED
    BY <1>2, <1>3, <2>1, <2>2, UsedFacts
<1>. QED
  BY <1>1, <1>2, <1>3, <1>4

LEMMA SegmentBlankPlain ==
    ASSUME SegmentTyped, PlainInv, NEW P, Procs = {P}, SegmentBlank(P)
    PROVE  PlainInv'
<1>1. PICK r : r = run[P]
  OBVIOUS
<1>2. PICK m : m = [r EXCEPT !.cache[r.i] = None]
  OBVIOUS
<1>3. PICK n : n = NextCue(m, "combine")
  OBVIOUS
<1>4. /\ r.pc = "seg" /\ Cue(P) = Empty /\ run' = [run EXCEPT ![P] = n]
      /\ wav' = [wav EXCEPT ![r.i] = Silence] /\ UNCHANGED <<script, meta, part, gens>>
  BY <1>1, <1>2, <1>3 DEF SegmentBlank, daemonVars
<1>5. /\ r \in RunType /\ r.pc \in {"seg"} \cup Speaking /\ r.i <= Len(r.subs)
      /\ Cue(P) = script[r.i] /\ "combine" \in PCs \ {"trunc", "dump"} /\ r.slot \in Nat
      /\ Used(script)[r.i] = r.slot + (IF script[r.i] \in Speech THEN Chunks[script[r.i]] ELSE 0)
  BY <1>1, <1>4, PlainSegment DEF RunType, PartIndex
<1>6. /\ Same(m, r, {"cache"}) /\ m.i = r.i /\ m.pc = "seg"
      /\ m.cache = [r.cache EXCEPT ![r.i] = None]
  BY <1>2, <1>4, <1>5, DropEntryFields
<1>7. /\ m \in RunType /\ m.subs = r.subs /\ m.was = r.was /\ m.left = r.left
      /\ m.stop = r.stop /\ m.slot = r.slot
  BY <1>6 DEF Same
<1>8. Advanced(n, m, "seg", "combine") /\ Same(n, m, {}) /\ n.pc \in {"seg", "combine"}
  BY <1>3, <1>5, <1>6, <1>7, NextCueAdvances
<1>9. /\ n \in RunType /\ n.was = r.was /\ n.left = r.left /\ n.stop = r.stop /\ n.slot = r.slot
      /\ n.cache = [r.cache EXCEPT ![r.i] = None] /\ Advanced(n, r, "seg", "combine")
  BY <1>6, <1>7, <1>8 DEF Same, Advanced
<1>10. script[r.i] \notin Speech
  BY <1>4, <1>5, SegmentAssumption
<1>11. PICK w, e : w = Silence /\ e = None
  OBVIOUS
<1>12. w.says = {} /\ n.slot = Used(script)[r.i]
  BY <1>5, <1>9, <1>10, <1>11, NoneFacts
<1>13. PlainSettling(P, r, n, w, e)
  BY <1>1, <1>4, <1>5, <1>8, <1>9, <1>10, <1>11, <1>12 DEF PlainSettling
<1>. QED
  BY <1>13, PlainSettles

LEMMA SegmentSymbolsPlain ==
    ASSUME SegmentTyped, PlainInv, NEW P, Procs = {P}, SegmentSymbols(P)
    PROVE  PlainInv'
<1>1. PICK r : r = run[P]
  OBVIOUS
<1>2. PICK n : n = Saving(NextCue(SetCache(r, r.i, FALSE), "combine"))
  OBVIOUS
<1>3. PICK e : e = [content |-> r.subs[r.i], fallback |-> FALSE]
  OBVIOUS
<1>4. /\ r.pc = "seg" /\ Cue(P) = Symbols /\ run' = [run EXCEPT ![P] = n]
      /\ wav' = [wav EXCEPT ![r.i] = Silence] /\ UNCHANGED <<script, meta, part, gens>>
  BY <1>1, <1>2 DEF SegmentSymbols, daemonVars
<1>5. /\ r \in RunType /\ r.pc \in {"seg"} \cup Speaking /\ r.i <= Len(r.subs) /\ r.subs = script
      /\ Cue(P) = script[r.i] /\ "combine" \in PCs \ {"trunc", "dump"} /\ r.slot \in Nat
      /\ Used(script)[r.i] = r.slot + (IF script[r.i] \in Speech THEN Chunks[script[r.i]] ELSE 0)
  BY <1>1, <1>4, PlainSegment DEF RunType, PartIndex
<1>6. /\ Advanced(n, r, "seg", "combine") /\ Same(n, r, {"cache"}) /\ n.pc = "trunc"
      /\ n.cache = [r.cache EXCEPT ![r.i] = e]
  BY <1>2, <1>3, <1>4, <1>5, SettledAdvances
<1>7. n \in RunType /\ n.was = r.was /\ n.left = r.left /\ n.stop = r.stop /\ n.slot = r.slot
  BY <1>6 DEF Same
<1>8. script[r.i] \notin Speech /\ e.content = script[r.i]
  BY <1>3, <1>4, <1>5, SegmentAssumption
<1>9. PICK w : w = Silence
  OBVIOUS
<1>10. w.says = {} /\ n.slot = Used(script)[r.i]
  BY <1>5, <1>7, <1>8, <1>9, NoneFacts
<1>11. PlainSettling(P, r, n, w, e)
  BY <1>1, <1>4, <1>5, <1>6, <1>7, <1>8, <1>9, <1>10 DEF PlainSettling
<1>. QED
  BY <1>11, PlainSettles

LEMMA SegmentCachedPlain ==
    ASSUME SegmentTyped, PlainInv, NEW P, Procs = {P}, SegmentCached(P)
    PROVE  PlainInv'
<1>1. PICK r : r = run[P]
  OBVIOUS
<1>2. PICK m : m = [r EXCEPT !.slot = @ + Chunks[Cue(P)]]
  OBVIOUS
<1>3. PICK n : n = IF Recovered(P, r.i) THEN Saving(NextCue(SetCache(m, m.i, FALSE), "combine"))
                   ELSE NextCue(m, "combine")
  OBVIOUS
<1>4. /\ r.pc = "seg" /\ Cue(P) \in Speech /\ Hit(P, r.i) /\ P \in Procs
      /\ UNCHANGED <<script, wav, meta, part, gens>>
  BY <1>1 DEF SegmentCached, diskVars, daemonVars
<1>5. /\ r \in RunType /\ r.pc \in {"seg"} \cup Speaking /\ r.i <= Len(r.subs) /\ r.subs = script
      /\ r.i \in 1..Len(script) /\ r.i \in Index
      /\ Cue(P) = script[r.i] /\ "combine" \in PCs \ {"trunc", "dump"}
      /\ Used(script)[r.i] = r.slot + (IF script[r.i] \in Speech THEN Chunks[script[r.i]] ELSE 0)
  BY <1>1, <1>4, PlainSegment
<1>6. /\ m \in RunType /\ m.pc = "seg" /\ m.i = r.i /\ m.subs = r.subs /\ m.was = r.was
      /\ m.left = r.left /\ m.stop = r.stop /\ m.cache = r.cache
      /\ m.slot = r.slot + Chunks[Cue(P)]
  <2>1. r.slot + Chunks[Cue(P)] \in PartIndex
    <3>1. /\ r.slot \in Nat /\ Room(r.i) \in Nat /\ MaxChunks \in Nat
          /\ r.slot <= Room(r.i)
          /\ \A k \in 0..(Room(r.i) + 2 * MaxChunks) : k \in PartIndex
      BY <1>1, <1>4, <1>5, CueFacts, RoomFacts, SegmentAssumption DEF RunType, PartIndex
    <3>2. Chunks[Cue(P)] \in Nat /\ Chunks[Cue(P)] <= MaxChunks
      BY <1>4, ChunkFacts
    <3>. QED
      BY <3>1, <3>2
  <2>. QED
    BY <1>2, <1>4, <1>5, <2>1 DEF RunType
<1>7. run' = [run EXCEPT ![P] = n]
  <2>1. run \in [Procs -> RunType]
    BY PlainFacts
  <2>. QED
    BY <1>1, <1>2, <1>3, <1>6, <2>1 DEF SegmentCached
<1>8. wav \in [Index -> Sounds \cup {None}] /\ r.cache \in [Index -> Entries \cup {None}]
  BY <1>1, PlainFacts
<1>9. \E e : /\ Advanced(n, m, "seg", "combine") /\ Same(n, m, {"cache"})
             /\ n.pc \in {"trunc", "seg", "combine"}
             /\ n.cache = [r.cache EXCEPT ![r.i] = e] /\ (e # None => e.content = script[r.i])
  <2>1. CASE Recovered(P, r.i)
    <3>1. PICK e : e = [content |-> m.subs[m.i], fallback |-> FALSE]
      OBVIOUS
    <3>2. /\ Advanced(n, m, "seg", "combine") /\ Same(n, m, {"cache"}) /\ n.pc = "trunc"
          /\ n.cache = [m.cache EXCEPT ![m.i] = e]
      <4>1. n = Saving(NextCue(SetCache(m, m.i, FALSE), "combine"))
        BY <1>3, <2>1
      <4>2. m.i <= Len(m.subs) /\ m.subs[m.i] \in Speech \cup {Symbols}
        BY <1>4, <1>5, <1>6
      <4>3. /\ Advanced(n, m, m.pc, "combine") /\ Same(n, m, {"cache"}) /\ n.pc = "trunc"
            /\ n.cache = [m.cache EXCEPT ![m.i] = [content |-> m.subs[m.i], fallback |-> FALSE]]
        BY <1>5, <1>6, <4>1, <4>2, SettledAdvances
      <4>. QED
        BY <1>6, <3>1, <4>3
    <3>3. e.content = script[r.i]
      BY <1>5, <1>6, <3>1
    <3>. QED
      BY <1>6, <3>2, <3>3
  <2>2. CASE ~Recovered(P, r.i)
    <3>1. Advanced(n, m, "seg", "combine") /\ Same(n, m, {}) /\ n.pc \in {"seg", "combine"}
      BY <1>3, <1>5, <1>6, <2>2, NextCueAdvances
    <3>2. PICK e : e = r.cache[r.i]
      OBVIOUS
    <3>3. Same(n, m, {"cache"}) /\ n.cache = r.cache
      BY <1>6, <3>1 DEF Same
    <3>4. n.cache = [r.cache EXCEPT ![r.i] = e]
      BY <1>5, <1>8, <3>2, <3>3
    <3>5. e # None => e.content = script[r.i]
      BY <1>4, <1>5, <1>1, <3>2 DEF Hit
    <3>. QED
      BY <3>1, <3>3, <3>4, <3>5
  <2>. QED
    BY <2>1, <2>2
<1>10. PICK e : /\ Advanced(n, m, "seg", "combine") /\ Same(n, m, {"cache"})
                /\ n.pc \in {"trunc", "seg", "combine"}
                /\ n.cache = [r.cache EXCEPT ![r.i] = e] /\ (e # None => e.content = script[r.i])
  BY <1>9
<1>11. /\ n \in RunType /\ n.was = r.was /\ n.left = r.left /\ n.stop = r.stop
       /\ n.slot = Used(script)[r.i] /\ Advanced(n, r, "seg", "combine")
  BY <1>4, <1>5, <1>6, <1>10 DEF Same, Advanced
<1>12. PICK w : w = wav[r.i]
  OBVIOUS
<1>13. /\ wav' = [wav EXCEPT ![r.i] = w]
       /\ w.says = {script[r.i]} /\ w # None /\ w.says # {}
  <2>1. Audible(r.i) /\ wav[r.i].says = {script[r.i]}
    BY <1>1, <1>4, <1>5, HitSpeaks
  <2>. QED
    BY <1>4, <1>8, <1>12, <2>1 DEF Audible
<1>14. PlainSettling(P, r, n, w, e)
  BY <1>1, <1>4, <1>5, <1>7, <1>10, <1>11, <1>13 DEF PlainSettling
<1>. QED
  BY <1>14, PlainSettles

LEMMA SegmentMissingPlain ==
    ASSUME SegmentTyped, PlainInv, NEW P, Procs = {P}, SegmentMissing(P)
    PROVE  PlainInv'
<1>1. PICK r : r = run[P]
  OBVIOUS
<1>2. PICK n : n = [r EXCEPT !.pc = "request", !.chunk = 1, !.att = 0, !.rec = 0, !.said = Silence]
  OBVIOUS
<1>3. /\ r \in RunType /\ r.pc = "seg" /\ run \in [Procs -> RunType] /\ P \in Procs
      /\ PlainProc(r) /\ PlainFiles
  BY <1>1, PlainFacts DEF SegmentMissing
<1>4. UNCHANGED <<script, wav, meta, part, gens>>
  BY DEF SegmentMissing, diskVars, daemonVars
<1>5. CASE r.stop
  BY <1>1, <1>4, <1>5, PlainLeaves DEF SegmentMissing
<1>6. CASE ~r.stop
  <2>1. run' = [run EXCEPT ![P] = n]
    BY <1>1, <1>2, <1>3, <1>6 DEF SegmentMissing
  <2>2. /\ n.subs = r.subs /\ n.cache = r.cache /\ n.was = r.was
        /\ n.left = r.left /\ n.stop = r.stop /\ n.slot = r.slot
        /\ n.i = r.i /\ n.pc = "request" /\ n.chunk = 1 /\ n.att = 0 /\ n.rec = 0
        /\ n.said = Silence
    BY <1>2, <1>3 DEF RunType
  <2>3. Phase(n) = "request" /\ Phase(r) = "seg"
    BY <1>3, <2>2 DEF Phase
  <2>4. Settled(n) = 1..(r.i - 1) /\ Settled(r) = 1..(r.i - 1)
    BY <2>2, <2>3 DEF Settled, Speaking
  <2>5. n.slot + 1 = Used(script)[n.i - 1] + n.chunk
    BY <1>3, <2>2, <2>3 DEF PlainProc
  <2>6. n.said.says = {}
    BY <2>2, NoneFacts
  <2>7. PlainProc(n)'
    BY <1>3, <1>4, <2>2, <2>3, <2>4, <2>5, <2>6 DEF PlainProc, Audible
  <2>8. PlainFiles'
    BY <1>3, <1>4, FilesSame
  <2>. QED
    BY <2>1, <2>7, <2>8, PlainOn
<1>. QED
  BY <1>5, <1>6

\* A chunk is generated: its number belongs to the cue.
LEMMA PlainSpeaking ==
    ASSUME SegmentTyped, PlainInv, NEW P, Procs = {P}, run[P].pc \in Speaking
    PROVE  /\ run[P] \in RunType /\ run[P].subs = script /\ script \in Scripts
           /\ run[P].i \in 1..Len(script) /\ run[P].i \in Index
           /\ Cue(P) = script[run[P].i] /\ Cue(P) \in Speech
           /\ run[P].slot \in Nat /\ run[P].slot \in PartIndex /\ run[P].slot + 1 \in PartIndex
           /\ run[P].chunk \in Nat /\ Chunks[Cue(P)] \in Nat /\ run[P].chunk <= Chunks[Cue(P)]
           /\ Used(script)[run[P].i - 1] \in Nat
           /\ run[P].slot + 1 = Used(script)[run[P].i - 1] + run[P].chunk
           /\ Used(script)[run[P].i] = Used(script)[run[P].i - 1] + Chunks[Cue(P)]
           /\ Owns(script, run[P].i, run[P].slot)
<1>1. PICK r : r = run[P]
  OBVIOUS
<1>2. /\ r.subs = script /\ r.i \in 1..Len(script) /\ r.i \in Index /\ Cue(P) = script[r.i]
  BY <1>1, PlainCue
<1>3. /\ r \in RunType /\ PlainProc(r) /\ LocalInv(r) /\ script \in Scripts /\ P \in Procs
      /\ r.pc \in Speaking /\ Len(script) \in Nat
  BY <1>1, PlainFacts
<1>4. /\ Cue(P) \in Speech /\ r.chunk \in Nat /\ Chunks[Cue(P)] \in Nat /\ r.slot \in Nat
      /\ r.chunk <= Chunks[Cue(P)]
  BY <1>1, <1>3, SpeakingFacts
<1>5. r.slot + 1 \in PartIndex
  BY <1>1, <1>3, SlotFacts
<1>6. r.slot \in PartIndex /\ r.chunk >= 1
  BY <1>3 DEF RunType
<1>7. PICK i \in 1..Len(script) : i = r.i
  BY <1>2
<1>8. PICK u : u = Used(script)[i - 1]
  OBVIOUS
<1>9. u \in Nat /\ Used(script)[i] = u + Chunks[script[i]]
  <2>1. i - 1 \in 0..Len(script)
    BY <1>3
  <2>. QED
    BY <1>2, <1>3, <1>4, <1>7, <1>8, <2>1, UsedFacts
<1>10. r.slot + 1 = u + r.chunk
  BY <1>3, <1>7, <1>8 DEF PlainProc
<1>11. Owns(script, i, r.slot)
  <2>1. u <= r.slot /\ r.slot < u + Chunks[script[i]]
    <3>1. PICK c : c = Chunks[script[i]]
      OBVIOUS
    <3>2. c \in Nat /\ r.chunk \in Nat /\ r.chunk <= c
      BY <1>2, <1>4, <1>7, <3>1
    <3>3. u \in Nat /\ r.slot \in Nat /\ r.chunk >= 1
      BY <1>4, <1>6, <1>9
    <3>4. u <= r.slot /\ r.slot < u + c
      BY <1>10, <3>2, <3>3
    <3>. QED
      BY <3>1, <3>4
  <2>. QED
    BY <1>2, <1>4, <1>7, <1>8, <1>9, <2>1 DEF Owns
<1>. QED
  BY <1>1, <1>2, <1>3, <1>4, <1>5, <1>6, <1>7, <1>8, <1>9, <1>10, <1>11

\* The process goes on with the cue: its next chunk, or the same one again.
LEMMA PlainSpeaks ==
    ASSUME SegmentTyped, PlainInv, NEW P, Procs = {P},
           NEW r, r = run[P], r.pc \in Speaking,
           NEW n, run' = [run EXCEPT ![P] = n], n.pc \in Speaking,
           n.subs = r.subs, n.cache = r.cache, n.was = r.was, n.left = r.left, n.stop = r.stop,
           n.i = r.i, n.slot + 1 = Used(script)[r.i - 1] + n.chunk, n.att = n.rec,
           n.said.says \subseteq {script[r.i]},
           PlainFiles', UNCHANGED <<script, wav>>
    PROVE  PlainInv'
<1>1. PlainProc(r)
  BY PlainFacts
<1>2. Phase(r) = r.pc /\ Phase(n) = n.pc
  BY DEF Phase, Speaking
<1>3. Settled(n) = Settled(r)
  BY <1>2 DEF Settled, Speaking
<1>4. Phase(n) # "seg" /\ Phase(n) # "write"
  BY <1>2 DEF Speaking
<1>5. r.subs = script
  BY <1>1 DEF PlainProc, Speaking
<1>6. PlainProc(n)'
  BY <1>1, <1>3, <1>4, <1>5 DEF PlainProc, Audible
<1>. QED
  BY <1>6, PlainOn

\* The same chunk again, from another place.
LEMMA PlainWaits ==
    ASSUME SegmentTyped, PlainInv, NEW P, Procs = {P}, run[P].pc \in Speaking,
           NEW q \in Speaking, Goto(P, q), PlainFiles', UNCHANGED <<script, wav>>
    PROVE  PlainInv'
<1>1. PICK r : r = run[P]
  OBVIOUS
<1>2. PICK n : n = [r EXCEPT !.pc = q]
  OBVIOUS
<1>3. /\ r \in RunType /\ P \in Procs /\ run \in [Procs -> RunType] /\ PlainProc(r)
      /\ r.pc \in Speaking
  BY <1>1, PlainFacts
<1>4. run' = [run EXCEPT ![P] = n]
  BY <1>1, <1>2, <1>3 DEF Goto
<1>5. /\ n.pc = q /\ n.subs = r.subs /\ n.cache = r.cache /\ n.was = r.was /\ n.left = r.left
      /\ n.stop = r.stop /\ n.i = r.i /\ n.slot = r.slot /\ n.chunk = r.chunk
      /\ n.att = r.att /\ n.rec = r.rec /\ n.said = r.said
  BY <1>2, <1>3 DEF RunType
<1>6. /\ r.slot + 1 = Used(script)[r.i - 1] + r.chunk /\ r.att = r.rec
      /\ r.said.says \subseteq {script[r.i]}
  BY <1>3 DEF PlainProc
<1>. QED
  BY <1>1, <1>3, <1>4, <1>5, <1>6, PlainSpeaks

LEMMA RequestPlain ==
    ASSUME SegmentTyped, PlainInv, NEW P, Procs = {P}, Request(P)
    PROVE  PlainInv'
<1>1. PICK r : r = run[P]
  OBVIOUS
<1>2. /\ r.pc \in Speaking /\ PlainProc(r) /\ PlainFiles
      /\ "wait" \in Speaking /\ "lost" \in Speaking
  BY <1>1, PlainFacts DEF Request, Speaking
<1>3. ~r.stop
  BY <1>2 DEF PlainProc
<1>4. PICK new : new = [proc |-> P, slot |-> r.slot, text |-> Cue(P), live |-> TRUE]
  OBVIOUS
<1>5. CASE Goto(P, "wait") /\ gens' = gens \cup {new} /\ UNCHANGED <<script, wav, meta, part>>
  <2>1. /\ Owns(script, r.i, r.slot) /\ Cue(P) = script[r.i] /\ r.slot \in Nat
        /\ script \in Scripts /\ r.i \in 1..Len(script)
    BY <1>1, <1>2, PlainSpeaking
  <2>2. ASSUME NEW g \in gens', NEW i \in 1..Len(script), Owns(script, i, g.slot)
        PROVE  g.text = script[i]
    <3>1. CASE g \in gens
      BY <1>2, <2>2, <3>1 DEF PlainFiles
    <3>2. CASE g = new
      <4>1. g.slot = r.slot /\ g.text = script[r.i]
        BY <1>4, <2>1, <3>2
      <4>2. PICK k \in Nat : k = r.slot
        BY <2>1
      <4>3. PICK j \in 1..Len(script) : j = r.i
        BY <2>1
      <4>4. Owns(script, j, k) /\ Owns(script, i, k)
        BY <2>1, <2>2, <4>1, <4>2, <4>3
      <4>5. i = j
        BY <2>1, <4>4, OneOwner
      <4>. QED
        BY <4>1, <4>3, <4>5
    <3>. QED
      BY <1>5, <3>1, <3>2
  <2>3. PlainFiles'
    BY <1>2, <1>5, <2>2 DEF PlainFiles, Audible
  <2>. QED
    BY <1>1, <1>2, <1>5, <2>3, PlainWaits
<1>6. CASE Goto(P, "lost") /\ UNCHANGED <<script, wav, meta, part, gens>>
  <2>1. PlainFiles'
    BY <1>2, <1>6, FilesSame
  <2>. QED
    BY <1>1, <1>2, <1>6, <2>1, PlainWaits
<1>. QED
  BY <1>1, <1>3, <1>4, <1>5, <1>6 DEF Request, diskVars

\* The daemon ends a generation, also one that nobody waits for any more.
LEMMA GeneratedPlain ==
    ASSUME SegmentTyped, PlainInv, NEW P, Procs = {P}, NEW g \in gens, Generated(g),
           used'["fault"] = 0
    PROVE  PlainInv'
<1>1. used \in [Events -> Nat] /\ "fault" \in Events
  BY DEF SegmentTyped, FilesTyped, Events
<1>2. ~Fault("tts") /\ ~Fault("long")
  BY <1>1 DEF Fault, Spend
<1>3. /\ gens' = gens \ {g} /\ part' = [part EXCEPT ![g.slot] = [says |-> {g.text}, long |-> FALSE]]
      /\ (IF g.live THEN Goto(g.proc, "read") ELSE UNCHANGED run)
      /\ UNCHANGED <<script, wav, meta>>
  BY <1>2 DEF Generated
<1>4. /\ PlainFiles /\ P \in Procs /\ part \in [PartIndex -> Sounds \cup {None}]
      /\ gens \subseteq GenType
  BY PlainFacts
<1>5. PlainFiles'
  <2>1. ASSUME NEW i \in 1..Len(script), NEW k \in PartIndex, Owns(script, i, k), part'[k] # None
        PROVE  part'[k].says = {script[i]}
    <3>1. CASE k = g.slot
      <4>1. part'[k] = [says |-> {g.text}, long |-> FALSE]
        BY <1>3, <1>4, <3>1
      <4>2. g.text = script[i]
        BY <1>4, <2>1, <3>1 DEF PlainFiles
      <4>. QED
        BY <4>1, <4>2
    <3>2. CASE k # g.slot
      <4>1. part'[k] = part[k]
        BY <1>3, <1>4, <3>2
      <4>. QED
        BY <1>4, <2>1, <4>1 DEF PlainFiles
    <3>. QED
      BY <3>1, <3>2
  <2>. QED
    BY <1>3, <1>4, <2>1 DEF PlainFiles, Audible
<1>6. CASE g.live
  <2>1. g.proc = P /\ run[P].pc = "wait"
    BY <1>4, <1>6 DEF SegmentTyped, GensInv, GenType
  <2>2. run[P].pc \in Speaking /\ "read" \in Speaking
    BY <2>1 DEF Speaking
  <2>. QED
    BY <1>3, <1>5, <1>6, <2>1, <2>2, PlainWaits
<1>7. CASE ~g.live
  <2>1. run' = [run EXCEPT ![P] = run[P]]
    BY <1>3, <1>7, PlainFacts
  <2>2. PICK n : n = run[P]
    OBVIOUS
  <2>3. PlainProc(n)
    BY <2>2, PlainFacts
  <2>4. PlainProc(n)'
    BY <1>3, <2>3 DEF PlainProc, Audible
  <2>5. run' = [run EXCEPT ![P] = n]
    BY <2>1, <2>2
  <2>. QED
    BY <1>5, <2>4, <2>5, PlainOn
<1>. QED
  BY <1>6, <1>7

LEMMA ReadChunkPlain ==
    ASSUME SegmentTyped, PlainInv, NEW P, Procs = {P}, ReadChunk(P)
    PROVE  PlainInv'
<1>1. PICK r : r = run[P]
  OBVIOUS
<1>2. PICK heard : heard = part[r.slot]
  OBVIOUS
<1>3. PICK said : said = [says |-> r.said.says \cup heard.says, long |-> r.said.long \/ heard.long]
  OBVIOUS
<1>4. PICK k : k = [r EXCEPT !.said = said, !.slot = @ + 1]
  OBVIOUS
<1>5. /\ r \in RunType /\ r.pc = "read" /\ r.pc \in Speaking /\ P \in Procs
      /\ run \in [Procs -> RunType] /\ PlainProc(r) /\ PlainFiles
      /\ part \in [PartIndex -> Sounds \cup {None}]
  BY <1>1, PlainFacts DEF ReadChunk, Speaking
<1>6. /\ r.subs = script /\ r.i \in 1..Len(script) /\ r.i \in Index /\ script \in Scripts
      /\ Cue(P) = script[r.i] /\ Cue(P) \in Speech
      /\ r.slot \in Nat /\ r.slot \in PartIndex /\ r.slot + 1 \in PartIndex
      /\ r.chunk \in Nat /\ Chunks[Cue(P)] \in Nat
      /\ Used(script)[r.i - 1] \in Nat /\ r.slot + 1 = Used(script)[r.i - 1] + r.chunk
      /\ Used(script)[r.i] = Used(script)[r.i - 1] + Chunks[Cue(P)]
      /\ Owns(script, r.i, r.slot)
  BY <1>1, <1>5, PlainSpeaking
<1>7. heard \in Sounds /\ heard.says = {script[r.i]}
  <2>1. heard # None
    BY <1>1, <1>2, <1>5 DEF SegmentTyped, ProcsTyped
  <2>. QED
    BY <1>2, <1>5, <1>6, <2>1 DEF PlainFiles
<1>8. ~IsSilent(heard) /\ UNCHANGED <<script, meta, part, gens>>
  BY <1>7 DEF IsSilent, ReadChunk, daemonVars, Retry, GiveUp, diskVars
<1>9. said \in Sounds /\ said.says = {script[r.i]}
  <2>1. /\ r.said.says \cup heard.says \in SUBSET Speech
        /\ (r.said.long \/ heard.long) \in BOOLEAN
    BY <1>5, <1>7 DEF RunType, Sounds
  <2>2. r.said.says \subseteq {script[r.i]}
    BY <1>5 DEF PlainProc
  <2>. QED
    BY <1>3, <1>7, <2>1, <2>2 DEF Sounds
<1>10. /\ k \in RunType /\ k.said = said /\ k.subs = r.subs /\ k.cache = r.cache /\ k.was = r.was
       /\ k.left = r.left /\ k.stop = r.stop /\ k.i = r.i /\ k.slot = r.slot + 1
       /\ k.chunk = r.chunk
  BY <1>4, <1>5, <1>6, <1>9 DEF RunType
<1>11. CASE /\ run' = [run EXCEPT ![P] = [k EXCEPT !.chunk = @ + 1, !.att = 0, !.rec = 0,
                                                    !.pc = "request"]]
            /\ UNCHANGED diskVars
  <2>1. PICK n : n = [k EXCEPT !.chunk = @ + 1, !.att = 0, !.rec = 0, !.pc = "request"]
    OBVIOUS
  <2>2. /\ n.pc = "request" /\ n.said = said /\ n.att = 0 /\ n.rec = 0
        /\ n.subs = r.subs /\ n.cache = r.cache /\ n.was = r.was /\ n.left = r.left
        /\ n.stop = r.stop /\ n.i = r.i /\ n.slot = r.slot + 1 /\ n.chunk = r.chunk + 1
    BY <1>10, <2>1 DEF RunType
  <2>3. n.slot + 1 = Used(script)[r.i - 1] + n.chunk
    BY <1>6, <2>2
  <2>4. n.pc \in Speaking /\ n.said.says \subseteq {script[r.i]}
    BY <1>9, <2>2 DEF Speaking
  <2>5. run' = [run EXCEPT ![P] = n] /\ UNCHANGED <<script, wav>>
    BY <1>8, <1>11, <2>1 DEF diskVars
  <2>6. PlainFiles'
    BY <1>5, <1>8, <2>5, FilesSame
  <2>. QED
    BY <1>1, <1>5, <2>2, <2>3, <2>4, <2>5, <2>6, PlainSpeaks
<1>12. CASE /\ r.chunk = Chunks[Cue(P)] /\ wav' = [wav EXCEPT ![r.i] = said]
            /\ run' = [run EXCEPT ![P] =
                    Saving(NextCue(SetCache(Finished(k), r.i, FALSE), "combine"))]
  <2>1. PICK f : f = Finished(k)
    OBVIOUS
  <2>2. Same(f, k, {"tries"}) /\ f.pc = "seg" /\ f.i = r.i
    BY <1>10, <2>1, FinishedFields
  <2>3. /\ f \in RunType /\ f.subs = script /\ f.cache = r.cache /\ f.was = r.was
        /\ f.left = r.left /\ f.stop = r.stop /\ f.slot = r.slot + 1
    BY <1>6, <1>10, <2>2 DEF Same
  <2>4. PICK n : n = Saving(NextCue(SetCache(f, f.i, FALSE), "combine"))
    OBVIOUS
  <2>5. PICK e : e = [content |-> f.subs[f.i], fallback |-> FALSE]
    OBVIOUS
  <2>6. "combine" \in PCs \ {"trunc", "dump"}
    BY DEF PCs
  <2>7. /\ Advanced(n, f, "seg", "combine") /\ Same(n, f, {"cache"}) /\ n.pc = "trunc"
        /\ n.cache = [f.cache EXCEPT ![f.i] = e]
    <3>1. f.i <= Len(f.subs) /\ f.subs[f.i] \in Speech \cup {Symbols} /\ f.pc \notin {"trunc", "dump"}
      BY <1>6, <2>2, <2>3
    <3>. QED
      BY <2>2, <2>3, <2>4, <2>5, <2>6, <3>1, SettledAdvances
  <2>8. /\ n \in RunType /\ n.was = r.was /\ n.left = r.left /\ n.stop = r.stop
        /\ n.slot = r.slot + 1 /\ n.pc = "trunc"
        /\ n.cache = [r.cache EXCEPT ![r.i] = e] /\ Advanced(n, r, "seg", "combine")
    BY <1>6, <2>2, <2>3, <2>7 DEF Same, Advanced
  <2>9. run' = [run EXCEPT ![P] = n]
    BY <1>12, <2>1, <2>2, <2>4
  <2>10. e.content = script[r.i]
    BY <2>2, <2>3, <2>5
  <2>11. said.says # {} /\ said # None
    BY <1>9, NoneFacts
  <2>12. n.slot = Used(script)[r.i]
    BY <1>6, <1>12, <2>8
  <2>13. PlainSettling(P, r, n, said, e)
    BY <1>1, <1>5, <1>8, <1>9, <1>12, <2>8, <2>9, <2>10, <2>11, <2>12 DEF PlainSettling
  <2>. QED
    BY <2>13, PlainSettles
<1>. QED
  BY <1>1, <1>2, <1>3, <1>4, <1>8, <1>11, <1>12 DEF ReadChunk

LEMMA RecoverPlain ==
    ASSUME SegmentTyped, PlainInv, NEW P, Procs = {P}, Recover(P)
    PROVE  PlainInv'
<1>1. PICK r : r = run[P]
  OBVIOUS
<1>2. PICK n : n = [r EXCEPT !.att = @ + 1, !.rec = @ + 1, !.pc = "request"]
  OBVIOUS
<1>3. /\ r \in RunType /\ r.pc \in Speaking /\ P \in Procs /\ run \in [Procs -> RunType]
      /\ PlainProc(r) /\ PlainFiles
  BY <1>1, PlainFacts DEF Recover, Speaking
<1>4. /\ r.att = r.rec /\ r.slot + 1 = Used(script)[r.i - 1] + r.chunk
      /\ r.said.says \subseteq {script[r.i]}
  BY <1>3 DEF PlainProc
<1>5. CASE Exit(P, 1) /\ UNCHANGED <<script, wav, meta, part, gens>>
  BY <1>5, PlainLeaves
<1>6. CASE run' = [run EXCEPT ![P] = n] /\ UNCHANGED <<script, wav, meta, part, gens>>
  <2>1. /\ n.pc = "request" /\ n.said = r.said /\ n.att = r.att + 1 /\ n.rec = r.rec + 1
        /\ n.subs = r.subs /\ n.cache = r.cache /\ n.was = r.was /\ n.left = r.left
        /\ n.stop = r.stop /\ n.i = r.i /\ n.slot = r.slot /\ n.chunk = r.chunk
    BY <1>2, <1>3 DEF RunType
  <2>2. n.pc \in Speaking /\ n.att = n.rec
    BY <1>4, <2>1 DEF Speaking
  <2>3. PlainFiles'
    BY <1>3, <1>6, FilesSame
  <2>. QED
    BY <1>1, <1>3, <1>4, <1>6, <2>1, <2>2, <2>3, PlainSpeaks
<1>7. \/ Exit(P, 1) /\ UNCHANGED <<script, wav, meta, part, gens>>
      \/ run' = [run EXCEPT ![P] = n] /\ UNCHANGED <<script, wav, meta, part, gens>>
  <2>1. ASSUME run' = [run EXCEPT ![P].att = @ + 1, ![P].rec = @ + 1, ![P].pc = "request"]
        PROVE  run' = [run EXCEPT ![P] = n]
    BY <1>1, <1>2, <1>3, <2>1
  <2>2. r.rec < 2 => r.att < 2
    BY <1>4
  <2>. QED
    BY <1>1, <2>1, <2>2 DEF Recover, diskVars
<1>. QED
  BY <1>5, <1>6, <1>7

LEMMA CombinePlain ==
    ASSUME SegmentTyped, PlainInv, NEW P, Procs = {P}, Combine(P)
    PROVE  PlainInv'
<1>1. PICK r : r = run[P]
  OBVIOUS
<1>2. PICK mix : mix = [i \in 1..Len(r.subs) |-> wav[i]]
  OBVIOUS
<1>3. PICK n : n = [r EXCEPT !.pc = "trunc", !.then = "write", !.mix = mix]
  OBVIOUS
<1>4. /\ r \in RunType /\ r.pc = "combine" /\ P \in Procs /\ run \in [Procs -> RunType]
      /\ PlainProc(r) /\ PlainFiles /\ script \in Scripts /\ Len(script) \in Nat
      /\ wav \in [Index -> Sounds \cup {None}]
      /\ \A j \in 1..Len(script) : j \in Index
  BY <1>1, PlainFacts DEF Combine
<1>5. UNCHANGED <<script, wav, meta, part, gens>>
  BY DEF Combine, diskVars, daemonVars
<1>6. CASE \E c : Exit(P, c)
  BY <1>5, <1>6, PlainLeaves
<1>7. CASE run' = [run EXCEPT ![P] = n]
  <2>1. /\ n.pc = "trunc" /\ n.then = "write" /\ n.subs = r.subs /\ n.cache = r.cache
        /\ n.was = r.was /\ n.left = r.left /\ n.stop = r.stop /\ n.mix = mix
    BY <1>3, <1>4 DEF RunType
  <2>2. Phase(n) = "write" /\ Phase(r) = "combine"
    BY <1>4, <2>1 DEF Phase
  <2>3. r.subs = script
    BY <1>4 DEF PlainProc
  <2>4. Settled(r) = 1..Len(script) /\ Settled(n) = 1..Len(script)
    BY <2>1, <2>2, <2>3 DEF Settled
  <2>5. Len(mix) = Len(script) /\ \A j \in 1..Len(script) : mix[j] = wav[j]
    BY <1>2, <1>4, <2>3
  <2>6. ASSUME NEW j \in 1..Len(script) PROVE Right(wav[j], j, script, {})
    <3>1. Audible(j) => wav[j].says = {script[j]}
      BY <1>4 DEF PlainFiles
    <3>2. script[j] \in Speech => Audible(j)
      BY <1>4, <2>4 DEF PlainProc
    <3>3. Audible(j) => wav[j].says \subseteq Speech
      BY <1>4 DEF Audible, Sounds
    <3>4. script[j] \notin Speech => ~Audible(j)
      BY <3>1, <3>3
    <3>. QED
      BY <3>1, <3>2, <3>4 DEF Right, Audible
  <2>7. \A j \in 1..Len(script) : Right(mix[j], j, script, {})
    BY <2>5, <2>6
  <2>8. PlainProc(n)'
    BY <1>4, <1>5, <2>1, <2>2, <2>3, <2>4, <2>5, <2>7 DEF PlainProc, Speaking, Audible
  <2>9. PlainFiles'
    BY <1>4, <1>5, FilesSame
  <2>. QED
    BY <1>7, <2>8, <2>9, PlainOn
<1>8. (\E c : Exit(P, c)) \/ run' = [run EXCEPT ![P] = n]
  <2>1. ASSUME run' = [run EXCEPT ![P] =
                          Saving([@ EXCEPT !.pc = "write", !.mix = [i \in 1..Len(r.subs) |-> wav[i]]])]
        PROVE  run' = [run EXCEPT ![P] = n]
    <3>1. PICK k : k = [r EXCEPT !.pc = "write", !.mix = mix]
      OBVIOUS
    <3>2. run' = [run EXCEPT ![P] = Saving(k)]
      BY <1>1, <1>2, <1>4, <2>1, <3>1
    <3>3. Saving(k) = n
      BY <1>3, <1>4, <3>1 DEF Saving, RunType
    <3>. QED
      BY <3>2, <3>3
  <2>. QED
    BY <1>1, <2>1 DEF Combine
<1>. QED
  BY <1>6, <1>7, <1>8

LEMMA WriteOutputPlain ==
    ASSUME SegmentTyped, PlainInv, NEW P, Procs = {P}, WriteOutput(P)
    PROVE  PlainInv' /\ OutputSpeaks'
<1>1. PICK r : r = run[P]
  OBVIOUS
<1>2. r \in RunType /\ r.pc = "write" /\ PlainProc(r)
  BY <1>1, PlainFacts DEF WriteOutput
<1>3. Phase(r) = "write" /\ r.subs = script
  BY <1>2 DEF Phase, PlainProc
<1>4. Len(r.mix) = Len(r.subs) /\ \A j \in 1..Len(r.subs) : Right(r.mix[j], j, r.subs, {})
  BY <1>2, <1>3 DEF PlainProc
<1>5. PlainInv'
  BY PlainLeaves DEF WriteOutput, daemonVars
<1>6. ASSUME NEW i \in 1..Len(r.subs)
      PROVE  IF r.subs[i] \in Speech
             THEN \/ r.mix[i].says = {r.subs[i]}
                  \/ IsSilent(r.mix[i]) /\ i \in r.failed
             ELSE IsSilent(r.mix[i])
  <2>1. i \in 1..Len(r.mix) /\ r.mix \in Seq(Sounds)
    BY <1>2, <1>4 DEF RunType
  <2>2. r.mix[i] \in Sounds
    BY <2>1
  <2>3. r.mix[i] # None
    BY <2>2, NoneFacts
  <2>. QED
    BY <1>4, <2>3 DEF Right, IsSilent
<1>7. output' = [subs |-> r.subs, mix |-> r.mix, failed |-> r.failed]
  BY <1>1 DEF WriteOutput
<1>. QED
  BY <1>5, <1>6, <1>7 DEF OutputSpeaks

\* A generation that is forgotten still speaks the text of its number's cue.
LEMMA ForgetPlain ==
    ASSUME PlainFiles, gens \subseteq GenType, NEW P, gens' = Forget(P),
           UNCHANGED <<script, wav, meta, part>>
    PROVE  PlainFiles'
<1>1. ASSUME NEW g \in gens' PROVE \E h \in gens : g.slot = h.slot /\ g.text = h.text
  BY <1>1 DEF Forget, GenType
<1>. QED
  BY <1>1 DEF PlainFiles, Audible

LEMMA KillPlain ==
    ASSUME SegmentTyped, PlainInv, NEW P, Procs = {P}, Kill(P)
    PROVE  PlainInv'
<1>1. PlainFiles'
  BY PlainFacts, ForgetPlain DEF Kill, diskVars
<1>. QED
  BY <1>1, PlainExits DEF Kill, Exit

LEMMA TimeoutPlain ==
    ASSUME SegmentTyped, PlainInv, NEW P, Procs = {P}, Timeout(P)
    PROVE  PlainInv'
<1>1. PlainFiles'
  BY PlainFacts, ForgetPlain DEF Timeout, diskVars
<1>2. run[P].pc \in Speaking /\ "lost" \in Speaking
  BY DEF Timeout, Speaking
<1>. QED
  BY <1>1, <1>2, PlainWaits DEF Timeout, diskVars

\* Every step keeps the files as they have to be, while nothing is edited and
\* nothing fails.
LEMMA PlainStep ==
    ASSUME SegmentTyped, PlainInv, OutputSpeaks, NEW P, Procs = {P},
           [Next]_vars, used'["edit"] = 0, used'["fault"] = 0
    PROVE  PlainInv' /\ OutputSpeaks'
<1>1. output' = output => OutputSpeaks'
  BY DEF OutputSpeaks
<1>2. CASE UNCHANGED vars
  <2>1. PlainInv'
    BY <1>2 DEF vars, PlainInv, PlainProc, PlainFiles, Audible
  <2>. QED
    BY <1>1, <1>2, <2>1 DEF vars
<1>3. CASE Start(P)
  BY <1>1, <1>3, StartPlain DEF Start, diskVars
<1>4. CASE Attach(P)
  BY <1>1, <1>4, AttachPlain DEF Attach, diskVars
<1>5. CASE Load(P)
  BY <1>1, <1>5, LoadPlain DEF Load, diskVars
<1>6. CASE MigrateBlank(P)
  BY <1>1, <1>6, MigrateBlankPlain DEF MigrateBlank, diskVars
<1>7. CASE MigrateNew(P)
  BY <1>1, <1>7, MigrateNewPlain DEF MigrateNew
<1>8. CASE MigrateKnown(P)
  BY <1>1, <1>8, MigrateKnownPlain DEF MigrateKnown
<1>9. CASE MigrateStale(P)
  BY <1>1, <1>9, MigrateStalePlain DEF MigrateStale
<1>10. CASE SaveOpen(P)
  BY <1>1, <1>10, SaveOpenPlain DEF SaveOpen
<1>11. CASE SaveDump(P)
  BY <1>1, <1>11, SaveDumpPlain DEF SaveDump
<1>12. CASE CountOne(P)
  BY <1>1, <1>12, CountOnePlain DEF CountOne, diskVars
<1>13. CASE EnsureModel(P)
  BY <1>1, <1>13, EnsureModelPlain DEF EnsureModel, diskVars
<1>14. CASE SegmentBlank(P)
  BY <1>1, <1>14, SegmentBlankPlain DEF SegmentBlank
<1>15. CASE SegmentSymbols(P)
  BY <1>1, <1>15, SegmentSymbolsPlain DEF SegmentSymbols
<1>16. CASE SegmentCached(P)
  BY <1>1, <1>16, SegmentCachedPlain DEF SegmentCached, diskVars
<1>17. CASE SegmentMissing(P)
  BY <1>1, <1>17, SegmentMissingPlain DEF SegmentMissing, diskVars
<1>18. CASE Request(P)
  BY <1>1, <1>18, RequestPlain DEF Request, GiveUp, diskVars
<1>19. CASE ReadChunk(P)
  BY <1>1, <1>19, ReadChunkPlain DEF ReadChunk, Retry, GiveUp, diskVars
<1>20. CASE Recover(P)
  BY <1>1, <1>20, RecoverPlain DEF Recover, GiveUp, diskVars
<1>21. CASE Combine(P)
  BY <1>1, <1>21, CombinePlain DEF Combine, diskVars
<1>22. CASE WriteOutput(P)
  BY <1>22, WriteOutputPlain
<1>23. CASE Kill(P)
  BY <1>1, <1>23, KillPlain DEF Kill, diskVars
<1>24. CASE Timeout(P)
  BY <1>1, <1>24, TimeoutPlain DEF Timeout, diskVars
<1>25. CASE \E g \in gens : Generated(g)
  <2>1. PICK g \in gens : Generated(g)
    BY <1>25
  <2>2. output' = output
    BY <2>1 DEF Generated, GiveUp, diskVars
  <2>. QED
    BY <1>1, <2>1, <2>2, GeneratedPlain
<1>26. ~(Terminate(P) \/ DaemonDies)
  <2>1. used \in [Events -> Nat] /\ "fault" \in Events
    BY DEF SegmentTyped, FilesTyped, Events
  <2>2. Terminate(P) \/ DaemonDies => used' = [used EXCEPT !["fault"] = @ + 1]
    BY DEF Terminate, DaemonDies, Fault, Spend
  <2>. QED
    BY <2>1, <2>2
<1>. QED
  BY <1>2, <1>3, <1>4, <1>5, <1>6, <1>7, <1>8, <1>9, <1>10, <1>11, <1>12, <1>13, <1>14,
     <1>15, <1>16, <1>17, <1>18, <1>19, <1>20, <1>21, <1>22, <1>23, <1>24, <1>25, <1>26
  DEF Next, ProcStep

LEMMA PlainInit ==
    ASSUME Init PROVE PlainInv /\ OutputSpeaks
<1>1. /\ meta = EmptyCache /\ gens = {} /\ output = None
      /\ \A i \in Index : ~Audible(i)
      /\ \A k \in PartIndex : part[k] = None
      /\ \A p \in Procs : run[p] = Idle
  BY DEF Init, Audible
<1>2. Fits(EmptyCache, script)
  BY DEF Fits, EmptyCache
<1>3. PlainFiles
  BY <1>1, <1>2 DEF PlainFiles
<1>4. PlainProc(Idle)
  <2>1. /\ Idle.pc = "off" /\ Phase(Idle) = "off" /\ Idle.cache = EmptyCache /\ Idle.was = EmptyCache
        /\ Idle.left = {} /\ ~Idle.stop
    BY DEF Idle, Phase
  <2>2. Settled(Idle) = {}
    BY <2>1 DEF Settled, Speaking
  <2>. QED
    BY <1>2, <2>1, <2>2 DEF PlainProc, Speaking
<1>. QED
  BY <1>1, <1>3, <1>4 DEF PlainInv, OutputSpeaks

LEMMA PlainNext ==
    ASSUME NEW P, Procs = {P}, SegmentTyped, Plain, [Next]_vars
    PROVE  Plain'
<1>. SUFFICES ASSUME used'["edit"] = 0, used'["fault"] = 0 PROVE PlainInv' /\ OutputSpeaks'
  BY DEF Plain
<1>1. "edit" \in Events /\ "fault" \in Events
  BY DEF Events
<1>2. used["edit"] = 0 /\ used["fault"] = 0
  BY <1>1, SpentGrows
<1>3. PlainInv /\ OutputSpeaks
  BY <1>2 DEF Plain
<1>. QED
  BY <1>3, PlainStep

\* While one process at a time runs and the texts are edited in place, the
\* segments of output.wav speak their cues' texts, or are silent where this run
\* gave the segment up: through every edit, fault, SIGTERM and recovery
\* (gen_audio.py:113-248, 629-960), where no process is killed; and through
\* kills and timeouts as well, with the daemon still writing what nobody waits
\* for, where nothing is edited and nothing else fails, because a chunk's file
\* has the same number in each run (gen_audio.py:805-892).
THEOREM SegmentSpeechMatches ==
    ASSUME \E p : Procs = {p}, TextsStayInPlace
    PROVE  Spec => []SpeechMatches
<1>. PICK P : Procs = {P}
  OBVIOUS
<1>1. Init => Clean /\ Plain
  BY CleanInit, PlainInit DEF Clean, Plain
<1>2. SegmentTyped /\ Clean /\ [Next]_vars => Clean'
  BY CleanNext
<1>3. SegmentTyped /\ Plain /\ [Next]_vars => Plain'
  BY PlainNext
<1>4. Clean /\ Plain => SpeechMatches
  BY DEF Clean, Plain, SpeechMatches
<1>. QED
  BY <1>1, <1>2, <1>3, <1>4, SegmentInitTyped, SegmentNextTyped, PTL DEF Spec

-----------------------------------------------------------------------------
(* A run while nothing fails, is killed or abandoned                       *)

\* The cues that are blank in every SRT file.
Blanks == {i \in Index : \A t \in Scripts : i <= Len(t) /\ t[i] = Empty}

\* A cue that is blank is so in every SRT file, unless the file has only one
\* cue or one without letters, which is always made anew.
BlanksStay ==
    \A s \in Scripts :
        \/ Len(s) <= 1
        \/ \E i \in 1..Len(s) : s[i] = Symbols
        \/ \A i \in 1..Len(s) : s[i] = Empty => i \in Blanks

\* Blank cues have their silence where any segment was made.
BlanksKept == (\E i \in Index : wav[i] # None) => \A i \in Blanks : wav[i] # None

SmoothFiles ==
    /\ \A i \in Index : wav[i] # None => ~wav[i].long
    /\ \A k \in PartIndex : part[k] # None => part[k].says # {} /\ ~part[k].long

\* A process that has found the daemon keeps it, and makes what is missing; with
\* nothing to make there is no cue without letters.
SmoothProc(r) ==
    /\ ~r.stop
    /\ r.pc \notin {"off", "attach"} => daemon = "up"
    /\ r.pc # "lost"
    /\ r.pc \in Speaking => ~r.said.long
    /\ r.pc = "off" /\ used["run"] > 0 => last.code = 0
    /\ Phase(r) \notin {"seg"} \cup Speaking => BlanksKept
    /\ Phase(r) \in {"model", "seg"} \cup Speaking => r.miss
    /\ \A j \in Settled(r) : wav[j] # None \/ (~r.miss /\ r.subs[j] = Empty)
    /\ ~r.miss => \A j \in Settled(r) : r.subs[j] # Symbols

SmoothInv == SmoothFiles /\ \A p \in Procs : SmoothProc(run[p])

Smooth == used["fault"] = 0 /\ used["abandon"] = 0 => SmoothInv

NoFault == \A f : ~Fault(f)

LEMMA SmoothFacts ==
    ASSUME SegmentTyped, SmoothInv, NEW P, Procs = {P}
    PROVE  /\ P \in Procs /\ run[P] \in RunType /\ LocalInv(run[P]) /\ run \in [Procs -> RunType]
           /\ SmoothProc(run[P]) /\ SmoothFiles
           /\ wav \in [Index -> Sounds \cup {None}] /\ part \in [PartIndex -> Sounds \cup {None}]
           /\ run[P].cache \in [Index -> Entries \cup {None}]
<1>1. P \in Procs
  OBVIOUS
<1>2. run[P] \in RunType /\ LocalInv(run[P]) /\ run \in [Procs -> RunType]
  BY <1>1, ProcessFacts
<1>. QED
  BY <1>1, <1>2 DEF SmoothInv, SegmentTyped, FilesTyped, RunType, Caches

LEMMA NoFaults ==
    ASSUME SegmentTyped, used'["fault"] = 0, used'["abandon"] = 0
    PROVE  NoFault
<1>1. used \in [Events -> Nat] /\ "fault" \in Events /\ "abandon" \in Events
  BY DEF SegmentTyped, FilesTyped, Events
<1>2. \A e \in {"fault", "abandon"} : ~Spend(e)
  BY <1>1 DEF Spend
<1>. QED
  BY <1>2 DEF NoFault, Fault

LEMMA SmoothOn ==
    ASSUME SegmentTyped, NEW P, Procs = {P}, NEW n, run' = [run EXCEPT ![P] = n],
           SmoothFiles', SmoothProc(n)'
    PROVE  SmoothInv'
<1>1. run'[P] = n
  BY DEF SegmentTyped, ProcsTyped
<1>. QED
  BY <1>1 DEF SmoothInv

LEMMA SmoothSame ==
    ASSUME SmoothFiles, UNCHANGED <<wav, part>>
    PROVE  SmoothFiles'
BY DEF SmoothFiles

\* A run that ends well.
LEMMA SmoothExits ==
    ASSUME SegmentTyped, SmoothInv, NEW P, Procs = {P}, Exit(P, 0), UNCHANGED <<wav, part>>,
           run[P].pc \in {"load", "combine", "write"}
    PROVE  SmoothInv'
<1>1. SmoothProc(run[P]) /\ SmoothFiles
  BY SmoothFacts
<1>2. Phase(run[P]) \notin {"seg"} \cup Speaking
  BY DEF Phase, Speaking
<1>3. BlanksKept'
  BY <1>1, <1>2 DEF SmoothProc, BlanksKept
<1>4. Idle.pc = "off" /\ Phase(Idle) = "off" /\ ~Idle.stop
  BY DEF Idle, Phase
<1>5. Settled(Idle) = {}
  BY <1>4 DEF Settled, Speaking
<1>6. last'.code = 0
  BY DEF Exit
<1>7. SmoothProc(Idle)'
  BY <1>3, <1>4, <1>5, <1>6 DEF SmoothProc, Speaking
<1>8. SmoothFiles'
  BY <1>1, SmoothSame
<1>. QED
  BY <1>7, <1>8, SmoothOn DEF Exit

LEMMA StartSmooth ==
    ASSUME SegmentTyped, SmoothInv, NEW P, Procs = {P}, Start(P)
    PROVE  SmoothInv'
<1>1. PICK r : r = run[P]
  OBVIOUS
<1>2. PICK s \in Scripts : run' = [run EXCEPT ![P].pc = "attach", ![P].subs = s]
  BY DEF Start
<1>3. PICK n : n = [r EXCEPT !.pc = "attach", !.subs = s]
  OBVIOUS
<1>4. /\ r \in RunType /\ r.pc = "off" /\ run \in [Procs -> RunType] /\ P \in Procs
      /\ SmoothProc(r) /\ SmoothFiles
  BY <1>1, SmoothFacts DEF Start
<1>5. run' = [run EXCEPT ![P] = n] /\ UNCHANGED <<wav, part>>
  BY <1>1, <1>2, <1>3, <1>4 DEF Start, diskVars
<1>6. n.pc = "attach" /\ n.stop = r.stop
  BY <1>3, <1>4 DEF RunType
<1>7. Phase(n) = "attach" /\ Phase(r) = "off"
  BY <1>4, <1>6 DEF Phase
<1>8. Settled(n) = {}
  BY <1>7 DEF Settled, Speaking
<1>9. SmoothProc(n)'
  BY <1>4, <1>5, <1>6, <1>7, <1>8 DEF SmoothProc, BlanksKept, Speaking
<1>10. SmoothFiles'
  BY <1>4, <1>5, SmoothSame
<1>. QED
  BY <1>5, <1>9, <1>10, SmoothOn

LEMMA AttachSmooth ==
    ASSUME SegmentTyped, SmoothInv, NEW P, Procs = {P}, Attach(P), NoFault
    PROVE  SmoothInv'
<1>1. PICK r : r = run[P]
  OBVIOUS
<1>2. PICK n : n = [r EXCEPT !.pc = "load"]
  OBVIOUS
<1>3. /\ r \in RunType /\ r.pc = "attach" /\ run \in [Procs -> RunType] /\ P \in Procs
      /\ SmoothProc(r) /\ SmoothFiles
  BY <1>1, SmoothFacts DEF Attach
<1>4. Goto(P, "load") /\ daemon' = "up" /\ UNCHANGED <<wav, part>>
  BY DEF Attach, NoFault, diskVars
<1>5. run' = [run EXCEPT ![P] = n]
  BY <1>1, <1>2, <1>3, <1>4 DEF Goto
<1>6. n.pc = "load" /\ n.stop = r.stop
  BY <1>2, <1>3 DEF RunType
<1>7. Phase(n) = "load" /\ Phase(r) = "attach"
  BY <1>3, <1>6 DEF Phase
<1>8. Settled(n) = {}
  BY <1>7 DEF Settled, Speaking
<1>9. SmoothProc(n)'
  BY <1>3, <1>4, <1>6, <1>7, <1>8 DEF SmoothProc, BlanksKept, Speaking
<1>10. SmoothFiles'
  BY <1>3, <1>4, SmoothSame
<1>. QED
  BY <1>5, <1>9, <1>10, SmoothOn

LEMMA LoadSmooth ==
    ASSUME SegmentTyped, SmoothInv, NEW P, Procs = {P}, Load(P)
    PROVE  SmoothInv'
<1>1. PICK r : r = run[P]
  OBVIOUS
<1>2. PICK c : c = IF meta = None THEN EmptyCache ELSE meta
  OBVIOUS
<1>3. PICK entries : entries = {i \in Index : c[i] # None}
  OBVIOUS
<1>4. PICK n : n = [r EXCEPT !.pc = IF entries = {} THEN "count" ELSE "migrate",
                             !.cache = c, !.was = c, !.left = entries]
  OBVIOUS
<1>5. /\ r \in RunType /\ r.pc = "load" /\ run \in [Procs -> RunType] /\ P \in Procs
      /\ SmoothProc(r) /\ SmoothFiles /\ LocalInv(r)
  BY <1>1, SmoothFacts DEF Load
<1>6. UNCHANGED <<wav, part, daemon>>
  BY DEF Load, diskVars, daemonVars
<1>7. CASE Exit(P, 0)
  BY <1>1, <1>5, <1>6, <1>7, SmoothExits
<1>8. CASE run' = [run EXCEPT ![P] = n]
  <2>1. /\ n.pc = IF entries = {} THEN "count" ELSE "migrate"
        /\ n.i = r.i /\ n.stop = r.stop
    BY <1>4, <1>5 DEF RunType
  <2>2. n.i = 1 /\ n.pc \in {"count", "migrate"}
    BY <1>5, <2>1 DEF LocalInv, Phase
  <2>3. Phase(n) = n.pc /\ Phase(r) = "load"
    BY <1>5, <2>2 DEF Phase
  <2>4. Settled(n) = {}
    <3>1. 1..(1 - 1) = {}
      OBVIOUS
    <3>. QED
      BY <2>2, <2>3, <3>1 DEF Settled, Speaking
  <2>5. SmoothProc(n)'
    BY <1>5, <1>6, <2>1, <2>2, <2>3, <2>4 DEF SmoothProc, BlanksKept, Speaking
  <2>6. SmoothFiles'
    BY <1>5, <1>6, SmoothSame
  <2>. QED
    BY <1>8, <2>5, <2>6, SmoothOn
<1>9. Exit(P, 0) \/ run' = [run EXCEPT ![P] = n]
  <2>1. ASSUME r.subs # <<>>
        PROVE  run' = [run EXCEPT ![P] = n]
    <3>1. run' = [run EXCEPT ![P].pc = IF entries = {} THEN "count" ELSE "migrate",
                             ![P].cache = c, ![P].was = c, ![P].left = entries]
      BY <1>1, <1>2, <1>3, <2>1 DEF Load
    <3>. QED
      BY <1>1, <1>4, <1>5, <3>1
  <2>. QED
    BY <1>1, <2>1 DEF Load
<1>. QED
  BY <1>7, <1>8, <1>9

\* Some files go, and none of them is the silence of a blank cue.
LEMMA FilesGo ==
    ASSUME SmoothFiles, BlanksKept, NEW gone, gone \cap Blanks = {},
           wav' = [j \in Index |-> IF j \in gone THEN None ELSE wav[j]], part' = part
    PROVE  SmoothFiles' /\ BlanksKept'
<1>1. \A j \in Index : wav'[j] # None => wav'[j] = wav[j]
  OBVIOUS
<1>2. \A j \in Blanks : j \in Index /\ wav'[j] = wav[j]
  BY DEF Blanks
<1>. QED
  BY <1>1, <1>2 DEF SmoothFiles, BlanksKept

\* A cue with a text is not blank in every SRT file.
LEMMA NotBlank ==
    ASSUME NEW s \in Scripts, NEW i \in 1..Len(s), s[i] # Empty
    PROVE  i \notin Blanks
BY DEF Blanks

\* The step to the next cue of _migrate_cache, and to its end.
LEMMA SmoothMigrates ==
    ASSUME SegmentTyped, SmoothInv, NEW P, Procs = {P}, NEW r, r = run[P], r.pc = "migrate",
           NEW n, run' = [run EXCEPT ![P] = n], n.pc \in {"migrate", "stale"}, n.stop = r.stop,
           SmoothFiles', BlanksKept', daemon' = daemon
    PROVE  SmoothInv'
<1>1. SmoothProc(r)
  BY SmoothFacts
<1>2. Phase(n) = n.pc /\ Settled(n) = {}
  BY DEF Phase, Settled, Speaking
<1>3. SmoothProc(n)'
  BY <1>1, <1>2 DEF SmoothProc, Speaking
<1>. QED
  BY <1>3, SmoothOn

\* _migrate_cache is at a cue.
LEMMA SmoothMigrating ==
    ASSUME SegmentTyped, SmoothInv, NEW P, Procs = {P}, run[P].pc = "migrate"
    PROVE  /\ run[P] \in RunType /\ run[P].i \in 1..Len(run[P].subs) /\ run[P].i \in Index
           /\ run[P].i <= Len(run[P].subs) /\ Cue(P) = run[P].subs[run[P].i]
           /\ run[P].subs \in Scripts /\ SmoothFiles /\ BlanksKept
           /\ "stale" \in PCs \ {"trunc", "dump"}
<1>1. P \in Procs /\ run[P] \in RunType /\ SmoothProc(run[P]) /\ SmoothFiles
  BY SmoothFacts
<1>2. Phase(run[P]) = "migrate"
  BY DEF Phase
<1>3. BlanksKept
  BY <1>1, <1>2 DEF SmoothProc, Speaking
<1>4. /\ run[P].i \in Index /\ run[P].i \in 1..Len(run[P].subs) /\ run[P].subs # <<>>
      /\ Cue(P) = run[P].subs[run[P].i]
  BY <1>1, CueFacts
<1>5. run[P].subs \in Scripts /\ Len(run[P].subs) \in Nat
  BY <1>1, <1>4, ScriptFacts DEF RunType
<1>6. "stale" \in PCs \ {"trunc", "dump"}
  BY DEF PCs
<1>. QED
  BY <1>1, <1>3, <1>4, <1>5, <1>6

LEMMA MigrateBlankSmooth ==
    ASSUME SegmentTyped, SmoothInv, NEW P, Procs = {P}, MigrateBlank(P)
    PROVE  SmoothInv'
<1>1. PICK r : r = run[P]
  OBVIOUS
<1>2. PICK n : n = NextCue(r, "stale")
  OBVIOUS
<1>3. r.pc = "migrate" /\ run' = [run EXCEPT ![P] = n] /\ UNCHANGED <<wav, part, daemon>>
  BY <1>1, <1>2 DEF MigrateBlank, diskVars, daemonVars
<1>4. /\ r \in RunType /\ r.i <= Len(r.subs) /\ SmoothFiles /\ BlanksKept
      /\ "stale" \in PCs \ {"trunc", "dump"}
  BY <1>1, <1>3, SmoothMigrating
<1>5. Same(n, r, {}) /\ n.pc \in {"migrate", "stale"}
  BY <1>2, <1>3, <1>4, NextCueAdvances
<1>6. n.stop = r.stop
  BY <1>5 DEF Same
<1>7. SmoothFiles'
  BY <1>3, <1>4, SmoothSame
<1>8. BlanksKept'
  BY <1>3, <1>4 DEF BlanksKept
<1>. QED
  BY <1>1, <1>3, <1>5, <1>6, <1>7, <1>8, SmoothMigrates

LEMMA MigrateNewSmooth ==
    ASSUME SegmentTyped, SmoothInv, NEW P, Procs = {P}, MigrateNew(P)
    PROVE  SmoothInv'
<1>1. PICK r : r = run[P]
  OBVIOUS
<1>2. PICK m : m = [r EXCEPT !.cache[r.i] = None]
  OBVIOUS
<1>3. PICK n : n = NextCue(m, "stale")
  OBVIOUS
<1>4. /\ r.pc = "migrate" /\ run' = [run EXCEPT ![P] = n] /\ Cue(P) # Empty
      /\ wav' = [wav EXCEPT ![r.i] = None] /\ UNCHANGED <<part, daemon>>
  BY <1>1, <1>2, <1>3 DEF MigrateNew, daemonVars
<1>5. /\ r \in RunType /\ r.i <= Len(r.subs) /\ r.i \in 1..Len(r.subs) /\ r.i \in Index
      /\ Cue(P) = r.subs[r.i] /\ r.subs \in Scripts /\ SmoothFiles /\ BlanksKept
      /\ "stale" \in PCs \ {"trunc", "dump"}
  BY <1>1, <1>4, SmoothMigrating
<1>6. Same(m, r, {"cache"}) /\ m.i = r.i /\ m.pc = "migrate"
  BY <1>2, <1>4, <1>5, DropEntryFields
<1>7. Same(n, m, {}) /\ n.pc \in {"migrate", "stale"}
  <2>1. m.i <= Len(m.subs) /\ m \in RunType
    BY <1>5, <1>6 DEF Same
  <2>. QED
    BY <1>3, <1>5, <1>6, <2>1, NextCueAdvances
<1>8. n.stop = r.stop
  BY <1>6, <1>7 DEF Same
<1>9. SmoothFiles' /\ BlanksKept'
  <2>1. wav \in [Index -> Sounds \cup {None}]
    BY SmoothFacts
  <2>2. wav' = [j \in Index |-> IF j \in {r.i} THEN None ELSE wav[j]]
    BY <1>4, <2>1
  <2>3. {r.i} \cap Blanks = {}
    BY <1>4, <1>5, NotBlank
  <2>. QED
    BY <1>4, <1>5, <2>2, <2>3, FilesGo
<1>. QED
  BY <1>1, <1>4, <1>7, <1>8, <1>9, SmoothMigrates

\* A known text is under its own number.
LEMMA KnownInPlace ==
    ASSUME SegmentTyped, CleanInv, NEW P, Procs = {P}, TextsStayInPlace, run[P].pc = "migrate",
           Cue(P) # Empty, NEW o \in Matches(P)
    PROVE  o = run[P].i
<1>1. PICK r : r = run[P]
  OBVIOUS
<1>2. r \in RunType /\ r.left \subseteq Index
  BY <1>1, CleanFacts DEF RunType
<1>3. /\ Migrated(r) /\ r.i \in 1..Len(r.subs) /\ Origin(r.was) /\ r.subs \in Scripts
      /\ Cue(P) = r.subs[r.i]
  BY <1>1, MigrateFacts
<1>4. o \in r.left /\ o \in Index /\ r.was[o].content = r.subs[r.i]
  BY <1>1, <1>2, <1>3 DEF Matches
<1>5. r.was[o] # None
  BY <1>3, <1>4 DEF Migrated
<1>6. PICK s \in Scripts : o <= Len(s) /\ r.was[o].content = s[o]
  BY <1>3, <1>4, <1>5 DEF Origin
<1>7. o \in 1..Len(s)
  BY <1>4, <1>6, ScriptFacts DEF Index
<1>. QED
  BY <1>1, <1>3, <1>4, <1>6, <1>7 DEF TextsStayInPlace

LEMMA MigrateKnownSmooth ==
    ASSUME SegmentTyped, SmoothInv, CleanInv, NEW P, Procs = {P}, TextsStayInPlace, MigrateKnown(P)
    PROVE  SmoothInv'
<1>1. PICK r : r = run[P]
  OBVIOUS
<1>2. r.pc = "migrate" /\ Cue(P) # Empty /\ UNCHANGED <<part, daemon>>
  BY <1>1 DEF MigrateKnown, daemonVars
<1>3. /\ r \in RunType /\ r.i <= Len(r.subs) /\ r.i \in Index
      /\ Cue(P) = r.subs[r.i] /\ SmoothFiles /\ BlanksKept
      /\ "stale" \in PCs \ {"trunc", "dump"}
  BY <1>1, <1>2, SmoothMigrating
<1>4. PICK o \in Matches(P) :
         LET i == r.i
             flag == r.cache[o] # None /\ r.cache[o].fallback
             moved == NextCue([r EXCEPT !.left = @ \ {o},
                                        !.cache[i] = [content |-> Cue(P), fallback |-> flag]], "stale")
         IN IF o # i /\ wav[i] # None /\ wav[o] = None
            THEN Exit(P, 1) /\ UNCHANGED wav
            ELSE /\ run' = [run EXCEPT ![P] = moved]
                 /\ wav' = IF o = i THEN wav
                           ELSE IF wav[i] = None
                                THEN [wav EXCEPT ![i] = wav[o], ![o] = None]
                                ELSE [wav EXCEPT ![o] = None]
  BY <1>1 DEF MigrateKnown
<1>5. o = r.i
  BY <1>1, <1>2, KnownInPlace
<1>6. PICK e : e = [content |-> Cue(P), fallback |-> r.cache[o] # None /\ r.cache[o].fallback]
  OBVIOUS
<1>7. PICK m : m = [r EXCEPT !.left = r.left \ {o}, !.cache[r.i] = e]
  OBVIOUS
<1>8. PICK n : n = NextCue(m, "stale")
  OBVIOUS
<1>9. run' = [run EXCEPT ![P] = n] /\ wav' = wav
  BY <1>4, <1>5, <1>6, <1>7, <1>8
<1>10. m.pc = "migrate" /\ m.subs = r.subs /\ m.i = r.i /\ m.stop = r.stop
  BY <1>2, <1>3, <1>7 DEF RunType
<1>11. n.pc \in {"migrate", "stale"} /\ n.stop = m.stop
  <2>1. n = IF m.i < Len(m.subs) THEN [m EXCEPT !.i = @ + 1] ELSE [m EXCEPT !.pc = "stale", !.i = 1]
    BY <1>8 DEF NextCue
  <2>2. PICK f : f = [r.cache EXCEPT ![r.i] = e]
    OBVIOUS
  <2>3. m = [r EXCEPT !.left = r.left \ {o}, !.cache = f]
    BY <1>3, <1>7, <2>2 DEF RunType
  <2>. QED
    BY <1>3, <1>10, <2>1, <2>3 DEF RunType
<1>12. SmoothFiles'
  BY <1>2, <1>3, <1>9, SmoothSame
<1>13. BlanksKept'
  BY <1>3, <1>9 DEF BlanksKept
<1>. QED
  BY <1>1, <1>2, <1>9, <1>10, <1>11, <1>12, <1>13, SmoothMigrates

LEMMA MigrateStaleSmooth ==
    ASSUME SegmentTyped, SmoothInv, CleanInv, NEW P, Procs = {P}, MigrateStale(P)
    PROVE  SmoothInv'
<1>1. PICK r : r = run[P]
  OBVIOUS
<1>. DEFINE gone == {o \in r.left : r.cache[o] # None}
<1>2. PICK n : n = [r EXCEPT !.pc = "trunc", !.then = "count", !.was = EmptyCache, !.left = {},
                             !.cache = [o \in Index |-> IF o \in gone THEN None ELSE r.cache[o]]]
  OBVIOUS
<1>3. /\ r \in RunType /\ r.pc = "stale" /\ P \in Procs /\ run \in [Procs -> RunType]
      /\ SmoothProc(r) /\ SmoothFiles /\ LocalInv(r)
  BY <1>1, SmoothFacts DEF MigrateStale
<1>4. run' = [run EXCEPT ![P] = n]
  BY <1>1, <1>2, <1>3 DEF MigrateStale
<1>5. /\ wav' = [o \in Index |-> IF o \in gone THEN None ELSE wav[o]]
      /\ UNCHANGED <<part, daemon>>
  BY <1>1 DEF MigrateStale, daemonVars
<1>6. /\ n.pc = "trunc" /\ n.then = "count" /\ n.subs = r.subs /\ n.i = r.i /\ n.miss = r.miss
      /\ n.stop = r.stop
  BY <1>2, <1>3 DEF RunType
<1>7. Phase(r) = "stale" /\ Phase(n) = "count" /\ r.i = 1
  BY <1>3, <1>6 DEF Phase, LocalInv
<1>8. BlanksKept
  BY <1>3, <1>7 DEF SmoothProc, Speaking
<1>9. gone \cap Blanks = {}
  <2>1. ASSUME NEW o \in gone, o \in Blanks
        PROVE  FALSE
    <3>1. Origin(r.cache) /\ r.cache \in [Index -> Entries \cup {None}] /\ r.left \subseteq Index
      BY <1>1, <1>3, CleanFacts DEF CacheInv, RunType
    <3>2. o \in Index /\ r.cache[o] # None /\ r.cache[o] \in Entries
      BY <2>1, <3>1
    <3>3. PICK s \in Scripts : o <= Len(s) /\ r.cache[o].content = s[o]
      BY <3>1, <3>2 DEF Origin
    <3>4. s[o] = Empty
      BY <2>1, <3>3 DEF Blanks
    <3>5. r.cache[o].content \in Speech \cup {Symbols}
      BY <3>2 DEF Entries
    <3>. QED
      BY <3>3, <3>4, <3>5, SegmentAssumption DEF Empty, Symbols
  <2>. QED
    BY <2>1
<1>. HIDE DEF gone
<1>10. SmoothFiles' /\ BlanksKept'
  BY <1>3, <1>5, <1>8, <1>9, FilesGo
<1>11. Settled(n) = {}
  <2>1. 1..(1 - 1) = {}
    OBVIOUS
  <2>. QED
    BY <1>6, <1>7, <2>1 DEF Settled, Speaking
<1>12. SmoothProc(n)'
  BY <1>3, <1>5, <1>6, <1>7, <1>10, <1>11 DEF SmoothProc, Speaking
<1>. QED
  BY <1>4, <1>10, <1>12, SmoothOn

LEMMA SaveOpenSmooth ==
    ASSUME SegmentTyped, SmoothInv, NEW P, Procs = {P}, SaveOpen(P)
    PROVE  SmoothInv'
<1>1. PICK r : r = run[P]
  OBVIOUS
<1>2. PICK n : n = [r EXCEPT !.pc = "dump"]
  OBVIOUS
<1>3. /\ r \in RunType /\ r.pc = "trunc" /\ P \in Procs /\ run \in [Procs -> RunType]
      /\ SmoothProc(r) /\ SmoothFiles
  BY <1>1, SmoothFacts DEF SaveOpen
<1>4. run' = [run EXCEPT ![P] = n] /\ UNCHANGED <<wav, part, daemon>>
  BY <1>1, <1>2, <1>3 DEF SaveOpen, Goto, daemonVars
<1>5. Same(n, r, {}) /\ n.pc = "dump" /\ n.i = r.i /\ n.then = r.then
  <2>1. "dump" \in PCs
    BY DEF PCs
  <2>. QED
    BY <1>2, <1>3, <2>1, GotoFields
<1>6. n.subs = r.subs /\ n.miss = r.miss /\ n.stop = r.stop
  BY <1>5 DEF Same
<1>7. Phase(n) = Phase(r)
  BY <1>3, <1>5 DEF Phase
<1>8. Settled(n) = Settled(r)
  BY <1>3, <1>5, <1>6, <1>7 DEF Settled, Speaking
<1>9. SmoothProc(n)'
  BY <1>3, <1>4, <1>5, <1>6, <1>7, <1>8 DEF SmoothProc, Speaking, BlanksKept
<1>10. SmoothFiles'
  BY <1>3, <1>4, SmoothSame
<1>. QED
  BY <1>4, <1>9, <1>10, SmoothOn

LEMMA SaveDumpSmooth ==
    ASSUME SegmentTyped, SmoothInv, NEW P, Procs = {P}, SaveDump(P)
    PROVE  SmoothInv'
<1>1. PICK r : r = run[P]
  OBVIOUS
<1>2. PICK n : n = [r EXCEPT !.pc = r.then]
  OBVIOUS
<1>3. /\ r \in RunType /\ r.pc = "dump" /\ P \in Procs /\ run \in [Procs -> RunType]
      /\ SmoothProc(r) /\ SmoothFiles /\ LocalInv(r)
  BY <1>1, SmoothFacts DEF SaveDump
<1>4. run' = [run EXCEPT ![P] = n] /\ UNCHANGED <<wav, part, daemon>>
  BY <1>1, <1>2, <1>3 DEF SaveDump, Goto, daemonVars
<1>5. Same(n, r, {}) /\ n.pc = r.then /\ n.i = r.i /\ n.then = r.then
  <2>1. r.then \in PCs
    BY <1>3 DEF RunType
  <2>. QED
    BY <1>2, <1>3, <2>1, GotoFields
<1>6. n.subs = r.subs /\ n.miss = r.miss /\ n.stop = r.stop
  BY <1>5 DEF Same
<1>7. Phase(n) = Phase(r) /\ n.pc \in {"count", "model", "seg", "combine", "write"}
  BY <1>3, <1>5 DEF Phase, LocalInv
<1>8. Settled(n) = Settled(r)
  BY <1>3, <1>5, <1>6, <1>7 DEF Settled, Speaking
<1>9. SmoothProc(n)'
  BY <1>3, <1>4, <1>5, <1>6, <1>7, <1>8 DEF SmoothProc, Speaking, BlanksKept
<1>10. SmoothFiles'
  BY <1>3, <1>4, SmoothSame
<1>. QED
  BY <1>4, <1>9, <1>10, SmoothOn

\* What the cache of a process that is past _migrate_cache says: no file is
\* without entry, and a hit speaks the cue's text.
LEMMA HitFacts ==
    ASSUME SegmentTyped, CleanInv, NEW P, Procs = {P}, Phase(run[P]) \in {"count", "seg"},
           NEW i \in 1..Len(run[P].subs)
    PROVE  /\ ~Recovered(P, i)
           /\ Hit(P, i) => wav[i] # None /\ run[P].subs[i] \in Speech
<1>1. PICK r : r = run[P]
  OBVIOUS
<1>2. r \in RunType /\ CacheInv(r)
  BY <1>1, CleanFacts
<1>3. Agree(r.cache) /\ Fits(r.cache, r.subs)
  BY <1>1, <1>2 DEF CacheInv, Early, Migrating
<1>4. i \in Index /\ i \in 1..Len(r.subs)
  BY <1>1, <1>2, ScriptFacts DEF RunType
<1>5. Hit(P, i) => Audible(i)
  BY DEF Hit, Audible, IsSilent
<1>6. Audible(i) => r.cache[i] # None /\ r.subs[i] \in Speech
  BY <1>2, <1>3, <1>4, AudibleIsRight
<1>. QED
  BY <1>1, <1>5, <1>6 DEF Recovered, Audible

LEMMA CountOneSmooth ==
    ASSUME SegmentTyped, SmoothInv, CleanInv, NEW P, Procs = {P}, CountOne(P)
    PROVE  SmoothInv'
<1>1. PICK r : r = run[P]
  OBVIOUS
<1>. DEFINE hit == Cue(P) = Empty \/ Hit(P, r.i)
<1>2. PICK m : m = [r EXCEPT !.miss = @ \/ ~hit]
  OBVIOUS
<1>3. PICK go : go = IF m.miss THEN "model" ELSE "combine"
  OBVIOUS
<1>4. PICK n : n = NextCue(m, go)
  OBVIOUS
<1>5. /\ r \in RunType /\ r.pc = "count" /\ P \in Procs /\ run \in [Procs -> RunType]
      /\ SmoothProc(r) /\ SmoothFiles
  BY <1>1, SmoothFacts DEF CountOne
<1>6. /\ r.i \in 1..Len(r.subs) /\ r.i <= Len(r.subs) /\ Cue(P) = r.subs[r.i]
      /\ r.subs \in Scripts
  <2>1. r.i \in 1..Len(r.subs) /\ r.subs # <<>> /\ Cue(P) = r.subs[r.i]
    BY <1>1, <1>5, CueFacts
  <2>2. Len(r.subs) \in Nat
    BY <1>5, ScriptFacts DEF RunType
  <2>. QED
    BY <1>5, <2>1, <2>2 DEF RunType
<1>7. Phase(r) = "count"
  BY <1>5 DEF Phase
<1>8. ~Recovered(P, r.i) /\ (Hit(P, r.i) => wav[r.i] # None /\ r.subs[r.i] \in Speech)
  BY <1>1, <1>6, <1>7, HitFacts
<1>9. UNCHANGED <<wav, part, daemon>>
  BY DEF CountOne, diskVars, daemonVars
<1>10. /\ m \in RunType /\ m.pc = "count" /\ m.subs = r.subs /\ m.i = r.i
       /\ m.stop = r.stop /\ m.miss = (r.miss \/ ~hit)
  <2>1. (r.miss \/ ~hit) \in BOOLEAN
    OBVIOUS
  <2>. HIDE DEF hit
  <2>. QED
    BY <1>2, <1>5, <2>1 DEF RunType
<1>11. run' = [run EXCEPT ![P] = n]
  BY <1>1, <1>2, <1>3, <1>4, <1>5, <1>8 DEF CountOne
<1>. HIDE DEF hit
<1>12. Advanced(n, m, "count", go) /\ Same(n, m, {}) /\ n.pc \in {"count", go}
  <2>1. go \in PCs \ {"trunc", "dump"} /\ m.i <= Len(m.subs)
    BY <1>3, <1>6, <1>10 DEF PCs
  <2>. QED
    BY <1>4, <1>10, <2>1, NextCueAdvances
<1>13. /\ n.subs = r.subs /\ n.stop = r.stop
       /\ n.miss = (r.miss \/ ~hit) /\ n.pc \in {"count", "model", "combine"}
       /\ (n.pc = "model" => n.miss) /\ (n.pc = "combine" => ~n.miss)
  BY <1>3, <1>10, <1>12 DEF Same
<1>14. Phase(n) = n.pc
  BY <1>13 DEF Phase
<1>15. /\ \A j \in Settled(n) : wav[j] # None \/ (~n.miss /\ n.subs[j] = Empty)
       /\ ~n.miss => \A j \in Settled(n) : n.subs[j] # Symbols
  <2>1. CASE n.miss
    <3>1. Settled(n) = {}
      BY <1>13, <1>14, <2>1 DEF Settled, Speaking
    <3>. QED
      BY <2>1, <3>1
  <2>2. CASE ~n.miss
    <3>1. ~r.miss /\ hit /\ go = "combine"
      BY <1>3, <1>10, <1>13, <2>2
    <3>2. Settled(r) = 1..(r.i - 1)
      BY <1>7, <3>1 DEF Settled
    <3>3. \/ r.i < Len(r.subs) /\ n.i = r.i + 1 /\ Phase(n) = "count"
          \/ ~(r.i < Len(r.subs)) /\ Phase(n) = "combine"
      BY <1>10, <1>12, <3>1 DEF Advanced
    <3>4. \A j \in Settled(n) : j = r.i \/ j \in Settled(r)
      BY <1>6, <1>13, <2>2, <3>2, <3>3, SettledOn
    <3>5. (wav[r.i] # None \/ r.subs[r.i] = Empty) /\ r.subs[r.i] # Symbols
      BY <1>6, <1>8, <3>1, SegmentAssumption DEF hit, Empty, Symbols
    <3>6. \A j \in Settled(r) : (wav[j] # None \/ r.subs[j] = Empty) /\ r.subs[j] # Symbols
      BY <1>5, <3>1 DEF SmoothProc
    <3>. QED
      BY <1>13, <2>2, <3>4, <3>5, <3>6
  <2>. QED
    BY <2>1, <2>2
<1>16. SmoothProc(n)'
  BY <1>5, <1>7, <1>9, <1>13, <1>14, <1>15 DEF SmoothProc, Speaking, BlanksKept
<1>17. SmoothFiles'
  BY <1>5, <1>9, SmoothSame
<1>. QED
  BY <1>11, <1>16, <1>17, SmoothOn

LEMMA EnsureModelSmooth ==
    ASSUME SegmentTyped, SmoothInv, NEW P, Procs = {P}, EnsureModel(P), NoFault
    PROVE  SmoothInv'
<1>1. PICK r : r = run[P]
  OBVIOUS
<1>2. PICK n : n = [r EXCEPT !.pc = "seg"]
  OBVIOUS
<1>3. /\ r \in RunType /\ r.pc = "model" /\ run \in [Procs -> RunType] /\ P \in Procs
      /\ LocalInv(r) /\ SmoothProc(r) /\ SmoothFiles
  BY <1>1, SmoothFacts DEF EnsureModel
<1>4. daemon = "up" /\ ~r.stop /\ r.miss
  BY <1>3 DEF SmoothProc, Phase
<1>5. Goto(P, "seg") /\ UNCHANGED <<wav, part, daemon>>
  BY <1>1, <1>4 DEF EnsureModel, NoFault, diskVars, daemonVars
<1>6. run' = [run EXCEPT ![P] = n]
  BY <1>1, <1>2, <1>3, <1>5 DEF Goto
<1>7. Same(n, r, {}) /\ n.pc = "seg" /\ n.i = r.i
  <2>1. "seg" \in PCs
    BY DEF PCs
  <2>. QED
    BY <1>2, <1>3, <2>1, GotoFields
<1>8. n.i = 1 /\ n.miss /\ ~n.stop /\ Phase(n) = "seg"
  BY <1>3, <1>4, <1>7 DEF LocalInv, Phase, Same
<1>9. Settled(n) = {}
  <2>1. 1..(1 - 1) = {}
    OBVIOUS
  <2>. QED
    BY <1>8, <2>1 DEF Settled
<1>10. SmoothProc(n)'
  BY <1>4, <1>5, <1>7, <1>8, <1>9 DEF SmoothProc, Speaking
<1>11. SmoothFiles'
  BY <1>3, <1>5, SmoothSame
<1>. QED
  BY <1>6, <1>10, <1>11, SmoothOn

\* Process P settles its cue and goes on as n: w is the cue's segment now.
SmoothSettling(P, r, n, w) ==
    /\ r \in RunType /\ r = run[P] /\ r.pc \in {"seg"} \cup Speaking
    /\ run' = [run EXCEPT ![P] = n]
    /\ Advanced(n, r, "seg", "combine") /\ n.pc \in {"trunc", "seg", "combine"}
    /\ n.stop = r.stop /\ n.miss = r.miss
    /\ wav' = [wav EXCEPT ![r.i] = w] /\ w # None /\ ~w.long
    /\ UNCHANGED <<part, daemon>>

LEMMA SmoothSettles ==
    ASSUME SegmentTyped, SmoothInv, NEW P, Procs = {P}, NEW r, NEW n, NEW w,
           SmoothSettling(P, r, n, w)
    PROVE  SmoothInv'
<1>. USE DEF SmoothSettling
<1>1. run[P].pc \in {"migrate", "count", "seg"} \cup Speaking
  OBVIOUS
<1>2. /\ SmoothProc(r) /\ SmoothFiles /\ wav \in [Index -> Sounds \cup {None}]
  BY SmoothFacts
<1>3. r.i \in 1..Len(r.subs) /\ r.i \in Index /\ r.subs \in Scripts /\ Len(r.subs) \in Nat
  <2>1. P \in Procs
    OBVIOUS
  <2>2. r.i \in 1..Len(r.subs) /\ r.i \in Index /\ r.subs # <<>>
    BY <1>1, <2>1, CueFacts
  <2>. QED
    BY <2>2, ScriptFacts DEF RunType
<1>4. /\ wav'[r.i] = w
      /\ \A j \in Index : j # r.i => wav'[j] = wav[j]
  BY <1>2, <1>3
<1>5. SmoothFiles'
  BY <1>2, <1>4 DEF SmoothFiles
<1>6. Phase(r) = r.pc
  BY DEF Phase, Speaking
<1>7. Settled(r) = 1..(r.i - 1) /\ r.miss
  BY <1>2, <1>6 DEF Settled, Speaking, SmoothProc
<1>8. /\ n.subs = r.subs
      /\ \/ r.i < Len(r.subs) /\ n.i = r.i + 1 /\ Phase(n) = "seg"
         \/ ~(r.i < Len(r.subs)) /\ Phase(n) = "combine"
  BY DEF Advanced
<1>9. \A j \in Settled(n) : j \in 1..Len(r.subs) /\ (j = r.i \/ j \in Settled(r))
  BY <1>3, <1>7, <1>8, SettledOn
<1>10. ASSUME NEW j \in Settled(n) PROVE wav'[j] # None
  <2>1. CASE j = r.i
    BY <1>4, <2>1
  <2>2. CASE j # r.i
    <3>1. j \in Settled(r) /\ j \in 1..Len(r.subs)
      BY <1>9, <2>2
    <3>2. j \in Index
      BY <1>3, <3>1, ScriptFacts
    <3>. QED
      BY <1>2, <1>4, <1>7, <2>2, <3>1, <3>2 DEF SmoothProc
  <2>. QED
    BY <2>1, <2>2
<1>11. Phase(n) # "seg" => BlanksKept'
  <2>. SUFFICES ASSUME Phase(n) # "seg" PROVE BlanksKept'
    OBVIOUS
  <2>1. Settled(n) = 1..Len(r.subs)
    BY <1>8 DEF Settled
  <2>2. ASSUME NEW j \in Blanks PROVE j \in 1..Len(r.subs)
    BY <1>3, <2>2 DEF Blanks, Index
  <2>. QED
    BY <1>10, <2>1, <2>2 DEF BlanksKept
<1>12. n.pc \notin Speaking
  BY DEF Speaking
<1>13. SmoothProc(n)'
  BY <1>2, <1>7, <1>8, <1>10, <1>11, <1>12 DEF SmoothProc, Speaking
<1>. QED
  BY <1>5, <1>13, SmoothOn

\* A cue whose segment is to be settled.
LEMMA SmoothSegment ==
    ASSUME SegmentTyped, SmoothInv, NEW P, Procs = {P}, run[P].pc = "seg"
    PROVE  /\ run[P] \in RunType /\ run \in [Procs -> RunType] /\ P \in Procs
           /\ run[P].pc \in {"seg"} \cup Speaking /\ Phase(run[P]) = "seg"
           /\ run[P].i \in 1..Len(run[P].subs) /\ run[P].i \in Index
           /\ run[P].i <= Len(run[P].subs) /\ Cue(P) = run[P].subs[run[P].i]
           /\ SmoothProc(run[P]) /\ SmoothFiles /\ ~run[P].stop /\ run[P].miss /\ daemon = "up"
           /\ "combine" \in PCs \ {"trunc", "dump"}
           /\ wav \in [Index -> Sounds \cup {None}]
<1>1. /\ P \in Procs /\ run[P] \in RunType /\ run \in [Procs -> RunType]
      /\ SmoothProc(run[P]) /\ SmoothFiles /\ wav \in [Index -> Sounds \cup {None}]
  BY SmoothFacts
<1>2. Phase(run[P]) = "seg"
  BY DEF Phase
<1>3. ~run[P].stop /\ run[P].miss /\ daemon = "up"
  BY <1>1, <1>2 DEF SmoothProc
<1>4. /\ run[P].i \in Index /\ run[P].i \in 1..Len(run[P].subs)
      /\ Cue(P) = run[P].subs[run[P].i]
  BY <1>1, CueFacts
<1>5. run[P].i <= Len(run[P].subs)
  BY <1>1, <1>4, ScriptFacts DEF RunType
<1>6. "combine" \in PCs \ {"trunc", "dump"}
  BY DEF PCs
<1>. QED
  BY <1>1, <1>2, <1>3, <1>4, <1>5, <1>6

LEMMA SegmentBlankSmooth ==
    ASSUME SegmentTyped, SmoothInv, NEW P, Procs = {P}, SegmentBlank(P)
    PROVE  SmoothInv'
<1>1. PICK r : r = run[P]
  OBVIOUS
<1>2. PICK m : m = [r EXCEPT !.cache[r.i] = None]
  OBVIOUS
<1>3. PICK n : n = NextCue(m, "combine")
  OBVIOUS
<1>4. /\ r.pc = "seg" /\ run' = [run EXCEPT ![P] = n]
      /\ wav' = [wav EXCEPT ![r.i] = Silence] /\ UNCHANGED <<part, daemon>>
  BY <1>1, <1>2, <1>3 DEF SegmentBlank, daemonVars
<1>5. /\ r \in RunType /\ r.pc \in {"seg"} \cup Speaking /\ r.i <= Len(r.subs)
      /\ "combine" \in PCs \ {"trunc", "dump"}
  BY <1>1, <1>4, SmoothSegment
<1>6. Same(m, r, {"cache"}) /\ m.i = r.i /\ m.pc = "seg"
  BY <1>2, <1>4, <1>5, DropEntryFields
<1>7. m \in RunType /\ m.subs = r.subs /\ m.stop = r.stop /\ m.miss = r.miss
  BY <1>6 DEF Same
<1>8. Advanced(n, m, "seg", "combine") /\ Same(n, m, {}) /\ n.pc \in {"seg", "combine"}
  BY <1>3, <1>5, <1>6, <1>7, NextCueAdvances
<1>9. n.stop = r.stop /\ n.miss = r.miss /\ Advanced(n, r, "seg", "combine")
  BY <1>6, <1>7, <1>8 DEF Same, Advanced
<1>10. PICK w : w = Silence
  OBVIOUS
<1>11. w # None /\ ~w.long
  BY <1>10, NoneFacts DEF Silence
<1>12. SmoothSettling(P, r, n, w)
  BY <1>1, <1>4, <1>5, <1>8, <1>9, <1>10, <1>11 DEF SmoothSettling
<1>. QED
  BY <1>12, SmoothSettles

LEMMA SegmentSymbolsSmooth ==
    ASSUME SegmentTyped, SmoothInv, NEW P, Procs = {P}, SegmentSymbols(P)
    PROVE  SmoothInv'
<1>1. PICK r : r = run[P]
  OBVIOUS
<1>2. PICK n : n = Saving(NextCue(SetCache(r, r.i, FALSE), "combine"))
  OBVIOUS
<1>3. /\ r.pc = "seg" /\ run' = [run EXCEPT ![P] = n] /\ Cue(P) = Symbols
      /\ wav' = [wav EXCEPT ![r.i] = Silence] /\ UNCHANGED <<part, daemon>>
  BY <1>1, <1>2 DEF SegmentSymbols, daemonVars
<1>4. /\ r \in RunType /\ r.pc \in {"seg"} \cup Speaking /\ r.i <= Len(r.subs)
      /\ Cue(P) = r.subs[r.i] /\ "combine" \in PCs \ {"trunc", "dump"}
  BY <1>1, <1>3, SmoothSegment
<1>5. r.subs[r.i] \in Speech \cup {Symbols}
  BY <1>3, <1>4
<1>6. Advanced(n, r, "seg", "combine") /\ Same(n, r, {"cache"}) /\ n.pc = "trunc"
  BY <1>2, <1>3, <1>4, <1>5, SettledAdvances
<1>7. n.stop = r.stop /\ n.miss = r.miss
  BY <1>6 DEF Same
<1>8. PICK w : w = Silence
  OBVIOUS
<1>9. w # None /\ ~w.long
  BY <1>8, NoneFacts DEF Silence
<1>10. SmoothSettling(P, r, n, w)
  BY <1>1, <1>3, <1>4, <1>6, <1>7, <1>8, <1>9 DEF SmoothSettling
<1>. QED
  BY <1>10, SmoothSettles

LEMMA SegmentCachedSmooth ==
    ASSUME SegmentTyped, SmoothInv, CleanInv, NEW P, Procs = {P}, SegmentCached(P)
    PROVE  SmoothInv'
<1>1. PICK r : r = run[P]
  OBVIOUS
<1>2. PICK m : m = [r EXCEPT !.slot = @ + Chunks[Cue(P)]]
  OBVIOUS
<1>3. PICK n : n = NextCue(m, "combine")
  OBVIOUS
<1>4. /\ r.pc = "seg" /\ Cue(P) \in Speech /\ Hit(P, r.i) /\ UNCHANGED <<wav, part, daemon>>
  BY <1>1 DEF SegmentCached, diskVars, daemonVars
<1>5. /\ r \in RunType /\ r.pc \in {"seg"} \cup Speaking /\ r.i <= Len(r.subs)
      /\ r.i \in 1..Len(r.subs) /\ r.i \in Index /\ Phase(r) = "seg" /\ P \in Procs
      /\ Cue(P) = r.subs[r.i] /\ "combine" \in PCs \ {"trunc", "dump"}
      /\ wav \in [Index -> Sounds \cup {None}] /\ SmoothFiles
  BY <1>1, <1>4, SmoothSegment
<1>6. ~Recovered(P, r.i) /\ wav[r.i] # None
  BY <1>1, <1>4, <1>5, HitFacts
<1>7. run' = [run EXCEPT ![P] = n]
  BY <1>1, <1>2, <1>3, <1>6 DEF SegmentCached
<1>8. /\ m \in RunType /\ m.pc = "seg" /\ m.i = r.i /\ m.subs = r.subs
      /\ m.stop = r.stop /\ m.miss = r.miss
  <2>1. r.slot + Chunks[Cue(P)] \in PartIndex
    <3>1. /\ r.slot \in Nat /\ Room(r.i) \in Nat /\ MaxChunks \in Nat
          /\ r.slot <= Room(r.i)
          /\ \A k \in 0..(Room(r.i) + 2 * MaxChunks) : k \in PartIndex
      BY <1>1, <1>4, <1>5, CueFacts, RoomFacts, SegmentAssumption DEF RunType, PartIndex
    <3>2. Chunks[Cue(P)] \in Nat /\ Chunks[Cue(P)] <= MaxChunks
      BY <1>4, ChunkFacts
    <3>. QED
      BY <3>1, <3>2
  <2>. QED
    BY <1>2, <1>4, <1>5, <2>1 DEF RunType
<1>9. Advanced(n, m, "seg", "combine") /\ Same(n, m, {}) /\ n.pc \in {"seg", "combine"}
  BY <1>3, <1>5, <1>8, NextCueAdvances
<1>10. n.stop = r.stop /\ n.miss = r.miss /\ Advanced(n, r, "seg", "combine")
  BY <1>8, <1>9 DEF Same, Advanced
<1>11. PICK w : w = wav[r.i]
  OBVIOUS
<1>12. wav' = [wav EXCEPT ![r.i] = w] /\ w # None /\ ~w.long
  BY <1>4, <1>5, <1>6, <1>11 DEF SmoothFiles
<1>13. SmoothSettling(P, r, n, w)
  BY <1>1, <1>4, <1>5, <1>7, <1>9, <1>10, <1>12 DEF SmoothSettling
<1>. QED
  BY <1>13, SmoothSettles

\* The process goes on with its cue.
LEMMA SmoothSpeaks ==
    ASSUME SegmentTyped, SmoothInv, NEW P, Procs = {P},
           NEW r, r = run[P], r.pc \in {"seg"} \cup Speaking,
           NEW n, run' = [run EXCEPT ![P] = n], n.pc \in Speaking, n.pc # "lost",
           n.subs = r.subs, n.stop = r.stop, n.i = r.i, n.miss = r.miss, ~n.said.long,
           SmoothFiles', UNCHANGED <<wav, daemon>>
    PROVE  SmoothInv'
<1>1. SmoothProc(r)
  BY SmoothFacts
<1>2. Phase(r) = r.pc /\ Phase(n) = n.pc
  BY DEF Phase, Speaking
<1>3. Settled(n) = Settled(r)
  BY <1>2 DEF Settled, Speaking
<1>4. SmoothProc(n)'
  BY <1>1, <1>2, <1>3 DEF SmoothProc, Speaking
<1>. QED
  BY <1>4, SmoothOn

LEMMA SegmentMissingSmooth ==
    ASSUME SegmentTyped, SmoothInv, NEW P, Procs = {P}, SegmentMissing(P)
    PROVE  SmoothInv'
<1>1. PICK r : r = run[P]
  OBVIOUS
<1>2. PICK n : n = [r EXCEPT !.pc = "request", !.chunk = 1, !.att = 0, !.rec = 0, !.said = Silence]
  OBVIOUS
<1>3. r.pc = "seg" /\ UNCHANGED <<wav, part, daemon>>
  BY <1>1 DEF SegmentMissing, diskVars, daemonVars
<1>4. /\ r \in RunType /\ run \in [Procs -> RunType] /\ P \in Procs /\ ~r.stop
      /\ SmoothFiles /\ r.pc \in {"seg"} \cup Speaking
  BY <1>1, <1>3, SmoothSegment
<1>5. run' = [run EXCEPT ![P] = n]
  BY <1>1, <1>2, <1>4 DEF SegmentMissing
<1>6. /\ n.pc = "request" /\ n.subs = r.subs /\ n.stop = r.stop /\ n.i = r.i /\ n.miss = r.miss
      /\ n.said = Silence
  BY <1>2, <1>4 DEF RunType
<1>7. n.pc \in Speaking /\ n.pc # "lost" /\ ~n.said.long
  BY <1>6 DEF Speaking, Silence
<1>8. SmoothFiles'
  BY <1>3, <1>4, SmoothSame
<1>. QED
  BY <1>1, <1>3, <1>4, <1>5, <1>6, <1>7, <1>8, SmoothSpeaks

\* The same chunk, at another place.
LEMMA SmoothWaits ==
    ASSUME SegmentTyped, SmoothInv, NEW P, Procs = {P}, run[P].pc \in Speaking,
           NEW q \in Speaking, q # "lost", Goto(P, q), SmoothFiles', UNCHANGED <<wav, daemon>>
    PROVE  SmoothInv'
<1>1. PICK r : r = run[P]
  OBVIOUS
<1>2. PICK n : n = [r EXCEPT !.pc = q]
  OBVIOUS
<1>3. /\ r \in RunType /\ P \in Procs /\ run \in [Procs -> RunType] /\ SmoothProc(r)
      /\ r.pc \in Speaking
  BY <1>1, SmoothFacts
<1>4. run' = [run EXCEPT ![P] = n]
  BY <1>1, <1>2, <1>3 DEF Goto
<1>5. /\ n.pc = q /\ n.subs = r.subs /\ n.stop = r.stop /\ n.i = r.i /\ n.miss = r.miss
      /\ n.said = r.said
  BY <1>2, <1>3 DEF RunType
<1>6. ~r.said.long
  BY <1>3 DEF SmoothProc
<1>. QED
  BY <1>1, <1>3, <1>4, <1>5, <1>6, SmoothSpeaks

LEMMA RequestSmooth ==
    ASSUME SegmentTyped, SmoothInv, NEW P, Procs = {P}, Request(P)
    PROVE  SmoothInv'
<1>1. SmoothProc(run[P]) /\ SmoothFiles /\ run[P].pc = "request"
  BY SmoothFacts DEF Request
<1>2. daemon = "up" /\ ~run[P].stop
  BY <1>1 DEF SmoothProc
<1>3. Goto(P, "wait") /\ UNCHANGED <<wav, part, daemon>>
  BY <1>2 DEF Request, diskVars
<1>4. SmoothFiles'
  BY <1>1, <1>3, SmoothSame
<1>5. run[P].pc \in Speaking /\ "wait" \in Speaking
  BY <1>1 DEF Speaking
<1>. QED
  BY <1>3, <1>4, <1>5, SmoothWaits

LEMMA GeneratedSmooth ==
    ASSUME SegmentTyped, SmoothInv, CleanInv, NEW P, Procs = {P}, NEW g \in gens, Generated(g), NoFault
    PROVE  SmoothInv'
<1>1. g.proc = P /\ g.live /\ g.slot = run[P].slot /\ run[P].pc = "wait"
  BY CleanGens
<1>2. /\ SmoothFiles /\ part \in [PartIndex -> Sounds \cup {None}]
  BY SmoothFacts
<1>3. PICK w : w = [says |-> {g.text}, long |-> FALSE]
  OBVIOUS
<1>4. part' = [part EXCEPT ![g.slot] = w] /\ Goto(P, "read") /\ UNCHANGED <<wav, daemon>>
  BY <1>1, <1>3 DEF Generated, NoFault
<1>5. w.says # {} /\ ~w.long
  BY <1>3
<1>6. SmoothFiles'
  <2>1. \A k \in PartIndex : part'[k] = part[k] \/ part'[k] = w
    BY <1>2, <1>4
  <2>. QED
    BY <1>2, <1>4, <1>5, <2>1 DEF SmoothFiles
<1>7. run[P].pc \in Speaking /\ "read" \in Speaking
  BY <1>1 DEF Speaking
<1>. QED
  BY <1>4, <1>6, <1>7, SmoothWaits

LEMMA ReadChunkSmooth ==
    ASSUME SegmentTyped, SmoothInv, NEW P, Procs = {P}, ReadChunk(P)
    PROVE  SmoothInv'
<1>1. PICK r : r = run[P]
  OBVIOUS
<1>2. PICK heard : heard = part[r.slot]
  OBVIOUS
<1>3. PICK said : said = [says |-> r.said.says \cup heard.says, long |-> r.said.long \/ heard.long]
  OBVIOUS
<1>4. PICK k : k = [r EXCEPT !.said = said, !.slot = @ + 1]
  OBVIOUS
<1>5. /\ r \in RunType /\ r.pc = "read" /\ r.pc \in Speaking /\ P \in Procs
      /\ run \in [Procs -> RunType] /\ SmoothProc(r) /\ SmoothFiles
      /\ part \in [PartIndex -> Sounds \cup {None}]
  BY <1>1, SmoothFacts DEF ReadChunk, Speaking
<1>6. UNCHANGED <<part, daemon>>
  BY DEF ReadChunk, daemonVars, diskVars, Retry, GiveUp
<1>7. heard \in Sounds /\ heard.says # {} /\ ~heard.long
  <2>1. heard # None /\ r.slot \in PartIndex
    BY <1>1, <1>2, <1>5 DEF SegmentTyped, ProcsTyped, RunType
  <2>. QED
    BY <1>2, <1>5, <2>1 DEF SmoothFiles
<1>8. said \in Sounds /\ ~said.long /\ said # None
  <2>1. PICK t : t = r.said.says \cup heard.says
    OBVIOUS
  <2>2. t \in SUBSET Speech /\ ~r.said.long /\ ~heard.long
    BY <1>5, <1>7, <2>1 DEF RunType, Sounds, SmoothProc
  <2>3. (r.said.long \/ heard.long) = FALSE
    BY <2>2
  <2>4. said = [says |-> t, long |-> FALSE]
    BY <1>3, <2>1, <2>3, Zenon
  <2>5. said \in Sounds /\ ~said.long
    BY <2>2, <2>4 DEF Sounds
  <2>. QED
    BY <2>5, NoneFacts
<1>9. r.slot + 1 \in PartIndex /\ r.i <= Len(r.subs) /\ r.subs[r.i] \in Speech
  <2>1. Cue(P) = r.subs[r.i] /\ Cue(P) \in Speech /\ r.i <= Len(r.subs)
    BY <1>1, <1>5, SpeakingFacts
  <2>2. r.slot + 1 \in PartIndex
    BY <1>1, <1>5, SlotFacts
  <2>. QED
    BY <2>1, <2>2
<1>10. /\ k \in RunType /\ k.said = said /\ k.subs = r.subs /\ k.i = r.i /\ k.miss = r.miss
       /\ k.stop = r.stop
  BY <1>4, <1>5, <1>8, <1>9 DEF RunType
<1>11. CASE /\ run' = [run EXCEPT ![P] = [k EXCEPT !.chunk = @ + 1, !.att = 0, !.rec = 0,
                                                    !.pc = "request"]]
            /\ UNCHANGED diskVars
  <2>1. PICK n : n = [k EXCEPT !.chunk = @ + 1, !.att = 0, !.rec = 0, !.pc = "request"]
    OBVIOUS
  <2>2. /\ n.pc = "request" /\ n.said = said /\ n.subs = r.subs /\ n.i = r.i /\ n.miss = r.miss
        /\ n.stop = r.stop
    BY <1>10, <2>1 DEF RunType
  <2>3. n.pc \in Speaking /\ n.pc # "lost" /\ ~n.said.long
    BY <1>8, <2>2 DEF Speaking
  <2>4. run' = [run EXCEPT ![P] = n] /\ UNCHANGED <<wav, daemon>>
    BY <1>6, <1>11, <2>1 DEF diskVars
  <2>5. SmoothFiles'
    BY <1>5, <1>6, <2>4, SmoothSame
  <2>. QED
    BY <1>1, <1>5, <2>2, <2>3, <2>4, <2>5, SmoothSpeaks
<1>12. CASE /\ wav' = [wav EXCEPT ![r.i] = said]
            /\ run' = [run EXCEPT ![P] =
                    Saving(NextCue(SetCache(Finished(k), r.i, FALSE), "combine"))]
  <2>1. PICK f : f = Finished(k)
    OBVIOUS
  <2>2. Same(f, k, {"tries"}) /\ f.pc = "seg" /\ f.i = r.i
    BY <1>10, <2>1, FinishedFields
  <2>3. f \in RunType /\ f.subs = r.subs /\ f.stop = r.stop /\ f.miss = r.miss
    BY <1>10, <2>2 DEF Same
  <2>4. PICK n : n = Saving(NextCue(SetCache(f, f.i, FALSE), "combine"))
    OBVIOUS
  <2>5. "combine" \in PCs \ {"trunc", "dump"}
    BY DEF PCs
  <2>6. Advanced(n, f, "seg", "combine") /\ Same(n, f, {"cache"}) /\ n.pc = "trunc"
    <3>1. f.i <= Len(f.subs) /\ f.subs[f.i] \in Speech \cup {Symbols} /\ f.pc \notin {"trunc", "dump"}
      BY <1>9, <2>2, <2>3
    <3>. QED
      BY <2>2, <2>3, <2>4, <2>5, <3>1, SettledAdvances
  <2>7. n.stop = r.stop /\ n.miss = r.miss /\ Advanced(n, r, "seg", "combine")
    BY <2>2, <2>3, <2>6 DEF Same, Advanced
  <2>8. run' = [run EXCEPT ![P] = n]
    BY <1>12, <2>1, <2>2, <2>4
  <2>9. SmoothSettling(P, r, n, said)
    BY <1>1, <1>5, <1>6, <1>8, <1>12, <2>6, <2>7, <2>8 DEF SmoothSettling
  <2>. QED
    BY <2>9, SmoothSettles
<1>13. \/ /\ run' = [run EXCEPT ![P] = [k EXCEPT !.chunk = @ + 1, !.att = 0, !.rec = 0,
                                                    !.pc = "request"]]
          /\ UNCHANGED diskVars
       \/ /\ wav' = [wav EXCEPT ![r.i] = said]
          /\ run' = [run EXCEPT ![P] =
                    Saving(NextCue(SetCache(Finished(k), r.i, FALSE), "combine"))]
  BY <1>1, <1>2, <1>3, <1>4, <1>7 DEF ReadChunk, IsSilent
<1>. QED
  BY <1>11, <1>12, <1>13

LEMMA CombineSmooth ==
    ASSUME SegmentTyped, SmoothInv, NEW P, Procs = {P}, BlanksStay, Combine(P)
    PROVE  SmoothInv'
<1>1. PICK r : r = run[P]
  OBVIOUS
<1>2. PICK mix : mix = [i \in 1..Len(r.subs) |-> wav[i]]
  OBVIOUS
<1>3. PICK n : n = [r EXCEPT !.pc = "trunc", !.then = "write", !.mix = mix]
  OBVIOUS
<1>4. /\ r \in RunType /\ r.pc = "combine" /\ P \in Procs /\ run \in [Procs -> RunType]
      /\ SmoothProc(r) /\ SmoothFiles /\ LocalInv(r)
  BY <1>1, SmoothFacts DEF Combine
<1>5. UNCHANGED <<wav, part, daemon>>
  BY DEF Combine, diskVars, daemonVars
<1>6. Phase(r) = "combine" /\ Settled(r) = 1..Len(r.subs)
  BY <1>4 DEF Phase, Settled
<1>7. r.subs \in Scripts /\ Len(r.subs) \in Nat /\ \A i \in 1..Len(r.subs) : i \in Index
  BY <1>4, <1>6, ScriptFacts DEF LocalInv, RunType
<1>8. /\ \A i \in 1..Len(r.subs) : wav[i] # None \/ (~r.miss /\ r.subs[i] = Empty)
      /\ ~r.miss => \A i \in 1..Len(r.subs) : r.subs[i] # Symbols
      /\ BlanksKept
  BY <1>4, <1>6 DEF SmoothProc, Speaking
<1>9. (\E i \in 1..Len(r.subs) : wav[i] # None) => \A i \in 1..Len(r.subs) : wav[i] # None
  <2>. SUFFICES ASSUME NEW k \in 1..Len(r.subs), wav[k] # None, NEW i \in 1..Len(r.subs)
                PROVE  wav[i] # None
    OBVIOUS
  <2>1. CASE r.miss
    BY <1>8, <2>1
  <2>2. CASE Len(r.subs) <= 1
    <3>1. i = k
      BY <1>7, <2>2
    <3>. QED
      BY <3>1
  <2>3. CASE ~r.miss /\ ~(Len(r.subs) <= 1)
    <3>1. \A j \in 1..Len(r.subs) : r.subs[j] = Empty => j \in Blanks
      BY <1>7, <1>8, <2>3 DEF BlanksStay
    <3>2. \A j \in Blanks : wav[j] # None
      BY <1>7, <1>8 DEF BlanksKept
    <3>. QED
      BY <1>8, <3>1, <3>2
  <2>. QED
    BY <2>1, <2>2, <2>3
<1>10. \A i \in 1..Len(r.subs) : wav[i] # None => ~wav[i].long
  BY <1>4, <1>7 DEF SmoothFiles
<1>11. CASE Exit(P, 0)
  BY <1>1, <1>4, <1>5, <1>11, SmoothExits
<1>12. CASE run' = [run EXCEPT ![P] = n]
  <2>1. /\ n.pc = "trunc" /\ n.then = "write" /\ n.subs = r.subs /\ n.stop = r.stop
        /\ n.miss = r.miss
    BY <1>3, <1>4 DEF RunType
  <2>2. Phase(n) = "write" /\ Settled(n) = Settled(r)
    BY <1>6, <2>1 DEF Phase, Settled
  <2>3. SmoothProc(n)'
    BY <1>4, <1>5, <1>6, <2>1, <2>2 DEF SmoothProc, Speaking, BlanksKept
  <2>4. SmoothFiles'
    BY <1>4, <1>5, SmoothSame
  <2>. QED
    BY <1>12, <2>3, <2>4, SmoothOn
<1>13. Exit(P, 0) \/ run' = [run EXCEPT ![P] = n]
  <2>1. ASSUME run' = [run EXCEPT ![P] =
                          Saving([@ EXCEPT !.pc = "write", !.mix = [i \in 1..Len(r.subs) |-> wav[i]]])]
        PROVE  run' = [run EXCEPT ![P] = n]
    <3>1. PICK k : k = [r EXCEPT !.pc = "write", !.mix = mix]
      OBVIOUS
    <3>2. run' = [run EXCEPT ![P] = Saving(k)]
      BY <1>1, <1>2, <1>4, <2>1, <3>1
    <3>3. Saving(k) = n
      BY <1>3, <1>4, <3>1 DEF Saving, RunType
    <3>. QED
      BY <3>2, <3>3
  <2>. QED
    BY <1>1, <1>9, <1>10, <2>1 DEF Combine
<1>. QED
  BY <1>11, <1>12, <1>13

LEMMA SmoothStep ==
    ASSUME SegmentTyped, SmoothInv, CleanInv, NEW P, Procs = {P}, TextsStayInPlace, BlanksStay,
           [Next]_vars, used'["fault"] = 0, used'["abandon"] = 0
    PROVE  SmoothInv'
<1>1. NoFault
  BY NoFaults
<1>2. CASE UNCHANGED vars
  BY <1>2 DEF vars, SmoothInv, SmoothProc, SmoothFiles, BlanksKept
<1>3. CASE Start(P)
  BY <1>3, StartSmooth
<1>4. CASE Attach(P)
  BY <1>1, <1>4, AttachSmooth
<1>5. CASE Load(P)
  BY <1>5, LoadSmooth
<1>6. CASE MigrateBlank(P)
  BY <1>6, MigrateBlankSmooth
<1>7. CASE MigrateNew(P)
  BY <1>7, MigrateNewSmooth
<1>8. CASE MigrateKnown(P)
  BY <1>8, MigrateKnownSmooth
<1>9. CASE MigrateStale(P)
  BY <1>9, MigrateStaleSmooth
<1>10. CASE SaveOpen(P)
  BY <1>10, SaveOpenSmooth
<1>11. CASE SaveDump(P)
  BY <1>11, SaveDumpSmooth
<1>12. CASE CountOne(P)
  BY <1>12, CountOneSmooth
<1>13. CASE EnsureModel(P)
  BY <1>1, <1>13, EnsureModelSmooth
<1>14. CASE SegmentBlank(P)
  BY <1>14, SegmentBlankSmooth
<1>15. CASE SegmentSymbols(P)
  BY <1>15, SegmentSymbolsSmooth
<1>16. CASE SegmentCached(P)
  BY <1>16, SegmentCachedSmooth
<1>17. CASE SegmentMissing(P)
  BY <1>17, SegmentMissingSmooth
<1>18. CASE Request(P)
  BY <1>18, RequestSmooth
<1>19. CASE ReadChunk(P)
  BY <1>19, ReadChunkSmooth
<1>20. ~Recover(P)
  <2>1. run[P].pc # "lost"
    BY SmoothFacts DEF SmoothProc
  <2>. QED
    BY <2>1 DEF Recover
<1>21. CASE Combine(P)
  BY <1>21, CombineSmooth
<1>22. CASE WriteOutput(P)
  BY <1>22, SmoothExits DEF WriteOutput
<1>23. CASE \E g \in gens : Generated(g)
  BY <1>1, <1>23, GeneratedSmooth
<1>24. ~(Terminate(P) \/ Kill(P) \/ Timeout(P) \/ DaemonDies)
  BY <1>1 DEF NoFault, Terminate, Kill, Timeout, DaemonDies
<1>. QED
  BY <1>2, <1>3, <1>4, <1>5, <1>6, <1>7, <1>8, <1>9, <1>10, <1>11, <1>12, <1>13, <1>14,
     <1>15, <1>16, <1>17, <1>18, <1>19, <1>20, <1>21, <1>22, <1>23, <1>24
  DEF Next, ProcStep

LEMMA SmoothInit ==
    ASSUME Init PROVE SmoothInv
<1>1. /\ used["run"] = 0
      /\ \A i \in Index : wav[i] = None
      /\ \A k \in PartIndex : part[k] = None
      /\ \A p \in Procs : run[p] = Idle
  BY DEF Init, Events
<1>2. SmoothFiles /\ BlanksKept
  BY <1>1 DEF SmoothFiles, BlanksKept
<1>3. SmoothProc(Idle)
  <2>1. Idle.pc = "off" /\ Phase(Idle) = "off" /\ ~Idle.stop
    BY DEF Idle, Phase
  <2>2. Settled(Idle) = {}
    BY <2>1 DEF Settled, Speaking
  <2>. QED
    BY <1>1, <1>2, <2>1, <2>2 DEF SmoothProc, Speaking
<1>. QED
  BY <1>1, <1>2, <1>3 DEF SmoothInv

LEMMA SmoothNext ==
    ASSUME NEW P, Procs = {P}, TextsStayInPlace, BlanksStay, SegmentTyped, Clean, Smooth, [Next]_vars
    PROVE  Smooth'
<1>. SUFFICES ASSUME used'["fault"] = 0, used'["abandon"] = 0 PROVE SmoothInv'
  BY DEF Smooth
<1>1. "fault" \in Events /\ "abandon" \in Events
  BY DEF Events
<1>2. used["fault"] = 0 /\ used["abandon"] = 0
  BY <1>1, SpentGrows
<1>3. SmoothInv /\ CleanInv
  BY <1>2 DEF Smooth, Clean
<1>. QED
  BY <1>3, SmoothStep

\* While one process at a time runs, the texts are edited in place and blank cues
\* stay blank, a run of gen_audio.py needs no luck: as long as nothing has failed,
\* through any number of edits, every run ends without an error.  _migrate_cache
\* and _check_cache (gen_audio.py:132-248) never leave a cue without the file
\* that combine_audio_segments (gen_audio.py:468-489) reads.  BlanksStay cannot
\* be dropped: where only a cleared cue has changed nothing is missing, and the
\* silence for it is not made (gen_audio.py:663-669).
THEOREM SegmentFaultFreeSucceeds ==
    ASSUME \E p : Procs = {p}, TextsStayInPlace, BlanksStay
    PROVE  Spec => []FaultFreeSucceeds
<1>. PICK P : Procs = {P}
  OBVIOUS
<1>1. Init => Clean /\ Smooth
  BY CleanInit, SmoothInit DEF Clean, Smooth
<1>2. SegmentTyped /\ Clean /\ [Next]_vars => Clean'
  BY CleanNext
<1>3. SegmentTyped /\ Clean /\ Smooth /\ [Next]_vars => Smooth'
  BY SmoothNext
<1>4. Smooth => FaultFreeSucceeds
  <2>. SUFFICES ASSUME Smooth, Quiet, used["run"] > 0, used["fault"] = 0, used["abandon"] = 0
                PROVE  last.code = 0
    BY DEF FaultFreeSucceeds
  <2>1. P \in Procs /\ run[P].pc = "off" /\ SmoothProc(run[P])
    BY DEF Quiet, Smooth, SmoothInv
  <2>. QED
    BY <2>1 DEF SmoothProc
<1>. QED
  BY <1>1, <1>2, <1>3, <1>4, SegmentInitTyped, SegmentNextTyped, PTL DEF Spec
=============================================================================

---------------------------- MODULE TrimmerProofs ----------------------------
(***************************************************************************)
(* Proofs about Trimmer, for every length of a video, rate of its frames   *)
(* and number of cuts. Its first half is about the operators: what a cut   *)
(* does to chunks, and what a call of the player does to positions.        *)
(***************************************************************************)
EXTENDS Trimmer, TLAPS, FiniteSetTheorems, SequenceTheorems

\* A set of numbers has a least one: its initial segments are well founded.
LEMMA MinExists ==
  ASSUME NEW S \in SUBSET Nat, S # {}
  PROVE  \E i \in S : \A j \in S : i <= j
<1> DEFINE T == {0 .. k : k \in S}
<1>1. T \in SUBSET FiniteSubsetsOf(Nat) /\ T # {}
  <2>1. \A k \in S : 0 .. k \in SUBSET Nat
    OBVIOUS
  <2>2. \A k \in S : IsFiniteSet(0 .. k)
    BY FS_Interval
  <2> QED BY <2>1, <2>2 DEF FiniteSubsetsOf
<1>2. PICK x \in T : \A y \in T : <<y, x>> \notin StrictSubsetOrdering(Nat)
  BY <1>1, FS_StrictSubsetOrderingWellFounded, WFMin
<1>3. PICK i \in S : x = 0 .. i
  OBVIOUS
<1>4. ASSUME NEW j \in S PROVE i <= j
  <2> SUFFICES ASSUME j < i PROVE FALSE
    OBVIOUS
  <2>1. 0 .. j \in T /\ 0 .. j \subseteq 0 .. i /\ 0 .. i \subseteq Nat
    OBVIOUS
  <2>2. i \in 0 .. i /\ i \notin 0 .. j
    OBVIOUS
  <2>3. 0 .. j # 0 .. i
    BY <2>2
  <2>4. <<0 .. j, 0 .. i>> \in StrictSubsetOrdering(Nat)
    BY <2>1, <2>3 DEF StrictSubsetOrdering
  <2> QED BY <1>2, <1>3, <2>1, <2>4
<1> QED BY <1>4

\* A bounded set of numbers has a greatest one.
LEMMA MaxExists ==
  ASSUME NEW n \in Nat, NEW S \in SUBSET (0 .. n), S # {}
  PROVE  \E i \in S : \A j \in S : j <= i
<1> DEFINE T == {n - x : x \in S}
<1>1. T \in SUBSET Nat /\ T # {}
  <2>1. \A x \in S : x \in Nat /\ x <= n
    OBVIOUS
  <2>2. \A x \in S : n - x \in Nat
    BY <2>1
  <2> QED BY <2>2
<1>2. PICK t \in T : \A u \in T : t <= u
  BY <1>1, MinExists
<1>3. PICK i \in S : t = n - i
  BY <1>2
<1>4. ASSUME NEW j \in S PROVE j <= i
  <2>1. t <= n - j
    BY <1>2
  <2> QED BY <1>3, <2>1
<1> QED BY <1>3, <1>4

\* What FirstOf chooses is in the set.
LEMMA FirstIn == ASSUME NEW S \in SUBSET Nat, S # {} PROVE FirstOf(S) \in S
  BY MinExists DEF FirstOf

\* LastOf likewise.
LEMMA LastIn == ASSUME NEW n \in Nat, NEW S \in SUBSET (0 .. n), S # {} PROVE LastOf(S) \in S
  BY MaxExists DEF LastOf
-----------------------------------------------------------------------------
(* Chunks. *)

\* A function on 1 .. n is a sequence of length n.
LEMMA FunctionIsSeq ==
  ASSUME NEW n \in Nat, NEW S, NEW t \in [1 .. n -> S]
  PROVE  t \in Seq(S) /\ Len(t) = n
<1>1. t \in Seq(S)
  BY SeqDef
<1>2. DOMAIN t = 1 .. n /\ DOMAIN t = 1 .. Len(t) /\ Len(t) \in Nat
  BY <1>1, LenProperties
<1> QED BY <1>1, <1>2

\* A cut keeps the chunks contiguous, and their end.
LEMMA SplitIsContiguous ==
  ASSUME NEW cs \in Seq(Chunk), cs # <<>>, Contiguous(cs), NEW ms \in Int,
         NEW t \in SplitChunk(cs, ms)
  PROVE  t \in Seq(Chunk) /\ t # <<>> /\ Contiguous(t) /\ t[Len(t)].end = cs[Len(cs)].end
<1> DEFINE n == Len(cs)
<1>1. n \in Nat \ {0} /\ \A k \in 1 .. n : cs[k] \in Chunk
  BY LenProperties, EmptySeq, ElementOfSeq
<1>2. PICK i \in 1 .. n : Holds(cs[i], ms) /\ ms # cs[i].start /\ t = SplitAt(cs, i, ms)
  BY DEF SplitChunk
<1>3. ms \in Nat /\ cs[i].start < ms /\ ms < cs[i].end
  BY <1>1, <1>2 DEF Holds, Chunk
<1> DEFINE left == [cs[i] EXCEPT !.end = ms]
           right == [cs[i] EXCEPT !.start = ms]
           f(k) == IF k < i THEN cs[k] ELSE IF k = i THEN left
                   ELSE IF k = i + 1 THEN right ELSE cs[k - 1]
<1>4. /\ left \in Chunk /\ left.start = cs[i].start /\ left.end = ms
      /\ right \in Chunk /\ right.start = ms /\ right.end = cs[i].end
  BY <1>1, <1>3 DEF Chunk
<1>12. t = [k \in 1 .. n + 1 |-> f(k)]
  BY <1>2 DEF SplitAt
<1> HIDE DEF left, right
<1>5. \A k \in 1 .. n + 1 : f(k) \in Chunk
  BY <1>1, <1>4
<1>13. t \in [1 .. n + 1 -> Chunk]
  BY <1>12, <1>5
<1>6. t \in Seq(Chunk) /\ Len(t) = n + 1
  BY <1>1, <1>13, FunctionIsSeq
<1>7. /\ \A k \in 1 .. n + 1 : k < i => t[k] = cs[k]
      /\ t[i].start = cs[i].start /\ t[i].end = ms
      /\ t[i + 1].start = ms /\ t[i + 1].end = cs[i].end
      /\ \A k \in 1 .. n + 1 : k > i + 1 => t[k] = cs[k - 1]
  BY <1>1, <1>4, <1>12
<1> HIDE DEF f
<1>8. t[1].start = 0
  BY <1>1, <1>7 DEF Contiguous
<1>9. ASSUME NEW k \in 1 .. n + 1 PROVE t[k].start < t[k].end
  <2>1. CASE k < i BY <2>1, <1>1, <1>7 DEF Contiguous
  <2>2. CASE k = i \/ k = i + 1 BY <2>2, <1>3, <1>7
  <2>3. CASE k > i + 1
    <3>1. k - 1 \in 1 .. n /\ t[k] = cs[k - 1] BY <2>3, <1>1, <1>7
    <3> QED BY <3>1 DEF Contiguous
  <2> QED BY <2>1, <2>2, <2>3, <1>1
<1>10. ASSUME NEW k \in 1 .. n PROVE t[k].end = t[k + 1].start
  <2>1. CASE k < i
    <3>1. t[k] = cs[k] /\ t[k + 1].start = cs[k + 1].start
      BY <2>1, <1>1, <1>7
    <3>2. cs[k].end = cs[k + 1].start
      BY <2>1, <1>1 DEF Contiguous
    <3> QED BY <3>1, <3>2
  <2>2. CASE k = i BY <2>2, <1>7
  <2>3. CASE k > i
    <3>1. t[k + 1] = cs[k] BY <2>3, <1>1, <1>7
    <3>2. t[k].end = cs[k - 1].end BY <2>3, <1>1, <1>7
    <3>3. cs[k - 1].end = cs[k].start BY <2>3, <1>1 DEF Contiguous
    <3> QED BY <3>1, <3>2, <3>3
  <2> QED BY <2>1, <2>2, <2>3, <1>1
<1>11. t[n + 1].end = cs[n].end
  BY <1>1, <1>7
<1> QED BY <1>1, <1>6, <1>8, <1>9, <1>10, <1>11, EmptySeq DEF Contiguous

\* Taking a cut point away keeps them contiguous, and their end.
LEMMA JoinIsContiguous ==
  ASSUME NEW cs \in Seq(Chunk), cs # <<>>, Contiguous(cs), NEW i \in 1 .. Len(cs) - 1
  PROVE  /\ JoinAt(cs, i) \in Seq(Chunk) /\ JoinAt(cs, i) # <<>> /\ Contiguous(JoinAt(cs, i))
         /\ JoinAt(cs, i)[Len(JoinAt(cs, i))].end = cs[Len(cs)].end
<1> DEFINE n == Len(cs)
           t == JoinAt(cs, i)
<1>1. n \in Nat /\ n > 1 /\ i + 1 \in 1 .. n /\ \A k \in 1 .. n : cs[k] \in Chunk
  BY LenProperties, ElementOfSeq
<1> DEFINE joined == NewChunk(cs[i].start, cs[i + 1].end, cs[i].enabled \/ cs[i + 1].enabled)
           f(k) == IF k < i THEN cs[k] ELSE IF k = i THEN joined ELSE cs[k + 1]
<1>2. t = [k \in 1 .. n - 1 |-> f(k)]
  BY DEF JoinAt
<1>3. joined \in Chunk /\ joined.start = cs[i].start /\ joined.end = cs[i + 1].end
  BY <1>1 DEF NewChunk, Chunk
<1> HIDE DEF joined
<1>4. \A k \in 1 .. n - 1 : f(k) \in Chunk
  BY <1>1, <1>3
<1>5. t \in Seq(Chunk) /\ Len(t) = n - 1
  BY <1>1, <1>2, <1>4, FunctionIsSeq
<1>6. /\ \A k \in 1 .. n - 1 : k < i => t[k] = cs[k]
      /\ t[i] = joined
      /\ \A k \in 1 .. n - 1 : k > i => t[k] = cs[k + 1]
  BY <1>1, <1>2
<1> HIDE DEF f, t
<1>7. t[1].start = 0
  BY <1>1, <1>3, <1>6 DEF Contiguous
<1>8. ASSUME NEW k \in 1 .. n - 1 PROVE t[k].start < t[k].end
  <2>1. CASE k = i
    <3>1. cs[i].start < cs[i].end /\ cs[i].end = cs[i + 1].start /\ cs[i + 1].start < cs[i + 1].end
      BY <1>1 DEF Contiguous
    <3>2. cs[i].start \in Nat /\ cs[i].end \in Nat /\ cs[i + 1].start \in Nat /\ cs[i + 1].end \in Nat
      BY <1>1 DEF Chunk
    <3> QED BY <2>1, <3>1, <3>2, <1>3, <1>6
  <2>2. CASE k # i BY <2>2, <1>1, <1>6 DEF Contiguous
  <2> QED BY <2>1, <2>2
<1>9. ASSUME NEW k \in 1 .. n - 2 PROVE t[k].end = t[k + 1].start
  <2>1. CASE k + 1 < i BY <2>1, <1>1, <1>6 DEF Contiguous
  <2>2. CASE k + 1 = i BY <2>2, <1>1, <1>3, <1>6 DEF Contiguous
  <2>3. CASE k = i
    <3>1. t[k + 1] = cs[i + 2] BY <2>3, <1>1, <1>6
    <3>2. cs[i + 1].end = cs[i + 2].start BY <2>3, <1>1 DEF Contiguous
    <3> QED BY <2>3, <3>1, <3>2, <1>3, <1>6
  <2>4. CASE k > i
    <3>1. t[k] = cs[k + 1] /\ t[k + 1] = cs[k + 2] BY <2>4, <1>1, <1>6
    <3>2. cs[k + 1].end = cs[k + 2].start BY <2>4, <1>1 DEF Contiguous
    <3> QED BY <3>1, <3>2
  <2> QED BY <2>1, <2>2, <2>3, <2>4, <1>1
<1>10. t[n - 1].end = cs[n].end
  BY <1>1, <1>3, <1>6
<1>11. Contiguous(t)
  BY <1>1, <1>5, <1>7, <1>8, <1>9 DEF Contiguous
<1> QED BY <1>1, <1>5, <1>10, <1>11, EmptySeq DEF t

\* One chunk from the start is contiguous.
LEMMA WholeIsContiguous ==
  ASSUME NEW d \in Nat \ {0}
  PROVE  LET w == <<NewChunk(0, d, TRUE)>>
         IN  w \in Seq(Chunk) /\ w # <<>> /\ Contiguous(w) /\ w[Len(w)].end = d
<1>1. NewChunk(0, d, TRUE) \in Chunk
  BY DEF NewChunk, Chunk
<1> QED BY <1>1 DEF Contiguous, NewChunk

-----------------------------------------------------------------------------
(* The player. *)

PlaybackT == [position : Int, duration : Nat, paused : BOOLEAN, eof : BOOLEAN]
ScrubT == [owner : {None, "trimmer", "preview"}, position : Int, resume : BOOLEAN]
MpvT == [position : Int, duration : Nat, paused : BOOLEAN, eof : BOOLEAN,
         busy : BOOLEAN, seek : Int, pending : Int]
PlayerT == [playback : PlaybackT, restart : BOOLEAN, scrub : ScrubT, mpv : MpvT]

\* What every call keeps of the player's state.
Sound(p) ==
    /\ p \in PlayerT
    /\ p.playback.position \in 0 .. Max2(0, p.playback.duration - 1)
    /\ p.playback.duration \in {0, p.mpv.duration}
    /\ p.mpv.duration = 0 => p.mpv.position = 0
    /\ p.scrub.owner # None => p.playback.duration > 0

SameLengths(p, q) ==
    q.playback.duration = p.playback.duration /\ q.mpv.duration = p.mpv.duration

\* What is clamped is in the range.
LEMMA ClampRange ==
  ASSUME NEW lo \in Int, NEW hi \in Int, lo <= hi, NEW x \in Int
  PROVE  Clamp(x, lo, hi) \in lo .. hi
  BY DEF Clamp

\* A seek changes neither mpv's length nor, before it is done, its position.
LEMMA MpvSeekSound ==
  ASSUME NEW m \in MpvT, NEW ms \in Int
  PROVE  /\ MpvSeek(m, ms) \in MpvT /\ MpvSeek(m, ms).duration = m.duration
         /\ MpvSeek(m, ms).position = m.position
  BY DEF MpvT, MpvSeek

\* A seek within a known length leaves a position within it.
LEMMA SeekToSound ==
  ASSUME NEW p, Sound(p), p.playback.duration > 0, NEW ms \in Int
  PROVE  Sound(SeekTo(p, ms)) /\ SameLengths(p, SeekTo(p, ms))
<1> DEFINE d == p.playback.duration
           to == ClampToDuration(p.playback, ms)
           m == MpvSeek(p.mpv, to)
           b == [p.playback EXCEPT !.position = to]
<1>1. p \in PlayerT /\ d \in Nat
  BY DEF Sound, PlayerT, PlaybackT
<1>2. to \in 0 .. d - 1
  <2>1. to = Clamp(ms, 0, d - 1)
    BY DEF ClampToDuration
  <2> DEFINE e == d - 1
  <2>2. e \in Int /\ 0 <= e
    BY <1>1
  <2> HIDE DEF e
  <2>3. Clamp(ms, 0, e) \in 0 .. e
    BY <2>2, ClampRange
  <2> QED BY <2>1, <2>3 DEF e
<1>5. SeekTo(p, ms) = [p EXCEPT !.playback = b, !.mpv = m]
  BY <1>1 DEF SeekTo, PlayerT
<1> HIDE DEF to
<1>3. m \in MpvT /\ m.duration = p.mpv.duration /\ m.position = p.mpv.position
  <2>1. p.mpv \in MpvT /\ to \in Int
    BY <1>1, <1>2 DEF PlayerT
  <2> QED BY <2>1, MpvSeekSound
<1>4. b \in PlaybackT /\ b.position = to /\ b.duration = d
  BY <1>1, <1>2 DEF PlayerT, PlaybackT
<1> DEFINE q == [p EXCEPT !.playback = b, !.mpv = m]
<1> HIDE DEF b, m
<1>6. q \in PlayerT /\ q.playback = b /\ q.mpv = m /\ q.scrub = p.scrub
  BY <1>1, <1>3, <1>4 DEF PlayerT
<1> HIDE DEF q
<1>7. Sound(q) /\ SameLengths(p, q)
  BY <1>1, <1>2, <1>3, <1>4, <1>6 DEF Sound, SameLengths, Max2
<1> QED BY <1>5, <1>7 DEF q

\* Pausing changes no length and no position.
LEMMA PausedSound ==
  ASSUME NEW p, Sound(p), NEW b \in BOOLEAN
  PROVE  Sound(Paused(p, b)) /\ SameLengths(p, Paused(p, b))
<1> DEFINE m == [p.mpv EXCEPT !.paused = b]
           q == [p EXCEPT !.mpv = m]
<1>1. p \in PlayerT
  BY DEF Sound
<1>2. m \in MpvT /\ m.duration = p.mpv.duration /\ m.position = p.mpv.position
  BY <1>1 DEF PlayerT, MpvT
<1>3. Paused(p, b) = q
  BY <1>1 DEF Paused, PlayerT
<1> HIDE DEF m
<1>4. q \in PlayerT /\ q.playback = p.playback /\ q.mpv = m /\ q.scrub = p.scrub
  BY <1>1, <1>2 DEF PlayerT
<1> HIDE DEF q
<1> QED BY <1>2, <1>3, <1>4 DEF Sound, SameLengths

\* restart is of no account to what is kept.
LEMMA RestartSound ==
  ASSUME NEW p, Sound(p), NEW b \in BOOLEAN
  PROVE  Sound([p EXCEPT !.restart = b]) /\ SameLengths(p, [p EXCEPT !.restart = b])
<1> DEFINE q == [p EXCEPT !.restart = b]
<1>1. q \in PlayerT /\ q.playback = p.playback /\ q.mpv = p.mpv /\ q.scrub = p.scrub
  BY DEF Sound, PlayerT
<1> HIDE DEF q
<1>2. Sound(q) /\ SameLengths(p, q)
  BY <1>1 DEF Sound, SameLengths
<1> QED BY <1>2 DEF q

\* Playing on changes neither before mpv does.
LEMMA PlayOnSound ==
  ASSUME NEW p, Sound(p)
  PROVE  Sound(PlayOn(p)) /\ SameLengths(p, PlayOn(p))
<1> DEFINE m == IF p.playback.eof /\ p.scrub.owner = None THEN MpvSeek(p.mpv, 0) ELSE p.mpv
           q == [p EXCEPT !.mpv = m]
<1>1. p \in PlayerT
  BY DEF Sound
<1>2. m \in MpvT /\ m.duration = p.mpv.duration /\ m.position = p.mpv.position
  BY <1>1, MpvSeekSound DEF PlayerT
<1>3. PlayOn(p) = Paused(q, FALSE)
  BY <1>1 DEF PlayOn, PlayerT
<1> HIDE DEF m
<1>4. q \in PlayerT /\ q.playback = p.playback /\ q.mpv = m /\ q.scrub = p.scrub
  BY <1>1, <1>2 DEF PlayerT
<1> HIDE DEF q
<1>5. Sound(q) /\ SameLengths(p, q)
  BY <1>2, <1>4 DEF Sound, SameLengths
<1>6. Sound(Paused(q, FALSE)) /\ SameLengths(q, Paused(q, FALSE))
  BY <1>5, PausedSound
<1> QED BY <1>3, <1>5, <1>6 DEF SameLengths

\* The chunks the player is told of are chunks.
LEMMA EffectiveAreChunks ==
  ASSUME chunks \in Seq(Chunk), NEW d \in Nat
  PROVE  EffectiveChunks(d) \in Seq(Chunk)
<1>1. <<NewChunk(0, d, TRUE)>> \in Seq(Chunk)
  BY DEF NewChunk, Chunk
<1> QED BY <1>1 DEF EffectiveChunks

\* The start of a chunk and the place where the preview stops are positions.
LEMMA ChunkPositions ==
  ASSUME NEW cs \in Seq(Chunk), NEW S \in SUBSET (1 .. Len(cs)), S # {}
  PROVE  cs[FirstOf(S)].start \in Nat /\ FinalPosition(cs[LastOf(S)]) \in Int
<1>1. Len(cs) \in Nat /\ \A k \in 1 .. Len(cs) : cs[k] \in Chunk
  BY LenProperties, ElementOfSeq
<1>2. S \in SUBSET Nat /\ S \in SUBSET (0 .. Len(cs))
  BY <1>1
<1>3. FirstOf(S) \in S
  BY <1>2, FirstIn
<1>4. LastOf(S) \in S
  BY <1>1, <1>2, LastIn
<1>5. \A c \in Chunk : c.start \in Nat /\ FinalPosition(c) \in Int
  BY DEF Chunk, FinalPosition, Max2
<1> QED BY <1>1, <1>3, <1>4, <1>5

\* Skipping a disabled chunk leaves a position within the video.
LEMMA SkipSound ==
  ASSUME chunks \in Seq(Chunk), NEW p, Sound(p)
  PROVE  Sound(SkipDisabledChunks(p)) /\ SameLengths(p, SkipDisabledChunks(p))
<1> DEFINE d == p.playback.duration
           cs == EffectiveChunks(d)
           at == p.playback.position
           here == EnabledAt(cs, at)
           next == NextEnabled(cs, at)
           last == LastOf(Enabled(cs))
           stopped == /\ p.playback.paused /\ last \in here /\ at >= FinalPosition(cs[last])
           cleared == [p EXCEPT !.restart = FALSE]
           heard == [p EXCEPT !.restart = stopped /\ (p.restart \/ p.playback.eof)]
           skipped == SeekTo(cleared, cs[FirstOf(next)].start)
           pending == [p EXCEPT !.restart = TRUE]
           ended == Paused(pending, TRUE)
           atEnd == SeekTo(ended, FinalPosition(cs[last]))
<1>1. p \in PlayerT /\ d \in Nat /\ p.playback.eof \in BOOLEAN /\ p.restart \in BOOLEAN
  BY DEF Sound, PlayerT, PlaybackT
<1>2. cs \in Seq(Chunk)
  BY <1>1, EffectiveAreChunks
<1>3. next \in SUBSET (1 .. Len(cs)) /\ Enabled(cs) \in SUBSET (1 .. Len(cs))
  BY DEF NextEnabled, Enabled
<1>4. SkipDisabledChunks(p) =
        IF d = 0 THEN p
        ELSE IF p.scrub.owner # None THEN cleared
        ELSE IF here # {} THEN heard
        ELSE IF next # {} THEN IF p.playback.paused THEN skipped ELSE PlayOn(skipped)
        ELSE IF Enabled(cs) # {} THEN atEnd ELSE ended
  BY <1>1 DEF SkipDisabledChunks, PlayerT
<1> HIDE DEF cs, here, next, last, stopped
<1>5. Sound(p) /\ SameLengths(p, p)
  BY DEF SameLengths
<1>6. Sound(cleared) /\ SameLengths(p, cleared)
  BY RestartSound
<1>7. Sound(heard) /\ SameLengths(p, heard)
  <2>1. (stopped /\ (p.restart \/ p.playback.eof)) \in BOOLEAN
    BY <1>1 DEF stopped
  <2> QED BY <2>1, RestartSound
<1>8. Sound(pending) /\ SameLengths(p, pending)
  BY RestartSound
<1>9. Sound(ended) /\ SameLengths(p, ended)
  <2> HIDE DEF pending
  <2> QED BY <1>8, PausedSound DEF SameLengths
<1>10. ASSUME d # 0, next # {} PROVE Sound(skipped) /\ SameLengths(p, skipped)
  <2>1. cs[FirstOf(next)].start \in Int
    BY <1>2, <1>3, <1>10, ChunkPositions
  <2>2. cleared.playback.duration > 0
    BY <1>1, <1>6, <1>10 DEF SameLengths
  <2> HIDE DEF cleared
  <2> QED BY <1>6, <2>1, <2>2, SeekToSound DEF SameLengths
<1>11. ASSUME d # 0, next # {} PROVE Sound(PlayOn(skipped)) /\ SameLengths(p, PlayOn(skipped))
  <2> HIDE DEF skipped
  <2> QED BY <1>10, <1>11, PlayOnSound DEF SameLengths
<1>12. ASSUME d # 0, Enabled(cs) # {} PROVE Sound(atEnd) /\ SameLengths(p, atEnd)
  <2>1. FinalPosition(cs[last]) \in Int
    BY <1>2, <1>3, <1>12, ChunkPositions DEF last
  <2> HIDE DEF ended
  <2>2. ended.playback.duration > 0
    BY <1>1, <1>9, <1>12 DEF SameLengths
  <2> QED BY <1>9, <2>1, <2>2, SeekToSound DEF SameLengths
<1> HIDE DEF cleared, heard, skipped, ended, atEnd, d
<1> QED BY <1>4, <1>5, <1>6, <1>7, <1>9, <1>10, <1>11, <1>12

\* So does telling the page of a state.
LEMMA NotifiedSound ==
  ASSUME chunks \in Seq(Chunk), NEW p, Sound(p), NEW b
  PROVE  Sound(Notified(p, b)) /\ SameLengths(p, Notified(p, b))
  BY SkipSound DEF Notified, SameLengths

\* These calls leave the scrub session as it is.
LEMMA SeekToScrub ==
  ASSUME NEW p \in PlayerT, NEW ms
  PROVE  SeekTo(p, ms).scrub = p.scrub
  BY DEF SeekTo, PlayerT

LEMMA PausedScrub ==
  ASSUME NEW p \in PlayerT, NEW b
  PROVE  Paused(p, b).scrub = p.scrub
  BY DEF Paused, PlayerT

LEMMA PlayOnScrub ==
  ASSUME NEW p \in PlayerT
  PROVE  PlayOn(p).scrub = p.scrub
  BY DEF PlayOn, Paused, PlayerT

LEMMA SkipScrub ==
  ASSUME chunks \in Seq(Chunk), NEW p, Sound(p)
  PROVE  SkipDisabledChunks(p).scrub = p.scrub
<1> DEFINE cs == EffectiveChunks(p.playback.duration)
           at == p.playback.position
           here == EnabledAt(cs, at)
           next == NextEnabled(cs, at)
           last == LastOf(Enabled(cs))
           stopped == /\ p.playback.paused /\ last \in here /\ at >= FinalPosition(cs[last])
           cleared == [p EXCEPT !.restart = FALSE]
           heard == [p EXCEPT !.restart = stopped /\ (@ \/ p.playback.eof)]
           skipped == SeekTo(cleared, cs[FirstOf(next)].start)
           pending == [p EXCEPT !.restart = TRUE]
           ended == Paused(pending, TRUE)
<1>1. p \in PlayerT /\ p.playback.duration \in Nat
  BY DEF Sound, PlayerT, PlaybackT
<1>2. cleared \in PlayerT /\ cleared.scrub = p.scrub /\ cleared.playback = p.playback
  BY <1>1 DEF PlayerT
<1>3. pending \in PlayerT /\ pending.scrub = p.scrub /\ pending.playback = p.playback
  BY <1>1 DEF PlayerT
<1>4. heard.scrub = p.scrub
  <2> DEFINE b == stopped /\ (p.restart \/ p.playback.eof)
  <2> HIDE DEF stopped
  <2> QED BY <1>1 DEF PlayerT
<1>5. Sound(cleared) /\ Sound(pending)
  BY RestartSound
<1> DEFINE S == SkipDisabledChunks(p)
<1>6. S = IF p.playback.duration = 0 THEN p
          ELSE IF p.scrub.owner # None THEN cleared
          ELSE IF here # {} THEN heard
          ELSE IF next # {} THEN IF p.playback.paused THEN skipped ELSE PlayOn(skipped)
          ELSE IF Enabled(cs) # {} THEN SeekTo(ended, FinalPosition(cs[last]))
          ELSE ended
  BY Zenon DEF SkipDisabledChunks
<1> HIDE DEF S, heard, here, next, last, stopped, at
<1>7. ended.scrub = p.scrub
  BY <1>3, PausedScrub
<1>8. Sound(ended)
  BY <1>5, PausedSound
<1>9. ended \in PlayerT
  BY <1>8 DEF Sound
<1> HIDE DEF cleared, ended, pending, cs
<1>10. SeekTo(ended, FinalPosition(cs[last])).scrub = p.scrub
  BY <1>7, <1>9, SeekToScrub
<1>11. skipped.scrub = p.scrub
  BY <1>2, SeekToScrub
<1>12. next # {} /\ p.playback.duration > 0 => skipped \in PlayerT
  <2> SUFFICES ASSUME next # {}, p.playback.duration > 0 PROVE skipped \in PlayerT
    OBVIOUS
  <2>1. cs \in Seq(Chunk)
    BY <1>1, EffectiveAreChunks DEF cs
  <2>2. next \in SUBSET (1 .. Len(cs))
    BY DEF next, NextEnabled, Enabled
  <2>3. cs[FirstOf(next)].start \in Int
    BY <2>1, <2>2, ChunkPositions
  <2>4. Sound(skipped)
    BY <1>2, <1>5, <2>3, SeekToSound
  <2> QED BY <2>4 DEF Sound
<1>13. p.playback.duration = 0 \/ p.playback.duration > 0
  BY <1>1
<1> HIDE DEF skipped
<1>14. next # {} /\ p.playback.duration > 0 => PlayOn(skipped).scrub = p.scrub
  BY <1>11, <1>12, PlayOnScrub
<1> QED BY <1>2, <1>4, <1>6, <1>7, <1>10, <1>11, <1>13, <1>14 DEF S

LEMMA NotifiedScrub ==
  ASSUME chunks \in Seq(Chunk), NEW p, Sound(p), NEW b
  PROVE  Notified(p, b).scrub = p.scrub
  BY SkipScrub DEF Notified

\* So does the start of the preview from the first enabled chunk.
LEMMA PlaySound ==
  ASSUME chunks \in Seq(Chunk), NEW p, Sound(p)
  PROVE  Sound(Play(p)) /\ SameLengths(p, Play(p)) /\ Play(p).scrub = p.scrub
<1>1. CASE ~Restarts(p)
  BY <1>1, PlayOnSound, PlayOnScrub DEF Play, Sound
<1>2. CASE Restarts(p)
  <2> DEFINE cs == EffectiveChunks(p.playback.duration)
             q == SeekTo(p, cs[FirstOf(Enabled(cs))].start)
             r == Paused(q, FALSE)
             b == [r.playback EXCEPT !.eof = FALSE, !.paused = FALSE]
             s == [r EXCEPT !.playback = b, !.restart = FALSE]
  <2>1. p.playback.duration > 0 /\ Enabled(cs) # {} /\ p.playback.duration \in Nat
    BY <1>2 DEF Restarts, Sound, PlayerT, PlaybackT
  <2>2. cs[FirstOf(Enabled(cs))].start \in Int
    <3>1. cs \in Seq(Chunk) /\ Enabled(cs) \in SUBSET (1 .. Len(cs))
      BY <2>1, EffectiveAreChunks DEF Enabled
    <3> HIDE DEF cs
    <3> QED BY <2>1, <3>1, ChunkPositions
  <2> HIDE DEF cs
  <2>3. Sound(q) /\ SameLengths(p, q) /\ q.scrub = p.scrub
    BY <2>1, <2>2, SeekToSound, SeekToScrub DEF Sound
  <2> HIDE DEF q
  <2>4. Sound(r) /\ SameLengths(p, r) /\ r.scrub = p.scrub
    BY <2>3, PausedSound, PausedScrub DEF SameLengths, Sound
  <2>5. Restarted(p) = s
    BY <2>4 DEF Restarted, cs, q, r, Sound, PlayerT
  <2> HIDE DEF r
  <2>6. b \in PlaybackT /\ b.position = r.playback.position /\ b.duration = r.playback.duration
    BY <2>4 DEF Sound, PlayerT, PlaybackT
  <2> HIDE DEF b
  <2>7. s \in PlayerT /\ s.playback = b /\ s.mpv = r.mpv /\ s.scrub = r.scrub
    BY <2>4, <2>6 DEF Sound, PlayerT
  <2> HIDE DEF s
  <2>8. Sound(s) /\ SameLengths(p, s) /\ s.scrub = p.scrub
    BY <2>4, <2>6, <2>7 DEF Sound, SameLengths
  <2> QED BY <1>2, <2>5, <2>8 DEF Play
<1> QED BY <1>1, <1>2

\* The three calls of a scrub, of which each may tell the page.
LEMMA BegunScrubSound ==
  ASSUME chunks \in Seq(Chunk), NEW p, Sound(p), p.playback.duration > 0,
         NEW who \in {"trimmer", "preview"}
  PROVE  Sound(BegunScrub(p, who)) /\ SameLengths(p, BegunScrub(p, who)) /\ BegunScrub(p, who).scrub.owner = who
<1> DEFINE s == [owner |-> who, position |-> p.playback.position, resume |-> ~p.playback.paused]
           b == [p.playback EXCEPT !.paused = TRUE]
           m == [p.mpv EXCEPT !.paused = TRUE]
           q == [p EXCEPT !.scrub = s, !.playback = b, !.mpv = m]
<1>1. p \in PlayerT
  BY DEF Sound
<1>2. s \in ScrubT /\ s.owner = who
  BY <1>1 DEF PlayerT, PlaybackT, ScrubT
<1>3. b \in PlaybackT /\ b.duration = p.playback.duration /\ b.position = p.playback.position
  BY <1>1 DEF PlayerT, PlaybackT
<1>4. m \in MpvT /\ m.duration = p.mpv.duration /\ m.position = p.mpv.position
  BY <1>1 DEF PlayerT, MpvT
<1>5. BegunScrub(p, who) = Notified(q, p.playback)
  BY <1>1 DEF BegunScrub, PlayerT
<1> HIDE DEF s, b, m
<1>6. q \in PlayerT /\ q.playback = b /\ q.mpv = m /\ q.scrub = s
  BY <1>1, <1>2, <1>3, <1>4 DEF PlayerT
<1> HIDE DEF q
<1>7. Sound(q) /\ SameLengths(p, q)
  BY <1>3, <1>4, <1>6 DEF Sound, SameLengths
<1>8. /\ Sound(Notified(q, p.playback)) /\ SameLengths(q, Notified(q, p.playback))
      /\ Notified(q, p.playback).scrub = q.scrub
  BY <1>7, NotifiedSound, NotifiedScrub
<1> QED BY <1>2, <1>5, <1>6, <1>7, <1>8 DEF SameLengths

\* The scrub goes on: a seek to where it is.
LEMMA UpdatedScrubSound ==
  ASSUME chunks \in Seq(Chunk), NEW p, Sound(p), p.playback.duration > 0, NEW ms \in Int
  PROVE  /\ Sound(UpdatedScrub(p, ms)) /\ SameLengths(p, UpdatedScrub(p, ms))
         /\ UpdatedScrub(p, ms).scrub.owner = p.scrub.owner
<1> DEFINE r == SeekTo(p, ms)
           s == [r.scrub EXCEPT !.position = ms]
           q == [r EXCEPT !.scrub = s]
<1>1. Sound(r) /\ SameLengths(p, r) /\ r.scrub = p.scrub
  BY SeekToSound, SeekToScrub DEF Sound
<1>2. UpdatedScrub(p, ms) = Notified(q, p.playback)
  BY <1>1 DEF UpdatedScrub, Sound, PlayerT
<1> HIDE DEF r
<1>3. r \in PlayerT
  BY <1>1 DEF Sound
<1>4. s \in ScrubT /\ s.owner = r.scrub.owner
  BY <1>3 DEF PlayerT, ScrubT
<1> HIDE DEF s
<1>5. q \in PlayerT /\ q.playback = r.playback /\ q.mpv = r.mpv /\ q.scrub = s
  BY <1>3, <1>4 DEF PlayerT
<1> HIDE DEF q
<1>6. Sound(q) /\ SameLengths(p, q)
  BY <1>1, <1>4, <1>5 DEF Sound, SameLengths
<1>7. /\ Sound(Notified(q, p.playback)) /\ SameLengths(q, Notified(q, p.playback))
      /\ Notified(q, p.playback).scrub = q.scrub
  BY <1>6, NotifiedSound, NotifiedScrub
<1> QED BY <1>1, <1>2, <1>4, <1>5, <1>6, <1>7 DEF SameLengths

\* The scrub ends, and the player may play on.
LEMMA EndedScrubSound ==
  ASSUME chunks \in Seq(Chunk), NEW p, Sound(p), p.scrub.owner # None
  PROVE  Sound(EndedScrub(p)) /\ SameLengths(p, EndedScrub(p)) /\ EndedScrub(p).scrub.owner = None
<1> DEFINE r == [p EXCEPT !.scrub = NoScrub]
           q == SeekTo(r, p.scrub.position)
<1>1. p \in PlayerT /\ p.scrub.position \in Int /\ p.playback.duration > 0
  BY DEF Sound, PlayerT, ScrubT
<1>2. NoScrub \in ScrubT /\ NoScrub.owner = None
  BY DEF NoScrub, ScrubT
<1>3. r \in PlayerT /\ r.playback = p.playback /\ r.mpv = p.mpv /\ r.scrub = NoScrub
  BY <1>1, <1>2 DEF PlayerT
<1>4. EndedScrub(p) = IF p.scrub.resume THEN Play(q) ELSE q
  BY DEF EndedScrub
<1> HIDE DEF r
<1>5. Sound(r) /\ SameLengths(p, r)
  BY <1>2, <1>3 DEF Sound, SameLengths
<1>6. r.playback.duration > 0
  BY <1>1, <1>3
<1>7. Sound(q) /\ SameLengths(p, q) /\ q.scrub = NoScrub
  BY <1>1, <1>3, <1>5, <1>6, SeekToSound, SeekToScrub DEF SameLengths
<1> HIDE DEF q
<1>8. Sound(Play(q)) /\ SameLengths(q, Play(q)) /\ Play(q).scrub = NoScrub
  BY <1>7, PlaySound
<1> QED BY <1>2, <1>4, <1>7, <1>8 DEF SameLengths

\* A frame may tell the page of a length for the first time, and changes none.
Learns(p, q) ==
    /\ q.mpv.duration = p.mpv.duration
    /\ p.playback.duration = 0 \/ q.playback.duration = p.playback.duration

\* A frame clamps what mpv says, or what the scrub says.
LEMMA DrawnSound ==
  ASSUME chunks \in Seq(Chunk), NEW p, Sound(p)
  PROVE  Sound(DrawnPlayer(p)) /\ Learns(p, DrawnPlayer(p)) /\ DrawnPlayer(p).scrub = p.scrub
<1> DEFINE m == Replied(p.mpv)
           held == [p.playback EXCEPT !.paused = TRUE,
                                      !.position = ClampToDuration(p.playback, p.scrub.position)]
           b == IF p.scrub.owner = None THEN BackendState(m) ELSE held
           q == [p EXCEPT !.playback = b, !.mpv = m]
<1>1. p \in PlayerT /\ p.mpv \in MpvT /\ p.playback \in PlaybackT /\ p.scrub \in ScrubT
  BY DEF Sound, PlayerT
<1>2. m \in MpvT /\ m.duration = p.mpv.duration /\ m.position = p.mpv.position
  BY <1>1 DEF Replied, MpvT
<1> HIDE DEF m
<1>3. m.duration \in Nat /\ m.position \in Int
  BY <1>2 DEF MpvT
<1>4. ASSUME p.scrub.owner = None
      PROVE  /\ b \in PlaybackT /\ b.duration = m.duration
             /\ b.position \in 0 .. Max2(0, b.duration - 1)
  <2> DEFINE x == IF m.duration > 0 THEN Clamp(m.position, 0, m.duration - 1) ELSE m.position
  <2>1. x \in 0 .. Max2(0, m.duration - 1)
    <3>1. CASE m.duration = 0
      BY <3>1, <1>2, <1>3 DEF Sound, Max2
    <3>2. CASE m.duration > 0
      BY <3>2, <1>3 DEF Clamp, Max2
    <3> QED BY <3>1, <3>2, <1>3
  <2>2. b = [position |-> x, duration |-> m.duration, paused |-> m.paused, eof |-> m.eof]
    BY <1>4 DEF BackendState
  <2> HIDE DEF x, b
  <2>3. x \in Int
    BY <2>1, <1>3 DEF Max2
  <2> QED BY <1>2, <2>1, <2>2, <2>3 DEF PlaybackT, MpvT
<1>5. ASSUME p.scrub.owner # None
      PROVE  /\ b \in PlaybackT /\ b.duration = p.playback.duration
             /\ b.position \in 0 .. Max2(0, b.duration - 1)
  <2> DEFINE x == ClampToDuration(p.playback, p.scrub.position)
  <2>1. p.playback.duration > 0 /\ p.playback.duration \in Nat /\ p.scrub.position \in Int
    BY <1>1, <1>5 DEF Sound, PlaybackT, ScrubT
  <2>2. x \in 0 .. Max2(0, p.playback.duration - 1) /\ x \in Int
    BY <2>1 DEF ClampToDuration, Clamp, Max2
  <2>3. b = [p.playback EXCEPT !.paused = TRUE, !.position = x]
    BY <1>5
  <2> HIDE DEF x, b
  <2> QED BY <1>1, <2>2, <2>3 DEF PlaybackT
<1>6. DrawnPlayer(p) = Notified(q, p.playback)
  BY DEF DrawnPlayer, m
<1> HIDE DEF b
<1>7. q \in PlayerT /\ q.playback = b /\ q.mpv = m /\ q.scrub = p.scrub
  BY <1>1, <1>2, <1>4, <1>5 DEF PlayerT
<1> HIDE DEF q
<1>8. q.playback.duration \in {p.playback.duration, p.mpv.duration}
  BY <1>2, <1>4, <1>5, <1>7
<1>9. Sound(q)
  <2>1. q.playback.position \in 0 .. Max2(0, q.playback.duration - 1)
    BY <1>4, <1>5, <1>7
  <2>2. q.playback.duration \in {0, q.mpv.duration}
    BY <1>2, <1>7, <1>8 DEF Sound
  <2>3. q.mpv.duration = 0 => q.mpv.position = 0
    BY <1>2, <1>7 DEF Sound
  <2>4. q.scrub.owner # None => q.playback.duration > 0
    BY <1>5, <1>7 DEF Sound
  <2> QED BY <1>7, <2>1, <2>2, <2>3, <2>4 DEF Sound
<1>10. Learns(p, q)
  BY <1>2, <1>7, <1>8 DEF Sound, Learns
<1>11. /\ Sound(Notified(q, p.playback)) /\ SameLengths(q, Notified(q, p.playback))
       /\ Notified(q, p.playback).scrub = q.scrub
  BY <1>9, NotifiedSound, NotifiedScrub
<1> QED BY <1>6, <1>7, <1>10, <1>11 DEF Learns, SameLengths
-----------------------------------------------------------------------------
(* The invariant. *)

FileOK == file \notin {<<>>, TornFile} => Contiguous(file)

IInv ==
    /\ page \in {None, "trimmer", "preview"}
    /\ Sound(Now) /\ mpv.duration \in {0} \union Durations
    /\ duration \in {0, playback.duration} /\ position \in 0 .. duration
    /\ chunks \in Seq(Chunk) /\ ChunksPartition
    /\ file \in Seq(Chunk) /\ FileOK
    /\ state_loaded \in BOOLEAN

\* What the invariant says of the player's fields.
LEMMA Fields ==
  ASSUME IInv
  PROVE  /\ Now \in PlayerT /\ restart \in BOOLEAN
         /\ playback.duration \in Nat /\ mpv.duration \in Nat /\ duration \in Nat
         /\ playback.position \in Int /\ scrub.position \in Int
         /\ playback.position \in 0 .. Max2(0, playback.duration - 1)
         /\ playback.duration \in {0, mpv.duration}
         /\ scrub.owner # None => playback.duration > 0
         /\ Now.playback = playback /\ Now.mpv = mpv /\ Now.scrub = scrub /\ Now.restart = restart
  BY DEF IInv, Sound, Now, PlayerT, PlaybackT, MpvT, ScrubT

\* Contiguous chunks end after the start of the video.
LEMMA ChunksEnd ==
  ASSUME NEW cs \in Seq(Chunk), cs # <<>>, Contiguous(cs)
  PROVE  /\ Len(cs) \in Nat \ {0} /\ \A i \in 1 .. Len(cs) : cs[i] \in Chunk
         /\ cs[Len(cs)].end \in Nat \ {0}
<1>1. Len(cs) \in Nat \ {0} /\ \A i \in 1 .. Len(cs) : cs[i] \in Chunk
  BY LenProperties, EmptySeq, ElementOfSeq
<1>2. cs[Len(cs)].start < cs[Len(cs)].end
  BY <1>1 DEF Contiguous
<1> QED BY <1>1, <1>2 DEF Chunk

\* A step that leaves the chunks and the page's copy of the length as they are,
\* and teaches the player a length at most.
Heard == playback.duration = 0 \/ playback'.duration = playback.duration

\* Such a step keeps the invariant.
LEMMA EditsKept ==
  ASSUME IInv, UNCHANGED <<editVars, file>>, page' \in {None, "trimmer", "preview"},
         Sound(Now)', mpv'.duration \in {0} \union Durations, Heard
  PROVE  IInv'
<1>1. duration' \in {0, playback'.duration} /\ position' \in 0 .. duration'
  BY DEF IInv, editVars, Heard
<1>2. ChunksPartition'
  <2>1. CASE chunks = <<>>
    BY <2>1 DEF ChunksPartition, editVars
  <2>2. CASE chunks # <<>>
    <3>1. Contiguous(chunks) /\ chunks[Len(chunks)].end <= playback.duration
      BY <2>2 DEF IInv, ChunksPartition
    <3>2. chunks[Len(chunks)].end \in Nat \ {0}
      BY <2>2, <3>1, ChunksEnd DEF IInv
    <3>3. playback'.duration = playback.duration
      BY <3>1, <3>2, Fields DEF Heard
    <3> QED BY <3>1, <3>3 DEF ChunksPartition, Contiguous, editVars
  <2> QED BY <2>1, <2>2
<1>3. FileOK'
  BY DEF IInv, FileOK, Contiguous
<1> QED BY <1>1, <1>2, <1>3 DEF IInv, editVars

\* A call of the player is such a step.
LEMMA PlayerStep ==
  ASSUME IInv, NEW q, Sound(q), Learns(Now, q), Become(q)
  PROVE  Sound(Now)' /\ mpv'.duration \in {0} \union Durations /\ Heard
<1>1. q \in PlayerT
  BY DEF Sound
<1>2. Now' = q
  BY <1>1 DEF Become, Now, PlayerT
<1>3. Sound(Now)'
  BY <1>2
<1>4. playback' = q.playback /\ mpv' = q.mpv
  BY DEF Become
<1> QED BY <1>3, <1>4, Fields DEF Learns, Heard, IInv

\* Who changes no length learns none.
LEMMA SameLengthsLearn == ASSUME NEW p, NEW q, SameLengths(p, q) PROVE Learns(p, q)
  BY DEF SameLengths, Learns
\* The players' actions of Next that leave chunks and file as they are.
LEMMA PlayerActions ==
  ASSUME IInv,
         \/ Space \/ EndPreviewScrub \/ OpenPreview \/ ClosePreview \/ DrawPreview
         \/ \E ms \in ScrubTo : ScrubTimeline(ms) \/ ScrubPreview(ms)
  PROVE  IInv'
<1>1. Sound(Now) /\ chunks \in Seq(Chunk)
  BY DEF IInv
<1>2. SUFFICES ASSUME NEW q, Sound(q), Learns(Now, q), Become(q),
                      page' \in {None, "trimmer", "preview"}, UNCHANGED <<editVars, file>>
               PROVE  IInv'
  <2>1. CASE Space
    <3>1. Sound(Play(Now)) /\ SameLengths(Now, Play(Now))
      BY <1>1, PlaySound
    <3>2. Sound(Paused(Now, TRUE)) /\ SameLengths(Now, Paused(Now, TRUE))
      BY <1>1, PausedSound
    <3> QED BY <1>2, <2>1, <3>1, <3>2, SameLengthsLearn DEF Space, IInv
  <2>2. CASE EndPreviewScrub
    <3>1. Sound(EndedScrub(Now)) /\ SameLengths(Now, EndedScrub(Now))
      BY <1>1, <2>2, Fields, EndedScrubSound DEF EndPreviewScrub
    <3> QED BY <1>2, <2>2, <3>1, SameLengthsLearn DEF EndPreviewScrub, IInv
  <2> DEFINE rest == IF scrub.owner # None THEN EndedScrub(Now) ELSE Now
  <2>3. Sound(rest) /\ SameLengths(Now, rest)
    <3>1. CASE scrub.owner # None
      BY <3>1, <1>1, Fields, EndedScrubSound
    <3>2. CASE scrub.owner = None
      BY <3>2, <1>1 DEF SameLengths
    <3> QED BY <3>1, <3>2
  <2>4. CASE OpenPreview
    <3>1. Become(SkipDisabledChunks(rest)) /\ page' = "preview" /\ UNCHANGED <<editVars, file>>
      BY <2>4 DEF OpenPreview
    <3> HIDE DEF rest
    <3>2. Sound(SkipDisabledChunks(rest)) /\ SameLengths(Now, SkipDisabledChunks(rest))
      BY <1>1, <2>3, SkipSound DEF SameLengths
    <3> QED BY <1>2, <3>1, <3>2, SameLengthsLearn
  <2>5. CASE ClosePreview
    <3>1. /\ Become([rest EXCEPT !.restart = FALSE])
          /\ page' = "trimmer" /\ UNCHANGED <<editVars, file>>
      BY <2>5 DEF ClosePreview
    <3> HIDE DEF rest
    <3>2. /\ Sound([rest EXCEPT !.restart = FALSE])
          /\ SameLengths(Now, [rest EXCEPT !.restart = FALSE])
      BY <2>3, RestartSound DEF SameLengths
    <3> QED BY <1>2, <3>1, <3>2, SameLengthsLearn
  <2>6. CASE DrawPreview
    BY <1>1, <1>2, <2>6, DrawnSound DEF DrawPreview, IInv
  <2>7. ASSUME NEW ms \in ScrubTo, ScrubTimeline(ms) PROVE IInv'
    <3> DEFINE p == IF scrub.owner = None THEN BegunScrub(Now, "trimmer") ELSE Now
    <3>1. playback.duration > 0 /\ ms \in Int
      BY <2>7, Fields, TrimmerAssumption DEF ScrubTimeline, IInv, TrimmerAssumption
    <3>2. Sound(p) /\ SameLengths(Now, p)
      BY <1>1, <3>1, Fields, BegunScrubSound DEF SameLengths
    <3>3. Become(IF ms = p.scrub.position THEN p ELSE UpdatedScrub(p, ms))
      BY <2>7 DEF ScrubTimeline
    <3> HIDE DEF p
    <3>4. p.playback.duration > 0
      BY <3>1, <3>2, Fields DEF SameLengths
    <3>5. Sound(UpdatedScrub(p, ms)) /\ SameLengths(Now, UpdatedScrub(p, ms))
      BY <1>1, <3>1, <3>2, <3>4, UpdatedScrubSound DEF SameLengths
    <3> QED BY <1>2, <2>7, <3>2, <3>3, <3>5, SameLengthsLearn DEF ScrubTimeline, IInv
  <2>8. ASSUME NEW ms \in ScrubTo, ScrubPreview(ms) PROVE IInv'
    <3> DEFINE p == IF scrub.owner = None THEN BegunScrub(Now, "preview") ELSE Now
    <3>1. playback.duration > 0 /\ ms \in Int
      BY <2>8, Fields, TrimmerAssumption DEF ScrubPreview, TrimmerAssumption
    <3>2. Sound(p) /\ SameLengths(Now, p)
      BY <1>1, <3>1, Fields, BegunScrubSound DEF SameLengths
    <3>3. Become(UpdatedScrub(p, ms))
      BY <2>8 DEF ScrubPreview
    <3> HIDE DEF p
    <3>4. p.playback.duration > 0
      BY <3>1, <3>2, Fields DEF SameLengths
    <3>5. Sound(UpdatedScrub(p, ms)) /\ SameLengths(Now, UpdatedScrub(p, ms))
      BY <1>1, <3>1, <3>2, <3>4, UpdatedScrubSound DEF SameLengths
    <3> QED BY <1>2, <2>8, <3>3, <3>5, SameLengthsLearn DEF ScrubPreview, IInv
  <2> QED BY <2>1, <2>2, <2>4, <2>5, <2>6, <2>7, <2>8
<1>3. Sound(Now)' /\ mpv'.duration \in {0} \union Durations /\ Heard
  BY <1>2, PlayerStep
<1> QED BY <1>2, <1>3, EditsKept

\* A video that plays has a last frame.
LEMMA LastFrameIsInt ==
  ASSUME NEW d \in Nat, d > 0
  PROVE  LastFrame(d) \in Int
<1>1. 0 \in 0 .. d - 1 /\ 0 % FrameMs = 0
  BY TrimmerAssumption DEF TrimmerAssumption
<1>2. Frames(d) \in SUBSET (0 .. d) /\ Frames(d) # {}
  BY <1>1 DEF Frames
<1>3. LastFrame(d) = LastOf(Frames(d))
  BY DEF LastFrame, LastOf
<1>4. LastOf(Frames(d)) \in Frames(d)
  BY <1>2, LastIn
<1> QED BY <1>2, <1>3, <1>4

\* mpv moves by itself.
LEMMA MpvActions ==
  ASSUME IInv, Mpv
  PROVE  IInv'
<1>1. Now \in PlayerT /\ mpv \in MpvT /\ Sound(Now)
  BY DEF IInv, Sound, Now, PlayerT
<1>2. FrameMs \in Nat \ {0} /\ Durations \subseteq Nat \ {0}
  BY TrimmerAssumption DEF TrimmerAssumption
<1>3. SUFFICES ASSUME NEW m \in MpvT, mpv' = m, m.duration \in {0} \union Durations,
                      playback.duration \in {0, m.duration}, m.duration # 0,
                      UNCHANGED <<page, editVars, playback, restart, scrub, file>>
               PROVE  IInv'
  <2>1. CASE MpvPlay
    <3>1. mpv.duration \in Nat /\ mpv.duration > 0 /\ mpv.position \in Int
      BY <2>1, <1>1 DEF MpvPlay, MpvT
    <3>2. LastFrame(mpv.duration) \in Int
      BY <3>1, LastFrameIsInt
    <3>3. ASSUME mpv' = [mpv EXCEPT !.position = @ + FrameMs]
          PROVE  mpv' \in MpvT /\ mpv'.duration = mpv.duration
      BY <3>3, <3>1, <1>1, <1>2 DEF MpvT
    <3>4. ASSUME NEW at \in {LastFrame(mpv.duration), mpv.duration},
                 mpv' = [mpv EXCEPT !.position = at, !.paused = TRUE, !.eof = TRUE]
          PROVE  mpv' \in MpvT /\ mpv'.duration = mpv.duration
      <4>1. at \in Int
        BY <3>1, <3>2
      <4> QED BY <3>4, <4>1, <1>1 DEF MpvT
    <3>5. mpv' \in MpvT /\ mpv'.duration = mpv.duration
      BY <2>1, <3>1, <3>3, <3>4, <1>1, <1>2 DEF MpvPlay, MpvT
    <3>6. UNCHANGED <<page, editVars, playback, restart, scrub, file>>
      BY <2>1 DEF MpvPlay
    <3> QED BY <1>3, <3>1, <3>5, <3>6, Fields DEF IInv
  <2>2. CASE MpvSeekDone
    <3> DEFINE frames == {f \in Frames(mpv.duration) : f >= mpv.seek}
    <3>1. mpv.duration \in Nat /\ mpv.duration > 0
      BY <2>2, <1>1 DEF MpvSeekDone, MpvT
    <3>2. LastFrame(mpv.duration) \in Int
      BY <3>1, LastFrameIsInt
    <3>3. frames # {} => FirstOf(frames) \in Int
      <4>1. frames \in SUBSET Nat
        BY <3>1 DEF Frames
      <4>2. frames # {} => FirstOf(frames) \in frames
        BY <4>1, FirstIn
      <4> QED BY <4>1, <4>2
    <3>4. mpv' = IF frames = {}
                 THEN [mpv EXCEPT !.seek = NoSeek, !.position = LastFrame(mpv.duration),
                                  !.eof = TRUE, !.paused = TRUE]
                 ELSE [mpv EXCEPT !.seek = NoSeek, !.eof = FALSE, !.position = FirstOf(frames)]
      BY <2>2 DEF MpvSeekDone, FirstOf
    <3>5. NoSeek \in Int
      BY DEF NoSeek
    <3> HIDE DEF frames
    <3>6. ASSUME frames = {} PROVE mpv' \in MpvT /\ mpv'.duration = mpv.duration
      BY <3>2, <3>4, <3>5, <3>6, <1>1 DEF MpvT
    <3>7. ASSUME frames # {} PROVE mpv' \in MpvT /\ mpv'.duration = mpv.duration
      BY <3>3, <3>4, <3>5, <3>7, <1>1 DEF MpvT
    <3>8. mpv' \in MpvT /\ mpv'.duration = mpv.duration
      BY <3>6, <3>7
    <3>9. UNCHANGED <<page, editVars, playback, restart, scrub, file>>
      BY <2>2 DEF MpvSeekDone
    <3> QED BY <1>3, <3>1, <3>8, <3>9, Fields DEF IInv
  <2>3. ASSUME NEW d \in Durations, MpvOpen(d) PROVE IInv'
    <3>1. mpv' \in MpvT /\ mpv'.duration = d /\ playback.duration = 0
      BY <1>1, <1>2, <2>3, Fields DEF MpvOpen, MpvT
    <3>2. d # 0 /\ UNCHANGED <<page, editVars, playback, restart, scrub, file>>
      BY <1>2, <2>3 DEF MpvOpen
    <3> QED BY <1>3, <3>1, <3>2
  <2> QED BY <2>1, <2>2, <2>3 DEF Mpv
<1>4. Now' = [Now EXCEPT !.mpv = m] /\ Heard
  BY <1>3 DEF Now, Heard
<1> DEFINE q == [Now EXCEPT !.mpv = m]
<1>5. q \in PlayerT /\ q.playback = Now.playback /\ q.scrub = Now.scrub /\ q.mpv = m
  BY <1>1, <1>3 DEF PlayerT
<1>6. Now.playback = playback
  BY DEF Now
<1> HIDE DEF q
<1>7. Sound(q)
  BY <1>1, <1>3, <1>5, <1>6 DEF Sound
<1>8. Sound(Now)'
  BY <1>4, <1>7 DEF q
<1> QED BY <1>3, <1>4, <1>8, EditsKept DEF IInv
\* The chunks that an edit begins with.
LEMMA EnsuredPartition ==
  ASSUME IInv
  PROVE  /\ EnsuredChunks \in Seq(Chunk)
         /\ EnsuredChunks # <<>> => /\ Contiguous(EnsuredChunks)
                                    /\ EnsuredChunks[Len(EnsuredChunks)].end <= playback.duration
<1>1. CASE chunks = <<>> /\ duration > 0
  <2>1. EnsuredChunks = <<NewChunk(0, duration, TRUE)>>
    BY <1>1 DEF EnsuredChunks
  <2>2. duration \in Nat \ {0} /\ duration <= playback.duration
    BY <1>1, Fields DEF IInv
  <2> QED BY <2>1, <2>2, WholeIsContiguous
<1>2. CASE ~(chunks = <<>> /\ duration > 0)
  BY <1>2 DEF EnsuredChunks, IInv, ChunksPartition
<1> QED BY <1>1, <1>2

\* A step that gives the timeline chunks that partition the video.
LEMMA ChunksSet ==
  ASSUME IInv, chunks' \in Seq(Chunk), Contiguous(chunks'),
         chunks'[Len(chunks')].end <= playback.duration,
         UNCHANGED <<page, duration, position, state_loaded, playVars, file>>
  PROVE  IInv'
<1>1. Now' = Now
  BY DEF Now, playVars
<1>2. Sound(Now)' /\ UNCHANGED playback /\ UNCHANGED mpv
  BY <1>1 DEF IInv, playVars
<1>3. ChunksPartition'
  BY <1>2 DEF ChunksPartition, Contiguous
<1>4. FileOK'
  BY DEF IInv, FileOK, Contiguous
<1> QED BY <1>2, <1>3, <1>4 DEF IInv

\* The clicks of the timeline.
LEMMA Edits ==
  ASSUME IInv, \/ \E i \in 1 .. MaxChunks : LeftClick(i)
               \/ \E near \in Proximities : RightClick(near)
  PROVE  IInv'
<1> DEFINE cs == EnsuredChunks
           n == Len(cs)
<1>1. cs \in Seq(Chunk)
      /\ (cs # <<>> => Contiguous(cs) /\ cs[n].end <= playback.duration)
  BY EnsuredPartition
<1>2. position \in Int
  BY Fields DEF IInv
<1>3. ASSUME NEW i \in 1 .. MaxChunks, LeftClick(i) PROVE IInv'
  <2> DEFINE t == [cs EXCEPT ![i].enabled = ~@]
  <2>1. i \in 1 .. n /\ chunks' = t
        /\ UNCHANGED <<page, duration, position, state_loaded, playVars, file>>
    BY <1>3 DEF LeftClick
  <2> HIDE DEF cs
  <2>2. n \in Nat /\ cs # <<>> /\ \A k \in 1 .. n : cs[k] \in Chunk
    BY <1>1, <2>1, LenProperties, ElementOfSeq, EmptySeq
  <2> DEFINE c == [cs[i] EXCEPT !.enabled = ~@]
             f(k) == IF k = i THEN c ELSE cs[k]
  <2>3. c \in Chunk /\ c.start = cs[i].start /\ c.end = cs[i].end
    BY <2>1, <2>2 DEF Chunk
  <2>4. t = [k \in 1 .. n |-> f(k)]
    BY <1>1, <2>1, <2>2, LenProperties
  <2> HIDE DEF c, t
  <2>5. t \in [1 .. n -> Chunk]
    BY <2>2, <2>3, <2>4
  <2>6. t \in Seq(Chunk) /\ Len(t) = n
    BY <2>2, <2>5, FunctionIsSeq
  <2>7. \A k \in 1 .. n : t[k].start = cs[k].start /\ t[k].end = cs[k].end
    BY <2>3, <2>4
  <2> HIDE DEF f
  <2>8. 1 \in 1 .. n /\ n \in 1 .. n
    BY <2>1, <2>2
  <2>9. Contiguous(t)
    BY <1>1, <2>2, <2>6, <2>7, <2>8 DEF Contiguous
  <2>10. t[Len(t)].end <= playback.duration
    BY <1>1, <2>2, <2>6, <2>7, <2>8
  <2> QED BY <2>1, <2>6, <2>9, <2>10, ChunksSet
<1>4. ASSUME NEW near \in Proximities, RightClick(near) PROVE IInv'
  <2>1. /\ cs # <<>> /\ UNCHANGED <<page, duration, position, state_loaded, playVars, file>>
        /\ chunks' \in RemoveCutPoint(cs, position, near) \union SplitChunk(cs, position) \union {cs}
    BY <1>4 DEF RightClick
  <2> HIDE DEF cs
  <2>2. ASSUME chunks' \in RemoveCutPoint(cs, position, near) PROVE IInv'
    <3>1. PICK i \in 1 .. n - 1 : chunks' = JoinAt(cs, i)
      BY <2>2 DEF RemoveCutPoint, Hit
    <3>2. /\ JoinAt(cs, i) \in Seq(Chunk) /\ Contiguous(JoinAt(cs, i))
          /\ JoinAt(cs, i)[Len(JoinAt(cs, i))].end = cs[n].end
      BY <1>1, <2>1, JoinIsContiguous
    <3> QED BY <1>1, <2>1, <3>1, <3>2, ChunksSet
  <2>3. ASSUME chunks' \in SplitChunk(cs, position) PROVE IInv'
    <3>1. /\ chunks' \in Seq(Chunk) /\ Contiguous(chunks')
          /\ chunks'[Len(chunks')].end = cs[n].end
      BY <1>1, <1>2, <2>1, <2>3, SplitIsContiguous
    <3> QED BY <1>1, <2>1, <3>1, ChunksSet
  <2>4. ASSUME chunks' = cs PROVE IInv'
    BY <1>1, <2>1, <2>4, ChunksSet
  <2> QED BY <2>1, <2>2, <2>3, <2>4
<1> QED BY <1>3, <1>4

\* The frame in which the saved chunks are loaded, and every other.
LEMMA TrimmerFrames ==
  ASSUME IInv, \E settle \in BOOLEAN : DrawTrimmer(settle)
  PROVE  IInv'
<1>1. PICK settle \in BOOLEAN : DrawTrimmer(settle)
  OBVIOUS
<1> DEFINE p == IF settle THEN EndedScrub(Now) ELSE Now
           visible == IF scrub.owner # None THEN scrub.position ELSE playback.position
<1>2. /\ page = "trimmer" /\ (settle => scrub.owner # None) /\ LoadState
      /\ duration' = playback.duration /\ position' = Clamp(visible, 0, playback.duration)
      /\ Become(DrawnPlayer(p)) /\ UNCHANGED page
  BY <1>1 DEF DrawTrimmer
<1>3. Sound(Now) /\ chunks \in Seq(Chunk) /\ file \in Seq(Chunk)
  BY DEF IInv
<1>4. Sound(p) /\ SameLengths(Now, p)
  <2>1. CASE settle
    BY <2>1, <1>2, <1>3, Fields, EndedScrubSound
  <2>2. CASE ~settle
    BY <2>2, <1>3 DEF SameLengths
  <2> QED BY <2>1, <2>2
<1> HIDE DEF p
<1>5. Sound(DrawnPlayer(p)) /\ Learns(p, DrawnPlayer(p))
  BY <1>3, <1>4, DrawnSound
<1>6. Learns(Now, DrawnPlayer(p))
  BY <1>4, <1>5 DEF Learns, SameLengths
<1>7. Sound(Now)' /\ mpv'.duration \in {0} \union Durations /\ Heard
  BY <1>2, <1>5, <1>6, PlayerStep
<1>8. duration' \in {0, playback'.duration} /\ position' \in 0 .. duration'
  <2>1. visible \in Int /\ playback.duration \in Nat
    BY Fields
  <2>2. Clamp(visible, 0, playback.duration) \in 0 .. playback.duration
    BY <2>1 DEF Clamp
  <2> QED BY <1>2, <1>7, <2>2 DEF Heard
<1>9. /\ chunks' \in Seq(Chunk) /\ state_loaded' \in BOOLEAN
      /\ chunks' # <<>> => Contiguous(chunks') /\ chunks'[Len(chunks')].end <= playback.duration
  <2>1. CASE UNCHANGED <<state_loaded, chunks, file>>
    BY <2>1 DEF IInv, ChunksPartition
  <2>2. CASE state_loaded' = TRUE /\ chunks' = IF LoadedState(file, playback.duration) THEN file ELSE chunks
    BY <2>2 DEF IInv, ChunksPartition, LoadedState, Contiguous
  <2> QED BY <1>2, <2>1, <2>2 DEF LoadState
<1>10. ChunksPartition'
  <2>1. CASE chunks' = <<>>
    BY <2>1 DEF ChunksPartition
  <2>2. CASE chunks' # <<>>
    <3>1. Contiguous(chunks') /\ chunks'[Len(chunks')].end <= playback.duration
      BY <2>2, <1>9
    <3>2. chunks'[Len(chunks')].end \in Nat \ {0}
      BY <2>2, <3>1, <1>9, ChunksEnd
    <3>3. playback'.duration = playback.duration
      BY <3>1, <3>2, <1>7, Fields DEF Heard
    <3> QED BY <3>1, <3>3 DEF ChunksPartition, Contiguous
  <2> QED BY <2>1, <2>2
<1>11. file' \in {file, <<>>}
  BY <1>2 DEF LoadState
<1>12. file' \in Seq(Chunk) /\ FileOK'
  <2>1. <<>> \in Seq(Chunk)
    BY EmptySeq
  <2> QED BY <1>3, <1>11, <2>1 DEF IInv, FileOK, Contiguous
<1> QED BY <1>2, <1>7, <1>8, <1>9, <1>10, <1>12 DEF IInv

\* What a page that is closed writes.
LEMMA SavedIsContiguous ==
  ASSUME IInv
  PROVE  SavedState \in Seq(Chunk) /\ (SavedState \notin {<<>>, TornFile} => Contiguous(SavedState))
<1>1. CASE playback.duration = 0
  BY <1>1, Fields DEF SavedState, IInv, FileOK
<1>2. CASE playback.duration > 0
  <2>1. SavedState = EffectiveChunks(playback.duration)
    BY <1>2 DEF SavedState
  <2>2. CASE chunks = <<>>
    <3>1. SavedState = <<NewChunk(0, playback.duration, TRUE)>>
      BY <2>1, <2>2 DEF EffectiveChunks
    <3>2. playback.duration \in Nat \ {0}
      BY <1>2, Fields
    <3> QED BY <3>1, <3>2, WholeIsContiguous
  <2>3. CASE chunks # <<>>
    BY <2>1, <2>3 DEF EffectiveChunks, IInv, ChunksPartition
  <2> QED BY <2>2, <2>3
<1> QED BY <1>1, <1>2, Fields

\* No page, and no player.
LEMMA Nothing ==
  Sound([playback |-> NoPlayback, restart |-> FALSE, scrub |-> NoScrub, mpv |-> NoMpv])
<1>1. NoPlayback \in PlaybackT /\ NoPlayback.duration = 0 /\ NoPlayback.position = 0
  BY DEF NoPlayback, PlaybackT
<1>2. NoScrub \in ScrubT /\ NoScrub.owner = None
  BY DEF NoScrub, ScrubT
<1>3. NoMpv \in MpvT /\ NoMpv.duration = 0 /\ NoMpv.position = 0
  BY DEF NoMpv, MpvT, NoSeek
<1>4. NoPlayback.position \in 0 .. Max2(0, NoPlayback.duration - 1)
  BY <1>1 DEF Max2
<1> HIDE DEF NoPlayback, NoScrub, NoMpv
<1> QED BY <1>1, <1>2, <1>3, <1>4 DEF Sound, PlayerT

\* What a cut-short write leaves is a sequence of chunks.
LEMMA TornIsAFile == TornFile \in Seq(Chunk)
  BY DEF TornFile, NewChunk, Chunk

\* The page is closed, or the program is killed.
LEMMA PageGone ==
  ASSUME IInv, CloseTrimmer \/ Crash
  PROVE  IInv'
<1>1. Gone
  BY DEF CloseTrimmer, Crash
<1>2. file' \in Seq(Chunk) /\ FileOK'
  <2>1. CASE CloseTrimmer
    BY <2>1, SavedIsContiguous DEF CloseTrimmer, FileOK, Contiguous
  <2>2. CASE Crash
    BY <2>2, TornIsAFile DEF Crash, FileOK, Contiguous, IInv
  <2> QED BY <2>1, <2>2
<1>3. Now' = [playback |-> NoPlayback, restart |-> FALSE, scrub |-> NoScrub, mpv |-> NoMpv]
  BY <1>1 DEF Gone, Now
<1>4. Sound(Now)'
  BY <1>3, Nothing
<1>5. mpv'.duration = 0 /\ duration' = 0 /\ position' = 0 /\ page' = None /\ state_loaded' = FALSE
  BY <1>1 DEF Gone, NoMpv
<1>6. chunks' = <<>> /\ <<>> \in Seq(Chunk)
  BY <1>1 DEF Gone
<1>7. 0 \in 0 .. 0
  OBVIOUS
<1> QED BY <1>2, <1>4, <1>5, <1>6, <1>7 DEF IInv, ChunksPartition

\* The page is opened.
LEMMA PageOpened ==
  ASSUME IInv, OpenTrimmer
  PROVE  IInv'
<1>1. Now' = Now /\ Heard /\ UNCHANGED <<editVars, file, mpv>> /\ page' = "trimmer"
  BY DEF OpenTrimmer, Now, Heard, playVars
<1>2. Sound(Now)' /\ mpv'.duration \in {0} \union Durations
  BY <1>1 DEF IInv
<1> QED BY <1>1, <1>2, EditsKept
-----------------------------------------------------------------------------
\* The invariant is inductive.
LEMMA InitInv == Init => IInv
<1> SUFFICES ASSUME Init PROVE IInv
  OBVIOUS
<1>1. Now = [playback |-> NoPlayback, restart |-> FALSE, scrub |-> NoScrub, mpv |-> NoMpv]
  BY DEF Init, Now
<1>2. Sound(Now)
  BY <1>1, Nothing
<1>3. mpv.duration = 0 /\ duration = 0 /\ position = 0 /\ page = None /\ state_loaded = FALSE
      /\ chunks = <<>> /\ file = <<>>
  BY DEF Init, NoMpv
<1>4. <<>> \in Seq(Chunk) /\ 0 \in 0 .. 0
  OBVIOUS
<1> QED BY <1>2, <1>3, <1>4 DEF IInv, ChunksPartition, FileOK

\* Every step keeps the invariant.
LEMMA NextInv == IInv /\ [Next]_vars => IInv'
<1> SUFFICES ASSUME IInv, [Next]_vars PROVE IInv'
  OBVIOUS
<1>1. CASE Space \/ EndPreviewScrub \/ OpenPreview \/ ClosePreview \/ DrawPreview
  BY <1>1, PlayerActions
<1>2. CASE \E ms \in ScrubTo : ScrubTimeline(ms) \/ ScrubPreview(ms)
  BY <1>2, PlayerActions
<1>3. CASE \/ \E i \in 1 .. MaxChunks : LeftClick(i)
           \/ \E near \in Proximities : RightClick(near)
  BY <1>3, Edits
<1>4. CASE \E settle \in BOOLEAN : DrawTrimmer(settle)
  BY <1>4, TrimmerFrames
<1>5. CASE CloseTrimmer \/ Crash
  BY <1>5, PageGone
<1>6. CASE OpenTrimmer
  BY <1>6, PageOpened
<1>7. CASE Mpv
  BY <1>7, MpvActions
<1>8. CASE UNCHANGED vars
  <2>1. Now' = Now /\ Heard /\ UNCHANGED <<page, editVars, file, mpv>>
    BY <1>8 DEF vars, playVars, Now, Heard
  <2>2. Sound(Now)' /\ mpv'.duration \in {0} \union Durations /\ page' \in {None, "trimmer", "preview"}
    BY <2>1 DEF IInv
  <2> QED BY <2>1, <2>2, EditsKept
<1> QED BY <1>1, <1>2, <1>3, <1>4, <1>5, <1>6, <1>7, <1>8 DEF Next, User, Draw

\* The invariant holds in every reachable state.
LEMMA Invariance == Spec => []IInv
  BY InitInv, NextInv, PTL DEF Spec

\* The types and ranges of the trimmer's state: what the timeline and the player are
\* told is a position within the video, whatever mpv, the file and the user do.
THEOREM TypeCorrect == Spec => []TypeOK
<1>1. IInv => TypeOK
  <2> SUFFICES ASSUME IInv PROVE TypeOK
    OBVIOUS
  <2>1. playback.duration \in {0} \union Durations
    BY Fields DEF IInv
  <2> QED BY <2>1, Fields DEF IInv, TypeOK
<1> QED BY <1>1, Invariance, PTL

\* The chunks of the timeline partition a prefix of the video, for every length of it
\* and every number of cuts (TimelineWidget.cpp, split_chunk_at to remove_cut_point).
THEOREM ChunksAlwaysPartition == Spec => []ChunksPartition
<1>1. IInv => ChunksPartition
  BY DEF IInv
<1> QED BY <1>1, Invariance, PTL

\* load_state (TrimmerPage.cpp) throws a saved file away only if it was cut short or
\* the preview is shorter than the chunks it holds.
THEOREM EditsSurvive == Spec => NoEditsRejected
<1> DEFINE A == file \notin {<<>>, TornFile} /\ file' = <<>>
                => file[Len(file)].end > playback.duration
<1>1. ASSUME IInv, [Next]_vars, file \notin {<<>>, TornFile}, file' = <<>>
      PROVE  file[Len(file)].end > playback.duration
  <2>1. file \in Seq(Chunk) /\ file # <<>> /\ Contiguous(file) /\ playback.duration \in Nat
    BY <1>1, Fields DEF IInv, FileOK
  <2>2. file[Len(file)].end \in Nat
    BY <2>1, ChunksEnd
  <2>3. CASE \E settle \in BOOLEAN : DrawTrimmer(settle)
    <3>1. LoadState
      BY <2>3 DEF DrawTrimmer
    <3>2. ~LoadedState(file, playback.duration)
      BY <1>1, <3>1 DEF LoadState
    <3> QED BY <2>1, <2>2, <3>2 DEF LoadedState, Contiguous
  <2>4. CASE CloseTrimmer
    <3>1. file' = SavedState
      BY <2>4 DEF CloseTrimmer
    <3>2. CASE playback.duration > 0 /\ chunks = <<>>
      BY <1>1, <3>1, <3>2, EmptySeq DEF SavedState, EffectiveChunks
    <3>3. CASE ~(playback.duration > 0 /\ chunks = <<>>)
      BY <1>1, <3>1, <3>3 DEF SavedState, EffectiveChunks
    <3> QED BY <3>2, <3>3
  <2>5. CASE Crash
    BY <1>1, <2>5 DEF Crash, TornFile
  <2>6. CASE UNCHANGED file
    BY <1>1, <2>6
  <2> QED
    BY <1>1, <2>3, <2>4, <2>5, <2>6
    DEF Next, User, Draw, Mpv, vars, OpenTrimmer, Space, EndPreviewScrub, OpenPreview, ClosePreview,
        LeftClick, ScrubTimeline, ScrubPreview, RightClick, DrawPreview, MpvPlay, MpvSeekDone, MpvOpen
<1>2. IInv /\ [Next]_vars => [A]_vars
  BY <1>1
<1>3. Spec => [][A]_vars
  BY <1>2, Invariance, PTL DEF Spec
<1> QED BY <1>3 DEF NoEditsRejected

-----------------------------------------------------------------------------
(* Who holds the scrub session: each call's session, with the page that is on *)
(* top after it.                                                              *)

LEMMA ScrubKept ==
  ASSUME IInv, ScrubHasItsPage, [Next]_vars
  PROVE  ScrubHasItsPage'
<1>1. Sound(Now) /\ chunks \in Seq(Chunk) /\ Now.scrub = scrub /\ page \in {None, "trimmer", "preview"}
  BY Fields DEF IInv
<1> SUFFICES ASSUME scrub'.owner # None
             PROVE  page' = scrub'.owner /\ scrub'.owner \in {"trimmer", "preview"}
  BY DEF ScrubHasItsPage, None
<1>2. scrub.owner \in {None, "trimmer", "preview"}
  BY <1>1 DEF Sound, PlayerT, ScrubT
<1>3. scrub.owner # None => page = scrub.owner
  BY <1>2 DEF ScrubHasItsPage
<1>4. CASE UNCHANGED <<page, scrub>>
  BY <1>2, <1>3, <1>4
<1>5. CASE OpenTrimmer
  BY <1>2, <1>3, <1>5 DEF OpenTrimmer, playVars
<1>6. CASE Space
  <2>1. Play(Now).scrub = scrub /\ Paused(Now, TRUE).scrub = scrub
    BY <1>1, PlaySound, PausedScrub DEF Sound
  <2> QED BY <1>4, <1>6, <2>1 DEF Space, Become
<1>7. CASE EndPreviewScrub
  BY <1>1, <1>7, EndedScrubSound DEF EndPreviewScrub, Become
<1> DEFINE rest == IF scrub.owner # None THEN EndedScrub(Now) ELSE Now
<1>8. Sound(rest) /\ rest.scrub.owner = None
  <2>1. CASE scrub.owner # None
    BY <1>1, <2>1, EndedScrubSound
  <2>2. CASE scrub.owner = None
    BY <1>1, <2>2
  <2> QED BY <2>1, <2>2
<1>9. CASE OpenPreview
  <2>1. scrub' = SkipDisabledChunks(rest).scrub
    BY <1>9 DEF OpenPreview, Become
  <2> HIDE DEF rest
  <2> QED BY <1>1, <1>8, <2>1, SkipScrub
<1>10. CASE ClosePreview
  <2>1. scrub' = [rest EXCEPT !.restart = FALSE].scrub
    BY <1>10 DEF ClosePreview, Become
  <2> HIDE DEF rest
  <2> QED BY <1>8, <2>1 DEF Sound, PlayerT
<1>11. CASE DrawPreview
  <2>1. DrawnPlayer(Now).scrub = scrub
    BY <1>1, DrawnSound
  <2> QED BY <1>4, <1>11, <2>1 DEF DrawPreview, Become
<1>12. ASSUME NEW settle \in BOOLEAN, DrawTrimmer(settle)
       PROVE  page' = scrub'.owner /\ scrub'.owner \in {"trimmer", "preview"}
  <2> DEFINE p == IF settle THEN EndedScrub(Now) ELSE Now
  <2>1. Sound(p) /\ p.scrub.owner \in {scrub.owner, None}
    BY <1>1, <1>12, EndedScrubSound DEF DrawTrimmer
  <2>2. scrub' = DrawnPlayer(p).scrub /\ page' = page
    BY <1>12 DEF DrawTrimmer, Become
  <2> HIDE DEF p
  <2>3. scrub' = p.scrub
    BY <1>1, <2>1, <2>2, DrawnSound
  <2> QED BY <1>2, <1>3, <2>1, <2>2, <2>3
<1>13. ASSUME NEW ms \in ScrubTo, ScrubTimeline(ms)
       PROVE  page' = scrub'.owner /\ scrub'.owner \in {"trimmer", "preview"}
  <2> DEFINE p == IF scrub.owner = None THEN BegunScrub(Now, "trimmer") ELSE Now
  <2>1. playback.duration > 0 /\ ms \in Int /\ page = "trimmer" /\ page' = "trimmer"
    BY <1>13, Fields, TrimmerAssumption DEF ScrubTimeline, IInv, TrimmerAssumption
  <2>2. Sound(p) /\ SameLengths(Now, p) /\ p.scrub.owner = "trimmer"
    BY <1>1, <1>2, <1>3, <2>1, Fields, BegunScrubSound DEF SameLengths
  <2>3. scrub' = (IF ms = p.scrub.position THEN p ELSE UpdatedScrub(p, ms)).scrub
    BY <1>13 DEF ScrubTimeline, Become
  <2> HIDE DEF p
  <2>4. p.playback.duration > 0
    BY <2>1, <2>2, Fields DEF SameLengths
  <2>5. UpdatedScrub(p, ms).scrub.owner = "trimmer"
    BY <1>1, <2>1, <2>2, <2>4, UpdatedScrubSound
  <2> QED BY <2>1, <2>2, <2>3, <2>5
<1>14. ASSUME NEW ms \in ScrubTo, ScrubPreview(ms)
       PROVE  page' = scrub'.owner /\ scrub'.owner \in {"trimmer", "preview"}
  <2> DEFINE p == IF scrub.owner = None THEN BegunScrub(Now, "preview") ELSE Now
  <2>1. playback.duration > 0 /\ ms \in Int /\ page = "preview" /\ page' = "preview"
    BY <1>14, Fields, TrimmerAssumption DEF ScrubPreview, TrimmerAssumption
  <2>2. Sound(p) /\ SameLengths(Now, p) /\ p.scrub.owner = "preview"
    BY <1>1, <1>2, <1>3, <2>1, Fields, BegunScrubSound DEF SameLengths
  <2>3. scrub' = UpdatedScrub(p, ms).scrub
    BY <1>14 DEF ScrubPreview, Become
  <2> HIDE DEF p
  <2>4. p.playback.duration > 0
    BY <2>1, <2>2, Fields DEF SameLengths
  <2>5. UpdatedScrub(p, ms).scrub.owner = "preview"
    BY <1>1, <2>1, <2>2, <2>4, UpdatedScrubSound
  <2> QED BY <2>1, <2>3, <2>5
<1>15. CASE CloseTrimmer \/ Crash
  BY <1>15 DEF CloseTrimmer, Crash, Gone, NoScrub
<1>16. CASE Mpv
  BY <1>4, <1>16 DEF Mpv, MpvOpen, MpvPlay, MpvSeekDone
<1>17. CASE UNCHANGED vars
  BY <1>4, <1>17 DEF vars, playVars
<1>18. ASSUME NEW i, LeftClick(i)
       PROVE  UNCHANGED <<page, scrub>>
  BY <1>18 DEF LeftClick, playVars
<1>19. ASSUME NEW near, RightClick(near)
       PROVE  UNCHANGED <<page, scrub>>
  BY <1>19 DEF RightClick, playVars
<1> QED
  BY <1>4, <1>5, <1>6, <1>7, <1>9, <1>10, <1>11, <1>12, <1>13, <1>14, <1>15, <1>16, <1>17, <1>18, <1>19
  DEF Next, User, Draw

\* Whatever ends the trimmer's page or the preview ends the scrub it had begun,
\* so no page holds a session that only the other could end (TrimmerPage.cpp,
\* open_fullscreen_preview; FullscreenVideoPreviewPage.cpp,
\* on_navigate_away_from_page; VideoPlayer.cpp, end_scrub).
THEOREM ScrubsEndWithTheirPage == Spec => []ScrubHasItsPage
<1>1. Init => ScrubHasItsPage
  BY DEF Init, ScrubHasItsPage, NoScrub, None
<1>2. IInv /\ ScrubHasItsPage /\ [Next]_vars => ScrubHasItsPage'
  BY ScrubKept
<1> QED BY <1>1, <1>2, Invariance, PTL DEF Spec

-----------------------------------------------------------------------------
(* What the preview shows.                                                  *)

\* mpv says that it is at the end only where no later frame is.
EndShown(m) == m.eof => m.duration > 0 /\ \A f \in Frames(m.duration) : f <= m.position

\* While a page scrubs the player is paused; a seek waits only behind another.
Steady(p) ==
    /\ p.scrub.owner # None => p.playback.paused
    /\ ~p.mpv.busy => p.mpv.pending = NoSeek
    /\ EndShown(p.mpv)

Shows(d, ms) == EnabledAt(EffectiveChunks(d), ms) # {}

\* A player that plays is taken to be at a chunk that is kept.
PlaysKept(p) ==
    p.playback.duration > 0 /\ p.scrub.owner = None /\ ~p.playback.paused /\ ~p.mpv.paused
    => Shows(p.playback.duration, p.playback.position)

PreviewInv == Steady(Now) /\ (page = "preview" => PlaysKept(Now))

\* The chunks are not empty and within a video of length d.
Fit(d) ==
    \A i \in 1 .. Len(EffectiveChunks(d)) :
        /\ EffectiveChunks(d)[i].start < EffectiveChunks(d)[i].end
        /\ EffectiveChunks(d)[i].end <= d

\* No contiguous chunk ends after the last one.
LEMMA EndsAreOrdered ==
  ASSUME NEW cs \in Seq(Chunk), cs # <<>>, Contiguous(cs), NEW i \in 1 .. Len(cs)
  PROVE  cs[i].end <= cs[Len(cs)].end
<1> DEFINE n == Len(cs)
           late == {k \in 1 .. n : cs[k].end > cs[n].end}
<1>1. n \in Nat \ {0} /\ \A k \in 1 .. n : cs[k] \in Chunk
  BY ChunksEnd
<1>2. \A k \in 1 .. n : cs[k].start \in Nat /\ cs[k].end \in Nat
  BY <1>1 DEF Chunk
<1>3. SUFFICES ASSUME late # {} PROVE FALSE
  BY <1>1, <1>2
<1>4. PICK k \in late : \A j \in late : j <= k
  <2>1. late \in SUBSET (0 .. n)
    OBVIOUS
  <2> HIDE DEF late, n
  <2> QED BY <1>1, <1>3, <2>1, MaxExists
<1>5. k \in 1 .. n - 1
  BY <1>1, <1>2
<1>6. cs[k].end = cs[k + 1].start /\ cs[k + 1].start < cs[k + 1].end /\ k + 1 \in 1 .. n
  BY <1>1, <1>5 DEF Contiguous
<1>7. k + 1 \in late
  BY <1>2, <1>4, <1>6
<1> QED BY <1>4, <1>5, <1>7

\* The chunks fit a length that is known, or that is about to be.
LEMMA ChunksFit ==
  ASSUME IInv, NEW d \in Nat, d > 0, playback.duration \in {0, d}
  PROVE  Fit(d)
<1>1. chunks \in Seq(Chunk) /\ ChunksPartition
  BY DEF IInv
<1>2. CASE chunks = <<>>
  <2>1. EffectiveChunks(d) = <<NewChunk(0, d, TRUE)>>
    BY <1>2 DEF EffectiveChunks
  <2> QED BY <2>1 DEF Fit, NewChunk
<1>3. CASE chunks # <<>>
  <2>1. EffectiveChunks(d) = chunks /\ Contiguous(chunks) /\ chunks[Len(chunks)].end <= playback.duration
    BY <1>1, <1>3 DEF EffectiveChunks, ChunksPartition
  <2>2. chunks[Len(chunks)].end \in Nat \ {0} /\ \A i \in 1 .. Len(chunks) : chunks[i] \in Chunk
    BY <1>1, <1>3, <2>1, ChunksEnd
  <2>3. playback.duration = d
    BY <2>1, <2>2
  <2>4. ASSUME NEW i \in 1 .. Len(chunks)
        PROVE  chunks[i].start < chunks[i].end /\ chunks[i].end <= d
    <3>1. chunks[i].end <= chunks[Len(chunks)].end
      BY <1>1, <1>3, <2>1, EndsAreOrdered
    <3>2. chunks[i].end \in Nat
      BY <2>2 DEF Chunk
    <3> QED BY <2>1, <2>2, <2>3, <3>1, <3>2 DEF Contiguous
  <2> QED BY <2>1, <2>4 DEF Fit
<1> QED BY <1>2, <1>3

\* Where a chunk that is kept begins, it is shown.
LEMMA StartIsShown ==
  ASSUME chunks \in Seq(Chunk), NEW d \in Nat, d > 0, Fit(d),
         NEW S \in SUBSET Enabled(EffectiveChunks(d)), S # {}
  PROVE  LET i == FirstOf(S)
             start == EffectiveChunks(d)[i].start
         IN  i \in S /\ start \in 0 .. d - 1 /\ Clamp(start, 0, d - 1) = start /\ Shows(d, start)
<1> DEFINE cs == EffectiveChunks(d)
           i == FirstOf(S)
<1>1. cs \in Seq(Chunk)
  BY EffectiveAreChunks
<1>2. S \in SUBSET Nat
  BY DEF Enabled
<1>3. i \in S /\ i \in Enabled(cs) /\ i \in 1 .. Len(cs) /\ cs[i].enabled
  BY <1>2, FirstIn DEF Enabled
<1> HIDE DEF i, cs
<1>4. cs[i] \in Chunk
  BY <1>1, <1>3, ElementOfSeq
<1>5. cs[i].start \in Nat /\ cs[i].end \in Nat /\ cs[i].start < cs[i].end /\ cs[i].end <= d
  BY <1>3, <1>4 DEF Fit, Chunk, cs
<1>6. cs[i].start \in 0 .. d - 1 /\ Clamp(cs[i].start, 0, d - 1) = cs[i].start
  BY <1>5 DEF Clamp
<1>7. i \in EnabledAt(cs, cs[i].start)
  BY <1>3, <1>5 DEF EnabledAt, Holds
<1> QED BY <1>3, <1>6, <1>7 DEF Shows, cs, i

\* What a seek does to mpv.
LEMMA MpvSeekDoes ==
  ASSUME NEW m \in MpvT, EndShown(m), ~m.busy => m.pending = NoSeek, NEW ms \in Nat
  PROVE  LET n == MpvSeek(m, ms)
         IN  /\ n \in MpvT /\ EndShown(n) /\ n.busy /\ LastTarget(n) = ms
             /\ n.paused = m.paused /\ n.duration = m.duration
<1> DEFINE n == MpvSeek(m, ms)
<1>1. /\ n \in MpvT /\ n.busy /\ n.paused = m.paused /\ n.eof = m.eof
      /\ n.duration = m.duration /\ n.position = m.position
      /\ IF m.busy THEN n.pending = ms ELSE n.seek = ms /\ n.pending = NoSeek
  <2>1. CASE m.busy
    <3>1. n = [m EXCEPT !.pending = ms]
      BY <2>1 DEF MpvSeek
    <3> HIDE DEF n
    <3>2. ms \in Int
      OBVIOUS
    <3> QED BY <2>1, <3>1, <3>2 DEF MpvT
  <2>2. CASE ~m.busy
    <3>1. n = [m EXCEPT !.busy = TRUE, !.seek = ms]
      BY <2>2 DEF MpvSeek
    <3> HIDE DEF n
    <3>2. ms \in Int /\ m.pending = NoSeek
      BY <2>2
    <3> QED BY <2>2, <3>1, <3>2 DEF MpvT
  <2> QED BY <2>1, <2>2
<1> HIDE DEF n
<1>4. LastTarget(n) = ms
  BY <1>1 DEF LastTarget, NoSeek
<1>5. EndShown(n)
  BY <1>1 DEF EndShown
<1> QED BY <1>1, <1>4, <1>5 DEF n

\* A seek within a known length: where the player is taken to be is the target.
LEMMA SeekToDoes ==
  ASSUME NEW p, Sound(p), Steady(p), p.playback.duration > 0, NEW ms \in Int
  PROVE  LET q == SeekTo(p, ms)
         IN  /\ Sound(q) /\ Steady(q) /\ SameLengths(p, q) /\ q.scrub = p.scrub
             /\ q.playback.paused = p.playback.paused /\ q.playback.eof = p.playback.eof
             /\ q.mpv.paused = p.mpv.paused
             /\ q.playback.position = Clamp(ms, 0, p.playback.duration - 1)
             /\ LastTarget(q.mpv) = q.playback.position
<1> DEFINE q == SeekTo(p, ms)
           d == p.playback.duration
           to == Clamp(ms, 0, d - 1)
           m == MpvSeek(p.mpv, to)
           b == [p.playback EXCEPT !.position = to]
<1>1. p \in PlayerT /\ d \in Nat /\ p.playback \in PlaybackT /\ p.mpv \in MpvT
  BY DEF Sound, PlayerT, PlaybackT
<1>2. ClampToDuration(p.playback, ms) = to
  BY DEF ClampToDuration
<1>3. q = [p EXCEPT !.playback = b, !.mpv = m]
  BY <1>1, <1>2 DEF SeekTo, PlayerT
<1>4. Sound(q) /\ SameLengths(p, q)
  BY SeekToSound
<1> HIDE DEF q
<1>5. to \in Nat
  BY <1>1 DEF Clamp
<1> HIDE DEF to
<1>6. /\ m \in MpvT /\ EndShown(m) /\ m.busy /\ LastTarget(m) = to
      /\ m.paused = p.mpv.paused
  BY <1>1, <1>5, MpvSeekDoes DEF Steady
<1>7. b.position = to /\ b.paused = p.playback.paused /\ b.eof = p.playback.eof
  BY <1>1 DEF PlaybackT
<1> HIDE DEF m, b
<1>8. q.playback = b /\ q.mpv = m /\ q.scrub = p.scrub
  BY <1>1, <1>3 DEF PlayerT
<1>9. Steady(q)
  BY <1>6, <1>7, <1>8 DEF Steady
<1> QED BY <1>4, <1>6, <1>7, <1>8, <1>9 DEF q, to

\* Pausing and playing on leave where the player is taken to be.
LEMMA PausedDoes ==
  ASSUME NEW p, Sound(p), Steady(p), NEW b \in BOOLEAN
  PROVE  LET q == Paused(p, b)
         IN  /\ Sound(q) /\ Steady(q) /\ SameLengths(p, q) /\ q.scrub = p.scrub
             /\ q.playback = p.playback /\ (q.mpv.paused <=> b)
             /\ LastTarget(q.mpv) = LastTarget(p.mpv)
<1> DEFINE q == Paused(p, b)
           m == [p.mpv EXCEPT !.paused = b]
<1>1. p \in PlayerT /\ p.mpv \in MpvT
  BY DEF Sound, PlayerT
<1>2. q = [p EXCEPT !.mpv = m]
  BY <1>1 DEF Paused, PlayerT
<1>3. Sound(q) /\ SameLengths(p, q)
  BY PausedSound
<1> HIDE DEF q
<1>4. /\ m.busy = p.mpv.busy /\ m.pending = p.mpv.pending /\ m.seek = p.mpv.seek /\ m.eof = p.mpv.eof
      /\ m.duration = p.mpv.duration /\ m.position = p.mpv.position /\ m.paused = b
  BY <1>1 DEF MpvT
<1> HIDE DEF m
<1>5. q.playback = p.playback /\ q.mpv = m /\ q.scrub = p.scrub
  BY <1>1, <1>2 DEF PlayerT
<1>6. EndShown(m) /\ LastTarget(m) = LastTarget(p.mpv)
  BY <1>4 DEF Steady, EndShown, LastTarget
<1> QED BY <1>3, <1>4, <1>5, <1>6 DEF Steady, q

LEMMA PlayOnDoes ==
  ASSUME NEW p, Sound(p), Steady(p)
  PROVE  LET q == PlayOn(p)
         IN  /\ Sound(q) /\ Steady(q) /\ SameLengths(p, q) /\ q.scrub = p.scrub
             /\ q.playback = p.playback
             /\ ~p.playback.eof => LastTarget(q.mpv) = LastTarget(p.mpv)
<1> DEFINE m == IF p.playback.eof /\ p.scrub.owner = None THEN MpvSeek(p.mpv, 0) ELSE p.mpv
           r == [p EXCEPT !.mpv = m]
<1>1. p \in PlayerT /\ p.mpv \in MpvT
  BY DEF Sound, PlayerT
<1>2. /\ m \in MpvT /\ EndShown(m) /\ (~m.busy => m.pending = NoSeek)
      /\ m.duration = p.mpv.duration /\ m.position = p.mpv.position
      /\ ~p.playback.eof => LastTarget(m) = LastTarget(p.mpv)
  BY <1>1, MpvSeekDoes, MpvSeekSound DEF Steady
<1>3. PlayOn(p) = Paused(r, FALSE)
  BY <1>1 DEF PlayOn, PlayerT
<1> HIDE DEF m
<1>4. r \in PlayerT /\ r.playback = p.playback /\ r.mpv = m /\ r.scrub = p.scrub
  BY <1>1, <1>2 DEF PlayerT
<1> HIDE DEF r
<1>5. Sound(r) /\ Steady(r) /\ SameLengths(p, r)
  BY <1>2, <1>4 DEF Sound, Steady, SameLengths
<1>6. LET q == Paused(r, FALSE)
      IN  /\ Sound(q) /\ Steady(q) /\ SameLengths(r, q) /\ q.scrub = r.scrub
          /\ q.playback = r.playback /\ LastTarget(q.mpv) = LastTarget(r.mpv)
  BY <1>5, PausedDoes
<1> QED BY <1>2, <1>3, <1>4, <1>5, <1>6 DEF SameLengths

\* restart is of no account here either.
LEMMA RestartDoes ==
  ASSUME NEW p, Sound(p), Steady(p), NEW b \in BOOLEAN
  PROVE  LET q == [p EXCEPT !.restart = b]
         IN  /\ Sound(q) /\ Steady(q) /\ SameLengths(p, q) /\ q.scrub = p.scrub
             /\ q.playback = p.playback /\ q.mpv = p.mpv
<1> DEFINE q == [p EXCEPT !.restart = b]
<1>1. q.playback = p.playback /\ q.mpv = p.mpv /\ q.scrub = p.scrub
  BY DEF Sound, PlayerT
<1>2. Sound(q) /\ SameLengths(p, q)
  BY RestartSound
<1> HIDE DEF q
<1> QED BY <1>1, <1>2 DEF Steady, q

\* Skipping a disabled chunk takes the player to the next that is kept, or stops it.
LEMMA SkipDoes ==
  ASSUME chunks \in Seq(Chunk), NEW p, Sound(p), Steady(p),
         p.playback.duration > 0 => Fit(p.playback.duration)
  PROVE  LET q == SkipDisabledChunks(p)
             d == p.playback.duration
             cs == EffectiveChunks(d)
         IN  /\ Steady(q) /\ PlaysKept(q)
             /\ d > 0 /\ p.scrub.owner = None /\ ~q.mpv.paused
                => \/ Shows(d, p.playback.position) \/ Shows(d, LastTarget(q.mpv))
                   \/ /\ p.playback.eof
                      /\ \E i \in Enabled(cs) : cs[i].start > p.playback.position
<1> DEFINE d == p.playback.duration
           cs == EffectiveChunks(d)
           at == p.playback.position
           here == EnabledAt(cs, at)
           next == NextEnabled(cs, at)
           last == LastOf(Enabled(cs))
           stopped == /\ p.playback.paused /\ last \in here /\ at >= FinalPosition(cs[last])
           cleared == [p EXCEPT !.restart = FALSE]
           heard == [p EXCEPT !.restart = stopped /\ (p.restart \/ p.playback.eof)]
           skipped == SeekTo(cleared, cs[FirstOf(next)].start)
           pending == [p EXCEPT !.restart = TRUE]
           ended == Paused(pending, TRUE)
           atEnd == SeekTo(ended, FinalPosition(cs[last]))
           S == SkipDisabledChunks(p)
           Good(q) == /\ Steady(q) /\ PlaysKept(q)
                      /\ d > 0 /\ p.scrub.owner = None /\ ~q.mpv.paused
                         => \/ Shows(d, at) \/ Shows(d, LastTarget(q.mpv))
                            \/ p.playback.eof /\ \E i \in Enabled(cs) : cs[i].start > at
<1> SUFFICES Good(S)
  OBVIOUS
<1>1. p \in PlayerT /\ d \in Nat /\ p.playback.eof \in BOOLEAN /\ p.restart \in BOOLEAN /\ at \in Int
  BY DEF Sound, PlayerT, PlaybackT
<1>2. cs \in Seq(Chunk)
  BY <1>1, EffectiveAreChunks
<1>3. S = IF d = 0 THEN p
          ELSE IF p.scrub.owner # None THEN cleared
          ELSE IF here # {} THEN heard
          ELSE IF next # {} THEN IF p.playback.paused THEN skipped ELSE PlayOn(skipped)
          ELSE IF Enabled(cs) # {} THEN atEnd ELSE ended
  BY <1>1 DEF SkipDisabledChunks, PlayerT
<1>4. next \in SUBSET (1 .. Len(cs)) /\ next \in SUBSET Enabled(cs) /\ Enabled(cs) \in SUBSET (1 .. Len(cs))
  BY DEF NextEnabled, Enabled
<1>5. Sound(cleared) /\ Steady(cleared) /\ cleared.scrub = p.scrub
      /\ cleared.playback = p.playback /\ cleared.mpv = p.mpv
  BY RestartDoes
<1>6. Sound(heard) /\ Steady(heard) /\ heard.scrub = p.scrub
      /\ heard.playback = p.playback /\ heard.mpv = p.mpv
  <2> DEFINE r == stopped /\ (p.restart \/ p.playback.eof)
  <2>1. r \in BOOLEAN
    BY <1>1
  <2> HIDE DEF r, stopped
  <2>2. heard = [p EXCEPT !.restart = r]
    BY DEF r
  <2> HIDE DEF heard
  <2> QED BY <2>1, <2>2, RestartDoes
<1>7. Sound(pending) /\ Steady(pending) /\ pending.scrub = p.scrub
      /\ pending.playback = p.playback /\ pending.mpv = p.mpv
  BY RestartDoes
<1>8. Shows(d, at) <=> here # {}
  BY DEF Shows
<1> HIDE DEF S, cleared, heard, pending
<1>9. CASE d = 0
  BY <1>1, <1>3, <1>9 DEF PlaysKept
<1>10. CASE d > 0 /\ p.scrub.owner # None
  <2>1. S = cleared
    BY <1>3, <1>10
  <2> QED BY <1>5, <1>10, <2>1 DEF PlaysKept
<1>11. CASE d > 0 /\ p.scrub.owner = None /\ here # {}
  <2>1. S = heard
    BY <1>3, <1>11
  <2> HIDE DEF here
  <2> QED BY <1>6, <1>8, <1>11, <2>1 DEF PlaysKept
<1>12. CASE d > 0 /\ p.scrub.owner = None /\ here = {} /\ next # {}
  <2> DEFINE i == FirstOf(next)
             start == cs[i].start
  <2>1. i \in next /\ start \in 0 .. d - 1 /\ Clamp(start, 0, d - 1) = start /\ Shows(d, start)
    <3> HIDE DEF next
    <3> QED BY <1>1, <1>4, <1>12, StartIsShown
  <2>2. start > at
    <3>1. i \in Enabled(cs) /\ cs[i].end > at
      BY <2>1 DEF NextEnabled
    <3>2. i \notin here
      BY <1>12
    <3>3. ~Holds(cs[i], at)
      BY <3>1, <3>2 DEF EnabledAt
    <3> QED BY <1>1, <2>1, <3>1, <3>3 DEF Holds
  <2>3. skipped = SeekTo(cleared, start)
    OBVIOUS
  <2>4. i \in Enabled(cs)
    BY <1>4, <2>1
  <2> HIDE DEF i, start, skipped, here, next
  <2>5. /\ Sound(skipped) /\ Steady(skipped) /\ SameLengths(cleared, skipped) /\ skipped.scrub = p.scrub
        /\ skipped.playback.paused = p.playback.paused /\ skipped.playback.eof = p.playback.eof
        /\ skipped.playback.position = start /\ LastTarget(skipped.mpv) = start
    BY <1>5, <1>12, <2>1, <2>3, SeekToDoes
  <2>6. skipped.playback.duration = d
    BY <1>5, <2>5 DEF SameLengths
  <2>7. PlaysKept(skipped)
    BY <2>1, <2>5, <2>6 DEF PlaysKept
  <2>8. CASE p.playback.paused
    BY <1>3, <1>12, <2>1, <2>5, <2>7, <2>8
  <2>9. CASE ~p.playback.paused
    <3> DEFINE on == PlayOn(skipped)
    <3>1. S = on
      BY <1>3, <1>12, <2>9
    <3>2. /\ Steady(on) /\ on.scrub = skipped.scrub /\ on.playback = skipped.playback
          /\ ~skipped.playback.eof => LastTarget(on.mpv) = LastTarget(skipped.mpv)
      BY <2>5, PlayOnDoes
    <3> HIDE DEF on
    <3>3. PlaysKept(on)
      BY <2>1, <2>5, <2>6, <3>2 DEF PlaysKept
    <3>4. \E j \in Enabled(cs) : cs[j].start > at
      BY <2>2, <2>4 DEF start
    <3> HIDE DEF cs
    <3> QED BY <2>1, <2>5, <3>1, <3>2, <3>3, <3>4
  <2> QED BY <2>8, <2>9
<1>13. CASE d > 0 /\ p.scrub.owner = None /\ here = {} /\ next = {}
  <2>1. /\ Sound(ended) /\ Steady(ended) /\ ended.playback = p.playback /\ ended.mpv.paused
    BY <1>7, PausedDoes
  <2> HIDE DEF ended
  <2>2. ASSUME Enabled(cs) # {} PROVE Steady(atEnd) /\ atEnd.mpv.paused
    <3>1. FinalPosition(cs[last]) \in Int
      BY <1>2, <1>4, <2>2, ChunkPositions
    <3> HIDE DEF last
    <3> QED BY <1>13, <2>1, <3>1, SeekToDoes
  <2> HIDE DEF atEnd
  <2>3. S \in {atEnd, ended} /\ Steady(S) /\ S.mpv.paused
    BY <1>3, <1>13, <2>1, <2>2
  <2> QED BY <2>3 DEF PlaysKept
<1> HIDE DEF d, here, next
<1>14. Good(S)
  <2>1. d = 0 \/ d > 0
    BY <1>1
  <2> QED BY <1>9, <1>10, <1>11, <1>12, <1>13, <2>1
<1> QED BY <1>14 DEF S, d

LEMMA NotifiedDoes ==
  ASSUME chunks \in Seq(Chunk), NEW p, Sound(p), Steady(p), NEW b,
         p.playback.duration > 0 => Fit(p.playback.duration)
  PROVE  /\ Steady(Notified(p, b))
         /\ page = "preview" /\ (p.playback = b => PlaysKept(p)) => PlaysKept(Notified(p, b))
BY SkipDoes DEF Notified

\* A paused player plays on, or starts again where the first chunk that is kept begins.
LEMMA PlayDoes ==
  ASSUME chunks \in Seq(Chunk), NEW p, Sound(p), Steady(p), p.playback.paused,
         p.playback.duration > 0 => Fit(p.playback.duration)
  PROVE  Steady(Play(p)) /\ (page = "preview" => PlaysKept(Play(p)))
<1>1. CASE ~Restarts(p)
  <2>1. Play(p) = PlayOn(p)
    BY <1>1 DEF Play
  <2>2. Steady(PlayOn(p)) /\ PlayOn(p).playback = p.playback
    BY PlayOnDoes
  <2> QED BY <2>1, <2>2 DEF PlaysKept
<1>2. CASE Restarts(p)
  <2> DEFINE d == p.playback.duration
             cs == EffectiveChunks(d)
             start == cs[FirstOf(Enabled(cs))].start
             q == SeekTo(p, start)
             r == Paused(q, FALSE)
             b == [r.playback EXCEPT !.eof = FALSE, !.paused = FALSE]
             s == [r EXCEPT !.playback = b, !.restart = FALSE]
  <2>1. d > 0 /\ d \in Nat /\ Enabled(cs) # {} /\ p.scrub.owner = None
    BY <1>2 DEF Restarts, Sound, PlayerT, PlaybackT
  <2>2. start \in 0 .. d - 1 /\ Clamp(start, 0, d - 1) = start /\ Shows(d, start)
    <3>1. Fit(d)
      BY <2>1
    <3> HIDE DEF d
    <3> QED BY <2>1, <3>1, StartIsShown
  <2> HIDE DEF start
  <2>3. /\ Sound(q) /\ Steady(q) /\ SameLengths(p, q) /\ q.scrub = p.scrub
        /\ q.playback.position = start
    BY <2>1, <2>2, SeekToDoes
  <2> HIDE DEF q
  <2>4. /\ Sound(r) /\ Steady(r) /\ SameLengths(q, r) /\ r.scrub = q.scrub
        /\ r.playback = q.playback
    BY <2>3, PausedDoes
  <2>5. Play(p) = s
    BY <1>2, <2>4 DEF Play, Restarted, start, d, cs, q, r, Sound, PlayerT
  <2> HIDE DEF r
  <2>6. b.position = r.playback.position /\ b.duration = r.playback.duration
    BY <2>4 DEF Sound, PlayerT, PlaybackT
  <2> HIDE DEF b
  <2>7. s.playback = b /\ s.mpv = r.mpv /\ s.scrub = r.scrub
    BY <2>4 DEF Sound, PlayerT
  <2> HIDE DEF s
  <2>8. Steady(s)
    BY <2>1, <2>3, <2>4, <2>7 DEF Steady
  <2>9. s.playback.duration = d /\ s.playback.position = start
    BY <2>3, <2>4, <2>6, <2>7 DEF SameLengths
  <2> QED BY <2>2, <2>5, <2>8, <2>9 DEF PlaysKept
<1> QED BY <1>1, <1>2

LEMMA BegunScrubDoes ==
  ASSUME chunks \in Seq(Chunk), NEW p, Sound(p), Steady(p), p.playback.duration > 0,
         Fit(p.playback.duration), NEW who \in {"trimmer", "preview"}
  PROVE  Steady(BegunScrub(p, who))
<1> DEFINE s == [owner |-> who, position |-> p.playback.position, resume |-> ~p.playback.paused]
           b == [p.playback EXCEPT !.paused = TRUE]
           m == [p.mpv EXCEPT !.paused = TRUE]
           q == [p EXCEPT !.scrub = s, !.playback = b, !.mpv = m]
<1>1. p \in PlayerT /\ p.mpv \in MpvT /\ p.playback \in PlaybackT
  BY DEF Sound, PlayerT
<1>2. s \in ScrubT
  BY <1>1 DEF PlaybackT, ScrubT
<1>3. b \in PlaybackT /\ b.duration = p.playback.duration /\ b.position = p.playback.position /\ b.paused
  BY <1>1 DEF PlaybackT
<1>4. /\ m \in MpvT /\ m.duration = p.mpv.duration /\ m.position = p.mpv.position
      /\ m.busy = p.mpv.busy /\ m.pending = p.mpv.pending /\ m.eof = p.mpv.eof
  BY <1>1 DEF MpvT
<1>5. BegunScrub(p, who) = Notified(q, p.playback)
  BY <1>1 DEF BegunScrub, PlayerT
<1> HIDE DEF s, b, m
<1>6. q \in PlayerT /\ q.playback = b /\ q.mpv = m /\ q.scrub = s
  BY <1>1, <1>2, <1>3, <1>4 DEF PlayerT
<1> HIDE DEF q
<1>7. Sound(q)
  BY <1>3, <1>4, <1>6 DEF Sound
<1>8. Steady(q)
  BY <1>3, <1>4, <1>6 DEF Steady, EndShown
<1> QED BY <1>3, <1>5, <1>6, <1>7, <1>8, NotifiedDoes

LEMMA UpdatedScrubDoes ==
  ASSUME chunks \in Seq(Chunk), NEW p, Sound(p), Steady(p), p.playback.duration > 0,
         Fit(p.playback.duration), NEW ms \in Int
  PROVE  Steady(UpdatedScrub(p, ms))
<1> DEFINE r == SeekTo(p, ms)
           s == [r.scrub EXCEPT !.position = ms]
           q == [r EXCEPT !.scrub = s]
<1>1. Sound(r) /\ Steady(r) /\ SameLengths(p, r)
  BY SeekToDoes
<1>2. UpdatedScrub(p, ms) = Notified(q, p.playback)
  BY <1>1 DEF UpdatedScrub, Sound, PlayerT
<1> HIDE DEF r
<1>3. r \in PlayerT
  BY <1>1 DEF Sound
<1>4. s \in ScrubT /\ s.owner = r.scrub.owner
  BY <1>3 DEF PlayerT, ScrubT
<1> HIDE DEF s
<1>5. q \in PlayerT /\ q.playback = r.playback /\ q.mpv = r.mpv /\ q.scrub = s
  BY <1>3, <1>4 DEF PlayerT
<1> HIDE DEF q
<1>6. Sound(q) /\ Steady(q) /\ q.playback.duration = p.playback.duration
  BY <1>1, <1>4, <1>5 DEF Sound, Steady, SameLengths
<1> QED BY <1>2, <1>6, NotifiedDoes

LEMMA EndedScrubDoes ==
  ASSUME chunks \in Seq(Chunk), NEW p, Sound(p), Steady(p), p.scrub.owner # None,
         Fit(p.playback.duration)
  PROVE  Steady(EndedScrub(p)) /\ (page = "preview" => PlaysKept(EndedScrub(p)))
<1> DEFINE r == [p EXCEPT !.scrub = NoScrub]
           q == SeekTo(r, p.scrub.position)
<1>1. p \in PlayerT /\ p.scrub.position \in Int /\ p.playback.duration > 0 /\ p.playback.paused
  BY DEF Sound, Steady, PlayerT, ScrubT
<1>2. NoScrub \in ScrubT /\ NoScrub.owner = None
  BY DEF NoScrub, ScrubT
<1>3. r \in PlayerT /\ r.playback = p.playback /\ r.mpv = p.mpv /\ r.scrub = NoScrub
  BY <1>1, <1>2 DEF PlayerT
<1>4. EndedScrub(p) = IF p.scrub.resume THEN Play(q) ELSE q
  BY DEF EndedScrub
<1> HIDE DEF r
<1>5. Sound(r) /\ Steady(r)
  BY <1>2, <1>3 DEF Sound, Steady
<1>6. Sound(q) /\ Steady(q) /\ q.playback.paused /\ q.playback.duration = p.playback.duration
  BY <1>1, <1>3, <1>5, SeekToDoes DEF SameLengths
<1> HIDE DEF q
<1>7. Steady(Play(q)) /\ (page = "preview" => PlaysKept(Play(q)))
  BY <1>6, PlayDoes
<1>8. PlaysKept(q)
  BY <1>6 DEF PlaysKept
<1> QED BY <1>4, <1>6, <1>7, <1>8

\* A frame: what the page hears is what mpv shows, or where the scrub is.
LEMMA DrawnDoes ==
  ASSUME chunks \in Seq(Chunk), NEW p, Sound(p), Steady(p),
         \A d \in Nat : d > 0 /\ p.playback.duration \in {0, d} => Fit(d)
  PROVE  LET q == DrawnPlayer(p)
             d == p.mpv.duration
             cs == EffectiveChunks(d)
             at == BackendState(p.mpv).position
         IN  /\ Steady(q)
             /\ page = "preview" /\ PlaysKept(p) => PlaysKept(q)
             /\ page = "preview" /\ PlaysKept(p) /\ d > 0 /\ p.scrub.owner = None /\ ~q.mpv.paused
                => \/ Shows(d, at) \/ Shows(d, LastTarget(q.mpv))
                   \/ \E i \in Enabled(cs) : \A f \in Frames(d) : ~Holds(cs[i], f)
<1> DEFINE m == Replied(p.mpv)
           d == p.mpv.duration
           cs == EffectiveChunks(d)
           at == BackendState(p.mpv).position
           held == [p.playback EXCEPT !.paused = TRUE,
                                      !.position = ClampToDuration(p.playback, p.scrub.position)]
           b == IF p.scrub.owner = None THEN BackendState(m) ELSE held
           q == [p EXCEPT !.playback = b, !.mpv = m]
           D == DrawnPlayer(p)
           Jumps == \E i \in Enabled(cs) : \A f \in Frames(d) : ~Holds(cs[i], f)
<1>1. p \in PlayerT /\ p.mpv \in MpvT /\ p.playback \in PlaybackT /\ p.scrub \in ScrubT /\ d \in Nat
  BY DEF Sound, PlayerT, MpvT
<1>2. /\ m \in MpvT /\ m.duration = d /\ m.position = p.mpv.position /\ m.eof = p.mpv.eof
      /\ m.paused = p.mpv.paused /\ (~m.busy => m.pending = NoSeek)
  BY <1>1 DEF Replied, MpvT, Steady
<1>3. D = Notified(q, p.playback)
  BY DEF DrawnPlayer
<1>4. BackendState(m) = [position |-> at, duration |-> d, paused |-> m.paused, eof |-> m.eof]
  BY <1>2 DEF BackendState
<1> HIDE DEF m, D
<1>5. at \in 0 .. Max2(0, d - 1) /\ at \in Int /\ (d > 0 => at = Clamp(p.mpv.position, 0, d - 1))
  <2>1. p.mpv.position \in Int /\ (d = 0 => p.mpv.position = 0)
    BY <1>1 DEF MpvT, Sound
  <2>2. at = IF d > 0 THEN Clamp(p.mpv.position, 0, d - 1) ELSE p.mpv.position
    BY DEF BackendState
  <2> HIDE DEF at
  <2>3. CASE d = 0
    BY <2>1, <2>2, <2>3 DEF Max2
  <2>4. CASE d > 0
    BY <1>1, <2>1, <2>2, <2>4 DEF Max2, Clamp
  <2> QED BY <1>1, <2>3, <2>4
<1> HIDE DEF at
<1>6. p.scrub.owner = None => /\ b \in PlaybackT /\ b.duration = d /\ b.position = at
                              /\ b.paused = m.paused /\ b.eof = m.eof
  BY <1>1, <1>2, <1>4, <1>5 DEF PlaybackT, MpvT
<1>7. p.scrub.owner # None => /\ b \in PlaybackT /\ b.duration = p.playback.duration /\ b.paused
                              /\ b.position \in 0 .. Max2(0, b.duration - 1)
  <2> SUFFICES ASSUME p.scrub.owner # None
               PROVE  /\ b \in PlaybackT /\ b.duration = p.playback.duration /\ b.paused
                      /\ b.position \in 0 .. Max2(0, b.duration - 1)
    OBVIOUS
  <2> DEFINE x == ClampToDuration(p.playback, p.scrub.position)
  <2>1. p.playback.duration > 0 /\ p.playback.duration \in Nat /\ p.scrub.position \in Int
    BY <1>1 DEF Sound, PlaybackT, ScrubT
  <2>2. x \in 0 .. Max2(0, p.playback.duration - 1) /\ x \in Int
    BY <2>1 DEF ClampToDuration, Clamp, Max2
  <2>3. b = [p.playback EXCEPT !.paused = TRUE, !.position = x]
    OBVIOUS
  <2> HIDE DEF x, b
  <2> QED BY <1>1, <2>2, <2>3 DEF PlaybackT
<1> HIDE DEF b
<1>8. q \in PlayerT /\ q.playback = b /\ q.mpv = m /\ q.scrub = p.scrub
  BY <1>1, <1>2, <1>6, <1>7 DEF PlayerT
<1> HIDE DEF q
<1>9. q.playback.duration \in {p.playback.duration, d} /\ q.playback.duration \in {0, d}
  BY <1>6, <1>7, <1>8 DEF Sound
<1>10. Sound(q)
  <2>1. q.playback.position \in 0 .. Max2(0, q.playback.duration - 1)
    BY <1>5, <1>6, <1>7, <1>8
  <2>2. q.mpv.duration = d /\ (q.mpv.duration = 0 => q.mpv.position = 0)
    BY <1>2, <1>8 DEF Sound
  <2>3. q.scrub.owner # None => q.playback.duration > 0
    BY <1>7, <1>8 DEF Sound
  <2> QED BY <1>8, <1>9, <2>1, <2>2, <2>3 DEF Sound
<1>11. Steady(q)
  BY <1>2, <1>7, <1>8 DEF Steady, EndShown
<1>12. q.playback.duration > 0 => Fit(q.playback.duration)
  BY <1>1, <1>9 DEF Sound
<1>13. Steady(D) /\ (page = "preview" /\ PlaysKept(p) => PlaysKept(D))
  <2>1. q.playback = p.playback /\ PlaysKept(p) => PlaysKept(q)
    BY <1>2, <1>8 DEF PlaysKept
  <2> QED BY <1>3, <1>10, <1>11, <1>12, <2>1, NotifiedDoes
<1>14. ASSUME page = "preview", PlaysKept(p), d > 0, p.scrub.owner = None, ~D.mpv.paused
       PROVE  Shows(d, at) \/ Shows(d, LastTarget(D.mpv)) \/ Jumps
  <2>1. CASE q.playback = p.playback
    <3>1. D = q /\ ~p.playback.paused /\ ~p.mpv.paused /\ p.playback.duration = d /\ p.playback.position = at
      BY <1>2, <1>3, <1>6, <1>8, <1>14, <2>1 DEF Notified
    <3> QED BY <1>14, <3>1 DEF PlaysKept
  <2>2. CASE q.playback # p.playback
    <3>1. D = SkipDisabledChunks(q) /\ q.playback.duration = d /\ q.playback.position = at
          /\ q.playback.eof = m.eof /\ q.scrub.owner = None
      BY <1>3, <1>6, <1>8, <1>14, <2>2 DEF Notified
    <3>2. \/ Shows(d, at) \/ Shows(d, LastTarget(D.mpv))
          \/ m.eof /\ \E i \in Enabled(cs) : cs[i].start > at
      BY <1>10, <1>11, <1>12, <1>14, <3>1, SkipDoes
    <3>3. ASSUME m.eof, NEW i \in Enabled(cs), cs[i].start > at PROVE Jumps
      <4>1. ASSUME NEW f \in Frames(d) PROVE ~Holds(cs[i], f)
        <5>1. f <= p.mpv.position /\ f \in Nat /\ f <= d - 1
          BY <1>1, <1>2, <3>3 DEF Steady, EndShown, Frames
        <5>2. p.mpv.position \in Int
          BY <1>1 DEF MpvT
        <5>3. f <= at
          BY <1>1, <1>5, <1>14, <5>1, <5>2 DEF Clamp
        <5>4. cs[i].start \in Int
          <6>1. cs \in Seq(Chunk) /\ i \in 1 .. Len(cs)
            BY <1>1, EffectiveAreChunks DEF Enabled
          <6>2. cs[i] \in Chunk
            BY <6>1, ElementOfSeq
          <6> QED BY <6>2 DEF Chunk
        <5> QED BY <1>5, <3>3, <5>1, <5>3, <5>4 DEF Holds
      <4> QED BY <3>3, <4>1
    <3> HIDE DEF Jumps, cs
    <3> QED BY <3>2, <3>3
  <2> QED BY <2>1, <2>2
<1> QED BY <1>13, <1>14 DEF D, at

-----------------------------------------------------------------------------
\* A step to a player's state, the page that is on top after it.
LEMMA PreviewStep ==
  ASSUME NEW q, q \in PlayerT, Become(q), Steady(q),
         page' = "preview" => UNCHANGED chunks /\ PlaysKept(q)
  PROVE  PreviewInv'
<1>1. Now' = q
  BY DEF Become, Now, PlayerT
<1>2. Steady(Now)'
  BY <1>1 DEF Steady, EndShown
<1>3. ASSUME page' = "preview" PROVE PlaysKept(Now)'
  BY <1>1, <1>3 DEF PlaysKept, Shows, EffectiveChunks, EnabledAt
<1> QED BY <1>2, <1>3 DEF PreviewInv

\* No player: the state before a page is opened and after it is closed.
LEMMA NoPlayerIsSteady ==
  Steady([playback |-> NoPlayback, restart |-> FALSE, scrub |-> NoScrub, mpv |-> NoMpv])
  BY DEF Steady, EndShown, NoPlayback, NoScrub, NoMpv, NoSeek

\* No frame is after the last one.
LEMMA LastFrameIsLast ==
  ASSUME NEW d \in Nat, d > 0
  PROVE  LastFrame(d) \in Frames(d) /\ \A f \in Frames(d) : f <= LastFrame(d)
<1>1. 0 \in 0 .. d - 1 /\ 0 % FrameMs = 0
  BY TrimmerAssumption DEF TrimmerAssumption
<1>2. Frames(d) \in SUBSET (0 .. d) /\ Frames(d) # {}
  BY <1>1 DEF Frames
<1>3. \E f \in Frames(d) : \A g \in Frames(d) : g <= f
  BY <1>2, MaxExists
<1> QED BY <1>3 DEF LastFrame

\* mpv comes to the end at its last frame only, and starts nothing by itself.
LEMMA MpvKeepsPreview ==
  ASSUME IInv, PreviewInv, Mpv
  PROVE  PreviewInv'
<1>1. /\ Sound(Now) /\ mpv \in MpvT /\ Now.mpv = mpv /\ Now.playback = playback /\ Now.scrub = scrub
      /\ Steady(Now)
  BY DEF IInv, PreviewInv, Sound, Now, PlayerT
<1>2. mpv.duration \in Nat /\ mpv.position \in Int /\ EndShown(mpv) /\ (~mpv.busy => mpv.pending = NoSeek)
      /\ (scrub.owner # None => playback.paused)
  BY <1>1 DEF MpvT, Steady
<1>3. FrameMs \in Nat \ {0}
  BY TrimmerAssumption DEF TrimmerAssumption
<1>4. SUFFICES /\ EndShown(mpv)' /\ mpv'.busy = mpv.busy /\ mpv'.pending = mpv.pending
               /\ ~mpv'.paused => ~mpv.paused
  <2>1. UNCHANGED <<page, chunks, playback, restart, scrub>>
    BY DEF Mpv, MpvPlay, MpvSeekDone, MpvOpen, editVars
  <2>2. Now'.mpv = mpv' /\ Now'.playback = playback /\ Now'.scrub = scrub
    BY <2>1 DEF Now
  <2>3. Steady(Now)'
    BY <1>2, <1>4, <2>2 DEF Steady
  <2>4. ASSUME page = "preview" PROVE PlaysKept(Now)'
    <3>1. PlaysKept(Now)
      BY <2>4 DEF PreviewInv
    <3> QED BY <1>1, <1>4, <2>1, <2>2, <3>1 DEF PlaysKept, Shows, EffectiveChunks, EnabledAt
  <2> QED BY <2>1, <2>3, <2>4 DEF PreviewInv
<1>5. ASSUME mpv.duration > 0
      PROVE  /\ LastFrame(mpv.duration) \in 0 .. mpv.duration - 1
             /\ \A f \in Frames(mpv.duration) : f \in Nat /\ f <= mpv.duration /\ f <= LastFrame(mpv.duration)
  BY <1>2, <1>5, LastFrameIsLast DEF Frames
<1>6. CASE MpvPlay
  <2>1. mpv.duration > 0
    BY <1>6 DEF MpvPlay
  <2>2. CASE mpv' = [mpv EXCEPT !.position = @ + FrameMs]
    <3>1. mpv'.position = mpv.position + FrameMs /\ mpv'.eof = mpv.eof /\ mpv'.duration = mpv.duration
          /\ mpv'.busy = mpv.busy /\ mpv'.pending = mpv.pending /\ mpv'.paused = mpv.paused
      BY <1>1, <2>2 DEF MpvT
    <3>2. mpv'.position \in Int /\ mpv'.position >= mpv.position
      BY <1>2, <1>3, <3>1
    <3>3. ASSUME mpv.eof, NEW f \in Frames(mpv.duration) PROVE f <= mpv'.position
      <4>1. f <= mpv.position /\ f \in Nat
        BY <1>2, <1>5, <2>1, <3>3 DEF EndShown
      <4> QED BY <1>2, <3>2, <4>1
    <3> QED BY <2>1, <3>1, <3>3 DEF EndShown
  <2>3. ASSUME NEW at \in {LastFrame(mpv.duration), mpv.duration},
               mpv' = [mpv EXCEPT !.position = at, !.paused = TRUE, !.eof = TRUE]
        PROVE  /\ EndShown(mpv)' /\ mpv'.busy = mpv.busy /\ mpv'.pending = mpv.pending /\ mpv'.paused
    <3>1. mpv'.position = at /\ mpv'.duration = mpv.duration
          /\ mpv'.busy = mpv.busy /\ mpv'.pending = mpv.pending /\ mpv'.paused
      BY <1>1, <2>3 DEF MpvT
    <3>2. \A f \in Frames(mpv.duration) : f <= at
      BY <1>5, <2>1, <2>3
    <3> QED BY <2>1, <3>1, <3>2 DEF EndShown
  <2> QED BY <1>6, <2>2, <2>3 DEF MpvPlay
<1>7. CASE MpvSeekDone
  <2> DEFINE frames == {f \in Frames(mpv.duration) : f >= mpv.seek}
             first == CHOOSE f \in frames : \A g \in frames : f <= g
  <2>1. mpv.duration > 0
    BY <1>7 DEF MpvSeekDone
  <2>2. mpv' = IF frames = {}
               THEN [mpv EXCEPT !.seek = NoSeek, !.position = LastFrame(mpv.duration),
                                !.eof = TRUE, !.paused = TRUE]
               ELSE [mpv EXCEPT !.seek = NoSeek, !.eof = FALSE, !.position = first]
    BY <1>7 DEF MpvSeekDone
  <2> HIDE DEF frames, first
  <2>3. CASE frames = {}
    <3>1. mpv'.position = LastFrame(mpv.duration) /\ mpv'.duration = mpv.duration
          /\ mpv'.busy = mpv.busy /\ mpv'.pending = mpv.pending /\ mpv'.paused
      BY <1>1, <2>2, <2>3 DEF MpvT
    <3> QED BY <1>5, <2>1, <3>1 DEF EndShown
  <2>4. CASE frames # {}
    BY <1>1, <2>2, <2>4 DEF MpvT, EndShown
  <2> QED BY <2>3, <2>4
<1>8. ASSUME NEW d \in Durations, MpvOpen(d)
      PROVE  /\ EndShown(mpv)' /\ mpv'.busy = mpv.busy /\ mpv'.pending = mpv.pending
             /\ mpv'.paused = mpv.paused
  <2>1. mpv' = [mpv EXCEPT !.duration = d] /\ mpv.duration = 0
    BY <1>8 DEF MpvOpen
  <2>2. mpv'.eof = mpv.eof /\ mpv'.busy = mpv.busy /\ mpv'.pending = mpv.pending /\ mpv'.paused = mpv.paused
    BY <1>1, <2>1 DEF MpvT
  <2>3. ~mpv.eof
    BY <1>2, <2>1 DEF EndShown
  <2> QED BY <2>2, <2>3 DEF EndShown
<1> QED BY <1>6, <1>7, <1>8 DEF Mpv

\* A scrub of either page leaves it in control of the player.
LEMMA ScrubsKeepPreview ==
  ASSUME IInv, PreviewInv, NEW ms \in ScrubTo, ScrubTimeline(ms) \/ ScrubPreview(ms)
  PROVE  PreviewInv'
<1> DEFINE who == page
           p == IF scrub.owner = None THEN BegunScrub(Now, who) ELSE Now
           q == IF page = "trimmer" /\ ms = p.scrub.position THEN p ELSE UpdatedScrub(p, ms)
<1>1. Sound(Now) /\ Steady(Now) /\ chunks \in Seq(Chunk) /\ Now.playback = playback /\ Now.scrub = scrub
  BY Fields DEF IInv, PreviewInv
<1>2. playback.duration > 0 /\ ms \in Int /\ page \in {"trimmer", "preview"} /\ UNCHANGED <<page, chunks>>
      /\ Become(q) /\ playback.duration \in Nat
  <2>1. ms \in Int /\ duration \in {0, playback.duration}
    BY TrimmerAssumption DEF TrimmerAssumption, IInv
  <2>2. CASE ScrubTimeline(ms)
    BY <2>1, <2>2, Fields DEF ScrubTimeline, editVars
  <2>3. CASE ScrubPreview(ms)
    BY <2>1, <2>3, Fields DEF ScrubPreview, editVars
  <2> QED BY <2>2, <2>3
<1>3. Fit(playback.duration)
  BY <1>2, ChunksFit
<1>4. Sound(p) /\ Steady(p) /\ p.scrub.owner # None /\ p.playback.duration = playback.duration
  <2>1. CASE scrub.owner = None
    <3>1. p = BegunScrub(Now, page)
      BY <2>1
    <3>2. Sound(p) /\ SameLengths(Now, p) /\ p.scrub.owner = page
      BY <1>1, <1>2, <3>1, BegunScrubSound
    <3>3. Steady(p)
      BY <1>1, <1>2, <1>3, <3>1, BegunScrubDoes
    <3> QED BY <1>1, <1>2, <3>2, <3>3 DEF SameLengths, None
  <2>2. CASE scrub.owner # None
    BY <1>1, <2>2
  <2> QED BY <2>1, <2>2
<1> HIDE DEF p
<1>5. Sound(UpdatedScrub(p, ms)) /\ UpdatedScrub(p, ms).scrub.owner # None
  BY <1>1, <1>2, <1>4, UpdatedScrubSound
<1>6. Steady(UpdatedScrub(p, ms))
  BY <1>1, <1>2, <1>3, <1>4, UpdatedScrubDoes
<1>7. q \in PlayerT /\ Steady(q) /\ q.scrub.owner # None
  BY <1>4, <1>5, <1>6 DEF Sound
<1> HIDE DEF q
<1>8. PlaysKept(q)
  BY <1>7 DEF PlaysKept
<1> QED BY <1>2, <1>7, <1>8, PreviewStep

\* The keys and buttons of the player, and its frames.
LEMMA PlayersKeepPreview ==
  ASSUME IInv, PreviewInv,
         \/ Space \/ EndPreviewScrub \/ OpenPreview \/ ClosePreview \/ DrawPreview
         \/ \E settle \in BOOLEAN : DrawTrimmer(settle)
  PROVE  PreviewInv'
<1>1. /\ Sound(Now) /\ Steady(Now) /\ chunks \in Seq(Chunk)
      /\ Now.playback = playback /\ Now.scrub = scrub
      /\ playback.duration \in Nat /\ (scrub.owner # None => playback.duration > 0)
      /\ page = "preview" => PlaysKept(Now)
  BY Fields DEF IInv, PreviewInv
<1>2. \A d \in Nat : d > 0 /\ playback.duration \in {0, d} => Fit(d)
  BY ChunksFit
<1>3. playback.duration > 0 => Fit(playback.duration)
  BY <1>1, <1>2
<1> DEFINE rest == IF scrub.owner # None THEN EndedScrub(Now) ELSE Now
<1>4. ASSUME scrub.owner # None
      PROVE  LET q == EndedScrub(Now)
             IN  /\ Sound(q) /\ Steady(q) /\ q.playback.duration = playback.duration
                 /\ page = "preview" => PlaysKept(q)
  BY <1>1, <1>3, <1>4, EndedScrubSound, EndedScrubDoes DEF SameLengths
<1>5. Sound(rest) /\ Steady(rest) /\ rest.playback.duration = playback.duration
  BY <1>1, <1>4
<1>6. CASE Space
  <2>1. CASE playback.paused
    <3> DEFINE q == Play(Now)
    <3>1. Become(q) /\ UNCHANGED <<page, chunks>>
      BY <1>6, <2>1 DEF Space, editVars
    <3>2. Sound(q) /\ Steady(q) /\ (page = "preview" => PlaysKept(q))
      BY <1>1, <1>3, <2>1, PlaySound, PlayDoes
    <3> HIDE DEF q
    <3> QED BY <3>1, <3>2, PreviewStep DEF Sound
  <2>2. CASE ~playback.paused
    <3> DEFINE q == Paused(Now, TRUE)
    <3>1. Become(q) /\ UNCHANGED <<page, chunks>>
      BY <1>6, <2>2 DEF Space, editVars
    <3>2. Sound(q) /\ Steady(q) /\ q.mpv.paused
      BY <1>1, PausedDoes
    <3> HIDE DEF q
    <3>3. PlaysKept(q)
      BY <3>2 DEF PlaysKept
    <3> QED BY <3>1, <3>2, <3>3, PreviewStep DEF Sound
  <2> QED BY <2>1, <2>2
<1>7. CASE EndPreviewScrub
  <2> DEFINE q == EndedScrub(Now)
  <2>1. Become(q) /\ UNCHANGED <<page, chunks>> /\ scrub.owner # None
    BY <1>7 DEF EndPreviewScrub, editVars
  <2>2. Sound(q) /\ Steady(q) /\ (page = "preview" => PlaysKept(q))
    BY <1>4, <2>1
  <2> HIDE DEF q
  <2> QED BY <2>1, <2>2, PreviewStep DEF Sound
<1>8. CASE OpenPreview
  <2> DEFINE q == SkipDisabledChunks(rest)
  <2>1. Become(q) /\ UNCHANGED chunks
    BY <1>8 DEF OpenPreview, editVars
  <2> HIDE DEF rest
  <2>2. Sound(q)
    BY <1>1, <1>5, SkipSound
  <2>3. Steady(q) /\ PlaysKept(q)
    BY <1>1, <1>3, <1>5, SkipDoes
  <2> HIDE DEF q
  <2> QED BY <2>1, <2>2, <2>3, PreviewStep DEF Sound
<1>9. CASE ClosePreview
  <2> DEFINE q == [rest EXCEPT !.restart = FALSE]
  <2>1. Become(q) /\ page' = "trimmer"
    BY <1>9 DEF ClosePreview
  <2> HIDE DEF rest
  <2>2. Sound(q) /\ Steady(q)
    BY <1>5, RestartDoes
  <2> HIDE DEF q
  <2> QED BY <2>1, <2>2, PreviewStep DEF Sound
<1>10. CASE DrawPreview
  <2> DEFINE q == DrawnPlayer(Now)
  <2>1. Become(q) /\ UNCHANGED <<page, chunks>> /\ page = "preview"
    BY <1>10 DEF DrawPreview, editVars
  <2>2. Sound(q)
    BY <1>1, DrawnSound
  <2>3. Steady(q) /\ PlaysKept(q)
    BY <1>1, <1>2, <2>1, DrawnDoes
  <2> HIDE DEF q
  <2> QED BY <2>1, <2>2, <2>3, PreviewStep DEF Sound
<1>11. ASSUME NEW settle \in BOOLEAN, DrawTrimmer(settle) PROVE PreviewInv'
  <2> DEFINE p == IF settle THEN EndedScrub(Now) ELSE Now
             q == DrawnPlayer(p)
  <2>1. Become(q) /\ page' = "trimmer" /\ (settle => scrub.owner # None)
    BY <1>11 DEF DrawTrimmer
  <2>2. Sound(p) /\ Steady(p) /\ p.playback.duration = playback.duration
    BY <1>1, <1>4, <2>1
  <2> HIDE DEF p
  <2>3. Sound(q)
    BY <1>1, <2>2, DrawnSound
  <2>4. Steady(q)
    BY <1>1, <1>2, <2>2, DrawnDoes
  <2> HIDE DEF q
  <2> QED BY <2>1, <2>3, <2>4, PreviewStep DEF Sound
<1> QED BY <1>6, <1>7, <1>8, <1>9, <1>10, <1>11

LEMMA PreviewKept ==
  ASSUME IInv, PreviewInv, [Next]_vars
  PROVE  PreviewInv'
<1>1. Steady(Now) /\ (page = "preview" => PlaysKept(Now)) /\ Now \in PlayerT
  BY DEF PreviewInv, IInv, Sound
<1>2. ASSUME UNCHANGED playVars, page' = "preview" => UNCHANGED <<page, chunks>> PROVE PreviewInv'
  <2>1. Become(Now)
    BY <1>2 DEF Become, Now, playVars
  <2> QED BY <1>1, <1>2, <2>1, PreviewStep
<1>3. CASE Space \/ EndPreviewScrub \/ OpenPreview \/ ClosePreview \/ DrawPreview
  BY <1>3, PlayersKeepPreview
<1>4. CASE \E settle \in BOOLEAN : DrawTrimmer(settle)
  BY <1>4, PlayersKeepPreview
<1>5. CASE \E ms \in ScrubTo : ScrubTimeline(ms) \/ ScrubPreview(ms)
  BY <1>5, ScrubsKeepPreview
<1>6. CASE Mpv
  BY <1>6, MpvKeepsPreview
<1>7. CASE OpenTrimmer
  BY <1>2, <1>7 DEF OpenTrimmer
<1>8. ASSUME NEW i, LeftClick(i) PROVE PreviewInv'
  BY <1>2, <1>8 DEF LeftClick
<1>9. ASSUME NEW near, RightClick(near) PROVE PreviewInv'
  BY <1>2, <1>9 DEF RightClick
<1>10. CASE UNCHANGED vars
  BY <1>2, <1>10 DEF vars, editVars
<1>11. CASE CloseTrimmer \/ Crash
  <2> DEFINE q == [playback |-> NoPlayback, restart |-> FALSE, scrub |-> NoScrub, mpv |-> NoMpv]
  <2>1. Become(q) /\ page' # "preview"
    BY <1>11 DEF CloseTrimmer, Crash, Gone, Become, None
  <2>2. q \in PlayerT /\ Steady(q)
    BY Nothing, NoPlayerIsSteady DEF Sound
  <2> HIDE DEF q
  <2> QED BY <2>1, <2>2, PreviewStep
<1> QED
  BY <1>3, <1>4, <1>5, <1>6, <1>7, <1>8, <1>9, <1>10, <1>11 DEF Next, User, Draw

\* While the fullscreen preview plays, a frame that finds mpv in a disabled chunk
\* sends it to an enabled one or stops it, whatever the chunks and whenever mpv
\* answers a seek (TrimmerPage.cpp, skip_disabled_chunks_if_needed).
THEOREM PreviewSkipsDisabled == Spec => SkipsDisabled
<1> DEFINE A == LET cs == EffectiveChunks(mpv.duration)
                IN  /\ DrawPreview /\ ~mpv'.paused /\ mpv.duration > 0 /\ scrub.owner = None
                    => \/ EnabledAt(cs, BackendState(mpv).position) # {}
                       \/ EnabledAt(cs, LastTarget(mpv')) # {}
                       \/ \E i \in Enabled(cs) : \A f \in Frames(mpv.duration) : ~Holds(cs[i], f)
<1>1. Init => PreviewInv
  <2> SUFFICES ASSUME Init PROVE PreviewInv
    OBVIOUS
  <2>1. Now = [playback |-> NoPlayback, restart |-> FALSE, scrub |-> NoScrub, mpv |-> NoMpv]
        /\ page # "preview"
    BY DEF Init, Now, None
  <2> QED BY <2>1, NoPlayerIsSteady DEF PreviewInv
<1>2. IInv /\ PreviewInv /\ [Next]_vars => PreviewInv'
  BY PreviewKept
<1>3. ASSUME IInv, PreviewInv, DrawPreview, ~mpv'.paused, mpv.duration > 0, scrub.owner = None
      PROVE  A
  <2> DEFINE q == DrawnPlayer(Now)
             cs == EffectiveChunks(mpv.duration)
  <2>1. mpv' = q.mpv /\ page = "preview"
    BY <1>3 DEF DrawPreview, Become
  <2>2. Sound(Now) /\ Steady(Now) /\ PlaysKept(Now) /\ chunks \in Seq(Chunk)
        /\ Now.playback = playback /\ Now.mpv = mpv /\ Now.scrub = scrub
    BY <1>3, <2>1, Fields DEF IInv, PreviewInv
  <2>3. \A d \in Nat : d > 0 /\ playback.duration \in {0, d} => Fit(d)
    BY <1>3, ChunksFit
  <2>4. \/ Shows(mpv.duration, BackendState(mpv).position) \/ Shows(mpv.duration, LastTarget(q.mpv))
        \/ \E i \in Enabled(cs) : \A f \in Frames(mpv.duration) : ~Holds(cs[i], f)
    BY <1>3, <2>1, <2>2, <2>3, DrawnDoes
  <2> HIDE DEF q
  <2> QED BY <2>1, <2>4 DEF Shows
<1>4. IInv /\ PreviewInv /\ [Next]_vars => [A]_vars
  BY <1>3
<1>5. Spec => [][A]_vars
  BY <1>1, <1>2, <1>4, Invariance, PTL DEF Spec
<1> QED BY <1>5 DEF SkipsDisabled
=============================================================================

------------------------- MODULE MemoryStorageProofs -------------------------
(***************************************************************************)
(* What the storage of memoryDatabase guarantees for any number of         *)
(* branches, writers, streams and commits: its streams are in order, none  *)
(* sleeps over its work, and no update is lost.                            *)
(***************************************************************************)
EXTENDS MemoryStorage, SequenceTheorems, TLAPS

Remaining(stream) ==
  SubSeq(history[stream.branch], stream.taken + 1, Len(history[stream.branch]))

\* A branch counts its commits, and the cursor of a subscriber is at the end of its branch,
\* or beyond it where it asked for later commits only.
Cursors ==
  /\ \A name \in Branches :
       IF Exists(name) THEN branches[name].sequence = Len(history[name]) ELSE history[name] = <<>>
  /\ \A s \in Streams : LET stream == streams[s] IN
       Listening(stream) =>
         /\ Exists(stream.branch) /\ stream.taken <= stream.after
         /\ stream.after >= Len(history[stream.branch])
         /\ stream.after > Len(history[stream.branch]) => stream.taken = stream.after

\* What a writer read of a branch is its state still, or is behind it in version and head.
Readers ==
  /\ \A name \in Branches : Exists(name) => branches[name].head <= Len(commits)
  /\ \A w \in Writers : readers[w] # None =>
       LET name == readers[w].branch  seen == readers[w].seen IN
       /\ Exists(name)
       /\ \/ seen = branches[name]
          \/ seen.sequence < branches[name].sequence /\ seen.head < branches[name].head

IInv == TypeOK /\ StreamsInOrder /\ SleepersHaveNothing /\ Cursors /\ Readers

-----------------------------------------------------------------------------
(* Lemmas on the operators. *)

LEMMA SubSeqIs ==
  ASSUME NEW h \in Seq(Nat), NEW n \in Nat, NEW e \in Nat, n <= e, e <= Len(h)
  PROVE  /\ SubSeq(h, n + 1, e) \in Seq(Nat) /\ Len(SubSeq(h, n + 1, e)) = e - n
         /\ \A i \in 1..(e - n) : SubSeq(h, n + 1, e)[i] = h[n + i]
<1> DEFINE m == n + 1
<1>1. m \in Int /\ e \in Int /\ m <= e + 1
  OBVIOUS
<1>2. \A i \in m..e : h[i] \in Nat
  OBVIOUS
<1>3. \A i \in 1..(e - n) : i \in 1..(e - m + 1) /\ m + i - 1 = n + i
  OBVIOUS
<1>4. (IF m <= e THEN e - m + 1 ELSE 0) = e - n
  OBVIOUS
<1> HIDE DEF m
<1>5. /\ SubSeq(h, m, e) \in Seq(Nat)
      /\ Len(SubSeq(h, m, e)) = IF m <= e THEN e - m + 1 ELSE 0
      /\ \A i \in 1..(e - m + 1) : SubSeq(h, m, e)[i] = h[m + i - 1]
  BY <1>1, <1>2, SubSeqProperties
<1>6. ASSUME NEW i \in 1..(e - n) PROVE SubSeq(h, m, e)[i] = h[n + i]
  BY <1>3, <1>5
<1> QED BY <1>4, <1>5, <1>6 DEF m

LEMMA SubSeqAppended ==
  ASSUME NEW h \in Seq(Nat), NEW c \in Nat, NEW n \in Nat, n <= Len(h)
  PROVE  SubSeq(Append(h, c), n + 1, Len(h) + 1) = Append(SubSeq(h, n + 1, Len(h)), c)
<1> DEFINE g == Append(h, c)
           len == Len(h)
           end == len + 1
           a == SubSeq(g, n + 1, end)
           b == SubSeq(h, n + 1, len)
<1>1. /\ g \in Seq(Nat) /\ Len(g) = end /\ g[end] = c
      /\ \A i \in 1..len : g[i] = h[i]
  OBVIOUS
<1>2. /\ len \in Nat /\ end \in Nat /\ end = len + 1 /\ n <= len /\ n <= end /\ len <= Len(h)
  OBVIOUS
<1> HIDE DEF g, len, end
<1>3. b \in Seq(Nat) /\ Len(b) = len - n /\ \A i \in 1..(len - n) : b[i] = h[n + i]
  BY <1>2, SubSeqIs
<1>4. a \in Seq(Nat) /\ Len(a) = end - n /\ \A i \in 1..(end - n) : a[i] = g[n + i]
  BY <1>1, <1>2, SubSeqIs
<1> HIDE DEF a, b
<1>5. /\ Append(b, c) \in Seq(Nat) /\ Len(Append(b, c)) = Len(b) + 1
      /\ Append(b, c)[Len(b) + 1] = c /\ \A i \in 1..Len(b) : Append(b, c)[i] = b[i]
  BY ONLY <1>3, c \in Nat, AppendProperties
<1>6. Len(Append(b, c)) = Len(a)
  BY <1>2, <1>3, <1>4, <1>5
<1>7. ASSUME NEW i \in 1..Len(a) PROVE a[i] = Append(b, c)[i]
  <2>1. CASE i = end - n
    <3>1. i = Len(b) + 1 /\ n + i = end /\ i \in 1..(end - n)
      BY <2>1, <1>2, <1>3
    <3> QED BY <3>1, <1>1, <1>4, <1>5
  <2>2. CASE i # end - n
    <3>1. i \in 1..Len(b) /\ i \in 1..(len - n) /\ i \in 1..(end - n) /\ n + i \in 1..len
      BY <2>2, <1>2, <1>3, <1>4
    <3> QED BY <3>1, <1>1, <1>3, <1>4, <1>5
  <2> QED BY <2>1, <2>2
<1>8. a = Append(b, c)
  BY <1>4, <1>5, <1>6, <1>7, SeqEqual
<1> QED BY <1>8 DEF a, b, g, len, end

LEMMA SubSeqTail ==
  ASSUME NEW h \in Seq(Nat), NEW n \in Nat, SubSeq(h, n + 1, Len(h)) # <<>>
  PROVE  n < Len(h) /\ Tail(SubSeq(h, n + 1, Len(h))) = SubSeq(h, (n + 1) + 1, Len(h))
<1> DEFINE len == Len(h)
           next == n + 1
           a == SubSeq(h, n + 1, len)
           b == SubSeq(h, next + 1, len)
<1>1. n < Len(h)
  BY SubSeqEmpty
<1>2. len \in Nat /\ next \in Nat /\ next = n + 1 /\ n <= len /\ next <= len /\ len <= Len(h)
  BY <1>1
<1> HIDE DEF len, next
<1>3. a \in Seq(Nat) /\ Len(a) = len - n /\ \A i \in 1..(len - n) : a[i] = h[n + i]
  BY <1>2, SubSeqIs
<1>4. b \in Seq(Nat) /\ Len(b) = len - next /\ \A i \in 1..(len - next) : b[i] = h[next + i]
  BY <1>2, SubSeqIs
<1> HIDE DEF a, b
<1>5. Tail(a) \in Seq(Nat) /\ Len(Tail(a)) = Len(b) /\ \A i \in 1..Len(b) : Tail(a)[i] = a[i + 1]
  BY <1>2, <1>3, <1>4
<1>6. ASSUME NEW i \in 1..Len(b) PROVE Tail(a)[i] = b[i]
  <2>1. i \in 1..(len - next) /\ i + 1 \in 1..(len - n) /\ n + (i + 1) = next + i
    BY <1>2, <1>4
  <2> QED BY <2>1, <1>3, <1>4, <1>5
<1>7. Tail(a) = b
  BY <1>4, <1>5, <1>6, SeqEqual
<1> QED BY <1>1, <1>7 DEF a, b, len, next

-----------------------------------------------------------------------------
(* Streams. *)

Stream == [at : {"fresh", "running", "waiting", "yielded", "ended"}, branch : Branches,
           taken : Nat, after : Nat, queue : Seq(Nat), aborted : BOOLEAN]

\* What the invariant says of one stream, given the history of its branch.
InOrder(stream) == Listening(stream) => stream.queue = Remaining(stream)
AtEnd(stream) ==
  Listening(stream) =>
    /\ Exists(stream.branch) /\ stream.taken <= stream.after
    /\ stream.after >= Len(history[stream.branch])
    /\ stream.after > Len(history[stream.branch]) => stream.taken = stream.after
Sleeps(stream) == stream.at = "waiting" => stream.queue = <<>> /\ ~closed /\ ~stream.aborted
Sound(stream) == stream \in Stream /\ InOrder(stream) /\ AtEnd(stream) /\ Sleeps(stream)

LEMMA Streamwise ==
  ASSUME IInv
  PROVE  streams \in [Streams -> Stream] /\ \A s \in Streams : Sound(streams[s])
BY DEF IInv, TypeOK, StreamsInOrder, SleepersHaveNothing, Cursors, Sound, InOrder, AtEnd, Sleeps,
       Stream, Remaining

\* A stream that goes through its loop stays sound.
LEMMA LoopedSound ==
  ASSUME history \in [Branches -> Seq(Nat)], closed \in BOOLEAN,
         NEW stream \in Stream, Listening(stream), InOrder(stream), AtEnd(stream)
  PROVE  Sound(Looped(stream))
<1> DEFINE h == history[stream.branch]
<1>1. h \in Seq(Nat) /\ stream.taken \in Nat /\ stream.queue = SubSeq(h, stream.taken + 1, Len(h))
  BY DEF InOrder, Remaining, Stream
<1>2. CASE closed \/ stream.aborted
  <2>1. Looped(stream) = [at |-> "ended", branch |-> stream.branch, taken |-> stream.taken,
                          after |-> stream.after, queue |-> <<>>, aborted |-> stream.aborted]
    BY <1>2 DEF Looped, Stream
  <2>2. Looped(stream) \in Stream
    BY <2>1 DEF Stream
  <2>3. Looped(stream).at = "ended"
    BY <2>1
  <2> QED BY <2>2, <2>3 DEF Sound, InOrder, AtEnd, Sleeps, Listening
<1>3. CASE ~(closed \/ stream.aborted) /\ stream.queue = <<>>
  <2>1. Looped(stream) = [stream EXCEPT !.at = "waiting"]
    BY <1>3 DEF Looped
  <2>2. Looped(stream) \in Stream
    BY <2>1 DEF Stream
  <2>3. InOrder(Looped(stream))
    BY <2>1, <1>1 DEF InOrder, Remaining, Stream, Listening
  <2>4. AtEnd(Looped(stream))
    BY <2>1 DEF AtEnd, Stream, Listening
  <2>5. Sleeps(Looped(stream))
    BY <2>1, <1>3 DEF Sleeps, Stream
  <2> QED BY <2>2, <2>3, <2>4, <2>5 DEF Sound
<1>4. CASE ~(closed \/ stream.aborted) /\ stream.queue # <<>>
  <2>1. /\ stream.taken < Len(h)
        /\ Tail(stream.queue) = SubSeq(h, (stream.taken + 1) + 1, Len(h))
    BY <1>1, <1>4, SubSeqTail
  <2>2. Looped(stream) = [at |-> "yielded", branch |-> stream.branch, taken |-> stream.taken + 1,
                          after |-> stream.after, queue |-> Tail(stream.queue),
                          aborted |-> stream.aborted]
    BY <1>4 DEF Looped, Stream
  <2>3. Looped(stream) \in Stream
    <3>1. Tail(stream.queue) \in Seq(Nat)
      BY <1>4 DEF Stream
    <3> QED BY <2>2, <3>1 DEF Stream
  <2>4. InOrder(Looped(stream)) /\ Sleeps(Looped(stream))
    <3>1. /\ Looped(stream).at = "yielded" /\ Looped(stream).branch = stream.branch
          /\ Looped(stream).taken = stream.taken + 1 /\ Looped(stream).queue = Tail(stream.queue)
      BY <2>2
    <3>2. Looped(stream).queue = Remaining(Looped(stream))
      BY <2>1, <3>1 DEF Remaining
    <3> QED BY <3>1, <3>2 DEF InOrder, Sleeps
  <2>5. AtEnd(Looped(stream))
    <3>1. /\ Exists(stream.branch) /\ stream.after \in Nat /\ Len(h) \in Nat
          /\ stream.after >= Len(h) /\ (stream.after > Len(h) => stream.taken = stream.after)
      BY <1>1 DEF AtEnd, Stream
    <3>2. /\ Looped(stream).branch = stream.branch /\ Looped(stream).after = stream.after
          /\ Looped(stream).taken = stream.taken + 1
      BY <2>2
    <3>3. /\ Looped(stream).taken <= Looped(stream).after
          /\ Looped(stream).after >= Len(h)
          /\ Looped(stream).after > Len(h) => Looped(stream).taken = Looped(stream).after
      BY <1>1, <2>1, <3>1, <3>2
    <3> QED BY <3>1, <3>2, <3>3 DEF AtEnd
  <2> QED BY <2>3, <2>4, <2>5 DEF Sound
<1> QED BY <1>2, <1>3, <1>4

LEMMA OpenedSound ==
  ASSUME history \in [Branches -> Seq(Nat)],
         NEW name \in Branches, Exists(name), NEW after \in Nat, NEW a \in BOOLEAN
  PROVE  LET stream == Opened(name, after, a) IN
         stream \in Stream /\ Listening(stream) /\ InOrder(stream) /\ AtEnd(stream)
<1> DEFINE h == history[name]
           len == Len(h)
           queue == SubSeq(h, after + 1, len)
           last == IF queue = <<>> THEN after ELSE len
           stream == Opened(name, after, a)
<1>1. h \in Seq(Nat) /\ len \in Nat /\ len <= Len(h)
  OBVIOUS
<1>2. stream = [at |-> "running", branch |-> name, taken |-> after, after |-> last,
                queue |-> queue, aborted |-> a]
  BY DEF Opened
<1> HIDE DEF len, stream
<1> SUFFICES stream \in Stream /\ Listening(stream) /\ InOrder(stream) /\ AtEnd(stream)
  BY DEF stream
<1>3. CASE after <= len
  <2>1. queue \in Seq(Nat) /\ Len(queue) = len - after
    BY <1>1, <1>3, SubSeqIs
  <2> HIDE DEF queue
  <2>2. last = len
    BY <1>1, <1>3, <2>1
  <2>3. stream \in Stream /\ Listening(stream)
    BY <1>1, <1>2, <2>1, <2>2 DEF Stream, Listening
  <2>4. InOrder(stream)
    BY <1>2 DEF InOrder, Remaining, len, queue
  <2>5. stream.branch = name /\ stream.taken = after /\ stream.after = len
    BY <1>2, <2>2
  <2>6. AtEnd(stream)
    BY <1>1, <1>3, <2>5 DEF AtEnd, len
  <2> QED BY <2>3, <2>4, <2>6
<1>4. CASE after > len
  <2>1. queue = <<>>
    BY <1>1, <1>4, SubSeqEmpty
  <2>2. last = after
    BY <2>1
  <2>3. stream \in Stream /\ Listening(stream)
    BY <1>1, <1>2, <2>1, <2>2 DEF Stream, Listening
  <2>4. InOrder(stream)
    BY <1>2 DEF InOrder, Remaining, len
  <2>5. stream.branch = name /\ stream.taken = after /\ stream.after = after
    BY <1>2, <2>2
  <2>6. AtEnd(stream)
    BY <1>1, <1>4, <2>5 DEF AtEnd, len
  <2> QED BY <2>3, <2>4, <2>6
<1> QED BY <1>1, <1>3, <1>4
\* A commit leaves every stream sound: those of other branches, those that asked for later
\* commits, and those it is offered to.
LEMMA CommitSound ==
  ASSUME IInv, NEW w \in Writers, NEW byHead \in BOOLEAN, Commit(w, byHead), NEW s \in Streams
  PROVE  Sound(streams[s])'
<1> DEFINE name == readers[w].branch
           commit == Len(commits) + 1
           sequence == branches[name].sequence + 1
           st == streams[s]
           h == history[st.branch]
<1>1. /\ st \in Stream /\ Sound(st) /\ name \in Branches /\ Exists(name)
      /\ history \in [Branches -> Seq(Nat)] /\ Len(commits) \in Nat
      /\ sequence = Len(history[name]) + 1
  <2>1. /\ readers[w] # None /\ readers \in [Writers -> ReaderState \cup {None}]
        /\ history \in [Branches -> Seq(Nat)] /\ commits \in Seq(Nat)
    BY DEF IInv, TypeOK, Commit
  <2>2. name \in Branches
    BY <2>1 DEF ReaderState
  <2>3. Exists(name)
    BY <2>1 DEF IInv, Readers
  <2>4. branches[name].sequence = Len(history[name])
    BY <2>2, <2>3 DEF IInv, Cursors
  <2>5. st \in Stream /\ Sound(st)
    BY Streamwise
  <2> QED BY <2>1, <2>2, <2>3, <2>4, <2>5
<1>2. /\ history' = [history EXCEPT ![name] = Append(@, commit)]
      /\ branches' = [branches EXCEPT ![name] = [head |-> commit, sequence |-> sequence]]
      /\ streams'[s] = Offered(st, name, sequence, commit) /\ closed' = closed
  BY DEF Commit
<1>3. /\ h \in Seq(Nat) /\ Len(h) \in Nat /\ commit \in Nat /\ st.branch \in Branches
      /\ st.taken \in Nat /\ st.after \in Nat /\ st.queue \in Seq(Nat)
  BY <1>1 DEF Stream
<1>4. \A b \in Branches : Exists(b) => Exists(b)'
  <2>1. [head |-> commit, sequence |-> sequence] # None
    BY <1>1, <1>3, MemoryAssumption DEF BranchState
  <2>2. branches \in [Branches -> BranchState \cup {None}]
    BY DEF IInv, TypeOK
  <2> QED BY <1>1, <1>2, <2>1, <2>2 DEF Exists
<1>5. CASE st.at \in {"fresh", "ended"}
  <2>1. streams'[s] = st /\ ~Listening(st) /\ st.at # "waiting"
    BY <1>2, <1>5 DEF Offered, Listening
  <2> QED BY <1>1, <2>1 DEF Sound, InOrder, AtEnd, Sleeps, Listening
<1>6. CASE st.at \notin {"fresh", "ended"} /\ st.branch # name
  <2>1. streams'[s] = st /\ history'[st.branch] = h
    BY <1>1, <1>2, <1>3, <1>6 DEF Offered
  <2> QED BY <1>1, <1>2, <1>3, <1>4, <2>1 DEF Sound, InOrder, AtEnd, Sleeps, Listening, Remaining
<1>7. CASE st.at \notin {"fresh", "ended"} /\ st.branch = name
  <2> DEFINE len == Len(h)
             longer == history'[name]
  <2>1. /\ Listening(st) /\ st.queue = SubSeq(h, st.taken + 1, len)
        /\ st.taken <= st.after /\ st.after >= len /\ (st.after > len => st.taken = st.after)
        /\ sequence = len + 1 /\ longer = Append(h, commit) /\ Len(longer) = len + 1 /\ len \in Nat
    BY <1>1, <1>2, <1>3, <1>7 DEF Sound, InOrder, AtEnd, Listening, Remaining, Stream
  <2> HIDE DEF len, longer, sequence, commit
  <2>2. CASE sequence <= st.after
    <3>1. streams'[s] = st
      BY <1>2, <1>7, <2>2 DEF Offered
    <3>2. st.taken >= len + 1 /\ st.taken = st.after
      BY <1>3, <2>1, <2>2
    <3>3. st.queue = <<>> /\ SubSeq(longer, st.taken + 1, len + 1) = <<>>
      BY <1>3, <2>1, <3>2, SubSeqEmpty
    <3>4. InOrder(streams[s])'
      BY <1>7, <2>1, <3>1, <3>3 DEF InOrder, Remaining, longer
    <3>5. AtEnd(streams[s])'
      BY <1>1, <1>3, <1>4, <1>7, <2>1, <3>1, <3>2 DEF AtEnd, longer
    <3>6. Sleeps(streams[s])' /\ streams'[s] \in Stream
      BY <1>1, <1>2, <3>1 DEF Sound, Sleeps
    <3> QED BY <3>4, <3>5, <3>6 DEF Sound
  <2>3. CASE ~(sequence <= st.after)
    <3> DEFINE offered == [st EXCEPT !.queue = Append(@, commit), !.after = sequence]
    <3>1. streams'[s] = Woken(offered)
      BY <1>2, <1>7, <2>3 DEF Offered
    <3>2. /\ streams'[s] \in Stream /\ streams'[s].at # "waiting"
          /\ streams'[s].branch = name /\ streams'[s].taken = st.taken
          /\ streams'[s].after = sequence /\ streams'[s].queue = Append(st.queue, commit)
      <4>1. sequence \in Nat /\ Append(st.queue, commit) \in Seq(Nat)
        BY <1>3, <2>1
      <4>2. offered = [at |-> st.at, branch |-> st.branch, taken |-> st.taken, after |-> sequence,
                       queue |-> Append(st.queue, commit), aborted |-> st.aborted]
        <5>1. st = [at |-> st.at, branch |-> st.branch, taken |-> st.taken, after |-> st.after,
                    queue |-> st.queue, aborted |-> st.aborted]
          BY <1>1 DEF Stream
        <5> DEFINE q == Append(st.queue, commit)
        <5>2. offered = [st EXCEPT !.queue = q, !.after = sequence]
          OBVIOUS
        <5> HIDE DEF q, offered
        <5>3. offered = [at |-> st.at, branch |-> st.branch, taken |-> st.taken, after |-> sequence,
                         queue |-> q, aborted |-> st.aborted]
          BY <5>1, <5>2
        <5> QED BY <5>3 DEF q
      <4>3. offered \in Stream
        BY <1>1, <4>1, <4>2 DEF Stream
      <4> HIDE DEF offered
      <4>4. CASE offered.at = "waiting"
        <5>1. streams'[s] = [at |-> "running", branch |-> st.branch, taken |-> st.taken, after |-> sequence,
                             queue |-> Append(st.queue, commit), aborted |-> st.aborted]
          BY <3>1, <4>2, <4>4 DEF Woken
        <5>2. streams'[s] \in Stream
          BY <1>1, <4>1, <5>1 DEF Stream
        <5> QED BY <1>7, <5>1, <5>2
      <4>5. CASE offered.at # "waiting"
        <5>1. streams'[s] = offered
          BY <3>1, <4>5 DEF Woken
        <5> QED BY <1>7, <4>2, <4>3, <4>5, <5>1
      <4> QED BY <4>4, <4>5
    <3>3. st.taken <= len
      BY <1>3, <2>1, <2>3
    <3>4. SubSeq(longer, st.taken + 1, len + 1) = Append(st.queue, commit)
      <4>1. st.taken <= Len(h)
        BY <3>3 DEF len
      <4>2. SubSeq(Append(h, commit), st.taken + 1, Len(h) + 1)
              = Append(SubSeq(h, st.taken + 1, Len(h)), commit)
        BY <1>3, <4>1, SubSeqAppended
      <4> QED BY <2>1, <4>2 DEF len
    <3>5. InOrder(streams[s])'
      BY <2>1, <3>2, <3>4 DEF InOrder, Remaining, longer
    <3>6. AtEnd(streams[s])'
      <4>1. /\ streams'[s].taken <= streams'[s].after /\ streams'[s].after = len + 1
        BY <1>3, <2>1, <3>2, <3>3
      <4> QED BY <1>1, <1>4, <2>1, <3>2, <4>1 DEF AtEnd, longer
    <3> QED BY <3>2, <3>5, <3>6 DEF Sound, Sleeps
  <2> QED BY <2>2, <2>3
<1> QED BY <1>5, <1>6, <1>7
-----------------------------------------------------------------------------
(* The invariant. *)

\* Streams stay sound while branches come and history stays as it is.
LEMMA StillSound ==
  ASSUME IInv, NEW s \in Streams, streams'[s] = streams[s], history' = history, closed' = closed,
         \A b \in Branches : Exists(b) => Exists(b)'
  PROVE  Sound(streams[s])'
<1>1. Sound(streams[s]) /\ streams[s].branch \in Branches
  BY Streamwise DEF Stream
<1> QED BY <1>1 DEF Sound, InOrder, AtEnd, Sleeps, Listening, Remaining

LEMMA SoundFollows ==
  ASSUME IInv, [Next]_vars
  PROVE  streams' \in [Streams -> Stream] /\ \A s \in Streams : Sound(streams[s])'
<1>0. /\ streams \in [Streams -> Stream] /\ history \in [Branches -> Seq(Nat)] /\ closed \in BOOLEAN
      /\ \A s \in Streams : Sound(streams[s])
  BY Streamwise DEF IInv, TypeOK
<1>1. ASSUME streams' = streams, history' = history, closed' = closed,
             \A b \in Branches : Exists(b) => Exists(b)'
      PROVE  streams' \in [Streams -> Stream] /\ \A s \in Streams : Sound(streams[s])'
  BY <1>0, <1>1, StillSound
<1>2. ASSUME NEW s \in Streams, NEW st \in Stream, streams' = [streams EXCEPT ![s] = st], Sound(st),
             history' = history, closed' = closed, branches' = branches
      PROVE  streams' \in [Streams -> Stream] /\ \A t \in Streams : Sound(streams[t])'
  <2>1. streams' \in [Streams -> Stream]
    BY <1>0, <1>2
  <2>2. ASSUME NEW t \in Streams, t # s PROVE Sound(streams[t])'
    <3>1. streams'[t] = streams[t] /\ \A b \in Branches : Exists(b) => Exists(b)'
      BY <1>0, <1>2, <2>2 DEF Exists
    <3> QED BY <1>2, <3>1, StillSound
  <2>3. Sound(streams[s])'
    <3>1. streams'[s] = st
      BY <1>0, <1>2
    <3> QED BY <1>2, <3>1 DEF Sound, InOrder, AtEnd, Sleeps, Listening, Remaining, Exists
  <2> QED BY <2>1, <2>2, <2>3
<1>3. ASSUME NEW name \in Branches, NEW from \in CommitIds, CreateBranch(name, from)
      PROVE  streams' \in [Streams -> Stream] /\ \A s \in Streams : Sound(streams[s])'
  <2>1. \A b \in Branches : Exists(b) => Exists(b)'
    BY <1>3 DEF CreateBranch, Exists, IInv, TypeOK
  <2> QED BY <1>1, <1>3, <2>1 DEF CreateBranch
<1>4. ASSUME NEW w \in Writers, NEW byHead \in BOOLEAN, Commit(w, byHead)
      PROVE  streams' \in [Streams -> Stream] /\ \A s \in Streams : Sound(streams[s])'
  <2>1. \A s \in Streams : Sound(streams[s])'
    BY <1>4, CommitSound
  <2>2. \A s \in Streams : streams'[s] \in Stream
    BY <2>1 DEF Sound
  <2>3. streams' = [s \in Streams |-> streams'[s]]
    BY <1>4, Zenon DEF Commit
  <2> QED BY <2>1, <2>2, <2>3
<1>5. ASSUME NEW s \in Streams, NEW name \in Branches, NEW after \in 0..MaxCommits, Open(s, name, after)
      PROVE  streams' \in [Streams -> Stream] /\ \A t \in Streams : Sound(streams[t])'
  <2> DEFINE opened == Opened(name, after, streams[s].aborted)
  <2>1. after \in Nat /\ streams[s].aborted \in BOOLEAN /\ Exists(name)
    BY <1>0, <1>5, MemoryAssumption DEF Open, Stream
  <2>2. opened \in Stream /\ Listening(opened) /\ InOrder(opened) /\ AtEnd(opened)
    BY <1>0, <2>1, OpenedSound
  <2>3. streams' = [streams EXCEPT ![s] = Looped(opened)]
    BY <1>5 DEF Open
  <2> HIDE DEF opened
  <2>4. Sound(Looped(opened)) /\ Looped(opened) \in Stream
    BY <1>0, <2>2, LoopedSound DEF Sound
  <2> QED BY <1>2, <1>5, <2>3, <2>4 DEF Open
<1>6. ASSUME NEW s \in Streams, Resume(s)
      PROVE  streams' \in [Streams -> Stream] /\ \A t \in Streams : Sound(streams[t])'
  <2>1. /\ streams[s] \in Stream /\ Listening(streams[s]) /\ InOrder(streams[s]) /\ AtEnd(streams[s])
    BY <1>0, <1>6 DEF Resume, Listening, Sound
  <2>2. Sound(Looped(streams[s])) /\ Looped(streams[s]) \in Stream
    BY <1>0, <2>1, LoopedSound DEF Sound
  <2> QED BY <1>2, <1>6, <2>2 DEF Resume
<1>7. ASSUME NEW s \in Streams, Return(s)
      PROVE  streams' \in [Streams -> Stream] /\ \A t \in Streams : Sound(streams[t])'
  <2> DEFINE st == [streams[s] EXCEPT !.at = "ended", !.queue = <<>>]
  <2>1. streams' = [streams EXCEPT ![s] = st]
    BY <1>0, <1>7 DEF Return
  <2>2. st \in Stream /\ st.at = "ended"
    <3> DEFINE old == streams[s]
    <3>1. old \in Stream
      BY <1>0
    <3>2. st = [at |-> "ended", branch |-> old.branch, taken |-> old.taken, after |-> old.after,
                queue |-> <<>>, aborted |-> old.aborted]
      <4>1. st = [old EXCEPT !.at = "ended", !.queue = <<>>]
        OBVIOUS
      <4>2. old = [at |-> old.at, branch |-> old.branch, taken |-> old.taken, after |-> old.after,
                   queue |-> old.queue, aborted |-> old.aborted]
        BY <3>1 DEF Stream
      <4> HIDE DEF st, old
      <4> QED BY <4>1, <4>2
    <3> HIDE DEF st
    <3> QED BY <3>1, <3>2 DEF Stream
  <2> HIDE DEF st
  <2>3. Sound(st)
    BY <2>2 DEF Sound, InOrder, AtEnd, Sleeps, Listening
  <2> QED BY <1>2, <1>7, <2>1, <2>2, <2>3 DEF Return
<1>8. ASSUME NEW s \in Streams, Abort(s)
      PROVE  streams' \in [Streams -> Stream] /\ \A t \in Streams : Sound(streams[t])'
  <2> DEFINE st == Woken([streams[s] EXCEPT !.aborted = TRUE])
  <2>1. streams' = [streams EXCEPT ![s] = st]
    BY <1>8 DEF Abort
  <2>2. /\ st \in Stream /\ st.at # "waiting" /\ (Listening(st) => Listening(streams[s]))
        /\ st.branch = streams[s].branch /\ st.taken = streams[s].taken
        /\ st.after = streams[s].after /\ st.queue = streams[s].queue
    <3> DEFINE old == streams[s]
               fired == [old EXCEPT !.aborted = TRUE]
    <3>1. old \in Stream
      BY <1>0
    <3>2. /\ fired \in Stream /\ fired.at = old.at /\ fired.branch = old.branch
          /\ fired.taken = old.taken /\ fired.after = old.after /\ fired.queue = old.queue
      BY <3>1 DEF Stream
    <3>3. st = Woken(fired)
      OBVIOUS
    <3> HIDE DEF fired, st
    <3> QED BY <3>2, <3>3 DEF Woken, Stream, Listening
  <2>3. Sound(st)
    BY <1>0, <2>2 DEF Sound, InOrder, AtEnd, Sleeps, Remaining
  <2> QED BY <1>2, <1>8, <2>1, <2>2, <2>3 DEF Abort
<1>9. CASE Close
  <2>1. ASSUME NEW s \in Streams PROVE streams'[s] \in Stream /\ Sound(streams[s])'
    <3>1. /\ streams'[s] \in Stream /\ streams'[s].at # "waiting"
          /\ (Listening(streams'[s]) => Listening(streams[s]))
          /\ streams'[s].branch = streams[s].branch /\ streams'[s].taken = streams[s].taken
          /\ streams'[s].after = streams[s].after /\ streams'[s].queue = streams[s].queue
      BY <1>0, <1>9 DEF Close, Woken, Stream, Listening
    <3>2. history' = history /\ branches' = branches
      BY <1>9 DEF Close
    <3> QED BY <1>0, <3>1, <3>2 DEF Sound, InOrder, AtEnd, Sleeps, Listening, Remaining, Exists
  <2>2. streams' = [s \in Streams |-> streams'[s]]
    BY <1>9, Zenon DEF Close
  <2> QED BY <2>1, <2>2
<1>10. CASE \/ \E w \in Writers : (\E name \in Branches : Read(w, name)) \/ Conflict(w)
            \/ \E name \in Retentions :
                 ReleaseRetention(name) \/ \E commit \in CommitIds : Retain(name, commit)
            \/ UNCHANGED vars
  <2>1. streams' = streams /\ history' = history /\ closed' = closed /\ branches' = branches
    BY <1>10 DEF Read, Conflict, ReleaseRetention, Retain, vars
  <2> QED BY <1>1, <2>1 DEF Exists
<1> QED BY <1>3, <1>4, <1>5, <1>6, <1>7, <1>8, <1>9, <1>10 DEF Next
\* A commit moves its branch one step, and the branch counts it.
LEMMA CommitMoves ==
  ASSUME IInv, NEW w \in Writers, NEW byHead \in BOOLEAN, Commit(w, byHead)
  PROVE  LET name == readers[w].branch
             commit == Len(commits) + 1
             sequence == branches[name].sequence + 1 IN
         /\ name \in Branches /\ branches[name] \in BranchState /\ Exists(name)
         /\ sequence = Len(history[name]) + 1 /\ branches[name].head < commit
         /\ commits' = Append(commits, branches[name].head) /\ Len(commits') = commit
         /\ branches' = [branches EXCEPT ![name] = [head |-> commit, sequence |-> sequence]]
         /\ history' = [history EXCEPT ![name] = Append(@, commit)]
         /\ [head |-> commit, sequence |-> sequence] \in BranchState
<1> DEFINE name == readers[w].branch
<1>1. /\ readers[w] \in ReaderState /\ branches \in [Branches -> BranchState \cup {None}]
      /\ commits \in Seq(Nat) /\ Exists(name)
  BY DEF IInv, TypeOK, Readers, Commit
<1>2. name \in Branches
  BY <1>1 DEF ReaderState
<1>3. branches[name] \in BranchState
  BY <1>1, <1>2 DEF Exists
<1>4. branches[name].sequence = Len(history[name]) /\ branches[name].head <= Len(commits)
  BY <1>1, <1>2 DEF IInv, Cursors, Readers
<1>5. branches[name].head \in Nat /\ branches[name].sequence \in Nat
  BY <1>3 DEF BranchState
<1>6. /\ commits' = Append(commits, branches[name].head)
      /\ branches' = [branches EXCEPT ![name] = [head |-> Len(commits) + 1, sequence |-> branches[name].sequence + 1]]
      /\ history' = [history EXCEPT ![name] = Append(@, Len(commits) + 1)]
  BY DEF Commit
<1> QED BY <1>1, <1>2, <1>3, <1>4, <1>5, <1>6 DEF BranchState

LEMMA TypesKept ==
  ASSUME IInv, [Next]_vars
  PROVE  TypeOK'
<1>1. streams' \in [Streams -> Stream]
  BY SoundFollows
<1>2. ASSUME NEW w \in Writers, NEW byHead \in BOOLEAN, Commit(w, byHead) PROVE TypeOK'
  <2> DEFINE name == readers[w].branch
             commit == Len(commits) + 1
             next == [head |-> commit, sequence |-> branches[name].sequence + 1]
  <2>1. /\ name \in Branches /\ branches[name].head \in Nat /\ next \in BranchState /\ commit \in Nat
        /\ commits' = Append(commits, branches[name].head)
        /\ branches' = [branches EXCEPT ![name] = next]
        /\ history' = [history EXCEPT ![name] = Append(@, commit)]
    BY <1>2, CommitMoves DEF BranchState, IInv, TypeOK
  <2>2. /\ retains' = retains /\ closed' = closed /\ readers' = [readers EXCEPT ![w] = None]
    BY <1>2 DEF Commit
  <2> HIDE DEF name, commit, next
  <2>3. commits' \in Seq(Nat) /\ history' \in [Branches -> Seq(Nat)]
    BY <2>1 DEF IInv, TypeOK
  <2>4. branches' \in [Branches -> BranchState \cup {None}]
    BY <2>1 DEF IInv, TypeOK
  <2>5. readers' \in [Writers -> ReaderState \cup {None}]
    BY <2>2 DEF IInv, TypeOK
  <2> QED BY <1>1, <2>2, <2>3, <2>4, <2>5 DEF IInv, TypeOK, Stream
<1>3. ASSUME NEW name \in Branches, NEW from \in CommitIds, CreateBranch(name, from) PROVE TypeOK'
  <2>1. [head |-> from, sequence |-> 0] \in BranchState
    BY DEF BranchState, CommitIds, Genesis
  <2> QED BY <1>1, <1>3, <2>1 DEF IInv, TypeOK, CreateBranch, Stream
<1>4. ASSUME NEW w \in Writers, NEW name \in Branches, Read(w, name) PROVE TypeOK'
  <2>1. [branch |-> name, seen |-> branches[name]] \in ReaderState
    BY <1>4 DEF Read, Exists, IInv, TypeOK, ReaderState
  <2> QED BY <1>1, <1>4, <2>1 DEF IInv, TypeOK, Read, Stream
<1>5. ASSUME NEW w \in Writers, Conflict(w) PROVE TypeOK'
  BY <1>1, <1>5 DEF IInv, TypeOK, Conflict, Stream
<1>6. ASSUME NEW name \in Retentions, ReleaseRetention(name) \/ \E commit \in CommitIds : Retain(name, commit)
      PROVE  TypeOK'
  BY <1>1, <1>6 DEF IInv, TypeOK, ReleaseRetention, Retain, Stream, CommitIds, Genesis
<1>7. CASE (\E s \in Streams : \/ \E name \in Branches, after \in 0..MaxCommits : Open(s, name, after)
                              \/ Resume(s) \/ Return(s) \/ Abort(s))
           \/ Close \/ UNCHANGED vars
  BY <1>1, <1>7 DEF IInv, TypeOK, Open, Resume, Return, Abort, Close, vars, Stream
<1> QED BY <1>2, <1>3, <1>4, <1>5, <1>6, <1>7 DEF Next

LEMMA BranchesKept ==
  ASSUME IInv, [Next]_vars
  PROVE  (Cursors /\ Readers)'
<1>1. \A s \in Streams : AtEnd(streams[s])'
  BY SoundFollows DEF Sound
<1>2. TypeOK'
  BY TypesKept
<1>3. ASSUME NEW w \in Writers, NEW byHead \in BOOLEAN, Commit(w, byHead) PROVE (Cursors /\ Readers)'
  <2> DEFINE name == readers[w].branch
             commit == Len(commits) + 1
             next == [head |-> commit, sequence |-> branches[name].sequence + 1]
  <2>1. /\ name \in Branches /\ Exists(name) /\ next # None /\ commit \in Nat /\ commit = Len(commits) + 1
        /\ Len(commits) \in Nat /\ Len(commits') = commit
        /\ next.head = commit /\ next.sequence = branches[name].sequence + 1
        /\ branches[name] \in BranchState /\ next.sequence = Len(history[name]) + 1
        /\ branches[name].head < commit
        /\ branches' = [branches EXCEPT ![name] = next]
        /\ history' = [history EXCEPT ![name] = Append(@, commit)]
    BY <1>3, CommitMoves, MemoryAssumption DEF IInv, TypeOK
  <2>2. readers' = [readers EXCEPT ![w] = None]
    BY <1>3 DEF Commit
  <2> HIDE DEF name, commit, next
  <2>3. /\ branches \in [Branches -> BranchState \cup {None}] /\ history \in [Branches -> Seq(Nat)]
        /\ readers \in [Writers -> ReaderState \cup {None}]
    BY DEF IInv, TypeOK
  <2>4. ASSUME NEW b \in Branches
        PROVE  /\ IF Exists(b)' THEN branches'[b].sequence = Len(history'[b]) ELSE history'[b] = <<>>
               /\ Exists(b)' => branches'[b].head <= Len(commits')
    <3>1. CASE b = name
      BY <2>1, <2>3, <3>1 DEF Exists
    <3>2. CASE b # name
      <4>1. branches'[b] = branches[b] /\ history'[b] = history[b]
        BY <2>1, <2>3, <3>2
      <4>2. /\ IF Exists(b) THEN branches[b].sequence = Len(history[b]) ELSE history[b] = <<>>
            /\ Exists(b) => branches[b].head <= Len(commits) /\ branches[b].head \in Nat
        BY <2>3 DEF IInv, Cursors, Readers, Exists, BranchState
      <4>3. Len(commits) <= Len(commits') /\ Len(commits) \in Nat /\ Len(commits') \in Nat
        BY <2>1
      <4>4. Exists(b)' <=> Exists(b)
        BY <4>1 DEF Exists
      <4> QED BY <4>1, <4>2, <4>3, <4>4
    <3> QED BY <3>1, <3>2
  <2>5. ASSUME NEW v \in Writers, readers'[v] # None
        PROVE  LET b == readers'[v].branch  seen == readers'[v].seen IN
               /\ branches'[b] # None
               /\ \/ seen = branches'[b]
                  \/ seen.sequence < branches'[b].sequence /\ seen.head < branches'[b].head
    <3> DEFINE b == readers[v].branch
               seen == readers[v].seen
    <3>1. readers'[v] = readers[v] /\ readers[v] \in ReaderState /\ b \in Branches
      BY <2>2, <2>3, <2>5 DEF ReaderState
    <3>2. /\ Exists(b) /\ seen \in BranchState /\ branches[b] \in BranchState
          /\ \/ seen = branches[b]
             \/ seen.sequence < branches[b].sequence /\ seen.head < branches[b].head
      BY <2>3, <2>5, <3>1 DEF IInv, Readers, Exists, ReaderState
    <3>3. /\ seen.sequence \in Nat /\ seen.head \in Nat
          /\ branches[b].sequence \in Nat /\ branches[b].head \in Nat
      BY <3>2 DEF BranchState
    <3>4. CASE b = name
      <4>1. branches'[b] = next
        BY <2>1, <2>3, <3>1, <3>4
      <4>2. seen.sequence <= branches[b].sequence /\ seen.head <= branches[b].head
        BY <3>2, <3>3
      <4>3. seen.sequence < branches'[b].sequence /\ seen.head < branches'[b].head
        BY <2>1, <3>3, <3>4, <4>1, <4>2
      <4> QED BY <2>1, <3>1, <4>1, <4>3 DEF Exists
    <3>5. CASE b # name
      BY <2>1, <2>3, <3>1, <3>2, <3>5 DEF Exists
    <3> QED BY <3>4, <3>5
  <2> QED BY <1>1, <2>4, <2>5 DEF Cursors, Readers, AtEnd, Exists
<1>4. ASSUME NEW name \in Branches, NEW from \in CommitIds, CreateBranch(name, from)
      PROVE  (Cursors /\ Readers)'
  <2> DEFINE new == [head |-> from, sequence |-> 0]
  <2>1. new # None /\ new.head = from /\ new.sequence = 0 /\ from <= Len(commits)
    <3>1. new \in BranchState /\ from <= Len(commits)
      BY DEF CommitIds, Genesis, BranchState, IInv, TypeOK
    <3> QED BY <3>1, MemoryAssumption
  <2> HIDE DEF new
  <2>2. /\ branches' = [branches EXCEPT ![name] = new] /\ ~Exists(name)
        /\ commits' = commits /\ history' = history /\ readers' = readers
    BY <1>4 DEF CreateBranch, new
  <2>3. branches \in [Branches -> BranchState \cup {None}] /\ readers \in [Writers -> ReaderState \cup {None}]
    BY DEF IInv, TypeOK
  <2>4. \A b \in Branches : Exists(b) => branches'[b] = branches[b] /\ Exists(b)'
    BY <2>2, <2>3 DEF Exists
  <2>5. \A w \in Writers : readers[w] # None => readers[w].branch \in Branches
    BY <2>3 DEF ReaderState
  <2>6. Readers'
    BY <2>1, <2>2, <2>3, <2>4, <2>5 DEF IInv, Readers, Exists
  <2>7. \A b \in Branches :
          IF Exists(b)' THEN branches'[b].sequence = Len(history'[b]) ELSE history'[b] = <<>>
    <3>1. history[name] = <<>> /\ Len(history[name]) = 0
      BY <2>2 DEF IInv, Cursors
    <3> QED BY <2>1, <2>2, <2>3, <3>1 DEF IInv, Cursors, Exists
  <2> QED BY <1>1, <2>6, <2>7 DEF Cursors, AtEnd
<1>5. ASSUME NEW w \in Writers, (\E name \in Branches : Read(w, name)) \/ Conflict(w)
      PROVE  (Cursors /\ Readers)'
  <2>1. commits' = commits /\ history' = history /\ branches' = branches
    BY <1>5 DEF Read, Conflict
  <2>2. ASSUME NEW v \in Writers, readers'[v] # None
        PROVE  \/ readers[v] # None /\ readers'[v] = readers[v]
               \/ \E name \in Branches :
                    Exists(name) /\ readers'[v].branch = name /\ readers'[v].seen = branches[name]
    BY <1>5, <2>2 DEF Read, Conflict, IInv, TypeOK
  <2>3. Readers'
    BY <2>1, <2>2 DEF IInv, Readers, Exists
  <2> QED BY <1>1, <2>1, <2>3 DEF IInv, Cursors, AtEnd, Exists
<1>6. CASE commits' = commits /\ history' = history /\ branches' = branches /\ readers' = readers
  BY <1>1, <1>6 DEF IInv, Cursors, Readers, AtEnd, Exists
<1>7. ASSUME (\E s \in Streams : \/ \E name \in Branches, after \in 0..MaxCommits : Open(s, name, after)
                              \/ Resume(s) \/ Return(s) \/ Abort(s))
             \/ (\E name \in Retentions :
                   ReleaseRetention(name) \/ \E commit \in CommitIds : Retain(name, commit))
             \/ Close \/ UNCHANGED vars
      PROVE  commits' = commits /\ history' = history /\ branches' = branches /\ readers' = readers
  BY <1>7 DEF Open, Resume, Return, Abort, Close, ReleaseRetention, Retain, vars
<1> QED BY <1>3, <1>4, <1>5, <1>6, <1>7 DEF Next

-----------------------------------------------------------------------------
(* Theorems. *)

LEMMA Inductive == Spec => []IInv
<1>1. Init => IInv
  <2> SUFFICES ASSUME Init PROVE IInv
    OBVIOUS
  <2>1. [head |-> Genesis, sequence |-> 0] \in BranchState
    BY DEF Genesis, BranchState
  <2>2. TypeOK
    <3>1. Fresh \in Stream
      BY MemoryAssumption DEF Fresh, Stream
    <3>2. streams \in [Streams -> Stream]
      BY <3>1 DEF Init
    <3>3. commits \in Seq(Nat) /\ history \in [Branches -> Seq(Nat)] /\ closed \in BOOLEAN
      <4>1. <<>> \in Seq(Nat)
        OBVIOUS
      <4> QED BY <4>1 DEF Init
    <3>4. branches \in [Branches -> BranchState \cup {None}]
      BY <2>1 DEF Init
    <3>5. retains \in [Retentions -> Nat \cup {None}] /\ readers \in [Writers -> ReaderState \cup {None}]
      BY DEF Init
    <3> QED BY <3>2, <3>3, <3>4, <3>5 DEF TypeOK, Stream
  <2>3. StreamsInOrder /\ SleepersHaveNothing
    BY DEF Init, StreamsInOrder, SleepersHaveNothing, Fresh, Listening
  <2>4. Cursors
    BY <2>1, MemoryAssumption DEF Init, Cursors, Fresh, Listening, Exists
  <2>5. Readers
    BY MemoryAssumption DEF Init, Readers, Exists, Genesis
  <2> QED BY <2>2, <2>3, <2>4, <2>5 DEF IInv
<1>2. IInv /\ [Next]_vars => IInv'
  <2> SUFFICES ASSUME IInv, [Next]_vars PROVE IInv'
    OBVIOUS
  <2>1. TypeOK' /\ (Cursors /\ Readers)'
    BY TypesKept, BranchesKept
  <2>2. \A s \in Streams : Sound(streams[s])'
    BY SoundFollows
  <2>3. StreamsInOrder' /\ SleepersHaveNothing'
    BY <2>2 DEF StreamsInOrder, SleepersHaveNothing, Sound, InOrder, Sleeps, Remaining
  <2> QED BY <2>1, <2>3 DEF IInv
<1> QED BY <1>1, <1>2, PTL DEF Spec

\* Every state of a memory database has its types.
THEOREM MemoryTypeCorrect == Spec => []TypeOK
BY Inductive, PTL DEF IInv

\* A stream yields what its branch published after the commit it was opened at, in order and
\* without gaps, and none sleeps over a commit, a closed database or a fired signal, for any
\* number of branches, streams and commits.
THEOREM MemoryStreams == Spec => []StreamsSound
BY Inductive, PTL DEF IInv, StreamsSound

\* A commit follows the very state its writer read, by head or by version.
THEOREM MemoryUpdates == Spec => NoLostUpdate
<1>1. ASSUME IInv, [Next]_vars, NEW w \in Writers, readers[w] # None, readers'[w] = None, commits' # commits
      PROVE  /\ branches[readers[w].branch] = readers[w].seen
             /\ commits'[Len(commits')] = readers[w].seen.head
  <2>1. PICK v \in Writers, byHead \in BOOLEAN : Commit(v, byHead)
    BY <1>1 DEF Next, CreateBranch, Read, Conflict, ReleaseRetention, Retain, Open, Resume, Return,
                Abort, Close, vars
  <2>2. v = w
    BY <1>1, <2>1 DEF Commit, IInv, TypeOK
  <2> DEFINE name == readers[w].branch
             seen == readers[w].seen
  <2>3. /\ branches[name] \in BranchState /\ commits' = Append(commits, branches[name].head)
        /\ Len(commits') = Len(commits) + 1 /\ commits \in Seq(Nat)
    BY <1>1, <2>1, <2>2, CommitMoves DEF IInv, TypeOK
  <2>4. IF byHead THEN branches[name].head = seen.head ELSE branches[name].sequence = seen.sequence
    BY <2>1, <2>2 DEF Commit
  <2>5. \/ seen = branches[name]
        \/ seen.sequence < branches[name].sequence /\ seen.head < branches[name].head
    BY <1>1 DEF IInv, Readers
  <2>6. branches[name].head \in Nat /\ branches[name].sequence \in Nat
    BY <2>3 DEF BranchState
  <2>7. seen = branches[name]
    BY <2>4, <2>5, <2>6
  <2>8. commits'[Len(commits')] = branches[name].head
    BY <2>3, <2>6
  <2> QED BY <2>7, <2>8
<1>2. IInv /\ [Next]_vars =>
        \A w \in Writers : readers[w] # None /\ readers'[w] = None /\ commits' # commits =>
          /\ branches[readers[w].branch] = readers[w].seen
          /\ commits'[Len(commits')] = readers[w].seen.head
  BY <1>1
<1> QED BY <1>2, Inductive, PTL DEF Spec, NoLostUpdate
=============================================================================

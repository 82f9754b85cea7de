------------------------ MODULE SessionStreamProofs ------------------------
(***************************************************************************)
(* Proofs about SessionStream, for any clients, any number of events and   *)
(* any cap of the buffer.                                                  *)
(*                                                                         *)
(* They rest on the trail of a stream: what it has written, what it will   *)
(* write and what waits for the end of its replay, in that order. Opening  *)
(* a stream makes its trail the buffer; each event that is told extends    *)
(* it; and every other step of the stream moves events along it or cuts    *)
(* its end off. Because the subscription and the snapshot are taken in one *)
(* turn, the trail is always in the order in which events were created, so *)
(* nothing that waits is in the snapshot and the filter drops nothing.     *)
(***************************************************************************)
EXTENDS SessionStream, FiniteSetTheorems, SequenceTheorems, WellFoundedInduction, TLAPS

Trail(stream) == stream.sent \o stream.todo \o stream.liveQueue

(* The phases in which a stream has not lost anything. *)
Following == {"replaying", "live", "draining", "ended"}

(* The phases whose pending writes no longer look at the authorization. *)
HandedOver == {"live", "closing"}

Created(s) == \A e \in ToSet(s) : e.n <= created

(* The buffer before the session ends: full of progress, then one notice. *)
BufferInv ==
    /\ BufferSound
    /\ Created(events)
    /\ ~isComplete /\ ~capWarningEmitted =>
        /\ Len(events) <= Cap
        /\ \A e \in ToSet(events) : e.type = "progress"
    /\ ~isComplete /\ capWarningEmitted =>
        /\ Len(events) = Cap + 1
        /\ Last(events).type = "chunk"

(* Nothing is lost before the notice, but for the event in the last slot. *)
LossInv ==
    /\ ~isComplete /\ ~capWarningEmitted => Lost = {}
    /\ Noticed \/ \E e \in Events : Lost \subseteq {e}

InOrder(stream) ==
    /\ Increasing(Trail(stream))
    /\ Created(Trail(stream))

Idle(stream) ==
    /\ stream.phase # "replaying" => stream.liveQueue = <<>>
    /\ stream.phase \notin Open => stream.todo = <<>>
    /\ stream.phase = "away" => stream.sent = <<>>
    /\ stream.phase \in {"draining", "ended"} => isComplete

(* Whatever the buffer retains is on the trail, and the trail ends with the
   terminal event once the session has. *)
Follows(stream) ==
    stream.phase \in Following =>
        /\ \A e \in ToSet(events) : e.type # "chunk" => e \in ToSet(Trail(stream))
        /\ Noticed => \E e \in ToSet(Trail(stream)) : e.type = "chunk"
        /\ isComplete => Trail(stream) # <<>> /\ Last(Trail(stream)).type = "terminal"
        /\ ~isComplete => \A e \in ToSet(Trail(stream)) : e.type # "terminal"

(* What a stream has written, or can write without another look at the
   authorization, is older than the revocation. *)
Obeys(stream) ==
    ~authorized =>
        /\ \A e \in ToSet(stream.sent) : e.n <= revokedAt
        /\ stream.phase \in HandedOver => \A e \in ToSet(stream.todo) : e.n <= revokedAt

StreamInv ==
    /\ TypeOK
    /\ BufferInv
    /\ LossInv
    /\ \A c \in Clients : /\ InOrder(streams[c])
                          /\ Idle(streams[c])
                          /\ Follows(streams[c])
                          /\ Obeys(streams[c])

-----------------------------------------------------------------------------
(* Sequences                                                                *)

(* What a concatenation contains, how it ends and when it is in order. *)
LEMMA CatFacts ==
    ASSUME NEW s \in Seq(Events), NEW t \in Seq(Events)
    PROVE  /\ s \o t \in Seq(Events)
           /\ ToSet(s \o t) = ToSet(s) \union ToSet(t)
           /\ t # <<>> => s \o t # <<>> /\ Last(s \o t) = Last(t)
           /\ t = <<>> => s \o t = s
           /\ s = <<>> => s \o t = t
<1>1. /\ s \o t \in Seq(Events) /\ Len(s \o t) = Len(s) + Len(t)
      /\ \A i \in 1..Len(s \o t) :
            (s \o t)[i] = IF i <= Len(s) THEN s[i] ELSE t[i - Len(s)]
  OBVIOUS
<1>2. ASSUME NEW e \in ToSet(s) PROVE e \in ToSet(s \o t)
  <2>1. PICK i \in 1..Len(s) : s[i] = e
    BY DEF ToSet
  <2>2. (s \o t)[i] = e /\ i \in DOMAIN (s \o t)
    BY <1>1, <2>1
  <2>. QED BY <2>2 DEF ToSet
<1>3. ASSUME NEW e \in ToSet(t) PROVE e \in ToSet(s \o t)
  <2>1. PICK i \in 1..Len(t) : t[i] = e
    BY DEF ToSet
  <2>2. (s \o t)[Len(s) + i] = e /\ (Len(s) + i) \in DOMAIN (s \o t)
    BY <1>1, <2>1
  <2>. QED BY <2>2 DEF ToSet
<1>4. ASSUME NEW e \in ToSet(s \o t) PROVE e \in ToSet(s) \union ToSet(t)
  <2>1. PICK i \in 1..Len(s \o t) : (s \o t)[i] = e
    BY <1>1 DEF ToSet
  <2>2. CASE i <= Len(s)
    BY <1>1, <2>1, <2>2 DEF ToSet
  <2>3. CASE i > Len(s)
    <3>1. (i - Len(s)) \in 1..Len(t) /\ t[i - Len(s)] = e
      BY <1>1, <2>1, <2>3
    <3>. QED BY <3>1 DEF ToSet
  <2>. QED BY <1>1, <2>1, <2>2, <2>3
<1>5. t # <<>> => s \o t # <<>> /\ Last(s \o t) = Last(t)
  BY <1>1 DEF Last
<1>. QED BY <1>1, <1>2, <1>3, <1>4, <1>5

LEMMA CatIncreasing ==
    ASSUME NEW s \in Seq(Events), NEW t \in Seq(Events)
    PROVE  Increasing(s \o t) <=>
              /\ Increasing(s) /\ Increasing(t)
              /\ \A d \in ToSet(s), e \in ToSet(t) : d.n < e.n
<1>1. /\ s \o t \in Seq(Events) /\ Len(s \o t) = Len(s) + Len(t)
      /\ \A i \in 1..Len(s \o t) :
            (s \o t)[i] = IF i <= Len(s) THEN s[i] ELSE t[i - Len(s)]
  OBVIOUS
<1>2. ASSUME Increasing(s \o t) PROVE Increasing(s)
  BY <1>1, <1>2 DEF Increasing
<1>3. ASSUME Increasing(s \o t) PROVE Increasing(t)
  <2>. SUFFICES ASSUME NEW i \in DOMAIN t, NEW j \in DOMAIN t, i < j PROVE t[i].n < t[j].n
    BY DEF Increasing
  <2>1. /\ Len(s) + i \in DOMAIN (s \o t) /\ Len(s) + j \in DOMAIN (s \o t)
        /\ (s \o t)[Len(s) + i] = t[i] /\ (s \o t)[Len(s) + j] = t[j]
        /\ Len(s) + i < Len(s) + j
    BY <1>1
  <2>. QED BY <1>3, <2>1 DEF Increasing
<1>4. ASSUME Increasing(s \o t), NEW d \in ToSet(s), NEW e \in ToSet(t) PROVE d.n < e.n
  <2>1. PICK i \in 1..Len(s), j \in 1..Len(t) : s[i] = d /\ t[j] = e
    BY DEF ToSet
  <2>2. /\ i \in DOMAIN (s \o t) /\ Len(s) + j \in DOMAIN (s \o t)
        /\ (s \o t)[i] = d /\ (s \o t)[Len(s) + j] = e
        /\ i < Len(s) + j
    BY <1>1, <2>1
  <2>. QED BY <1>4, <2>2 DEF Increasing
<1>5. ASSUME Increasing(s), Increasing(t), \A d \in ToSet(s), e \in ToSet(t) : d.n < e.n
      PROVE  Increasing(s \o t)
  <2>. SUFFICES ASSUME NEW i \in DOMAIN (s \o t), NEW j \in DOMAIN (s \o t), i < j
                PROVE  (s \o t)[i].n < (s \o t)[j].n
    BY DEF Increasing
  <2>1. CASE j <= Len(s)
    BY <1>1, <1>5, <2>1 DEF Increasing
  <2>2. CASE i <= Len(s) /\ j > Len(s)
    <3>1. /\ (s \o t)[i] = s[i] /\ i \in DOMAIN s
          /\ (s \o t)[j] = t[j - Len(s)] /\ j - Len(s) \in DOMAIN t
      BY <1>1, <2>2
    <3>2. s[i] \in ToSet(s) /\ t[j - Len(s)] \in ToSet(t)
      BY <3>1 DEF ToSet
    <3>. QED BY <1>5, <3>1, <3>2
  <2>3. CASE i > Len(s)
    <3>1. /\ (s \o t)[i] = t[i - Len(s)] /\ i - Len(s) \in DOMAIN t
          /\ (s \o t)[j] = t[j - Len(s)] /\ j - Len(s) \in DOMAIN t
          /\ i - Len(s) < j - Len(s)
      BY <1>1, <2>3
    <3>. QED BY <1>5, <3>1 DEF Increasing
  <2>. QED BY <1>1, <2>1, <2>2, <2>3
<1>. QED BY <1>2, <1>3, <1>4, <1>5

LEMMA CatAssociative ==
    ASSUME NEW s \in Seq(Events), NEW t \in Seq(Events), NEW u \in Seq(Events)
    PROVE  (s \o t) \o u = s \o (t \o u)
BY ConcatAssociative

(* The filter of the replay keeps a queue that the snapshot does not meet. *)
LEMMA FreshKeepsAll ==
    ASSUME NEW queue \in Seq(Events), NEW snapshot,
           ToSet(queue) \cap ToSet(snapshot) = {}
    PROVE  Fresh(queue, snapshot) = queue
<1>. DEFINE Step(f) == [i \in 0..Len(queue) |->
                          IF i = 0 THEN <<>>
                          ELSE IF queue[i] \in ToSet(snapshot) THEN f[i - 1]
                          ELSE Append(f[i - 1], queue[i])]
            prefix == [i \in 0..Len(queue) |-> SubSeq(queue, 1, i)]
            kept == CHOOSE f : f = Step(f)
<1>1. \A i \in 1..Len(queue) : queue[i] \notin ToSet(snapshot)
  BY DEF ToSet
<1>2. prefix = Step(prefix)
  <2>1. ASSUME NEW i \in 1..Len(queue)
        PROVE  SubSeq(queue, 1, i) = Append(SubSeq(queue, 1, i - 1), queue[i])
    OBVIOUS
  <2>2. SubSeq(queue, 1, 0) = <<>>
    OBVIOUS
  <2>3. ASSUME NEW i \in 0..Len(queue) PROVE prefix[i] = Step(prefix)[i]
    BY <1>1, <2>1, <2>2
  <2>. QED BY <2>3
<1>3. kept = Step(kept)
  BY <1>2
<1>. HIDE DEF kept
<1>4. ASSUME NEW i \in 0..Len(queue) PROVE kept[i] = SubSeq(queue, 1, i)
  <2>. DEFINE Bad == {j \in 0..Len(queue) : kept[j] # SubSeq(queue, 1, j)}
  <2>. SUFFICES ASSUME Bad # {} PROVE FALSE
    BY <1>4
  <2>1. PICK j \in Bad : \A k \in Bad : ~(<<k, j>> \in OpToRel(<, Nat))
    <3>1. Bad \in SUBSET Nat
      OBVIOUS
    <3>. HIDE DEF Bad
    <3>. QED BY <3>1, NatLessThanWellFounded, WFMin
  <2>2. j \in 0..Len(queue) /\ kept[j] # SubSeq(queue, 1, j)
    BY <2>1
  <2>3. j # 0
    BY <1>3, <2>2
  <2>4. j - 1 \in 0..Len(queue) /\ j - 1 \in Nat /\ j \in Nat /\ j - 1 < j
    BY <2>2, <2>3
  <2>5. <<j - 1, j>> \in OpToRel(<, Nat)
    BY <2>4, Zenon DEF OpToRel
  <2>6. kept[j - 1] = SubSeq(queue, 1, j - 1)
    BY <2>1, <2>4, <2>5
  <2>7. kept[j] = Append(kept[j - 1], queue[j])
    <3>1. kept[j] = Step(kept)[j]
      BY <1>3
    <3>2. j \in 1..Len(queue) /\ queue[j] \notin ToSet(snapshot)
      BY <1>1, <2>2, <2>3
    <3>. QED BY <2>2, <2>3, <3>1, <3>2
  <2>. QED BY <2>2, <2>3, <2>6, <2>7
<1>5. Fresh(queue, snapshot) = kept[Len(queue)]
  BY DEF Fresh, kept
<1>. QED BY <1>4, <1>5

-----------------------------------------------------------------------------
(* The buffer. A call keeps the first m events and puts a tail of new ones      *)
(* behind them.                                                                 *)

Buffered == events \in Seq(Events) /\ created \in Nat /\ BufferInv

LEMMA NewIsEvent ==
    ASSUME created \in Nat, NEW k \in Nat,
           NEW type \in {"progress", "chunk", "terminal"}
    PROVE  /\ New(k, type) \in Events
           /\ New(k, type).n = created + k
           /\ New(k, type).type = type
BY DEF New, Events

LEMMA PairFacts ==
    ASSUME NEW d \in Events, NEW e \in Events
    PROVE  /\ <<e>> \in Seq(Events) /\ Len(<<e>>) = 1 /\ ToSet(<<e>>) = {e}
           /\ Last(<<e>>) = e /\ Increasing(<<e>>)
           /\ <<d, e>> \in Seq(Events) /\ Len(<<d, e>>) = 2 /\ ToSet(<<d, e>>) = {d, e}
           /\ Last(<<d, e>>) = e /\ (d.n < e.n => Increasing(<<d, e>>))
<1>1. ToSet(<<e>>) = {e} /\ ToSet(<<d, e>>) = {d, e}
  BY DEF ToSet
<1>. QED BY <1>1 DEF Last, Increasing

(* buffer is what is kept of the events, m of them, and the tail. *)
Built(buffer, m, kept, tail) ==
    /\ buffer \in Seq(Events) /\ Len(buffer) = m + Len(tail) /\ Increasing(buffer)
    /\ ToSet(kept) \subseteq ToSet(events)
    /\ ToSet(buffer) = ToSet(kept) \union ToSet(tail)
    /\ \A i \in 1..Len(buffer) : /\ i <= m => buffer[i].type # "terminal"
                                 /\ i > m => buffer[i] = tail[i - m]

LEMMA Rebuilt ==
    ASSUME Buffered, ~isComplete, NEW m \in 0..Len(events),
           NEW kept, kept = SubSeq(events, 1, m),
           NEW tail \in Seq(Events), Increasing(tail),
           \A e \in ToSet(tail) : created < e.n
    PROVE  Built(kept \o tail, m, kept, tail)
<1>1. /\ kept \in Seq(Events) /\ Len(kept) = m
      /\ \A i \in 1..m : kept[i] = events[i]
  BY DEF Buffered
<1>2. ToSet(kept) \subseteq ToSet(events)
  BY <1>1 DEF ToSet, Buffered
<1>3. Increasing(kept)
  BY <1>1 DEF Increasing, Buffered, BufferInv, BufferSound
<1>4. ASSUME NEW d \in ToSet(kept), NEW e \in ToSet(tail) PROVE d.n < e.n
  <2>1. d \in Events /\ e \in Events /\ d.n <= created /\ created < e.n
    BY <1>1, <1>2 DEF Buffered, BufferInv, Created, ToSet
  <2>. QED BY <2>1 DEF Events, Buffered
<1>5. Increasing(kept \o tail) /\ ToSet(kept \o tail) = ToSet(kept) \union ToSet(tail)
  BY <1>1, <1>3, <1>4, CatIncreasing, CatFacts
<1>6. /\ kept \o tail \in Seq(Events) /\ Len(kept \o tail) = m + Len(tail)
      /\ \A i \in 1..Len(kept \o tail) :
            (kept \o tail)[i] = IF i <= m THEN kept[i] ELSE tail[i - m]
  BY <1>1
<1>7. \A i \in 1..m : kept[i] = events[i] /\ events[i].type # "terminal"
  BY <1>1 DEF Buffered, BufferInv, BufferSound
<1>8. \A i \in 1..Len(kept \o tail) :
        /\ i <= m => (kept \o tail)[i].type # "terminal"
        /\ i > m => (kept \o tail)[i] = tail[i - m]
  BY <1>6, <1>7
<1>. QED BY <1>2, <1>5, <1>6, <1>8 DEF Built

LEMMA Appended ==
    ASSUME Buffered, ~isComplete,
           NEW tail \in Seq(Events), Increasing(tail),
           \A e \in ToSet(tail) : created < e.n
    PROVE  /\ events \o tail \in Seq(Events)
           /\ Len(events \o tail) = Len(events) + Len(tail)
           /\ Increasing(events \o tail)
           /\ ToSet(events \o tail) = ToSet(events) \union ToSet(tail)
<1>1. /\ events \in Seq(Events) /\ Len(events) \in 0..Len(events)
      /\ SubSeq(events, 1, Len(events)) = events
  BY DEF Buffered
<1>2. Built(events \o tail, Len(events), events, tail)
  BY <1>1, Rebuilt
<1>. QED BY <1>2 DEF Built

(* A full buffer is full of progress, or of progress and one notice. *)
LEMMA FullBuffer ==
    ASSUME Buffered, ~isComplete
    PROVE  /\ AtCap <=> Len(events) \in {Cap, Cap + 1}
           /\ capWarningEmitted => Len(events) = Cap + 1 /\ Last(events).type = "chunk"
           /\ ~capWarningEmitted => 
                /\ Len(events) <= Cap
                /\ \A e \in ToSet(events) : e.type = "progress"
BY SessionStreamAssumption DEF Buffered, BufferInv, BufferSound, AtCap

(* Where Stored puts the terminal event. *)
LEMMA StoredIs ==
    ASSUME Buffered, ~isComplete, NEW terminal \in Events, NEW notice \in Events
    PROVE  /\ ~AtCap => /\ ~capWarningEmitted
                        /\ Stored(terminal, notice) =
                               SubSeq(events, 1, Len(events)) \o <<terminal>>
           /\ FirstDrop => /\ Len(events) = Cap
                           /\ Stored(terminal, notice) =
                                  SubSeq(events, 1, Cap - 1) \o <<terminal>>
                           /\ Front(Stored(terminal, notice)) = SubSeq(events, 1, Cap - 1)
                           /\ ToSet(events) \subseteq
                                  ToSet(SubSeq(events, 1, Cap - 1)) \union {Last(events)}
           /\ AtCap /\ ~FirstDrop =>
                           /\ Len(events) = Cap + 1
                           /\ Noticed
                           /\ Stored(terminal, notice) =
                                  SubSeq(events, 1, Cap - 1) \o <<notice, terminal>>
<1>. USE SessionStreamAssumption
<1>1. events \in Seq(Events) /\ Len(events) \in Nat
  BY DEF Buffered
<1>2. ASSUME ~AtCap
      PROVE  /\ ~capWarningEmitted
             /\ Stored(terminal, notice) = SubSeq(events, 1, Len(events)) \o <<terminal>>
  <2>1. ~capWarningEmitted
    BY <1>2, FullBuffer
  <2>2. Stored(terminal, notice) = Append(events, terminal)
    BY <1>2 DEF Stored
  <2>3. SubSeq(events, 1, Len(events)) = events
    BY <1>1
  <2>. QED BY <1>1, <2>1, <2>2, <2>3
<1>3. ASSUME FirstDrop
      PROVE  /\ Len(events) = Cap
             /\ Stored(terminal, notice) = SubSeq(events, 1, Cap - 1) \o <<terminal>>
             /\ Front(Stored(terminal, notice)) = SubSeq(events, 1, Cap - 1)
             /\ ToSet(events) \subseteq
                    ToSet(SubSeq(events, 1, Cap - 1)) \union {Last(events)}
  <2>. DEFINE kept == SubSeq(events, 1, Cap - 1)
  <2>1. Len(events) = Cap /\ AtCap
    BY <1>3, FullBuffer DEF FirstDrop
  <2>2. Last(events).type # "chunk"
    <3>1. Last(events) \in ToSet(events)
      BY <1>1, <2>1 DEF ToSet, Last
    <3>. QED BY <1>3, <3>1, FullBuffer DEF FirstDrop
  <2>3. Stored(terminal, notice) = [events EXCEPT ![Len(events)] = terminal]
    BY <2>1, <2>2 DEF Stored
  <2>4. /\ kept \in Seq(Events) /\ Len(kept) = Cap - 1
        /\ \A i \in 1..(Cap - 1) : kept[i] = events[i]
    BY <1>1, <2>1
  <2>. HIDE DEF kept
  <2>5. Stored(terminal, notice) = kept \o <<terminal>>
    BY <1>1, <2>1, <2>3, <2>4
  <2>6. Front(kept \o <<terminal>>) = kept
    BY <2>4 DEF Front
  <2>7. ToSet(events) \subseteq ToSet(kept) \union {Last(events)}
    <3>. SUFFICES ASSUME NEW e \in ToSet(events), e # Last(events) PROVE e \in ToSet(kept)
      OBVIOUS
    <3>1. PICK i \in 1..Len(events) : events[i] = e
      BY <1>1 DEF ToSet
    <3>2. i \in 1..(Cap - 1)
      BY <2>1, <3>1 DEF Last
    <3>. QED BY <2>4, <3>1, <3>2 DEF ToSet
  <2>. QED BY <2>1, <2>5, <2>6, <2>7 DEF kept
<1>4. ASSUME AtCap, ~FirstDrop
      PROVE  /\ Len(events) = Cap + 1
             /\ Noticed
             /\ Stored(terminal, notice) = SubSeq(events, 1, Cap - 1) \o <<notice, terminal>>
  <2>. DEFINE kept == SubSeq(events, 1, Cap - 1)
  <2>1. Len(events) = Cap + 1 /\ Last(events).type = "chunk"
    BY <1>4, FullBuffer DEF FirstDrop
  <2>2. Noticed
    BY <1>1, <2>1 DEF ToSet, Last, Noticed
  <2>3. Stored(terminal, notice)
          = [events EXCEPT ![Len(events) - 1] = notice, ![Len(events)] = terminal]
    BY <1>4, <2>1 DEF Stored
  <2>4. /\ kept \in Seq(Events) /\ Len(kept) = Cap - 1
        /\ \A i \in 1..(Cap - 1) : kept[i] = events[i]
    BY <1>1, <2>1
  <2>. HIDE DEF kept
  <2>5. Stored(terminal, notice) = kept \o <<notice, terminal>>
    <3>. DEFINE tail == <<notice, terminal>>
    <3>1. /\ tail \in Seq(Events) /\ Len(tail) = 2
          /\ tail[1] = notice /\ tail[2] = terminal
      OBVIOUS
    <3>2. Cap + 1 = Len(events) /\ Cap \in 1..Len(events)
      BY <2>1
    <3>3. /\ Stored(terminal, notice) \in Seq(Events)
          /\ Len(Stored(terminal, notice)) = Cap + 1
          /\ \A i \in 1..(Cap + 1) : Stored(terminal, notice)[i] =
                IF i <= Cap - 1 THEN events[i] ELSE IF i = Cap THEN notice ELSE terminal
      BY <1>1, <2>3, <3>2
    <3>. HIDE DEF tail
    <3>4. /\ kept \o tail \in Seq(Events) /\ Len(kept \o tail) = Cap + 1
          /\ \A i \in 1..(Cap + 1) : (kept \o tail)[i] =
                IF i <= Cap - 1 THEN kept[i] ELSE tail[i - (Cap - 1)]
      <4>1. Len(kept) + Len(tail) = Cap + 1
        BY <2>4, <3>1
      <4>2. /\ kept \o tail \in Seq(Events) /\ Len(kept \o tail) = Len(kept) + Len(tail)
            /\ \A i \in 1..(Len(kept) + Len(tail)) : (kept \o tail)[i] =
                 IF i <= Len(kept) THEN kept[i] ELSE tail[i - Len(kept)]
        BY <2>4, <3>1, ConcatProperties
      <4>. QED BY <2>4, <4>1, <4>2
    <3>5. \A i \in 1..(Cap + 1) : (kept \o tail)[i] = Stored(terminal, notice)[i]
      BY <2>4, <3>1, <3>3, <3>4
    <3>. QED BY <3>3, <3>4, <3>5, SeqEqual DEF tail
  <2>. QED BY <2>1, <2>2, <2>5 DEF kept
<1>. QED BY <1>2, <1>3, <1>4

(* What a call that changes the buffer tells the streams. *)
Tells(told, allowed) ==
    /\ ~isComplete
    /\ told \in Seq(Events) /\ Increasing(told)
    /\ created < created'
    /\ \A e \in ToSet(told) : created < e.n /\ e.n <= created'
    /\ \A e \in ToSet(events') : e.type # "chunk" => e \in ToSet(events) \union ToSet(told)
    /\ Noticed' => Noticed \/ \E e \in ToSet(told) : e.type = "chunk"
    /\ isComplete' => told # <<>> /\ Last(told).type = "terminal"
    /\ ~isComplete' => \A e \in ToSet(told) : e.type # "terminal"
    /\ streams' = [c \in Clients |-> Told(streams[c], told, allowed)]

BufferKept == Buffered /\ LossInv

LEMMA EmitKeepsBuffer ==
    ASSUME Buffered, LossInv, Emit
    PROVE  BufferKept' /\ \E told : Tells(told, authorized)
<1>. DEFINE event == New(1, "progress")
            notice == New(2, "chunk")
<1>1. /\ events \in Seq(Events) /\ created \in Nat /\ ~isComplete /\ ~isComplete'
      /\ created' = created + 2 /\ emitted' = emitted \union {event}
      /\ capWarningEmitted' = (capWarningEmitted \/ AtCap)
  BY DEF Emit, Buffered
<1>2. /\ event \in Events /\ event.n = created + 1 /\ event.type = "progress"
      /\ notice \in Events /\ notice.n = created + 2 /\ notice.type = "chunk"
  BY <1>1, NewIsEvent
<1>3. SubSeq(events, 1, Len(events)) = events /\ events \o <<>> = events
  BY <1>1
<1>4. ASSUME NEW tail \in {<<>>, <<event>>, <<notice>>},
             events' = events \o tail, Notify(tail, authorized)
      PROVE  /\ Tells(tail, authorized)
             /\ events' \in Seq(Events) /\ Len(events') = Len(events) + Len(tail)
             /\ Increasing(events')
             /\ ToSet(events') = ToSet(events) \union ToSet(tail)
             /\ Created(events)'
             /\ \A e \in ToSet(events') : e.type # "terminal"
  <2>. HIDE DEF event, notice
  <2>1. ToSet(<<>>) = {} /\ Increasing(<<>>) /\ <<>> \in Seq(Events)
    BY DEF ToSet, Increasing
  <2>2. /\ tail \in Seq(Events) /\ Increasing(tail) /\ ToSet(tail) \subseteq {event, notice}
    <3>1. CASE tail = <<>>
      BY <2>1, <3>1
    <3>2. CASE tail = <<event>>
      BY <1>2, <3>2, PairFacts
    <3>3. CASE tail = <<notice>>
      BY <1>2, <3>3, PairFacts
    <3>. QED BY <1>4, <3>1, <3>2, <3>3
  <2>3. \A e \in ToSet(tail) : created < e.n /\ e.n <= created' /\ e.type # "terminal"
    BY <1>1, <1>2, <2>2
  <2>4. /\ events' \in Seq(Events) /\ Len(events') = Len(events) + Len(tail)
        /\ Increasing(events')
        /\ ToSet(events') = ToSet(events) \union ToSet(tail)
    BY <1>1, <1>4, <2>2, <2>3, Appended
  <2>5. \A e \in ToSet(events) : e \in Events /\ e.n <= created /\ e.type # "terminal"
    BY <1>1 DEF Buffered, BufferInv, BufferSound, Created, ToSet
  <2>6. Created(events)'
    <3>. SUFFICES ASSUME NEW e \in ToSet(events') PROVE e.n <= created'
      BY DEF Created
    <3>. QED BY <1>1, <2>3, <2>4, <2>5 DEF Events
  <2>7. Tells(tail, authorized)
    BY <1>1, <1>4, <2>2, <2>3, <2>4 DEF Tells, Notify, Noticed
  <2>. QED BY <2>3, <2>4, <2>5, <2>6, <2>7
<1>5. PICK tail \in {<<>>, <<event>>, <<notice>>} :
        /\ events' = events \o tail /\ Notify(tail, authorized)
        /\ ~AtCap => tail = <<event>>
        /\ FirstDrop => tail = <<notice>>
        /\ AtCap /\ ~FirstDrop => tail = <<>>
  BY DEF Emit, FirstDrop
<1>. HIDE DEF event, notice
<1>10. /\ Tells(tail, authorized)
       /\ events' \in Seq(Events) /\ Len(events') = Len(events) + Len(tail)
       /\ Increasing(events') /\ Created(events)'
       /\ ToSet(events') = ToSet(events) \union ToSet(tail)
       /\ \A e \in ToSet(events') : e.type # "terminal"
  BY <1>4, <1>5
<1>6. /\ ToSet(<<event>>) = {event} /\ Len(<<event>>) = 1
      /\ ToSet(<<notice>>) = {notice} /\ Len(<<notice>>) = 1
      /\ Last(<<notice>>) = notice /\ <<notice>> \in Seq(Events) /\ <<notice>> # <<>>
  BY <1>2, PairFacts
<1>7. /\ \A i \in DOMAIN events' : events'[i].type # "terminal"
      /\ events' \in Seq(Events)
  BY <1>10, <1>5 DEF ToSet
<1>8. CASE ~AtCap
  <2>1. /\ tail = <<event>> /\ ~capWarningEmitted /\ ~capWarningEmitted'
        /\ Len(events) < Cap
    <3>1. Len(events) < Cap /\ Len(events) \notin {Cap, Cap + 1}
      BY <1>1, <1>8, SessionStreamAssumption DEF AtCap
    <3>2. ~capWarningEmitted
      BY <1>1, <3>1, FullBuffer
    <3>3. ~capWarningEmitted'
      BY <1>1, <1>8, <3>2, Zenon
    <3>. QED BY <1>5, <1>8, <3>1, <3>2, <3>3
  <2>2. Len(events') <= Cap /\ ToSet(events') = ToSet(events) \union {event}
    <3>1. /\ Len(events') = Len(events) + Len(tail)
          /\ ToSet(events') = ToSet(events) \union ToSet(tail)
      BY <1>10, <1>5
    <3>2. Len(tail) = 1 /\ ToSet(tail) = {event}
      BY <1>6, <2>1
    <3>. QED BY <1>1, <2>1, <3>1, <3>2, SessionStreamAssumption
  <2>3. \A e \in ToSet(events') : e.type = "progress"
    BY <1>1, <1>2, <2>1, <2>2, FullBuffer
  <2>4. Lost' = {}
    BY <1>1, <2>1, <2>2 DEF LossInv, Lost
  <2>5. LossInv'
    BY <1>2, <2>4 DEF LossInv
  <2>6. BufferSound'
    <3>1. Increasing(events') /\ Len(events') <= Cap + 1
      BY <1>10, <1>5, <1>7, <2>2, SessionStreamAssumption
    <3>. QED BY <1>1, <1>7, <3>1 DEF BufferSound
  <2>7. BufferInv' /\ created' \in Nat
    <3>1. Created(events)'
      BY <1>10, <1>5
    <3>. QED BY <1>1, <2>1, <2>2, <2>3, <2>6, <3>1 DEF BufferInv
  <2>8. \E told : Tells(told, authorized)
    BY <1>10, <1>5
  <2>. QED BY <1>7, <2>5, <2>7, <2>8 DEF BufferKept, Buffered
<1>9. CASE AtCap
  <2>. capWarningEmitted'
    BY <1>1, <1>9, Zenon
  <2>1. Len(events') = Cap + 1 /\ Last(events').type = "chunk"
    <3>1. CASE FirstDrop
      <4>1. Len(events) = Cap
        BY <1>1, <3>1, FullBuffer, SessionStreamAssumption DEF FirstDrop
      <4>2. tail = <<notice>> /\ events' = events \o <<notice>>
        BY <1>5, <3>1
      <4>3. Last(events') = notice
        BY <1>1, <1>6, <4>2, CatFacts
      <4>4. Len(events') = Len(events) + 1
        BY <1>10, <1>5, <1>6, <4>2
      <4>. QED BY <1>2, <4>1, <4>3, <4>4
    <3>2. CASE ~FirstDrop
      <4>1. events' = events
        BY <1>3, <1>5, <1>9, <3>2
      <4>2. capWarningEmitted
        BY <1>9, <3>2 DEF FirstDrop
      <4>. QED BY <1>1, <4>1, <4>2, FullBuffer
    <3>. QED BY <3>1, <3>2
  <2>2. Noticed'
    <3>1. Last(events') \in ToSet(events')
      BY <1>7, <2>1, SessionStreamAssumption DEF Last, ToSet
    <3>. QED BY <2>1, <3>1 DEF Noticed
  <2>3. BufferSound'
    <3>1. Increasing(events') /\ Len(events') <= Cap + 1
      BY <1>10, <1>5, <2>1, SessionStreamAssumption
    <3>. QED BY <1>1, <1>7, <3>1 DEF BufferSound
  <2>4. BufferInv' /\ created' \in Nat
    <3>1. Created(events)'
      BY <1>10, <1>5
    <3>. QED BY <1>1, <2>1, <2>3, <3>1 DEF BufferInv
  <2>5. \E told : Tells(told, authorized)
    BY <1>10, <1>5
  <2>. QED BY <1>7, <2>2, <2>4, <2>5 DEF BufferKept, Buffered, LossInv
<1>. QED BY <1>10, <1>5, <1>8, <1>9

(* The end of a buffer: a notice or not, then the terminal event. *)
Ends(tail, terminal, notice) ==
    /\ tail \in Seq(Events) /\ Increasing(tail)
    /\ Len(tail) \in {1, 2} /\ tail # <<>> /\ Last(tail) = terminal
    /\ terminal \in ToSet(tail) /\ ToSet(tail) \subseteq {notice, terminal}
    /\ tail # <<terminal>> => notice \in ToSet(tail)
    /\ \A i \in 1..Len(tail) : tail[i].type = "terminal" <=> i = Len(tail)

LEMMA EndTails ==
    ASSUME created \in Nat, NEW k \in {1, 2}
    PROVE  LET terminal == New(3, "terminal")
               notice   == New(k, "chunk")
           IN  /\ terminal \in Events /\ terminal.n = created + 3
               /\ terminal.type = "terminal"
               /\ notice \in Events /\ notice.n = created + k /\ notice.type = "chunk"
               /\ Ends(<<terminal>>, terminal, notice)
               /\ Ends(<<notice, terminal>>, terminal, notice)
<1>. DEFINE terminal == New(3, "terminal")
            notice == New(k, "chunk")
<1>1. terminal \in Events /\ terminal.n = created + 3 /\ terminal.type = "terminal"
  BY NewIsEvent
<1>2. notice \in Events /\ notice.n = created + k /\ notice.type = "chunk"
  <2>. k \in Nat
    OBVIOUS
  <2>. QED BY NewIsEvent
<1>. HIDE DEF terminal, notice
<1>3. notice.n < terminal.n
  BY <1>1, <1>2
<1>4. Ends(<<terminal>>, terminal, notice)
  <2>. DEFINE t == <<terminal>>
  <2>1. /\ t \in Seq(Events) /\ Increasing(t) /\ Last(t) = terminal
        /\ Len(t) = 1 /\ ToSet(t) = {terminal}
    BY <1>1, PairFacts
  <2>2. t # <<>> /\ t[1] = terminal
    OBVIOUS
  <2>. QED BY <1>1, <2>1, <2>2 DEF Ends
<1>5. Ends(<<notice, terminal>>, terminal, notice)
  <2>. DEFINE t == <<notice, terminal>>
  <2>1. /\ t \in Seq(Events) /\ Increasing(t) /\ Last(t) = terminal
        /\ Len(t) = 2 /\ ToSet(t) = {notice, terminal}
    BY <1>1, <1>2, <1>3, PairFacts
  <2>2. t # <<>> /\ t[1] = notice /\ t[2] = terminal
    OBVIOUS
  <2>. HIDE DEF t
  <2>3. \A i \in 1..Len(t) : t[i].type = "terminal" <=> i = Len(t)
    BY <1>1, <1>2, <2>1, <2>2
  <2>. QED BY <2>1, <2>2, <2>3 DEF Ends, t
<1>. QED BY <1>1, <1>2, <1>4, <1>5 DEF terminal, notice

(* The session ends: the buffer keeps m events and its tail follows. The streams
   are told the tail, or, if the buffer had its notice already, only the terminal
   event. *)
EndsAs(m, tail, told, terminal, notice, allowed) ==
    /\ ~isComplete /\ isComplete'
    /\ created' = created + 3
    /\ emitted' = emitted
    /\ terminal \in Events /\ terminal.n = created + 3 /\ terminal.type = "terminal"
    /\ notice \in Events /\ notice.type = "chunk"
    /\ notice.n \in {created + 1, created + 2}
    /\ Ends(tail, terminal, notice)
    /\ Ends(told, terminal, notice)
    /\ told # tail => Noticed \/ tail = <<terminal>>
    /\ m \in Nat /\ m <= Len(events) /\ m + Len(tail) <= Cap + 1
    /\ events' = SubSeq(events, 1, m) \o tail
    /\ tail = <<terminal>> =>
          /\ ~capWarningEmitted
          /\ \/ m = Len(events)
             \/ ToSet(events) \subseteq ToSet(SubSeq(events, 1, m)) \union {Last(events)}
    /\ Notify(told, allowed)

LEMMA EndKeepsBuffer ==
    ASSUME Buffered, LossInv, NEW m, NEW tail, NEW told, NEW terminal, NEW notice, NEW allowed,
           EndsAs(m, tail, told, terminal, notice, allowed)
    PROVE  BufferKept' /\ Tells(told, allowed)
<1>1. /\ events \in Seq(Events) /\ created \in Nat /\ m \in 0..Len(events) /\ m \in Nat
      /\ created' = created + 3 /\ ~isComplete /\ isComplete'
  BY DEF Buffered, EndsAs
<1>2. /\ terminal \in Events /\ terminal.type = "terminal"
      /\ notice \in Events /\ notice.type = "chunk"
      /\ created < notice.n /\ notice.n <= created'
      /\ created < terminal.n /\ terminal.n <= created'
      /\ Ends(tail, terminal, notice) /\ Ends(told, terminal, notice)
  BY <1>1 DEF EndsAs
<1>3. /\ tail \in Seq(Events) /\ Increasing(tail)
      /\ Len(tail) \in {1, 2} /\ tail # <<>>
      /\ \A e \in ToSet(tail) : e \in {notice, terminal} /\ created < e.n /\ e.n <= created'
      /\ tail # <<terminal>> => notice \in ToSet(tail)
      /\ \A i \in 1..Len(tail) : tail[i].type = "terminal" <=> i = Len(tail)
  BY <1>2 DEF Ends
<1>10. /\ told \in Seq(Events) /\ Increasing(told) /\ told # <<>> /\ Last(told) = terminal
       /\ terminal \in ToSet(told)
       /\ told # <<terminal>> => notice \in ToSet(told)
       /\ \A e \in ToSet(told) : created < e.n /\ e.n <= created'
  BY <1>2 DEF Ends
<1>0. PICK kept : kept = SubSeq(events, 1, m) /\ events' = kept \o tail
  BY DEF EndsAs
<1>4. /\ events' \in Seq(Events) /\ Len(events') = m + Len(tail) /\ Increasing(events')
      /\ ToSet(kept) \subseteq ToSet(events)
      /\ ToSet(events') = ToSet(kept) \union ToSet(tail)
      /\ \A i \in 1..Len(events') :
            /\ i <= m => events'[i].type # "terminal"
            /\ i > m => events'[i] = tail[i - m]
  <2>1. /\ tail \in Seq(Events) /\ Increasing(tail)
        /\ \A e \in ToSet(tail) : created < e.n
    BY <1>2, <1>3
  <2>3. Built(events', m, kept, tail)
    BY <1>0, <1>1, <2>1, Rebuilt
  <2>. QED BY <2>3 DEF Built
<1>5. \A e \in ToSet(events) : e \in Events /\ e.n <= created
  BY <1>1 DEF Buffered, BufferInv, Created, ToSet
<1>6. Created(events)'
  <2>. SUFFICES ASSUME NEW e \in ToSet(events') PROVE e.n <= created'
    BY DEF Created
  <2>1. CASE e \in ToSet(events)
    BY <1>1, <1>5, <2>1 DEF Events
  <2>2. CASE e \in ToSet(tail)
    BY <1>2, <1>3, <2>2
  <2>. QED BY <1>4, <2>1, <2>2
<1>7. BufferSound'
  <2>1. \A i \in 1..Len(events') : events'[i].type = "terminal" <=> i = Len(events')
    <3>. SUFFICES ASSUME NEW i \in 1..Len(events')
                  PROVE  events'[i].type = "terminal" <=> i = Len(events')
      OBVIOUS
    <3>1. CASE i <= m
      <4>1. i < Len(events')
        BY <1>1, <1>3, <1>4, <3>1
      <4>2. events'[i].type # "terminal"
        BY <1>4, <3>1
      <4>. QED BY <4>1, <4>2
    <3>2. CASE i > m
      <4>1. i - m \in 1..Len(tail) /\ (i - m = Len(tail) <=> i = Len(events'))
        BY <1>1, <1>3, <1>4, <3>2
      <4>2. tail[i - m].type = "terminal" <=> i - m = Len(tail)
        BY <1>3, <4>1
      <4>. QED BY <1>4, <3>2, <4>1, <4>2
    <3>. QED BY <1>1, <3>1, <3>2
  <2>2. events' # <<>> /\ Len(events') <= Cap + 1
    <3>1. m + Len(tail) <= Cap + 1
      BY DEF EndsAs
    <3>. QED BY <1>1, <1>3, <1>4, <3>1
  <2>. QED BY <1>1, <1>4, <2>1, <2>2 DEF BufferSound
<1>8. LossInv'
  <2>. emitted' = emitted
    BY DEF EndsAs
  <2>1. CASE tail # <<terminal>>
    BY <1>1, <1>2, <1>3, <1>4, <2>1 DEF LossInv, Noticed
  <2>2. CASE tail = <<terminal>>
    <3>1. emitted \subseteq ToSet(events)
      BY <1>1, <2>2 DEF EndsAs, LossInv, Lost
    <3>2. CASE m = Len(events)
      <4>1. kept = events
        BY <1>0, <1>1, <3>2
      <4>2. Lost' = {}
        BY <1>4, <3>1, <4>1 DEF Lost
      <4>. QED BY <1>2, <4>2 DEF LossInv
    <3>3. CASE ToSet(events) \subseteq ToSet(kept) \union {Last(events)} /\ m # Len(events)
      <4>1. Lost' \subseteq {Last(events)}
        BY <1>4, <3>1, <3>3 DEF Lost
      <4>2. Last(events) \in Events
        BY <1>1, <3>3 DEF Last
      <4>. QED BY <1>1, <4>1, <4>2 DEF LossInv
    <3>. QED BY <1>0, <2>2, <3>2, <3>3 DEF EndsAs
  <2>. QED BY <2>1, <2>2
<1>9. Tells(told, allowed)
  <2>1. \A e \in ToSet(events') : e.type # "chunk" => e \in ToSet(events) \union ToSet(told)
    BY <1>2, <1>3, <1>4, <1>10
  <2>2. Noticed' => Noticed \/ \E e \in ToSet(told) : e.type = "chunk"
    <3>1. told # tail => Noticed \/ tail = <<terminal>>
      BY DEF EndsAs
    <3>2. ASSUME tail = <<terminal>> PROVE ToSet(tail) = {terminal}
      BY <1>2, <3>2, PairFacts
    <3>. QED BY <1>2, <1>3, <1>4, <1>10, <3>1, <3>2 DEF Noticed
  <2>3. created < created'
    BY <1>1
  <2>. QED BY <1>1, <1>2, <1>10, <2>1, <2>2, <2>3 DEF Tells, Notify, EndsAs
<1>. QED BY <1>1, <1>4, <1>6, <1>7, <1>8, <1>9 DEF BufferKept, Buffered, BufferInv

(* Storing the terminal event ends the buffer, whether it has room or not. *)
LEMMA StoredKeepsBuffer ==
    ASSUME Buffered, LossInv, ~isComplete, isComplete',
           created' = created + 3, emitted' = emitted,
           events' = Stored(New(3, "terminal"), New(1, "chunk")),
           NEW allowed, Notify(<<New(3, "terminal")>>, allowed)
    PROVE  BufferKept' /\ Tells(<<New(3, "terminal")>>, allowed)
<1>. USE SessionStreamAssumption
<1>. DEFINE terminal == New(3, "terminal")
            notice == New(1, "chunk")
<1>1. events \in Seq(Events) /\ created \in Nat /\ Len(events) \in Nat
  BY DEF Buffered
<1>2. /\ terminal \in Events /\ terminal.n = created + 3 /\ terminal.type = "terminal"
      /\ notice \in Events /\ notice.n = created + 1 /\ notice.type = "chunk"
      /\ Ends(<<terminal>>, terminal, notice)
      /\ Ends(<<notice, terminal>>, terminal, notice)
  BY <1>1, EndTails
<1>3. /\ events' = Stored(terminal, notice) /\ Notify(<<terminal>>, allowed)
  OBVIOUS
<1>. HIDE DEF terminal, notice
<1>4. Len(<<terminal>>) = 1 /\ Len(<<notice, terminal>>) = 2
  OBVIOUS
<1>5. <<notice, terminal>> # <<terminal>>
  BY <1>4
<1>6. CASE ~AtCap
  <2>1. /\ ~capWarningEmitted /\ Len(events) + 1 <= Cap + 1
        /\ events' = SubSeq(events, 1, Len(events)) \o <<terminal>>
    BY <1>1, <1>2, <1>3, <1>6, StoredIs DEF AtCap
  <2>2. EndsAs(Len(events), <<terminal>>, <<terminal>>, terminal, notice, allowed)
    BY <1>1, <1>2, <1>3, <1>4, <2>1 DEF EndsAs
  <2>. QED BY <2>2, EndKeepsBuffer DEF terminal
<1>7. CASE FirstDrop
  <2>1. /\ ~capWarningEmitted /\ Len(events) = Cap
        /\ events' = SubSeq(events, 1, Cap - 1) \o <<terminal>>
        /\ ToSet(events) \subseteq ToSet(SubSeq(events, 1, Cap - 1)) \union {Last(events)}
    BY <1>2, <1>3, <1>7, StoredIs DEF FirstDrop
  <2>2. EndsAs(Cap - 1, <<terminal>>, <<terminal>>, terminal, notice, allowed)
    BY <1>2, <1>3, <1>4, <2>1 DEF EndsAs
  <2>. QED BY <2>2, EndKeepsBuffer DEF terminal
<1>8. CASE AtCap /\ ~FirstDrop
  <2>1. /\ Len(events) = Cap + 1 /\ Noticed
        /\ events' = SubSeq(events, 1, Cap - 1) \o <<notice, terminal>>
    BY <1>2, <1>3, <1>8, StoredIs
  <2>2. EndsAs(Cap - 1, <<notice, terminal>>, <<terminal>>, terminal, notice, allowed)
    BY <1>2, <1>3, <1>4, <1>5, <2>1 DEF EndsAs
  <2>. QED BY <2>2, EndKeepsBuffer DEF terminal
<1>. QED BY <1>6, <1>7, <1>8

LEMMA TerminateKeepsBuffer ==
    ASSUME Buffered, LossInv, NEW stays, NEW allowed, Terminate(stays, allowed)
    PROVE  BufferKept' /\ \E told : Tells(told, allowed)
<1>1. /\ ~isComplete /\ isComplete' /\ created' = created + 3 /\ emitted' = emitted
      /\ events' = Stored(New(3, "terminal"), New(1, "chunk"))
      /\ Notify(<<New(3, "terminal")>>, allowed)
  BY DEF Terminate
<1>. QED BY <1>1, StoredKeepsBuffer

LEMMA EndByRunnerKeepsBuffer ==
    ASSUME Buffered, LossInv, EndByRunner
    PROVE  BufferKept' /\ \E told : Tells(told, authorized)
<1>. USE SessionStreamAssumption
<1>1. /\ ~isComplete /\ isComplete' /\ created' = created + 3 /\ emitted' = emitted
      /\ created \in Nat
  BY DEF EndByRunner, Buffered
<1>2. CASE ~FirstDrop
  <2>1. /\ events' = Stored(New(3, "terminal"), New(1, "chunk"))
        /\ Notify(<<New(3, "terminal")>>, authorized)
    BY <1>2 DEF EndByRunner
  <2>. QED BY <1>1, <2>1, StoredKeepsBuffer
<1>3. CASE FirstDrop
  <2>. DEFINE terminal == New(3, "terminal")
              notice == New(2, "chunk")
              shifted == New(1, "chunk")
  <2>1. /\ terminal \in Events /\ terminal.n = created + 3 /\ terminal.type = "terminal"
        /\ notice \in Events /\ notice.n = created + 2 /\ notice.type = "chunk"
        /\ Ends(<<notice, terminal>>, terminal, notice)
        /\ shifted \in Events
    BY <1>1, EndTails
  <2>2. /\ events' = Front(Stored(terminal, shifted)) \o <<notice, terminal>>
        /\ Notify(<<notice, terminal>>, authorized)
    BY <1>3 DEF EndByRunner
  <2>. HIDE DEF terminal, notice, shifted
  <2>3. Len(<<notice, terminal>>) = 2 /\ Len(<<terminal>>) = 1
    OBVIOUS
  <2>4. Len(events) = Cap /\ Front(Stored(terminal, shifted)) = SubSeq(events, 1, Cap - 1)
    BY <1>1, <1>3, <2>1, StoredIs
  <2>5. EndsAs(Cap - 1, <<notice, terminal>>, <<notice, terminal>>, terminal, notice, authorized)
    BY <1>1, <2>1, <2>2, <2>3, <2>4 DEF EndsAs
  <2>. QED BY <2>5, EndKeepsBuffer
<1>. QED BY <1>2, <1>3

-----------------------------------------------------------------------------
(* The streams                                                              *)

LEMMA TrailIsSeq ==
    ASSUME NEW stream \in Streams
    PROVE  /\ stream.sent \in Seq(Events) /\ stream.todo \in Seq(Events)
           /\ stream.liveQueue \in Seq(Events)
           /\ Trail(stream) \in Seq(Events)
           /\ ToSet(Trail(stream)) = ToSet(stream.sent) \union ToSet(stream.todo)
                                        \union ToSet(stream.liveQueue)
           /\ stream.liveQueue = <<>> => Trail(stream) = stream.sent \o stream.todo
           /\ stream.liveQueue = <<>> /\ stream.todo = <<>> => Trail(stream) = stream.sent
<1>1. /\ stream.sent \in Seq(Events) /\ stream.todo \in Seq(Events)
      /\ stream.liveQueue \in Seq(Events)
  BY DEF Streams
<1>2. /\ stream.sent \o stream.todo \in Seq(Events)
      /\ ToSet(stream.sent \o stream.todo) = ToSet(stream.sent) \union ToSet(stream.todo)
      /\ stream.todo = <<>> => stream.sent \o stream.todo = stream.sent
  BY <1>1, CatFacts
<1>3. /\ Trail(stream) \in Seq(Events)
      /\ ToSet(Trail(stream)) = ToSet(stream.sent \o stream.todo) \union ToSet(stream.liveQueue)
      /\ stream.liveQueue = <<>> => Trail(stream) = stream.sent \o stream.todo
  BY <1>1, <1>2, CatFacts DEF Trail
<1>. QED BY <1>1, <1>2, <1>3

LEMMA TrailIncreasing ==
    ASSUME NEW stream \in Streams, Increasing(Trail(stream))
    PROVE  Increasing(stream.sent)
<1>1. /\ stream.sent \in Seq(Events) /\ stream.todo \in Seq(Events)
      /\ stream.liveQueue \in Seq(Events) /\ stream.sent \o stream.todo \in Seq(Events)
  BY TrailIsSeq, CatFacts
<1>2. Increasing(stream.sent \o stream.todo)
  BY <1>1, CatIncreasing DEF Trail
<1>. QED BY <1>1, <1>2, CatIncreasing

(* What is told extends the trail of a stream that listens. *)
LEMMA ToldIs ==
    ASSUME NEW stream \in Streams, Idle(stream), NEW told \in Seq(Events), NEW allowed,
           NEW after, after = Told(stream, told, allowed)
    PROVE  /\ after \in Streams
           /\ after.sent = stream.sent
           /\ \/ /\ stream.phase \in {"replaying", "live"} /\ after.phase = stream.phase
                 /\ Trail(after) = Trail(stream) \o told
                 /\ stream.phase = "live" => after.liveQueue = <<>>
                 /\ stream.phase = "replaying" \/ ~allowed => after.todo = stream.todo
              \/ stream.phase \notin {"replaying", "live"} /\ after = stream
              \/ /\ stream.phase = "live" /\ ~allowed
                 /\ after = [stream EXCEPT !.phase = "closing"]
<1>1. /\ stream.sent \in Seq(Events) /\ stream.todo \in Seq(Events)
      /\ stream.liveQueue \in Seq(Events) /\ Trail(stream) \in Seq(Events)
  BY TrailIsSeq
<1>2. CASE told = <<>>
  <2>1. after = stream
    BY <1>2 DEF Told
  <2>2. Trail(stream) \o told = Trail(stream)
    BY <1>1, <1>2
  <2>. QED BY <2>1, <2>2 DEF Idle
<1>3. CASE told # <<>> /\ stream.phase = "replaying"
  <2>1. after = [stream EXCEPT !.liveQueue = stream.liveQueue \o told]
    BY <1>3 DEF Told
  <2>2. stream.liveQueue \o told \in Seq(Events)
    BY <1>1
  <2>3. /\ after \in Streams /\ after.phase = "replaying" /\ after.sent = stream.sent
        /\ after.todo = stream.todo /\ after.liveQueue = stream.liveQueue \o told
    BY <1>3, <2>1, <2>2 DEF Streams
  <2>4. Trail(after) = Trail(stream) \o told
    <3>1. stream.sent \o stream.todo \in Seq(Events)
      BY <1>1
    <3>2. Trail(after) = (stream.sent \o stream.todo) \o (stream.liveQueue \o told)
      BY <2>3 DEF Trail
    <3>3. Trail(stream) \o told
            = ((stream.sent \o stream.todo) \o stream.liveQueue) \o told
      BY DEF Trail
    <3>. QED BY <1>1, <3>1, <3>2, <3>3, CatAssociative
  <2>. QED BY <1>3, <2>3, <2>4
<1>4. CASE told # <<>> /\ stream.phase = "live" /\ allowed
  <2>1. after = [stream EXCEPT !.todo = stream.todo \o told]
    BY <1>4 DEF Told
  <2>2. stream.todo \o told \in Seq(Events)
    BY <1>1
  <2>3. /\ after \in Streams /\ after.phase = "live" /\ after.sent = stream.sent
        /\ after.todo = stream.todo \o told /\ after.liveQueue = <<>>
        /\ stream.liveQueue = <<>>
    BY <1>4, <2>1, <2>2 DEF Streams, Idle
  <2>4. Trail(after) = Trail(stream) \o told
    <3>1. Trail(after) = stream.sent \o (stream.todo \o told)
      BY <2>3, TrailIsSeq
    <3>2. Trail(stream) = stream.sent \o stream.todo
      BY <2>3, TrailIsSeq
    <3>3. (stream.sent \o stream.todo) \o told = stream.sent \o (stream.todo \o told)
      BY <1>1, CatAssociative
    <3>. QED BY <3>1, <3>2, <3>3
  <2>. QED BY <1>4, <2>3, <2>4
<1>5. CASE told # <<>> /\ stream.phase = "live" /\ ~allowed
  <2>1. after = [stream EXCEPT !.phase = "closing"]
    BY <1>5 DEF Told
  <2>. QED BY <1>5, <2>1 DEF Streams, Open
<1>6. CASE told # <<>> /\ stream.phase \notin {"replaying", "live"}
  BY <1>6 DEF Told
<1>. QED BY <1>2, <1>3, <1>4, <1>5, <1>6

(* What a stream may write once it has lost its authorization, at a call that
   tells the streams something, was created before. *)
Permits(allowed) ==
    ~authorized' => /\ ~allowed
                    /\ revokedAt' = IF authorized THEN created ELSE revokedAt

StreamSound(stream) == InOrder(stream) /\ Idle(stream) /\ Follows(stream) /\ Obeys(stream)

LEMMA ToldKeepsStream ==
    ASSUME NEW stream \in Streams, StreamSound(stream), created \in Nat, created' \in Nat,
           events \in Seq(Events),
           NEW told, NEW allowed, Tells(told, allowed), Permits(allowed),
           NEW after, after = Told(stream, told, allowed)
    PROVE  after \in Streams /\ StreamSound(after)'
<1>1. /\ ~isComplete /\ told \in Seq(Events) /\ Increasing(told) /\ created < created'
      /\ \A e \in ToSet(told) : e \in Events /\ created < e.n /\ e.n <= created'
  BY DEF Tells, ToSet
<1>2. /\ Trail(stream) \in Seq(Events) /\ Increasing(Trail(stream))
      /\ \A e \in ToSet(Trail(stream)) : e \in Events /\ e.n <= created
      /\ \A e \in ToSet(stream.sent) \union ToSet(stream.todo) : e \in Events /\ e.n <= created
  <2>1. Trail(stream) \in Seq(Events)
    BY TrailIsSeq
  <2>2. \A e \in ToSet(Trail(stream)) : e \in Events /\ e.n <= created
    BY <2>1 DEF StreamSound, InOrder, Created, ToSet
  <2>. QED BY <2>1, <2>2, TrailIsSeq DEF StreamSound, InOrder
<1>3. /\ Trail(stream) \o told \in Seq(Events)
      /\ Increasing(Trail(stream) \o told)
      /\ ToSet(Trail(stream) \o told) = ToSet(Trail(stream)) \union ToSet(told)
      /\ told # <<>> => /\ Trail(stream) \o told # <<>>
                        /\ Last(Trail(stream) \o told) = Last(told)
  <2>1. \A d \in ToSet(Trail(stream)), e \in ToSet(told) : d.n < e.n
    BY <1>1, <1>2 DEF Events
  <2>. QED BY <1>1, <1>2, <2>1, CatIncreasing, CatFacts
<1>4. \A e \in ToSet(Trail(stream)) \union ToSet(told) : e.n <= created'
  BY <1>1, <1>2 DEF Events
<1>5. /\ after \in Streams
      /\ after.sent = stream.sent
      /\ \/ /\ stream.phase \in {"replaying", "live"} /\ after.phase = stream.phase
            /\ Trail(after) = Trail(stream) \o told
            /\ stream.phase = "live" => after.liveQueue = <<>>
            /\ stream.phase = "replaying" \/ ~allowed => after.todo = stream.todo
         \/ stream.phase \notin {"replaying", "live"} /\ after = stream
         \/ /\ stream.phase = "live" /\ ~allowed
            /\ after = [stream EXCEPT !.phase = "closing"]
  BY <1>1, ToldIs DEF StreamSound
<1>6. /\ \A e \in ToSet(after.sent) : ~authorized' => e.n <= revokedAt'
      /\ after.phase \in HandedOver =>
            \A e \in ToSet(after.todo) : ~authorized' => e.n <= revokedAt'
  <2>. SUFFICES ASSUME ~authorized'
                PROVE  /\ \A e \in ToSet(after.sent) : e.n <= revokedAt'
                       /\ after.phase \in HandedOver =>
                            \A e \in ToSet(after.todo) : e.n <= revokedAt'
    OBVIOUS
  <2>1. ~allowed /\ revokedAt' = IF authorized THEN created ELSE revokedAt
    BY DEF Permits
  <2>2. /\ after.todo = stream.todo
        /\ after.phase \in HandedOver => stream.phase \in HandedOver
    BY <1>5, <2>1 DEF HandedOver, Streams
  <2>3. CASE authorized
    BY <1>2, <1>5, <2>1, <2>2, <2>3
  <2>4. CASE ~authorized
    BY <1>5, <2>1, <2>2, <2>4 DEF StreamSound, Obeys
  <2>. QED BY <2>3, <2>4
<1>7. Obeys(after)'
  BY <1>6 DEF Obeys
<1>8. CASE /\ stream.phase \in {"replaying", "live"} /\ after.phase = stream.phase
           /\ Trail(after) = Trail(stream) \o told
           /\ stream.phase = "live" => after.liveQueue = <<>>
  <2>1. InOrder(after)'
    BY <1>3, <1>4, <1>8 DEF InOrder, Created
  <2>2. Idle(after)'
    BY <1>8 DEF Idle, Open
  <2>3. Follows(after)'
    <3>. /\ stream.phase \in Following /\ Follows(stream)
      BY <1>8 DEF Following, StreamSound
    <3>1. \A e \in ToSet(events') : e.type # "chunk" => e \in ToSet(Trail(after))
      BY <1>3, <1>8 DEF Follows, Tells
    <3>2. Noticed' => \E e \in ToSet(Trail(after)) : e.type = "chunk"
      BY <1>3, <1>8 DEF Follows, Tells
    <3>3. isComplete' => Trail(after) # <<>> /\ Last(Trail(after)).type = "terminal"
      BY <1>3, <1>8 DEF Tells
    <3>4. ~isComplete' => \A e \in ToSet(Trail(after)) : e.type # "terminal"
      BY <1>1, <1>3, <1>8 DEF Follows, Tells
    <3>. QED BY <3>1, <3>2, <3>3, <3>4 DEF Follows
  <2>. QED BY <1>5, <1>7, <2>1, <2>2, <2>3 DEF StreamSound
<1>9. CASE stream.phase \notin {"replaying", "live"} /\ after = stream
  <2>1. stream.phase \notin Following
    BY <1>1, <1>9 DEF StreamSound, Idle, Following
  <2>2. InOrder(after)'
    BY <1>2, <1>4, <1>9 DEF InOrder, Created
  <2>3. Idle(after)' /\ Follows(after)'
    BY <1>9, <2>1 DEF StreamSound, Idle, Follows, Following
  <2>. QED BY <1>5, <1>7, <2>2, <2>3 DEF StreamSound
<1>10. CASE stream.phase = "live" /\ after = [stream EXCEPT !.phase = "closing"]
  <2>1. /\ after.phase = "closing" /\ after.sent = stream.sent /\ after.todo = stream.todo
        /\ after.liveQueue = stream.liveQueue /\ Trail(after) = Trail(stream)
    BY <1>10 DEF Streams, Trail
  <2>2. InOrder(after)'
    BY <1>2, <1>4, <2>1 DEF InOrder, Created
  <2>3. Idle(after)' /\ Follows(after)'
    BY <1>10, <2>1 DEF StreamSound, Idle, Follows, Following, Open
  <2>. QED BY <1>5, <1>7, <2>2, <2>3 DEF StreamSound
<1>. QED BY <1>5, <1>8, <1>9, <1>10

-----------------------------------------------------------------------------
(* The steps                                                                *)

LEMMA StreamInvSplit ==
    StreamInv <=> /\ TypeOK /\ BufferKept
                  /\ \A c \in Clients : StreamSound(streams[c])
BY DEF StreamInv, TypeOK, BufferKept, Buffered, StreamSound

LEMMA StreamInvInit == Init => StreamInv
<1>. SUFFICES ASSUME Init PROVE StreamInv
  OBVIOUS
<1>. USE SessionStreamAssumption
<1>1. Away \in Streams /\ Trail(Away) = <<>>
  BY TrailIsSeq DEF Away, Streams, Trail
<1>2. ToSet(<<>>) = {}
  BY DEF ToSet
<1>3. TypeOK
  <2>1. streams \in [Clients -> Streams]
    BY <1>1, Zenon DEF Init
  <2>2. events \in Seq(Events)
    BY DEF Init
  <2>. QED BY <2>1, <2>2 DEF Init, TypeOK
<1>4. BufferInv /\ LossInv
  <2>1. events = <<>> /\ Len(events) = 0 /\ ~isComplete /\ ~capWarningEmitted /\ emitted = {}
    BY DEF Init
  <2>2. BufferSound
    BY <2>1 DEF BufferSound, Increasing
  <2>3. ToSet(events) = {}
    BY <1>2, <2>1
  <2>4. Lost = {}
    BY <2>1 DEF Lost
  <2>5. New(1, "chunk") \in Events
    BY NewIsEvent DEF Init
  <2>. QED BY <2>1, <2>2, <2>3, <2>4, <2>5 DEF BufferInv, Created, LossInv
<1>5. ASSUME NEW c \in Clients PROVE StreamSound(streams[c])
  <2>1. streams[c] = Away /\ Away.phase = "away"
    BY DEF Init, Away
  <2>2. InOrder(Away)
    BY <1>1, <1>2 DEF InOrder, Increasing, Created
  <2>3. Idle(Away) /\ Follows(Away) /\ Obeys(Away)
    BY <1>2 DEF Init, Away, Idle, Follows, Obeys, Following, Open
  <2>. QED BY <2>1, <2>2, <2>3 DEF StreamSound
<1>. QED BY <1>3, <1>4, <1>5 DEF StreamInv, StreamSound

(* A call that changes the buffer and tells every stream. *)
LEMMA CallKeeps ==
    ASSUME StreamInv, BufferKept', NEW told, NEW allowed,
           Tells(told, allowed), Permits(allowed),
           /\ emitted' \subseteq Events /\ revokedAt' \in Nat
           /\ capWarningEmitted' \in BOOLEAN /\ isComplete' \in BOOLEAN
           /\ retained' \in BOOLEAN /\ authorized' \in BOOLEAN
    PROVE  StreamInv'
<1>1. /\ events \in Seq(Events) /\ created \in Nat /\ streams \in [Clients -> Streams]
  BY DEF StreamInv, TypeOK
<1>2. events' \in Seq(Events) /\ created' \in Nat
  BY DEF BufferKept, Buffered
<1>3. ASSUME NEW c \in Clients
      PROVE  streams'[c] \in Streams /\ StreamSound(streams[c])'
  <2>1. StreamSound(streams[c]) /\ streams[c] \in Streams
    BY <1>1 DEF StreamInv, StreamSound
  <2>2. streams'[c] = Told(streams[c], told, allowed)
    BY DEF Tells
  <2>3. PICK after : after = Told(streams[c], told, allowed)
    OBVIOUS
  <2>4. after \in Streams /\ StreamSound(after)'
    BY <1>1, <1>2, <2>1, <2>3, ToldKeepsStream
  <2>. QED BY <2>2, <2>3, <2>4 DEF StreamSound, InOrder, Idle, Follows, Obeys, Created
<1>4. streams' \in [Clients -> Streams]
  BY <1>3 DEF Tells
<1>5. TypeOK'
  BY <1>2, <1>4 DEF TypeOK
<1>. QED BY <1>3, <1>5 DEF StreamInv, BufferKept, Buffered, StreamSound

LEMMA BufferStepKeeps ==
    ASSUME StreamInv, Emit \/ EndByRunner \/ TerminatedByOthers \/ Revoke
    PROVE  StreamInv'
<1>1. /\ Buffered /\ LossInv /\ TypeOK
  BY DEF StreamInv, Buffered, TypeOK
<1>2. CASE Emit
  <2>1. BufferKept' /\ \E told : Tells(told, authorized)
    BY <1>1, <1>2, EmitKeepsBuffer
  <2>2. New(1, "progress") \in Events
    BY <1>1, NewIsEvent DEF TypeOK
  <2>3. /\ Permits(authorized)
        /\ emitted' \subseteq Events /\ revokedAt' \in Nat
        /\ capWarningEmitted' \in BOOLEAN /\ isComplete' \in BOOLEAN
        /\ retained' \in BOOLEAN /\ authorized' \in BOOLEAN
    BY <1>1, <1>2, <2>2 DEF Emit, TypeOK, Permits
  <2>. QED BY <2>1, <2>3, CallKeeps
<1>3. CASE EndByRunner
  <2>1. BufferKept' /\ \E told : Tells(told, authorized)
    BY <1>1, <1>3, EndByRunnerKeepsBuffer
  <2>2. /\ Permits(authorized)
        /\ emitted' \subseteq Events /\ revokedAt' \in Nat
        /\ capWarningEmitted' \in BOOLEAN /\ isComplete' \in BOOLEAN
        /\ retained' \in BOOLEAN /\ authorized' \in BOOLEAN
    BY <1>1, <1>3 DEF EndByRunner, TypeOK, Permits
  <2>. QED BY <2>1, <2>2, CallKeeps
<1>4. CASE TerminatedByOthers
  <2>1. PICK stays \in BOOLEAN : Terminate(stays, authorized)
    BY <1>4 DEF TerminatedByOthers
  <2>2. BufferKept' /\ \E told : Tells(told, authorized)
    BY <1>1, <2>1, TerminateKeepsBuffer
  <2>3. /\ Permits(authorized)
        /\ emitted' \subseteq Events /\ revokedAt' \in Nat
        /\ capWarningEmitted' \in BOOLEAN /\ isComplete' \in BOOLEAN
        /\ retained' \in BOOLEAN /\ authorized' \in BOOLEAN
    BY <1>1, <1>4, <2>1 DEF TerminatedByOthers, Terminate, TypeOK, Permits
  <2>. QED BY <2>2, <2>3, CallKeeps
<1>5. CASE Revoke /\ Terminate(TRUE, FALSE)
  <2>1. BufferKept' /\ \E told : Tells(told, FALSE)
    BY <1>1, <1>5, TerminateKeepsBuffer
  <2>2. /\ Permits(FALSE)
        /\ emitted' \subseteq Events /\ revokedAt' \in Nat
        /\ capWarningEmitted' \in BOOLEAN /\ isComplete' \in BOOLEAN
        /\ retained' \in BOOLEAN /\ authorized' \in BOOLEAN
    BY <1>1, <1>5 DEF Revoke, Terminate, TypeOK, Permits
  <2>. QED BY <2>1, <2>2, CallKeeps
<1>6. CASE Revoke /\ UNCHANGED <<events, created, capWarningEmitted, isComplete, retained,
                                 streams, emitted>>
  <2>1. /\ authorized' = FALSE /\ revokedAt' = created /\ created \in Nat
        /\ UNCHANGED <<events, created, capWarningEmitted, isComplete, retained,
                       streams, emitted>>
    BY <1>1, <1>6 DEF Revoke, TypeOK
  <2>2. TypeOK' /\ BufferInv' /\ LossInv'
    <3>1. TypeOK'
      BY <1>1, <2>1 DEF TypeOK
    <3>2. BufferInv'
      BY <2>1 DEF StreamInv, BufferInv, BufferSound, Created
    <3>3. LossInv'
      BY <2>1 DEF StreamInv, LossInv, Lost, Noticed
    <3>. QED BY <3>1, <3>2, <3>3
  <2>3. ASSUME NEW c \in Clients PROVE StreamSound(streams[c])'
    <3>1. StreamSound(streams[c]) /\ streams[c] \in Streams
      BY DEF StreamInv, StreamSound, TypeOK
    <3>2. \A e \in ToSet(streams[c].sent) \union ToSet(streams[c].todo) : e.n <= created
      BY <3>1, TrailIsSeq DEF StreamSound, InOrder, Created
    <3>3. Obeys(streams[c])'
      BY <2>1, <3>2 DEF Obeys
    <3>4. InOrder(streams[c])' /\ Idle(streams[c])' /\ Follows(streams[c])'
      BY <2>1, <3>1 DEF StreamSound, InOrder, Idle, Follows, Created, Noticed
    <3>. QED BY <3>3, <3>4 DEF StreamSound
  <2>. QED BY <2>2, <2>3 DEF StreamInv, StreamSound
<1>. QED BY <1>2, <1>3, <1>4, <1>5, <1>6 DEF Revoke

(* A step of one stream leaves the buffer and the other streams alone. *)
LEMMA ChangedKeeps ==
    ASSUME StreamInv, NEW c \in Clients, NEW after \in Streams,
           Changed(c, after), StreamSound(after)
    PROVE  StreamInv'
<1>1. /\ streams' = [streams EXCEPT ![c] = after] /\ streams \in [Clients -> Streams]
      /\ UNCHANGED <<events, created, capWarningEmitted, isComplete, retained,
                     authorized, emitted, revokedAt>>
  BY DEF Changed, StreamInv, TypeOK
<1>2. TypeOK' /\ BufferInv' /\ LossInv'
  BY <1>1 DEF StreamInv, TypeOK, BufferInv, BufferSound, LossInv, Lost, Noticed, Created
<1>3. ASSUME NEW b \in Clients PROVE StreamSound(streams[b])'
  <2>1. PICK stream : stream = streams'[b] /\ StreamSound(stream)
    BY <1>1 DEF StreamInv, StreamSound
  <2>. QED BY <1>1, <2>1 DEF StreamSound, InOrder, Idle, Follows, Obeys, Created, Noticed
<1>. QED BY <1>2, <1>3 DEF StreamInv, StreamSound

LEMMA ConnectKeeps ==
    ASSUME StreamInv, NEW c \in Clients, Connect(c) PROVE StreamInv'
<1>. DEFINE after == [Away EXCEPT !.phase = "replaying", !.todo = events]
<1>1. events \in Seq(Events) /\ BufferInv /\ authorized /\ Changed(c, after)
  BY DEF StreamInv, TypeOK, Connect
<1>2. /\ after \in Streams /\ after.phase = "replaying" /\ after.todo = events
      /\ after.sent = <<>> /\ after.liveQueue = <<>>
  <2>1. Away \in Streams /\ Away.sent = <<>> /\ Away.liveQueue = <<>>
    BY DEF Away, Streams
  <2>. QED BY <1>1, <2>1 DEF Streams, Open
<1>. HIDE DEF after
<1>3. Trail(after) = events
  BY <1>1, <1>2, TrailIsSeq, CatFacts
<1>4. InOrder(after) /\ Idle(after) /\ Obeys(after)
  BY <1>1, <1>2, <1>3 DEF BufferInv, BufferSound, InOrder, Idle, Obeys, Open
<1>5. Follows(after)
  <2>1. \A e \in ToSet(events) : e.type = "terminal" => isComplete
    BY <1>1 DEF BufferInv, BufferSound, ToSet
  <2>2. isComplete => events # <<>> /\ Last(events).type = "terminal"
    <3>. SUFFICES ASSUME isComplete PROVE events # <<>> /\ Last(events).type = "terminal"
      OBVIOUS
    <3>1. events # <<>> /\ Len(events) \in DOMAIN events
      BY <1>1 DEF BufferInv, BufferSound
    <3>. QED BY <1>1, <3>1 DEF BufferInv, BufferSound, Last
  <2>. QED BY <1>3, <2>1, <2>2 DEF Follows, Noticed
<1>. QED BY <1>1, <1>2, <1>4, <1>5, ChangedKeeps DEF StreamSound

LEMMA WriteKeeps ==
    ASSUME StreamInv, NEW c \in Clients, Write(c) PROVE StreamInv'
<1>. DEFINE stream == streams[c]
            after == [stream EXCEPT !.todo = Tail(@), !.sent = Append(@, Head(stream.todo))]
<1>1. /\ stream \in Streams /\ StreamSound(stream) /\ Changed(c, after)
      /\ stream.todo # <<>> /\ stream.phase \in Open
      /\ authorized \/ stream.phase \in {"live", "closing"}
  BY DEF StreamInv, StreamSound, TypeOK, Write
<1>2. /\ stream.todo \in Seq(Events) /\ stream.sent \in Seq(Events)
      /\ stream.liveQueue \in Seq(Events)
  BY <1>1, TrailIsSeq
<1>3. PICK one \in Seq(Events), rest \in Seq(Events) :
         /\ stream.todo = one \o rest
         /\ after = [stream EXCEPT !.todo = rest, !.sent = stream.sent \o one]
  <2>1. /\ <<Head(stream.todo)>> \in Seq(Events) /\ Tail(stream.todo) \in Seq(Events)
        /\ stream.todo = <<Head(stream.todo)>> \o Tail(stream.todo)
        /\ Append(stream.sent, Head(stream.todo)) = stream.sent \o <<Head(stream.todo)>>
    <3>1. Head(stream.todo) \in Events /\ Tail(stream.todo) \in Seq(Events)
      BY <1>1, <1>2
    <3>2. stream.todo = <<Head(stream.todo)>> \o Tail(stream.todo)
      BY <1>1, <1>2, <3>1
    <3>3. Append(stream.sent, Head(stream.todo)) = stream.sent \o <<Head(stream.todo)>>
      BY <1>2, <3>1, AppendIsConcat
    <3>. QED BY <3>1, <3>2, <3>3
  <2>. QED BY <2>1
<1>. HIDE DEF after
<1>4. /\ after \in Streams /\ after.phase = stream.phase
      /\ after.sent = stream.sent \o one
      /\ after.todo = rest /\ after.liveQueue = stream.liveQueue
  <2>1. stream.sent \o one \in Seq(Events)
    BY <1>2
  <2>. QED BY <1>1, <1>3, <2>1 DEF Streams
<1>5. Trail(after) = Trail(stream)
  <2>1. (stream.sent \o one) \o rest = stream.sent \o stream.todo
    <3>1. (stream.sent \o one) \o rest = stream.sent \o (one \o rest)
      BY <1>2, CatAssociative
    <3>. QED BY <1>3, <3>1
  <2>. QED BY <1>4, <2>1 DEF Trail
<1>6. Obeys(after)
  <2>. SUFFICES ASSUME ~authorized PROVE Obeys(after)
    BY DEF Obeys
  <2>1. \A e \in ToSet(stream.sent) \union ToSet(stream.todo) : e.n <= revokedAt
    BY <1>1 DEF StreamSound, Obeys, HandedOver
  <2>2. /\ ToSet(stream.todo) = ToSet(one) \union ToSet(rest)
        /\ ToSet(after.sent) = ToSet(stream.sent) \union ToSet(one)
    BY <1>2, <1>3, <1>4, CatFacts
  <2>. QED BY <1>4, <2>1, <2>2 DEF Obeys
<1>7. InOrder(after) /\ Idle(after) /\ Follows(after)
  BY <1>1, <1>4, <1>5 DEF StreamSound, InOrder, Idle, Follows, Open
<1>. QED BY <1>1, <1>4, <1>6, <1>7, ChangedKeeps DEF StreamSound

(* Whatever ends a stream before its time keeps what was written. *)
LEMMA CutKeeps ==
    ASSUME StreamInv, NEW c \in Clients, NEW after,
           streams[c].phase # "away",
           after = [streams[c] EXCEPT !.phase = after.phase, !.todo = <<>>, !.liveQueue = <<>>],
           after.phase \in {"cut", "closing"},
           Changed(c, after)
    PROVE  StreamInv'
<1>. DEFINE stream == streams[c]
<1>1. stream \in Streams /\ StreamSound(stream)
  BY DEF StreamInv, StreamSound, TypeOK
<1>2. /\ after \in Streams /\ after.sent = stream.sent /\ after.todo = <<>>
      /\ after.liveQueue = <<>>
  <2>1. <<>> \in Seq(Events)
    OBVIOUS
  <2>. QED BY <1>1, <2>1 DEF Streams, Open
<1>3. /\ Trail(after) = stream.sent /\ stream.sent \in Seq(Events)
  BY <1>1, <1>2, TrailIsSeq
<1>4. Increasing(stream.sent)
  BY <1>1, TrailIncreasing DEF StreamSound, InOrder
<1>5. InOrder(after)
  BY <1>1, <1>3, <1>4, TrailIsSeq DEF StreamSound, InOrder, Created
<1>6. ToSet(<<>>) = {}
  BY DEF ToSet
<1>7. Idle(after) /\ Follows(after) /\ Obeys(after)
  BY <1>1, <1>2, <1>6 DEF StreamSound, Idle, Follows, Obeys, Following, Open
<1>. QED BY <1>2, <1>5, <1>7, ChangedKeeps DEF StreamSound

LEMMA EndReplayKeeps ==
    ASSUME StreamInv, NEW c \in Clients, EndReplay(c) PROVE StreamInv'
<1>. DEFINE stream == streams[c]
            over == isComplete \/ \E e \in ToSet(stream.sent) : e.type = "terminal"
<1>1. /\ stream \in Streams /\ StreamSound(stream)
      /\ stream.phase = "replaying" /\ stream.todo = <<>>
  BY DEF StreamInv, StreamSound, TypeOK, EndReplay
<1>2. /\ stream.sent \in Seq(Events) /\ stream.liveQueue \in Seq(Events)
      /\ Trail(stream) = stream.sent \o stream.liveQueue
      /\ ToSet(Trail(stream)) = ToSet(stream.sent) \union ToSet(stream.liveQueue)
  BY <1>1, TrailIsSeq, CatFacts DEF Trail
<1>3. Fresh(stream.liveQueue, stream.sent) = stream.liveQueue
  <2>1. \A d \in ToSet(stream.sent), e \in ToSet(stream.liveQueue) : d.n < e.n
    BY <1>1, <1>2, CatIncreasing DEF StreamSound, InOrder
  <2>2. ASSUME NEW e \in ToSet(stream.liveQueue), e \in ToSet(stream.sent) PROVE FALSE
    <3>1. e \in Events
      BY <1>2 DEF ToSet
    <3>2. e.n < e.n
      BY <2>1, <2>2
    <3>. QED BY <3>1, <3>2 DEF Events
  <2>. QED BY <1>2, <2>2, FreshKeepsAll
<1>4. over => isComplete
  BY <1>1, <1>2 DEF StreamSound, Follows, Following
<1>5. ASSUME NEW phase \in {"draining", "live"},
             phase = "draining" => isComplete,
             phase = "live" => authorized \/ stream.liveQueue = <<>>,
             Changed(c, [stream EXCEPT !.liveQueue = <<>>, !.todo = stream.liveQueue,
                                       !.phase = phase])
      PROVE  StreamInv'
  <2>. DEFINE after == [stream EXCEPT !.liveQueue = <<>>, !.todo = stream.liveQueue,
                                      !.phase = phase]
  <2>1. <<>> \in Seq(Events) /\ ToSet(<<>>) = {}
    BY DEF ToSet
  <2>2. /\ after \in Streams /\ after.sent = stream.sent
        /\ after.todo = stream.liveQueue /\ after.liveQueue = <<>>
        /\ after.phase = phase /\ Changed(c, after)
    BY <1>1, <1>2, <1>5, <2>1 DEF Streams, Open
  <2>. HIDE DEF after
  <2>3. Trail(after) = Trail(stream)
    BY <1>2, <2>2, TrailIsSeq
  <2>4. Obeys(after)
    <3>. SUFFICES ASSUME ~authorized PROVE Obeys(after)
      BY DEF Obeys
    <3>1. after.phase \in HandedOver => after.todo = <<>>
      BY <1>5, <2>2 DEF HandedOver
    <3>. QED BY <1>1, <2>1, <2>2, <3>1 DEF StreamSound, Obeys
  <2>5. InOrder(after) /\ Idle(after) /\ Follows(after)
    BY <1>1, <1>5, <2>2, <2>3 DEF StreamSound, InOrder, Idle, Follows, Following, Open
  <2>. QED BY <2>2, <2>4, <2>5, ChangedKeeps DEF StreamSound
<1>6. CASE over
  <2>1. Changed(c, [stream EXCEPT !.liveQueue = <<>>, !.todo = stream.liveQueue,
                                  !.phase = "draining"])
    BY <1>3, <1>6 DEF EndReplay
  <2>. QED BY <1>4, <1>5, <1>6, <2>1
<1>7. CASE ~over /\ (authorized \/ stream.liveQueue = <<>>)
  <2>1. Changed(c, [stream EXCEPT !.liveQueue = <<>>, !.todo = stream.liveQueue,
                                  !.phase = "live"])
    BY <1>3, <1>7 DEF EndReplay
  <2>. QED BY <1>5, <1>7, <2>1
<1>8. CASE ~over /\ ~(authorized \/ stream.liveQueue = <<>>)
  <2>. DEFINE after == [stream EXCEPT !.liveQueue = <<>>, !.phase = "closing", !.todo = <<>>]
  <2>1. Changed(c, after)
    BY <1>1, <1>3, <1>8 DEF EndReplay, Streams
  <2>2. /\ after.phase = "closing"
        /\ after = [stream EXCEPT !.phase = after.phase, !.todo = <<>>, !.liveQueue = <<>>]
    BY <1>1 DEF Streams
  <2>. HIDE DEF after
  <2>. QED BY <1>1, <2>1, <2>2, CutKeeps
<1>. QED BY <1>6, <1>7, <1>8

LEMMA FinishKeeps ==
    ASSUME StreamInv, NEW c \in Clients, Finish(c) PROVE StreamInv'
<1>. DEFINE stream == streams[c]
            after == [stream EXCEPT !.phase =
                          IF stream.phase = "closing" THEN "cut" ELSE "ended"]
<1>1. /\ stream \in Streams /\ StreamSound(stream) /\ Changed(c, after)
      /\ stream.todo = <<>>
      /\ \/ stream.phase \in {"draining", "closing"}
         \/ stream.phase = "live" /\ \E e \in ToSet(stream.sent) : e.type = "terminal"
  BY DEF StreamInv, StreamSound, TypeOK, Finish
<1>2. /\ after \in Streams /\ after.sent = stream.sent /\ after.todo = <<>>
      /\ after.liveQueue = stream.liveQueue /\ Trail(after) = Trail(stream)
      /\ after.phase = IF stream.phase = "closing" THEN "cut" ELSE "ended"
  BY <1>1 DEF Streams, Trail
<1>. HIDE DEF after
<1>3. after.phase = "ended" => isComplete
  BY <1>1, <1>2, TrailIsSeq DEF StreamSound, Idle, Follows, Following
<1>4. ToSet(<<>>) = {}
  BY DEF ToSet
<1>5. InOrder(after) /\ Idle(after) /\ Follows(after) /\ Obeys(after)
  BY <1>1, <1>2, <1>3, <1>4
  DEF StreamSound, InOrder, Idle, Follows, Obeys, Following, HandedOver, Open
<1>. QED BY <1>1, <1>2, <1>5, ChangedKeeps DEF StreamSound

LEMMA StreamInvStep == StreamInv /\ [Next]_vars => StreamInv'
<1>. SUFFICES ASSUME StreamInv, [Next]_vars PROVE StreamInv'
  OBVIOUS
<1>1. CASE Emit \/ EndByRunner \/ TerminatedByOthers \/ Revoke
  BY <1>1, BufferStepKeeps
<1>2. CASE Forget \/ UNCHANGED vars
  <2>1. /\ UNCHANGED <<events, created, capWarningEmitted, isComplete, authorized,
                       streams, emitted, revokedAt>>
        /\ retained' \in BOOLEAN
    BY <1>2 DEF Forget, vars, StreamInv, TypeOK
  <2>. QED BY <2>1 DEF StreamInv, TypeOK, BufferInv, BufferSound, LossInv, Lost, Noticed,
                       Created, InOrder, Idle, Follows, Obeys
<1>3. ASSUME NEW c \in Clients, CutOff(c) \/ Abort(c) PROVE StreamInv'
  <2>. DEFINE after == [streams[c] EXCEPT !.phase = "cut", !.todo = <<>>, !.liveQueue = <<>>]
  <2>1. Changed(c, after) /\ streams[c].phase # "away" /\ streams[c] \in Streams
    BY <1>3 DEF CutOff, Abort, Open, StreamInv, TypeOK
  <2>2. /\ after.phase = "cut"
        /\ after = [streams[c] EXCEPT !.phase = after.phase, !.todo = <<>>, !.liveQueue = <<>>]
    BY <2>1 DEF Streams
  <2>. HIDE DEF after
  <2>. QED BY <2>1, <2>2, CutKeeps
<1>. QED BY <1>1, <1>2, <1>3, ConnectKeeps, WriteKeeps, EndReplayKeeps, FinishKeeps
         DEF Next, Stream

-----------------------------------------------------------------------------
(* The theorems                                                             *)

(* What the buffer has retained and what each stream has sent and still will
   send belong together, whenever clients attach and whatever ends them. *)
THEOREM StreamInvHolds == Spec => []StreamInv
BY StreamInvInit, StreamInvStep, PTL DEF Spec

(* The variables of the buffer and of every stream keep their types. *)
THEOREM StreamTypeCorrect == Spec => []TypeOK
<1>1. StreamInv => TypeOK
  BY DEF StreamInv
<1>. QED BY <1>1, StreamInvHolds, PTL

(* storeSessionEvent never lets the buffer grow past its cap and one, never
   reorders it, and keeps the terminal event, and only it, at the end. *)
THEOREM BufferIsSound == Spec => []BufferSound
<1>1. StreamInv => BufferSound
  BY DEF StreamInv, BufferInv
<1>. QED BY <1>1, StreamInvHolds, PTL

(* No client sees an event twice or out of order, wherever its replay ends. *)
THEOREM StreamsStayInOrder == Spec => []StreamsInOrder
<1>1. StreamInv => StreamsInOrder
  <2>. SUFFICES ASSUME StreamInv, NEW c \in Clients PROVE Increasing(streams[c].sent)
    BY DEF StreamsInOrder
  <2>1. streams[c] \in Streams /\ Increasing(Trail(streams[c]))
    BY DEF StreamInv, TypeOK, InOrder
  <2>. QED BY <2>1, TrailIncreasing
<1>. QED BY <1>1, StreamInvHolds, PTL

(* A stream that ended by itself ended with the session, and delivered all that
   the buffer retained and the notice of what it did not. *)
THEOREM EndedStreamsAreComplete == Spec => []EndedStreamIsComplete
<1>1. StreamInv => EndedStreamIsComplete
  <2>. SUFFICES ASSUME StreamInv, NEW c \in Clients, streams[c].phase = "ended"
                PROVE  /\ streams[c].sent # <<>>
                       /\ Last(streams[c].sent).type = "terminal"
                       /\ {e \in ToSet(events) : e.type # "chunk"} \subseteq ToSet(streams[c].sent)
                       /\ (\E e \in ToSet(events) : e.type = "chunk") =>
                             \E e \in ToSet(streams[c].sent) : e.type = "chunk"
    BY DEF EndedStreamIsComplete
  <2>1. /\ streams[c] \in Streams /\ Idle(streams[c]) /\ Follows(streams[c])
    BY DEF StreamInv, TypeOK
  <2>2. Trail(streams[c]) = streams[c].sent /\ isComplete
    BY <2>1, TrailIsSeq DEF Idle, Open
  <2>. QED BY <2>1, <2>2 DEF Follows, Following, Noticed
<1>. QED BY <1>1, StreamInvHolds, PTL

(* At most one event is missing from the buffer unless it says so. *)
THEOREM LossesAreAnnounced == Spec => []LossIsAnnounced
<1>1. StreamInv => LossIsAnnounced
  <2>. SUFFICES ASSUME StreamInv, ~Noticed PROVE ~(Cardinality(Lost) > 1)
    BY DEF LossIsAnnounced
  <2>1. PICK e \in Events : Lost \subseteq {e}
    BY DEF StreamInv, LossInv
  <2>2. Cardinality({e}) = 1 /\ Cardinality({}) = 0
    BY FS_Singleton, FS_EmptySet
  <2>3. Lost = {} \/ Lost = {e}
    BY <2>1
  <2>. QED BY <2>2, <2>3
<1>. QED BY <1>1, StreamInvHolds, PTL

(* After the revocation of trust, only what was handed to a live stream before
   it is still written. *)
THEOREM NothingNewIsWritten == Spec => []NothingNewAfterRevocation
<1>1. StreamInv => NothingNewAfterRevocation
  BY DEF StreamInv, Obeys, NothingNewAfterRevocation
<1>. QED BY <1>1, StreamInvHolds, PTL
=============================================================================

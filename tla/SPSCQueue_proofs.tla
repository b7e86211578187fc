------------------------- MODULE SPSCQueue_proofs -------------------------
(***************************************************************************)
(* Proofs about SPSCQueue for every capacity, when at most one thread      *)
(* pushes: no slot is accessed by both threads at once, the caches never   *)
(* overtake the indices, and the ring is a bounded FIFO.                   *)
(***************************************************************************)
EXTENDS SPSCQueue, SequenceTheorems, TLAPS

\* The assumption of the class: push is called by one thread.
SingleProducer == \A p, q \in Producers : p = q

USE QueueAssumption

-----------------------------------------------------------------------------
(* The inductive invariant *)

Busy == {"write", "writing", "publish"}

\* A producer past its check has room: the slot after its own is not the one the
\* reader was last seen at.  Its slot is the one writeIndex is still at.
WriterHasRoom ==
    \A p \in Producers : wpc[p] # "idle" =>
        /\ wpos[p] = writeIndex
        /\ wval[p] \in Values
        /\ wpc[p] \in Busy => After(writeIndex) # readIndexCache
        /\ wpc[p] = "publish" => buffer[writeIndex] = wval[p]

\* A consumer past its check has something to read.
ReaderHasValue ==
    rpc \in {"read", "reading", "publish"} => readIndex # writeIndexCache

IInv == TypeOK /\ CachesLag /\ WriterHasRoom /\ ReaderHasValue

-----------------------------------------------------------------------------
(* Indices round the ring *)

LEMMA AfterSlots == \A i \in Slots : After(i) \in Slots
  BY DEF After, Slots, Size

\* One step forward is one step further, unless it closes the ring.
LEMMA AheadAfter ==
    \A i, j \in Slots : After(j) # i => Ahead(i, After(j)) = Ahead(i, j) + 1
  BY DEF After, Ahead, Slots, Size

LEMMA AheadFrom ==
    \A i, j \in Slots : i # j => Ahead(After(i), j) + 1 = Ahead(i, j)
  BY DEF After, Ahead, Slots, Size

LEMMA AheadRange ==
    \A i, j \in Slots : Ahead(i, j) \in 0 .. Capacity /\ (Ahead(i, j) = 0 <=> i = j)
  BY DEF Ahead, Slots, Size

\* What lies between two points of the ring splits the way between them in two.
LEMMA AheadSplit ==
    \A i, j, k \in Slots :
        Ahead(i, j) <= Ahead(i, k) => Ahead(i, j) + Ahead(j, k) = Ahead(i, k)
  BY DEF Ahead, Slots, Size

\* Two ways that together are shorter than the ring are one way.
LEMMA AheadJoin ==
    \A i, j, k \in Slots :
        Ahead(i, j) + Ahead(j, k) <= Capacity => Ahead(i, j) + Ahead(j, k) = Ahead(i, k)
  BY DEF Ahead, Slots, Size

LEMMA AheadFull == \A i, j \in Slots : After(j) = i => Ahead(i, j) = Capacity
  BY DEF After, Ahead, Slots, Size

-----------------------------------------------------------------------------
(* The invariant is inductive *)

\* The reader never reads the slot the writer is about to write or has just written.
LEMMA ReaderBehindWriter ==
    IInv /\ rpc \in {"read", "reading", "publish"} => readIndex # writeIndex
  BY AheadRange DEF IInv, TypeOK, CachesLag, ReaderHasValue

\* A new look at the other side's index moves a cache forward on its way.
LEMMA RefreshLag ==
    ASSUME IInv,
           readIndex' = readIndex, writeIndex' = writeIndex,
           \/ readIndexCache' \in Loads(readIndexCache, readIndex)
              /\ writeIndexCache' = writeIndexCache
           \/ writeIndexCache' \in Loads(writeIndexCache, writeIndex)
              /\ readIndexCache' = readIndexCache
    PROVE  CachesLag'
<1> USE DEF IInv, TypeOK, CachesLag
<1>1. CASE readIndexCache' \in Loads(readIndexCache, readIndex)
           /\ writeIndexCache' = writeIndexCache
  <2> DEFINE c == readIndexCache'
  <2>1. c \in Slots /\ Ahead(readIndexCache, c) <= Ahead(readIndexCache, readIndex)
    BY <1>1 DEF Loads
  <2>2. Ahead(readIndexCache, c) + Ahead(c, readIndex) = Ahead(readIndexCache, readIndex)
    BY <2>1, AheadSplit
  <2>3. Ahead(readIndexCache, c) + Ahead(c, writeIndex) = Ahead(readIndexCache, writeIndex)
    BY <2>1, AheadSplit, AheadRange
  <2> QED
    BY <1>1, <2>1, <2>2, <2>3, AheadRange
<1>2. CASE writeIndexCache' \in Loads(writeIndexCache, writeIndex)
           /\ readIndexCache' = readIndexCache
  <2> DEFINE c == writeIndexCache'
  <2>1. c \in Slots /\ Ahead(writeIndexCache, c) <= Ahead(writeIndexCache, writeIndex)
    BY <1>2 DEF Loads
  <2>2. Ahead(writeIndexCache, c) + Ahead(c, writeIndex) = Ahead(writeIndexCache, writeIndex)
    BY <2>1, AheadSplit
  <2>3. Ahead(readIndex, writeIndexCache) + Ahead(writeIndexCache, c) = Ahead(readIndex, c)
    BY <2>1, AheadJoin, AheadRange
  <2> QED
    BY <1>2, <2>1, <2>2, <2>3, AheadRange
<1> QED
  BY <1>1, <1>2

\* The writer's step forward closes no part of the way.
LEMMA PublishWriteAhead ==
    ASSUME IInv, NEW p \in Producers, PublishWrite(p)
    PROVE  /\ writeIndex' = After(writeIndex) /\ writeIndex' \in Slots
           /\ \A i \in {readIndex, readIndexCache, writeIndexCache} :
                 Ahead(i, writeIndex') = Ahead(i, writeIndex) + 1
<1> USE DEF IInv, TypeOK
<1>1. writeIndex' = After(writeIndex) /\ After(writeIndex) # readIndexCache
  BY DEF PublishWrite, WriterHasRoom, Busy
<1>2. After(writeIndex) # readIndex
  BY <1>1, AheadFull, AheadRange DEF CachesLag
<1>3. After(writeIndex) # writeIndexCache
  BY <1>2, AheadFull, AheadRange DEF CachesLag
<1> QED
  BY <1>1, <1>2, <1>3, AheadAfter, AfterSlots

\* The reader's step forward brings it nearer to what it knows of the writer.
LEMMA PublishReadAhead ==
    ASSUME IInv, PublishRead
    PROVE  /\ readIndex' = After(readIndex) /\ readIndex' \in Slots
           /\ \A j \in {writeIndex, writeIndexCache} :
                 Ahead(readIndex', j) + 1 = Ahead(readIndex, j)
           /\ Ahead(readIndexCache, readIndex') = Ahead(readIndexCache, readIndex) + 1
<1> USE DEF IInv, TypeOK
<1>1. readIndex' = After(readIndex) /\ readIndex # writeIndexCache
  BY DEF PublishRead, ReaderHasValue
<1>2. readIndex # writeIndex
  BY ReaderBehindWriter DEF PublishRead
<1>3. After(readIndex) # readIndexCache
  BY <1>2, AheadFull, AheadRange DEF CachesLag
<1> QED
  BY <1>1, <1>2, <1>3, AheadAfter, AheadFrom, AfterSlots

LEMMA InitIInv == Init => IInv
  BY DEF Init, IInv, TypeOK, CachesLag, WriterHasRoom, ReaderHasValue, Slots, Ahead

LEMMA StepIInv == SingleProducer /\ IInv /\ [Next]_vars => IInv'
<1> SUFFICES ASSUME SingleProducer, IInv, [Next]_vars PROVE IInv'
  OBVIOUS
<1> USE DEF IInv
<1>1. ASSUME NEW p \in Producers, NEW v \in Values, TryPush(p, v) PROVE IInv'
  BY <1>1 DEF TryPush, Goto, Full, TypeOK, CachesLag, WriterHasRoom, ReaderHasValue,
              Busy, SingleProducer
<1>2. ASSUME NEW p \in Producers, RefreshReadIndex(p) PROVE IInv'
  <2> USE <1>2 DEF RefreshReadIndex, Goto
  <2>1. readIndexCache' \in Slots
    BY DEF Loads
  <2>2. TypeOK'
    BY <2>1 DEF TypeOK
  <2>3. CachesLag'
    BY RefreshLag
  <2>4. WriterHasRoom' /\ ReaderHasValue'
    BY <2>1 DEF Full, TypeOK, WriterHasRoom, ReaderHasValue, Busy, SingleProducer
  <2> QED
    BY <2>2, <2>3, <2>4
<1>3. ASSUME NEW p \in Producers, BeginWrite(p) PROVE IInv'
  BY <1>3 DEF BeginWrite, Goto, TypeOK, CachesLag, WriterHasRoom, ReaderHasValue,
              Busy, SingleProducer
<1>4. ASSUME NEW p \in Producers, EndWrite(p) PROVE IInv'
  BY <1>4 DEF EndWrite, Goto, TypeOK, CachesLag, WriterHasRoom, ReaderHasValue,
              Busy, SingleProducer
<1>5. ASSUME NEW p \in Producers, PublishWrite(p) PROVE IInv'
  <2> USE <1>5 DEF PublishWrite, Goto
  <2>1. TypeOK'
    BY PublishWriteAhead DEF TypeOK
  <2>2. CachesLag'
    <3>1. /\ Ahead(readIndexCache, writeIndex') = Ahead(readIndexCache, writeIndex) + 1
          /\ Ahead(readIndex, writeIndex') = Ahead(readIndex, writeIndex) + 1
          /\ Ahead(writeIndexCache, writeIndex') = Ahead(writeIndexCache, writeIndex) + 1
      BY PublishWriteAhead
    <3>2. UNCHANGED <<readIndex, readIndexCache, writeIndexCache>>
      OBVIOUS
    <3> QED
      BY <3>1, <3>2, AheadRange DEF CachesLag, TypeOK
  <2>3. WriterHasRoom' /\ ReaderHasValue'
    BY DEF TypeOK, WriterHasRoom, ReaderHasValue, SingleProducer
  <2> QED
    BY <2>1, <2>2, <2>3
<1>6. CASE TryPop
  BY <1>6 DEF TryPop, Empty, TypeOK, CachesLag, WriterHasRoom, ReaderHasValue
<1>7. CASE RefreshWriteIndex
  <2> USE <1>7 DEF RefreshWriteIndex
  <2>1. writeIndexCache' \in Slots
    BY DEF Loads
  <2>2. TypeOK'
    BY <2>1 DEF TypeOK
  <2>3. CachesLag'
    BY RefreshLag
  <2>4. WriterHasRoom' /\ ReaderHasValue'
    BY DEF Empty, WriterHasRoom, ReaderHasValue
  <2> QED
    BY <2>2, <2>3, <2>4
<1>8. CASE BeginRead
  BY <1>8 DEF BeginRead, TypeOK, CachesLag, WriterHasRoom, ReaderHasValue
<1>9. CASE EndRead
  <2> USE <1>9 DEF EndRead
  <2>1. readIndex # writeIndex
    BY ReaderBehindWriter
  <2>2. buffer[readIndex] \in Values \cup {NoValue, Torn}
    BY DEF TypeOK
  <2>3. TypeOK' /\ CachesLag' /\ ReaderHasValue'
    BY <2>2 DEF TypeOK, CachesLag, ReaderHasValue
  <2>4. WriterHasRoom'
    BY <2>1 DEF WriterHasRoom, TypeOK
  <2> QED
    BY <2>3, <2>4
<1>10. CASE PublishRead
  <2> USE <1>10 DEF PublishRead
  <2>1. TypeOK'
    BY PublishReadAhead DEF TypeOK
  <2>2. CachesLag'
    BY PublishReadAhead, AheadRange DEF CachesLag, TypeOK
  <2>3. WriterHasRoom' /\ ReaderHasValue'
    BY DEF WriterHasRoom, ReaderHasValue
  <2> QED
    BY <2>1, <2>2, <2>3
<1>11. CASE UNCHANGED vars
  BY <1>11 DEF vars, TypeOK, CachesLag, WriterHasRoom, ReaderHasValue
<1> QED
  BY <1>1, <1>2, <1>3, <1>4, <1>5, <1>6, <1>7, <1>8, <1>9, <1>10, <1>11
     DEF Next, Producer, Consumer

LEMMA Invariance == ASSUME SingleProducer PROVE Spec => []IInv
<1>1. IInv /\ [Next]_vars => IInv'
  BY StepIInv
<1> QED
  BY <1>1, InitIInv, PTL DEF Spec

-----------------------------------------------------------------------------
(* The theorems *)

\* For every capacity the indices of a queue with one producer stay inside the
\* ring, and every variable keeps its type.
THEOREM TypeCorrect == ASSUME SingleProducer PROVE Spec => []TypeOK
  BY Invariance, PTL DEF IInv

\* For every capacity the caches of writer and reader lag behind the indices and
\* never overtake them, whatever old value an acquire load returns.
THEOREM CachesCorrect == ASSUME SingleProducer PROVE Spec => []CachesLag
  BY Invariance, PTL DEF IInv

\* For every capacity writer and reader are never inside the same slot, so that
\* the two indices are all the synchronisation the slots need.
THEOREM SlotsNotShared == ASSUME SingleProducer PROVE Spec => []NoSlotRace
<1>1. IInv => NoSlotRace
  BY ReaderBehindWriter DEF IInv, NoSlotRace, WriterHasRoom, SingleProducer
<1> QED
  BY <1>1, Invariance, PTL

-----------------------------------------------------------------------------
(* Refinement *)

Items == Values \cup {NoValue, Torn}

\* The slot of the n-th value in the queue.
Slot(n) == IF readIndex + n - 1 < Size THEN readIndex + n - 1
           ELSE readIndex + n - 1 - Size

\* What the n-th value in the queue is.
Item(n) == IF n = 1 /\ rpc = "publish" THEN rval ELSE buffer[Slot(n)]

ContentsShape ==
    /\ Contents \in Seq(Items)
    /\ Len(Contents) = Ahead(readIndex, writeIndex)
    /\ Len(Contents) \in 0 .. Capacity
    /\ \A n \in 1 .. Len(Contents) : Contents[n] = Item(n)

LEMMA ContentsSeq == IInv => ContentsShape
<1> SUFFICES ASSUME IInv PROVE ContentsShape
  OBVIOUS
<1> DEFINE k == Ahead(readIndex, writeIndex)
<1>1. k \in 0 .. Capacity
  BY AheadRange DEF IInv, TypeOK
<1>2. \A n \in 1 .. k : Slot(n) \in Slots
  BY <1>1 DEF IInv, TypeOK, Slot, Slots, Size
<1>3. Contents \in [1 .. k -> Items]
  BY <1>2 DEF Contents, Slot, Items, IInv, TypeOK
<1>4. Contents \in Seq(Items) /\ Len(Contents) = k
  BY <1>1, <1>3
<1> QED
  BY <1>1, <1>4 DEF ContentsShape, Contents, Item, Slot

\* The slots of the queue's values, head first, never include the writer's slot.
LEMMA SlotFacts ==
    ASSUME IInv, NEW n \in 1 .. Ahead(readIndex, writeIndex)
    PROVE  /\ Slot(n) \in Slots
           /\ Slot(n) # writeIndex
           /\ (Slot(n) = readIndex) <=> (n = 1)
<1>1. readIndex \in 0 .. Capacity /\ writeIndex \in 0 .. Capacity /\ Capacity \in Nat
  BY DEF IInv, TypeOK, Slots
<1>2. CASE readIndex <= writeIndex
  BY <1>1, <1>2 DEF Slot, Slots, Size, Ahead
<1>3. CASE readIndex > writeIndex
  BY <1>1, <1>3 DEF Slot, Slots, Size, Ahead
<1> QED
  BY <1>1, <1>2, <1>3

LEMMA InitFifo == Init => Fifo!Init
<1> SUFFICES ASSUME Init PROVE Contents = << >> /\ out = NoValue
  BY DEF Fifo!Init
<1>1. Ahead(readIndex, writeIndex) = 0
  BY DEF Init, Ahead
<1> QED
  BY <1>1, InitIInv, ContentsSeq, EmptySeq DEF Init, ContentsShape

\* A step that keeps the indices and the values between them keeps the contents.
LEMMA ContentsUnchanged ==
    ASSUME IInv, IInv', UNCHANGED <<readIndex, writeIndex>>,
           \A n \in 1 .. Ahead(readIndex, writeIndex) : Item(n)' = Item(n)
    PROVE  Contents' = Contents
<1>1. ContentsShape /\ ContentsShape'
  BY ContentsSeq, PTL
<1>2. Ahead(readIndex, writeIndex)' = Ahead(readIndex, writeIndex)
  OBVIOUS
<1> HIDE DEF Contents
<1> QED
  BY <1>1, <1>2, SeqEqual DEF ContentsShape

\* Storing writeIndex puts the value at the end of the queue.
LEMMA PutStep ==
    ASSUME IInv, IInv', NEW p \in Producers, PublishWrite(p)
    PROVE  Fifo!Put(wval[p])
<1>1. ContentsShape /\ ContentsShape'
  BY ContentsSeq, PTL
<1>2. /\ Ahead(readIndex, writeIndex)' = Ahead(readIndex, writeIndex) + 1
      /\ UNCHANGED <<readIndex, rpc, rval, buffer, out>>
  BY PublishWriteAhead DEF PublishWrite
<1>3. Len(Contents) < Capacity /\ Len(Contents') = Len(Contents) + 1
  BY <1>1, <1>2 DEF ContentsShape
<1>4. \A n \in 1 .. Len(Contents) : Contents'[n] = Contents[n]
  BY <1>1, <1>2, <1>3 DEF ContentsShape, Item, Slot
<1>5. Contents'[Len(Contents) + 1] = wval[p]
  <2>1. Slot(Ahead(readIndex, writeIndex) + 1) = writeIndex
    BY DEF IInv, TypeOK, Slot, Slots, Size, Ahead
  <2>2. buffer[writeIndex] = wval[p]
    BY DEF IInv, WriterHasRoom, PublishWrite
  <2>3. Len(Contents) = 0 => rpc # "publish"
    <3>1. rpc = "publish" => readIndex # writeIndex
      BY ReaderBehindWriter
    <3>2. readIndex # writeIndex => Ahead(readIndex, writeIndex) # 0
      BY AheadRange DEF IInv, TypeOK
    <3> QED
      BY <1>1, <3>1, <3>2 DEF ContentsShape
  <2> QED
    BY <1>1, <1>2, <1>3, <2>1, <2>2, <2>3 DEF ContentsShape, Item, Slot
<1>6. wval[p] \in Items
  BY DEF IInv, TypeOK, Items
<1> HIDE DEF Contents
<1>7. Contents' = Append(Contents, wval[p])
  BY <1>1, <1>3, <1>4, <1>5, <1>6, AppendProperties, SeqEqual DEF ContentsShape
<1> QED
  BY <1>2, <1>3, <1>7 DEF Fifo!Put

\* Storing readIndex takes the value read from the head of the queue.
LEMMA TakeStep == ASSUME IInv, IInv', PublishRead PROVE Fifo!Take
<1>1. ContentsShape /\ ContentsShape'
  BY ContentsSeq, PTL
<1>2. /\ readIndex' = After(readIndex) /\ rpc = "publish" /\ rpc' = "idle"
      /\ out' = rval /\ UNCHANGED <<writeIndex, buffer>>
      /\ Ahead(readIndex, writeIndex)' + 1 = Ahead(readIndex, writeIndex)
  BY PublishReadAhead DEF PublishRead
<1>3. Len(Contents) \in Nat /\ Len(Contents') \in Nat /\ Len(Contents') + 1 = Len(Contents)
  BY <1>1, <1>2 DEF ContentsShape
<1>4. Contents # << >>
  BY <1>3, EmptySeq
<1>5. Head(Contents) = rval
  BY <1>1, <1>2, <1>3 DEF ContentsShape, Item
<1>6. \A n \in 1 .. Len(Contents') : Contents'[n] = Contents[n + 1]
  <2>1. SUFFICES ASSUME NEW n \in 1 .. Len(Contents') PROVE Item(n)' = Item(n + 1)
    BY <1>1, <1>3 DEF ContentsShape
  <2>2. n \in Nat /\ n >= 1 /\ n + 1 <= Ahead(readIndex, writeIndex)
    BY <1>1, <1>3 DEF ContentsShape
  <2>3. readIndex \in 0 .. Capacity /\ n + 1 <= Capacity /\ Capacity \in Nat
    <3>1. readIndex \in Slots /\ writeIndex \in Slots
      BY DEF IInv, TypeOK
    <3>2. Ahead(readIndex, writeIndex) \in 0 .. Capacity
      BY <3>1, AheadRange
    <3> QED
      BY <2>2, <3>1, <3>2 DEF Slots
  <2>4. readIndex' = IF readIndex = Capacity THEN 0 ELSE readIndex + 1
    BY <1>2, <2>3 DEF After, Size
  <2>5. Slot(n)' = Slot(n + 1)
    BY <2>2, <2>3, <2>4 DEF Slot, Size
  <2> QED
    BY <1>2, <2>2, <2>5 DEF Item
<1> HIDE DEF Contents
<1>7. Contents' = Tail(Contents)
  BY <1>1, <1>3, <1>4, <1>6, HeadTailProperties, SeqEqual DEF ContentsShape
<1> QED
  BY <1>2, <1>4, <1>5, <1>7 DEF Fifo!Take

\* Every other step leaves the queue's contents alone: what it writes is the
\* writer's slot, or the head's on its way out.
LEMMA StepFifo ==
    ASSUME IInv, IInv', [Next]_vars
    PROVE  [Fifo!Next]_<<Contents, out>>
<1>1. ASSUME NEW p \in Producers, PublishWrite(p) PROVE Fifo!Next
  <2>1. wval[p] \in Values
    BY <1>1 DEF IInv, WriterHasRoom, PublishWrite
  <2> QED
    BY <1>1, <2>1, PutStep DEF Fifo!Next
<1>2. CASE PublishRead
  BY <1>2, TakeStep DEF Fifo!Next
<1>3. ASSUME UNCHANGED <<readIndex, writeIndex, out>>,
             \A n \in 1 .. Ahead(readIndex, writeIndex) : Item(n)' = Item(n)
      PROVE  UNCHANGED <<Contents, out>>
  BY <1>3, ContentsUnchanged
<1>4. ASSUME UNCHANGED <<readIndex, writeIndex, out, buffer, rval>>,
             rpc # "publish", rpc' # "publish"
      PROVE  UNCHANGED <<Contents, out>>
  BY <1>3, <1>4 DEF Item, Slot
<1>5. ASSUME NEW p \in Producers,
             BeginWrite(p) \/ EndWrite(p) \/ RefreshReadIndex(p)
             \/ \E v \in Values : TryPush(p, v)
      PROVE  UNCHANGED <<Contents, out>>
  <2>1. UNCHANGED <<readIndex, writeIndex, out, rpc, rval>>
    BY <1>5 DEF BeginWrite, EndWrite, RefreshReadIndex, TryPush
  <2>2. \A i \in Slots \ {writeIndex} : buffer'[i] = buffer[i]
    BY <1>5 DEF BeginWrite, EndWrite, RefreshReadIndex, TryPush, IInv, TypeOK, WriterHasRoom
  <2>3. \A n \in 1 .. Ahead(readIndex, writeIndex) : Item(n)' = Item(n)
    BY <2>1, <2>2, SlotFacts DEF Item, Slot
  <2> QED
    BY <1>3, <2>1, <2>3
<1>6. CASE TryPop \/ RefreshWriteIndex \/ BeginRead
  BY <1>4, <1>6 DEF TryPop, RefreshWriteIndex, BeginRead
<1>7. CASE EndRead
  <2>1. /\ UNCHANGED <<readIndex, writeIndex, out>> /\ rpc = "reading" /\ rpc' = "publish"
        /\ rval' = buffer[readIndex]
        /\ \A i \in Slots \ {readIndex} : buffer'[i] = buffer[i]
    BY <1>7 DEF EndRead, IInv, TypeOK
  <2>2. \A n \in 1 .. Ahead(readIndex, writeIndex) : Item(n)' = Item(n)
    BY <2>1, SlotFacts DEF Item, Slot
  <2> QED
    BY <1>3, <2>1, <2>2
<1>8. CASE UNCHANGED vars
  BY <1>3, <1>8 DEF vars, Item, Slot
<1> QED
  BY <1>1, <1>2, <1>5, <1>6, <1>7, <1>8 DEF Next, Producer, Consumer

\* For every capacity the ring is a bounded FIFO: no value is lost, repeated,
\* overtaken or handed out half written.
THEOREM Refinement == ASSUME SingleProducer PROVE Spec => ImplementsFifo
<1>1. IInv /\ IInv' /\ [Next]_vars => [Fifo!Next]_<<Contents, out>>
  BY StepFifo
<1> QED
  BY <1>1, InitFifo, Invariance, PTL DEF Spec, ImplementsFifo, Fifo!Spec
=============================================================================

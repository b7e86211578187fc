----------------------------- MODULE SPSCQueue -----------------------------
(***************************************************************************)
(* dro::SPSCQueue, the ring buffer between the libusb callback and the     *)
(* process thread, one action per access to memory that the other thread   *)
(* can see.  A ring of Capacity + 1 slots is shared through two atomic     *)
(* indices; each side keeps a cache of the other's index and reads the     *)
(* index itself only when the cache says full, or empty.                   *)
(*                                                                         *)
(* An acquire load may return any value the index has held since the one   *)
(* this thread saw last, not only the newest.  A slot is not atomic:       *)
(* writing it begins, leaving the slot torn, and ends.                     *)
(*                                                                         *)
(* The queue is meant for one producer.  Producers is a set because the    *)
(* streaming thread pushes from the callback and from stop().              *)
(***************************************************************************)
EXTENDS Naturals, Sequences

CONSTANTS Capacity,   \* the constructor's argument
          Values,
          Producers,  \* the threads that call try_push
          NoValue,    \* what a moved-from slot holds
          Torn        \* a slot in the middle of an assignment

ASSUME QueueAssumption ==
    /\ Capacity \in Nat \ {0}
    /\ NoValue \notin Values
    /\ Torn \notin Values \cup {NoValue}

VARIABLES
    writeIndex, readIndex,            \* the atomics
    readIndexCache, writeIndexCache,  \* what writer and reader saw last
    buffer,
    wpc, wpos, wval,                  \* per producer: control, local index, argument
    rpc, rval,                        \* the consumer: control and argument
    out                               \* the value the last try_pop returned

vars == <<writeIndex, readIndex, readIndexCache, writeIndexCache, buffer,
          wpc, wpos, wval, rpc, rval, out>>

-----------------------------------------------------------------------------
(* Indices *)

\* HeapBuffer's capacity_: one slot more than asked for.
Size == Capacity + 1
Slots == 0 .. Capacity

\* Mutant: the end of the ring is forgotten.
AfterUnwrapped(i) == i + 1

After(i) == IF i = Size - 1 THEN 0 ELSE i + 1

\* How many steps forward along the ring lead from i to j.
Ahead(i, j) == IF i <= j THEN j - i ELSE j + Size - i

\* What a load of an index may return to a thread that last saw it at "seen".
Loads(seen, index) == {i \in Slots : Ahead(seen, i) <= Ahead(seen, index)}

\* Mutant: the writer does not look where the reader is (force_push).
NeverFull(pos, cache) == FALSE

Full(pos, cache) == After(pos) = cache

\* Mutant: the reader does not look where the writer is.
NeverEmpty(pos, cache) == FALSE

Empty(pos, cache) == pos = cache

-----------------------------------------------------------------------------
Init ==
    /\ writeIndex = 0 /\ readIndex = 0
    /\ readIndexCache = 0 /\ writeIndexCache = 0
    /\ buffer = [i \in Slots |-> NoValue]
    /\ wpc = [p \in Producers |-> "idle"]
    /\ wpos = [p \in Producers |-> 0]
    /\ wval = [p \in Producers |-> NoValue]
    /\ rpc = "idle" /\ rval = NoValue /\ out = NoValue

-----------------------------------------------------------------------------
(* try_push, called by producer p *)

Goto(p, pc) == wpc' = [wpc EXCEPT ![p] = pc]

TryPush(p, v) ==
    /\ wpc[p] = "idle"
    /\ wpos' = [wpos EXCEPT ![p] = writeIndex]
    /\ wval' = [wval EXCEPT ![p] = v]
    /\ Goto(p, IF Full(writeIndex, readIndexCache) THEN "refresh" ELSE "write")
    /\ UNCHANGED <<writeIndex, readIndex, readIndexCache, writeIndexCache, buffer,
                   rpc, rval, out>>

\* The call returns false if the queue is full as far as the load can tell.
RefreshReadIndex(p) ==
    /\ wpc[p] = "refresh"
    /\ readIndexCache' \in Loads(readIndexCache, readIndex)
    /\ Goto(p, IF Full(wpos[p], readIndexCache') THEN "idle" ELSE "write")
    /\ UNCHANGED <<writeIndex, readIndex, writeIndexCache, buffer, wpos, wval,
                   rpc, rval, out>>

BeginWrite(p) ==
    /\ wpc[p] = "write"
    /\ buffer' = [buffer EXCEPT ![wpos[p]] = Torn]
    /\ Goto(p, "writing")
    /\ UNCHANGED <<writeIndex, readIndex, readIndexCache, writeIndexCache, wpos, wval,
                   rpc, rval, out>>

EndWrite(p) ==
    /\ wpc[p] = "writing"
    /\ buffer' = [buffer EXCEPT ![wpos[p]] = wval[p]]
    /\ Goto(p, "publish")
    /\ UNCHANGED <<writeIndex, readIndex, readIndexCache, writeIndexCache, wpos, wval,
                   rpc, rval, out>>

PublishWrite(p) ==
    /\ wpc[p] = "publish"
    /\ writeIndex' = After(wpos[p])
    /\ Goto(p, "idle")
    /\ UNCHANGED <<readIndex, readIndexCache, writeIndexCache, buffer, wpos, wval,
                   rpc, rval, out>>

-----------------------------------------------------------------------------
(* try_pop, called by the process thread *)

TryPop ==
    /\ rpc = "idle"
    /\ rpc' = IF Empty(readIndex, writeIndexCache) THEN "refresh" ELSE "read"
    /\ UNCHANGED <<writeIndex, readIndex, readIndexCache, writeIndexCache, buffer,
                   wpc, wpos, wval, rval, out>>

RefreshWriteIndex ==
    /\ rpc = "refresh"
    /\ writeIndexCache' \in Loads(writeIndexCache, writeIndex)
    /\ rpc' = IF Empty(readIndex, writeIndexCache') THEN "idle" ELSE "read"
    /\ UNCHANGED <<writeIndex, readIndex, readIndexCache, buffer, wpc, wpos, wval,
                   rval, out>>

BeginRead ==
    /\ rpc = "read"
    /\ rpc' = "reading"
    /\ UNCHANGED <<writeIndex, readIndex, readIndexCache, writeIndexCache, buffer,
                   wpc, wpos, wval, rval, out>>

\* The value is moved out of the slot.
EndRead ==
    /\ rpc = "reading"
    /\ rval' = buffer[readIndex]
    /\ buffer' = [buffer EXCEPT ![readIndex] = NoValue]
    /\ rpc' = "publish"
    /\ UNCHANGED <<writeIndex, readIndex, readIndexCache, writeIndexCache,
                   wpc, wpos, wval, out>>

PublishRead ==
    /\ rpc = "publish"
    /\ readIndex' = After(readIndex)
    /\ out' = rval
    /\ rpc' = "idle"
    /\ UNCHANGED <<writeIndex, readIndexCache, writeIndexCache, buffer,
                   wpc, wpos, wval, rval>>

-----------------------------------------------------------------------------
Producer(p) ==
    \/ \E v \in Values : TryPush(p, v)
    \/ RefreshReadIndex(p)
    \/ BeginWrite(p)
    \/ EndWrite(p)
    \/ PublishWrite(p)

Consumer ==
    \/ TryPop
    \/ RefreshWriteIndex
    \/ BeginRead
    \/ EndRead
    \/ PublishRead

Next == (\E p \in Producers : Producer(p)) \/ Consumer

Spec == Init /\ [][Next]_vars

-----------------------------------------------------------------------------
(* Properties *)

\* Indices stay inside the ring and a value on its way out was once pushed.
TypeOK ==
    /\ {writeIndex, readIndex, readIndexCache, writeIndexCache} \subseteq Slots
    /\ buffer \in [Slots -> Values \cup {NoValue, Torn}]
    /\ wpc \in [Producers -> {"idle", "refresh", "write", "writing", "publish"}]
    /\ wpos \in [Producers -> Slots]
    /\ wval \in [Producers -> Values \cup {NoValue}]
    /\ rpc \in {"idle", "refresh", "read", "reading", "publish"}
    /\ rval \in Values \cup {NoValue, Torn}
    /\ out \in Values \cup {NoValue, Torn}

\* The threads' accesses to slots are not synchronised by anything but the indices:
\* no two of them are ever inside the same slot.
NoSlotRace ==
    /\ \A p \in Producers : wpc[p] = "writing" /\ rpc = "reading" => wpos[p] # readIndex
    /\ \A p, q \in Producers :
          p # q /\ wpc[p] = "writing" /\ wpc[q] = "writing" => wpos[p] # wpos[q]

\* Each side's cache lags behind the other's index and never overtakes it: going
\* round the ring one meets the writer's idea of the reader, the reader, the
\* reader's idea of the writer and the writer, in this order.
CachesLag ==
    /\ Ahead(readIndexCache, readIndex) + Ahead(readIndex, writeIndex)
          = Ahead(readIndexCache, writeIndex)
    /\ Ahead(readIndex, writeIndexCache) + Ahead(writeIndexCache, writeIndex)
          = Ahead(readIndex, writeIndex)

\* The ring implements a bounded FIFO.  A push takes effect when writeIndex is
\* stored, a pop when readIndex is; until then the value popped, already moved out
\* of its slot, is still at the head of the queue.
Contents ==
    [n \in 1 .. Ahead(readIndex, writeIndex) |->
        IF n = 1 /\ rpc = "publish" THEN rval
        ELSE buffer[IF readIndex + n - 1 < Size THEN readIndex + n - 1
                    ELSE readIndex + n - 1 - Size]]

Fifo == INSTANCE BoundedFifo WITH queue <- Contents

ImplementsFifo == Fifo!Spec
=============================================================================

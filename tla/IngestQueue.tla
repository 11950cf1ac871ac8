----------------------------- MODULE IngestQueue -----------------------------
(***************************************************************************)
(* The lock-free single-producer single-consumer ring that carries raw     *)
(* frames from the WebSocket thread to the consumer thread                 *)
(* (include/ingest_queue.h, src/ingest_queue.cpp).                         *)
(*                                                                         *)
(* head_ and tail_ are machine integers: they wrap at IndexMod, 2^64 in    *)
(* the build.  Every access to memory the two threads share is a step of   *)
(* its own.  An acquire load of the other side's index returns any value   *)
(* that index has held since the one this thread last saw, which is what   *)
(* release/acquire ordering allows; the load of a thread's own index is    *)
(* exact and taken together with it.                                       *)
(*                                                                         *)
(* Frames are identified by their rank among the accepted ones: the ring   *)
(* copies payloads without looking at them.  pushed, popped, seenTail and  *)
(* seenHead are history: they count operations and name what was seen, and *)
(* no test of the code reads them.                                         *)
(***************************************************************************)
EXTENDS Integers, Sequences

CONSTANTS Capacity,     \* buf_.size(), a power of two
          IndexMod,     \* number of values of std::size_t
          MaxFrames,    \* bound: frames accepted between two clear() calls
          SizeCallers   \* who calls size()/empty()/full()

ASSUME QueueAssumption ==
    /\ Capacity \in Nat \ {0}
    /\ IndexMod \in Nat \ {0}
    /\ IndexMod % Capacity = 0
    /\ Capacity < IndexMod
    /\ MaxFrames \in Nat
    /\ SizeCallers \subseteq {"producer", "consumer", "monitor"}

VARIABLES
    buf,        \* the slots; NoFrame in a slot never written or moved from
    head,       \* head_, write index
    tail,       \* tail_, read index
    ppc,        \* producer: "idle", or inside try_push at "write", "publish"
    pHead,      \* try_push's local head
    cpc,        \* consumer: "idle", or inside try_pop at "take", "release"
    cTail,      \* try_pop's local tail
    out,        \* the string try_pop moves the frame into
    sizer,      \* who is between the two loads of size(), or "none"
    sizeHead,   \* size()'s local head
    pushed,     \* history: frames accepted since the last clear
    popped,     \* history: frames released since the last clear
    seenTail,   \* history: value of popped the producer last observed
    seenHead    \* history: value of pushed the consumer last observed

prodVars == <<ppc, pHead, pushed, seenTail>>
consVars == <<cpc, cTail, out, popped, seenHead>>
sizeVars == <<sizer, sizeHead>>
vars == <<buf, head, tail, ppc, pHead, cpc, cTail, out,
          sizer, sizeHead, pushed, popped, seenTail, seenHead>>

NoFrame == -1

\* The index value after n increments from zero.
Index(n) == n % IndexMod

\* index & mask_
Slot(i) == i % Capacity

\* head - tail in unsigned arithmetic.
Distance_NoWrap(h, t) == IF h >= t THEN h - t ELSE 0
Distance(h, t) == (h - t) % IndexMod

Init ==
    /\ buf = [i \in 0 .. Capacity - 1 |-> NoFrame]
    /\ head = 0 /\ tail = 0
    /\ ppc = "idle" /\ pHead = 0
    /\ cpc = "idle" /\ cTail = 0 /\ out = NoFrame
    /\ sizer = "none" /\ sizeHead = 0
    /\ pushed = 0 /\ popped = 0 /\ seenTail = 0 /\ seenHead = 0

-----------------------------------------------------------------------------
(* try_push, on the producer thread. *)

ProducerReady == ppc = "idle" /\ sizer # "producer" /\ pushed < MaxFrames

\* Full: return false, the caller keeps or drops the frame.
TryPushFull ==
    /\ ProducerReady
    /\ \E n \in seenTail .. popped :
          /\ Distance(head, Index(n)) = Capacity
          /\ seenTail' = n
    /\ UNCHANGED <<buf, head, tail, ppc, pHead, pushed, consVars, sizeVars>>

TryPushBegin_FullOffByOne ==
    /\ ProducerReady
    /\ \E n \in seenTail .. popped :
          /\ Distance(head, Index(n)) # Capacity + 1
          /\ seenTail' = n
    /\ pHead' = head
    /\ ppc' = "write"
    /\ UNCHANGED <<buf, head, tail, pushed, consVars, sizeVars>>
TryPushBegin ==
    /\ ProducerReady
    /\ \E n \in seenTail .. popped :
          /\ Distance(head, Index(n)) # Capacity
          /\ seenTail' = n
    /\ pHead' = head
    /\ ppc' = "write"
    /\ UNCHANGED <<buf, head, tail, pushed, consVars, sizeVars>>

TryPushWrite ==
    /\ ppc = "write"
    /\ buf' = [buf EXCEPT ![Slot(pHead)] = pushed]
    /\ ppc' = "publish"
    /\ UNCHANGED <<head, tail, pHead, pushed, seenTail, consVars, sizeVars>>

TryPushPublish_NoWrap ==
    /\ ppc = "publish"
    /\ head' = pHead + 1
    /\ pushed' = pushed + 1
    /\ ppc' = "idle"
    /\ UNCHANGED <<buf, tail, pHead, seenTail, consVars, sizeVars>>
TryPushPublish ==
    /\ ppc = "publish"
    /\ head' = (pHead + 1) % IndexMod
    /\ pushed' = pushed + 1
    /\ ppc' = "idle"
    /\ UNCHANGED <<buf, tail, pHead, seenTail, consVars, sizeVars>>

-----------------------------------------------------------------------------
(* try_pop, on the consumer thread. *)

ConsumerReady == cpc = "idle" /\ sizer # "consumer"

\* Empty: return false.
TryPopEmpty ==
    /\ ConsumerReady
    /\ \E n \in seenHead .. pushed :
          /\ Index(n) = tail
          /\ seenHead' = n
    /\ UNCHANGED <<buf, head, tail, cpc, cTail, out, popped, prodVars, sizeVars>>

\* The ring compared by slot: a full ring looks empty.
TryPopBegin_CompareSlots ==
    /\ ConsumerReady
    /\ \E n \in seenHead .. pushed :
          /\ Slot(Index(n)) # Slot(tail)
          /\ seenHead' = n
    /\ cTail' = tail
    /\ cpc' = "take"
    /\ UNCHANGED <<buf, head, tail, out, popped, prodVars, sizeVars>>
TryPopBegin ==
    /\ ConsumerReady
    /\ \E n \in seenHead .. pushed :
          /\ Index(n) # tail
          /\ seenHead' = n
    /\ cTail' = tail
    /\ cpc' = "take"
    /\ UNCHANGED <<buf, head, tail, out, popped, prodVars, sizeVars>>

TryPopTake ==
    /\ cpc = "take"
    /\ out' = buf[Slot(cTail)]
    /\ buf' = [buf EXCEPT ![Slot(cTail)] = NoFrame]
    /\ cpc' = "release"
    /\ UNCHANGED <<head, tail, cTail, popped, seenHead, prodVars, sizeVars>>

TryPopRelease ==
    /\ cpc = "release"
    /\ tail' = (cTail + 1) % IndexMod
    /\ popped' = popped + 1
    /\ cpc' = "idle"
    /\ UNCHANGED <<buf, head, cTail, out, seenHead, prodVars, sizeVars>>

-----------------------------------------------------------------------------
(* size(), and empty() and full() that call it: two loads, head_ first.    *)
(* A caller that is the producer or the consumer knows its own index; a    *)
(* monitor is a third thread, modelled as always seeing the latest value.  *)

VisibleHeads(c) == IF c = "consumer" THEN seenHead .. pushed ELSE {pushed}
VisibleTails(c) == IF c = "producer" THEN seenTail .. popped ELSE {popped}

SizeLoadHead(c) ==
    /\ sizer = "none"
    /\ c = "producer" => ppc = "idle"
    /\ c = "consumer" => cpc = "idle"
    /\ \E n \in VisibleHeads(c) :
          /\ sizeHead' = Index(n)
          /\ seenHead' = IF c = "consumer" THEN n ELSE seenHead
    /\ sizer' = c
    /\ UNCHANGED <<buf, head, tail, cpc, cTail, out, popped, prodVars>>

\* The value returned is Distance(sizeHead, Index(n)).
SizeLoadTail ==
    /\ sizer # "none"
    /\ \E n \in VisibleTails(sizer) :
          seenTail' = IF sizer = "producer" THEN n ELSE seenTail
    /\ sizer' = "none"
    /\ sizeHead' = 0
    /\ UNCHANGED <<buf, head, tail, ppc, pHead, pushed, consVars>>

-----------------------------------------------------------------------------
\* clear(): "only safe when both threads paused", so both are outside a call.
Clear ==
    /\ ppc = "idle" /\ cpc = "idle" /\ sizer = "none"
    /\ head' = 0 /\ tail' = 0
    /\ buf' = [i \in 0 .. Capacity - 1 |-> NoFrame]
    /\ pushed' = 0 /\ popped' = 0 /\ seenTail' = 0 /\ seenHead' = 0
    /\ UNCHANGED <<ppc, pHead, cpc, cTail, out, sizeVars>>

Producer == TryPushFull \/ TryPushBegin \/ TryPushWrite \/ TryPushPublish
Consumer == TryPopEmpty \/ TryPopBegin \/ TryPopTake \/ TryPopRelease
Monitor  == (\E c \in SizeCallers : SizeLoadHead(c)) \/ SizeLoadTail

Next == Producer \/ Consumer \/ Monitor \/ Clear

Spec == Init /\ [][Next]_vars

(* The consumer polls without end (src/consumer.cpp:23-26), whatever size() *)
(* calls come in between, and a store becomes visible in finite time; the  *)
(* producer owes nothing once it has returned.                             *)
Fairness == /\ WF_vars(TryPushWrite) /\ WF_vars(TryPushPublish)
            /\ SF_vars(TryPopBegin) /\ WF_vars(TryPopTake)
            /\ WF_vars(TryPopRelease) /\ WF_vars(SizeLoadTail)

FairSpec == Spec /\ Fairness

-----------------------------------------------------------------------------
(* Properties *)

\* The variables stay in their machine ranges.
TypeOK ==
    /\ buf \in [0 .. Capacity - 1 -> Nat \cup {NoFrame}]
    /\ head \in 0 .. IndexMod - 1
    /\ tail \in 0 .. IndexMod - 1
    /\ ppc \in {"idle", "write", "publish"}
    /\ pHead \in 0 .. IndexMod - 1
    /\ cpc \in {"idle", "take", "release"}
    /\ cTail \in 0 .. IndexMod - 1
    /\ out \in Nat \cup {NoFrame}
    /\ sizer \in SizeCallers \cup {"none"}
    /\ sizeHead \in 0 .. IndexMod - 1
    /\ pushed \in Nat /\ popped \in Nat
    /\ seenTail \in Nat /\ seenHead \in Nat

\* Every frame accepted and not yet released sits in its own slot, unharmed,
\* whatever the producer is doing: no accepted frame is overwritten.  The one
\* exception is the oldest, which the consumer may already hold in out.
QueuedFramesIntact ==
    \A k \in popped .. pushed - 1 :
        \/ buf[Slot(Index(k))] = k
        \/ k = popped /\ cpc = "release" /\ out = k

\* A pop hands out exactly the next frame in acceptance order: none skipped,
\* none twice, never a moved-from string.
PopsInOrder == cpc = "release" => out = popped

\* The producer's slot write and the consumer's slot move never touch the
\* same slot: the ring has no data race although it has no lock.
NoSlotRace ==
    ppc = "write" /\ cpc = "take" => Slot(pHead) # Slot(cTail)

\* The full and empty tests of the code, done on wrapped indices, say what
\* the unbounded counts say, for every value a load can return.
TestsExact ==
    /\ \A n \in seenTail .. popped :
          (Distance(head, Index(n)) = Capacity) <=> (pushed - n = Capacity)
    /\ \A n \in seenHead .. pushed :
          (Index(n) = tail) <=> (n = popped)

\* The inductive invariant behind the properties above: what each side has
\* seen is old but never wrong, so the room and the frames it acts on exist.
CountsOrdered ==
    /\ seenTail <= popped /\ popped <= seenHead /\ seenHead <= pushed
    /\ pushed - seenTail <= Capacity
IndicesMatchCounts == head = Index(pushed) /\ tail = Index(popped)
ProducerInv ==
    /\ ppc # "idle" => /\ pHead = head
                       /\ pushed - seenTail < Capacity
                       /\ pushed < MaxFrames
    /\ ppc = "publish" => buf[Slot(pHead)] = pushed
ConsumerInv ==
    cpc # "idle" => cTail = tail /\ popped < seenHead
SizerInv ==
    /\ sizer = "producer" => ppc = "idle" /\ sizeHead = Index(pushed)
    /\ sizer = "consumer" => cpc = "idle" /\ sizeHead = Index(seenHead)
IInv == /\ TypeOK
        /\ CountsOrdered
        /\ IndicesMatchCounts
        /\ ProducerInv
        /\ ConsumerInv
        /\ SizerInv
        /\ QueuedFramesIntact
        /\ PopsInOrder

\* size() as seen by its caller is at most the capacity, whichever value its
\* second load returns.  True of the producer and of the consumer.
SizeWithinCapacity ==
    sizer # "none" =>
        \A n \in VisibleTails(sizer) : Distance(sizeHead, Index(n)) <= Capacity

\* Every frame accepted is eventually handed out, unless clear() discards it.
EveryFrameDelivered ==
    \A k \in 0 .. MaxFrames - 1 : (pushed > k) ~> (popped > k \/ pushed <= k)

\* The ring implements the bounded queue of BoundedFifo.  A push takes effect
\* when head_ is stored, a pop when the frame is moved out; the contents are
\* read from the slots between the indices.
OldestIndex == IF cpc = "release" THEN Index(tail + 1) ELSE tail
Contents == [i \in 1 .. Distance(head, OldestIndex) |->
                buf[Slot(OldestIndex + i - 1)]]
Fifo == INSTANCE BoundedFifo WITH items <- Contents, taken <- out,
                                  Frames <- 0 .. MaxFrames
ImplementsFifo == Fifo!FifoSpec
==============================================================================

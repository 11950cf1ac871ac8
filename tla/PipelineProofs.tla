--------------------------- MODULE PipelineProofs ---------------------------
(***************************************************************************)
(* Proofs about Pipeline, for any capacity, any instruments and prefixes   *)
(* and any number of frames.                                               *)
(***************************************************************************)
EXTENDS Pipeline, SequenceTheorems, TLAPS

\* The controller, the flag and the consumer thread agree.
ThreadInv ==
    /\ ctl = "idle" => \/ running /\ cpc \in {"test", "pop", "handle", "sink"}
                       \/ ~running /\ cpc = "none"
    /\ ctl = "spawn" => running /\ cpc = "none"
    /\ ctl = "join" => ~running /\ cpc # "none"

\* The queue is what has been accepted and not popped.
QueueInv ==
    /\ pops \in 0 .. Len(accepted) /\ seenPops \in 0 .. pops
    /\ seenPushes \in pops .. Len(accepted)
    /\ Len(queue) = Len(accepted) - pops /\ Len(queue) <= Capacity
    /\ \A i \in 1 .. Len(queue) : queue[i] = accepted[pops + i]
    /\ cpc = "handle" => pops >= 1 /\ msg = accepted[pops]

\* Frames are accepted in the order of their events.
EventsGrow ==
    /\ \A i \in 1 .. Len(accepted) : accepted[i].event <= delivered
    /\ \A i, j \in 1 .. Len(accepted) : i < j => accepted[i].event < accepted[j].event

\* The number of frames handled; frame k has a quote of token t.
done == IF cpc = "handle" THEN pops - 1 ELSE pops
Names(k, t) == Parses(accepted[k]) /\ Parse(accepted[k]).token = t

\* A token's entry is the quote of the last handled frame that names it.
EntryOf(t, n) ==
    \/ table[t] = Absent /\ \A k \in 1 .. n : ~Names(k, t)
    \/ \E k \in 1 .. n : /\ Names(k, t) /\ table[t] = Parse(accepted[k])
                         /\ \A j \in k + 1 .. n : ~Names(j, t)
TableInv == \A t \in Tokens : EntryOf(t, done)

IInv == TypeOK /\ ThreadInv /\ QueueInv /\ EventsGrow /\ TableInv

LEMMA ParseType ==
    ASSUME NEW f \in Frames, Parses(f)
    PROVE  Parse(f) \in Quotes /\ Parse(f).token \in Tokens /\ Parse(f).ltp = f.event
  BY DEF Frames, Parses, Parse, Quotes, Tokens

LEMMA InitIInv == Init => IInv
  <1> SUFFICES ASSUME Init PROVE IInv
    OBVIOUS
  <1>1. queue = <<>> /\ msg = Absent /\ accepted = <<>>
    BY DEF Init, Queue!FifoInit
  <1>2. TypeOK
    <2>1. 0 \in 0 .. MaxFrames /\ Capacity \in Nat
      BY PipelineAssumption
    <2>2. queue \in Seq(Frames) /\ accepted \in Seq(Frames)
      BY <1>1
    <2>3. table \in [Tokens -> Quotes \cup {Absent}]
      BY DEF Init
    <2>4. QED BY <1>1, <2>1, <2>2, <2>3 DEF Init, TypeOK
  <1>3. Len(accepted) = 0 /\ Len(queue) = 0 /\ Capacity \in Nat
    BY <1>1, PipelineAssumption
  <1>4. ThreadInv
    BY DEF Init, ThreadInv
  <1>5. QueueInv /\ EventsGrow
    BY <1>3 DEF Init, QueueInv, EventsGrow
  <1>6. TableInv
    BY DEF Init, TableInv, EntryOf, done
  <1> QED BY <1>2, <1>4, <1>5, <1>6 DEF IInv

\* Appending to what was accepted changes no entry.
LEMMA AcceptedPrefix ==
    ASSUME IInv, NEW f \in Frames, accepted' = Append(accepted, f)
    PROVE  /\ accepted' \in Seq(Frames) /\ Len(accepted') = Len(accepted) + 1
           /\ Len(accepted) \in Nat
           /\ \A i \in 1 .. Len(accepted) : accepted'[i] = accepted[i]
           /\ accepted'[Len(accepted) + 1] = f
  BY DEF IInv, TypeOK

LEMMA StepFeedAccept ==
    ASSUME IInv, FeedAccept
    PROVE  IInv'
  <1>1. PICK body \in RawTokens \cup {Garbage}, n \in seenPops .. pops :
           /\ Len(accepted) - n < Capacity /\ seenPops' = n
           /\ accepted' = Append(accepted, NextFrame(body))
           /\ Queue!Push(NextFrame(body))
    BY DEF FeedAccept
  <1> DEFINE f == NextFrame(body)
  <1>2. /\ delivered < MaxFrames /\ delivered' = delivered + 1
        /\ UNCHANGED <<table, running, cpc, quote, ctl, pops, seenPushes>>
    BY DEF FeedAccept, popVars
  <1>3. /\ delivered \in Nat /\ MaxFrames \in Nat /\ Capacity \in Nat
        /\ pops \in Nat /\ seenPops \in Nat /\ seenPushes \in Nat /\ delivered <= MaxFrames
    BY PipelineAssumption DEF IInv, TypeOK
  <1>4. f \in Frames /\ f.event = delivered + 1
    BY <1>2, <1>3 DEF NextFrame, Frames
  <1> HIDE DEF f
  <1>5. /\ accepted' \in Seq(Frames) /\ Len(accepted') = Len(accepted) + 1
        /\ Len(accepted) \in Nat
        /\ \A i \in 1 .. Len(accepted) : accepted'[i] = accepted[i]
        /\ accepted'[Len(accepted) + 1] = f
    BY <1>1, <1>4, AcceptedPrefix DEF f
  <1>6. Len(queue) < Capacity /\ queue' = Append(queue, f) /\ msg' = msg
    BY <1>1 DEF Queue!Push, f
  <1>7. /\ queue' \in Seq(Frames) /\ Len(queue') = Len(queue) + 1 /\ Len(queue) \in Nat
        /\ \A i \in 1 .. Len(queue) : queue'[i] = queue[i]
        /\ queue'[Len(queue) + 1] = f
    BY <1>4, <1>6 DEF IInv, TypeOK
  <1>8. TypeOK'
    BY <1>1, <1>2, <1>3, <1>5, <1>6, <1>7 DEF IInv, TypeOK
  <1>9. ThreadInv'
    BY <1>2 DEF IInv, ThreadInv
  <1>10. QueueInv'
    <2>1. /\ pops' \in 0 .. Len(accepted') /\ seenPops' \in 0 .. pops'
          /\ seenPushes' \in pops' .. Len(accepted')
      BY <1>1, <1>2, <1>3, <1>5 DEF IInv, QueueInv
    <2>2. Len(queue') = Len(accepted') - pops' /\ Len(queue') <= Capacity
      BY <1>2, <1>3, <1>5, <1>6, <1>7 DEF IInv, QueueInv
    <2>3. ASSUME NEW i \in 1 .. Len(queue') PROVE queue'[i] = accepted'[pops' + i]
      <3>1. CASE i \in 1 .. Len(queue)
        <4>1. pops + i \in 1 .. Len(accepted) /\ queue[i] = accepted[pops + i]
          BY <3>1, <1>3, <1>5, <1>7 DEF IInv, QueueInv
        <4>2. QED BY <3>1, <4>1, <1>2, <1>5, <1>7
      <3>2. CASE i = Len(queue) + 1
        <4>1. pops + i = Len(accepted) + 1
          BY <3>2, <1>3, <1>5, <1>7 DEF IInv, QueueInv
        <4>2. QED BY <3>2, <4>1, <1>2, <1>5, <1>7
      <3>3. QED BY <3>1, <3>2, <1>7
    <2>4. cpc' = "handle" => pops' >= 1 /\ msg' = accepted'[pops']
      BY <1>2, <1>3, <1>5, <1>6 DEF IInv, QueueInv
    <2>5. QED BY <2>1, <2>2, <2>3, <2>4 DEF QueueInv
  <1>11. EventsGrow'
    <2>1. \A i \in 1 .. Len(accepted') : i \in 1 .. Len(accepted) \/ i = Len(accepted) + 1
      BY <1>5
    <2>2. \A i \in 1 .. Len(accepted) : accepted[i].event \in Nat
      <3>1. \A i \in 1 .. Len(accepted) : accepted[i] \in Frames
        BY DEF IInv, TypeOK
      <3>2. QED BY <3>1 DEF Frames
    <2>3. \A i \in 1 .. Len(accepted) :
             accepted'[i] = accepted[i] /\ accepted'[i].event \in Nat /\ accepted'[i].event <= delivered
      BY <2>2, <1>5 DEF IInv, EventsGrow
    <2>4. accepted'[Len(accepted) + 1].event = delivered + 1
      BY <1>4, <1>5
    <2>5. \A i \in 1 .. Len(accepted') : accepted'[i].event <= delivered'
      BY <2>1, <2>3, <2>4, <1>2, <1>3
    <2>6. ASSUME NEW i \in 1 .. Len(accepted'), NEW j \in 1 .. Len(accepted'), i < j
          PROVE  accepted'[i].event < accepted'[j].event
      <3>1. i \in 1 .. Len(accepted)
        BY <2>6, <1>5
      <3>2. CASE j \in 1 .. Len(accepted)
        BY <2>3, <2>6, <3>1, <3>2 DEF IInv, EventsGrow
      <3>3. CASE j = Len(accepted) + 1
        BY <2>3, <2>4, <3>1, <3>3, <1>3
      <3>4. QED BY <2>1, <3>2, <3>3
    <2>7. QED BY <2>5, <2>6 DEF EventsGrow
  <1>12. TableInv'
    <2>1. done' = done /\ done <= Len(accepted) /\ done \in Int
      BY <1>2, <1>3, <1>5 DEF IInv, QueueInv, done
    <2>2. \A k \in 1 .. done : accepted'[k] = accepted[k]
      BY <2>1, <1>5
    <2>3. \A t \in Tokens : EntryOf(t, done)
      BY DEF IInv, TableInv
    <2>4. \A t \in Tokens : EntryOf(t, done)'
      <3> SUFFICES ASSUME NEW t \in Tokens PROVE EntryOf(t, done)'
        OBVIOUS
      <3>1. EntryOf(t, done)
        BY <2>3
      <3>2. \A k \in 1 .. done : (Names(k, t)' <=> Names(k, t)) /\ Parse(accepted[k])' = Parse(accepted[k])
        BY <2>2 DEF Names, Parses, Parse
      <3>3. table' = table
        BY <1>2
      <3>4. \A k \in 1 .. done : \A j \in k + 1 .. done : j \in 1 .. done
        BY <2>1
      <3>5. QED BY <2>1, <3>1, <3>2, <3>3, <3>4 DEF EntryOf
    <2>5. QED BY <2>4 DEF TableInv
  <1> QED BY <1>8, <1>9, <1>10, <1>11, <1>12 DEF IInv

\* The steps that neither accept, pop nor handle a frame.
LEMMA StepQuiet ==
    ASSUME IInv,
           \/ FeedDrop \/ Controller \/ LoopTest \/ PopNothing \/ CallSink
           \/ UNCHANGED vars
    PROVE  IInv'
  <1>1. UNCHANGED <<queue, table, quote, accepted, pops, seenPushes>>
    BY DEF FeedDrop, Controller, StartExchange, StartSpawn, StopExchange, StopJoin,
           LoopTest, PopNothing, CallSink, vars, feedVars, popVars
  <1>2. ThreadInv' /\ cpc' \in {"none", "test", "pop", "handle", "sink", "exited"}
        /\ ctl' \in {"idle", "spawn", "join"} /\ running' \in BOOLEAN
    <2>1. CASE FeedDrop
      BY <2>1 DEF FeedDrop, IInv, ThreadInv, TypeOK
    <2>2. CASE StartExchange
      BY <2>2 DEF StartExchange, IInv, ThreadInv, TypeOK
    <2>3. CASE StartSpawn
      BY <2>3 DEF StartSpawn, IInv, ThreadInv, TypeOK
    <2>4. CASE StopExchange
      BY <2>4 DEF StopExchange, IInv, ThreadInv, TypeOK
    <2>5. CASE StopJoin
      BY <2>5 DEF StopJoin, IInv, ThreadInv, TypeOK
    <2>6. CASE LoopTest
      BY <2>6 DEF LoopTest, IInv, ThreadInv, TypeOK
    <2>7. CASE PopNothing
      BY <2>7 DEF PopNothing, SeesNothing, IInv, ThreadInv, TypeOK
    <2>8. CASE CallSink
      BY <2>8 DEF CallSink, IInv, ThreadInv, TypeOK
    <2>9. CASE UNCHANGED vars
      BY <2>9 DEF vars, IInv, ThreadInv, TypeOK
    <2>10. QED BY <2>1, <2>2, <2>3, <2>4, <2>5, <2>6, <2>7, <2>8, <2>9 DEF Controller
  <1>3. \/ cpc' = "handle" /\ cpc = "handle" /\ msg' = msg
        \/ cpc' # "handle" /\ cpc # "handle"
    BY DEF FeedDrop, Controller, StartExchange, StartSpawn, StopExchange, StopJoin,
           LoopTest, PopNothing, SeesNothing, CallSink, vars, feedVars, IInv, ThreadInv
  <1>4. msg' = msg \/ msg' = Absent
    BY DEF FeedDrop, Controller, StartExchange, StartSpawn, StopExchange, StopJoin,
           LoopTest, PopNothing, CallSink, vars, feedVars, popVars
  <1>5. /\ delivered' \in 0 .. MaxFrames /\ delivered <= delivered' /\ delivered \in Nat
        /\ seenPops' \in 0 .. pops /\ pops \in Nat
    <2>1. pops \in Nat /\ seenPops \in 0 .. pops /\ delivered \in 0 .. MaxFrames /\ MaxFrames \in Nat
      BY PipelineAssumption DEF IInv, TypeOK, QueueInv
    <2>2. CASE FeedDrop
      BY <2>1, <2>2 DEF FeedDrop
    <2>3. CASE ~FeedDrop
      BY <2>1, <2>3 DEF Controller, StartExchange, StartSpawn, StopExchange, StopJoin,
           LoopTest, PopNothing, CallSink, vars, feedVars, popVars
    <2>4. QED BY <2>2, <2>3
  <1>6. TypeOK'
    <2>1. queue' \in Seq(Frames) /\ accepted' \in Seq(Frames) /\ msg' \in Frames \cup {Absent}
      BY <1>1, <1>4 DEF IInv, TypeOK
    <2>2. /\ table' \in [Tokens -> Quotes \cup {Absent}] /\ quote' \in Quotes \cup {Absent}
          /\ pops' \in Nat /\ seenPops' \in Nat /\ seenPushes' \in Nat
      BY <1>1, <1>5 DEF IInv, TypeOK
    <2>3. QED BY <1>2, <1>5, <2>1, <2>2, Zenon DEF TypeOK
  <1>7. QueueInv'
    BY <1>1, <1>3, <1>5 DEF IInv, QueueInv
  <1>8. EventsGrow'
    <2>1. \A i \in 1 .. Len(accepted) : accepted[i].event \in Nat
      <3>1. \A i \in 1 .. Len(accepted) : accepted[i] \in Frames
        BY DEF IInv, TypeOK
      <3>2. QED BY <3>1 DEF Frames
    <2>2. QED BY <2>1, <1>1, <1>5 DEF IInv, EventsGrow
  <1>9. TableInv'
    <2>1. done' = done
      BY <1>1, <1>3 DEF done
    <2>2. QED BY <1>1, <2>1 DEF IInv, TableInv, EntryOf, Names, Parses, Parse
  <1> QED BY <1>2, <1>6, <1>7, <1>8, <1>9 DEF IInv

LEMMA StepPopFrame ==
    ASSUME IInv, PopFrame
    PROVE  IInv'
  <1>1. /\ cpc = "pop" /\ cpc' = "handle" /\ pops' = pops + 1
        /\ seenPushes' \in seenPushes .. Len(accepted) /\ seenPushes' # pops
        /\ UNCHANGED <<table, running, quote, ctl, delivered, accepted, seenPops>>
    BY DEF PopFrame, SeesFrame, feedVars
  <1>2. queue # <<>> /\ msg' = Head(queue) /\ queue' = Tail(queue)
    BY DEF PopFrame, Queue!Pop
  <1>3. /\ queue \in Seq(Frames) /\ accepted \in Seq(Frames)
        /\ pops \in Nat /\ seenPops \in Nat /\ seenPushes \in Nat
        /\ Len(accepted) \in Nat /\ Capacity \in Nat
    BY PipelineAssumption DEF IInv, TypeOK
  <1>4. /\ Len(queue) \in Nat \ {0} /\ Head(queue) = queue[1] /\ Head(queue) \in Frames
        /\ Tail(queue) \in Seq(Frames) /\ Len(Tail(queue)) = Len(queue) - 1
        /\ \A i \in 1 .. Len(queue) - 1 : Tail(queue)[i] = queue[i + 1]
    BY <1>2, <1>3, HeadTailProperties, EmptySeq
  <1>5. TypeOK'
    BY <1>1, <1>2, <1>3, <1>4 DEF IInv, TypeOK
  <1>6. ThreadInv'
    BY <1>1 DEF IInv, ThreadInv
  <1>7. QueueInv'
    <2>1. /\ pops' \in 0 .. Len(accepted') /\ seenPops' \in 0 .. pops'
          /\ seenPushes' \in pops' .. Len(accepted')
      BY <1>1, <1>3, <1>4 DEF IInv, QueueInv
    <2>2. Len(queue') = Len(accepted') - pops' /\ Len(queue') <= Capacity
      BY <1>1, <1>2, <1>3, <1>4 DEF IInv, QueueInv
    <2>3. ASSUME NEW i \in 1 .. Len(queue') PROVE queue'[i] = accepted'[pops' + i]
      <3>1. i \in 1 .. Len(queue) - 1 /\ i + 1 \in 1 .. Len(queue) /\ pops + (i + 1) = (pops + 1) + i
        BY <1>2, <1>3, <1>4
      <3>2. queue[i + 1] = accepted[pops + (i + 1)]
        BY <3>1 DEF IInv, QueueInv
      <3>3. QED BY <3>1, <3>2, <1>1, <1>2, <1>4
    <2>4. pops' >= 1 /\ msg' = accepted'[pops']
      BY <1>1, <1>2, <1>3, <1>4 DEF IInv, QueueInv
    <2>5. QED BY <2>1, <2>2, <2>3, <2>4 DEF QueueInv
  <1>8. EventsGrow'
    BY <1>1 DEF IInv, EventsGrow
  <1>9. TableInv'
    <2>1. done' = done
      BY <1>1, <1>3 DEF done
    <2>2. QED BY <1>1, <2>1 DEF IInv, TableInv, EntryOf, Names, Parses, Parse
  <1> QED BY <1>5, <1>6, <1>7, <1>8, <1>9 DEF IInv

\* The frame in hand is the one after those handled.
LEMMA InHand ==
    ASSUME IInv, cpc = "handle"
    PROVE  /\ pops \in 1 .. Len(accepted) /\ msg = accepted[pops] /\ msg \in Frames
           /\ done = pops - 1 /\ Len(accepted) \in Nat /\ accepted \in Seq(Frames)
  <1>1. accepted \in Seq(Frames) /\ Len(accepted) \in Nat /\ pops \in Nat
    BY DEF IInv, TypeOK
  <1>2. pops \in 1 .. Len(accepted) /\ msg = accepted[pops]
    BY <1>1 DEF IInv, QueueInv
  <1>3. accepted[pops] \in Frames
    BY <1>1, <1>2, ElementOfSeq
  <1> QED BY <1>1, <1>2, <1>3 DEF done

LEMMA StepHandleGarbage ==
    ASSUME IInv, HandleGarbage
    PROVE  IInv'
  <1>1. /\ cpc = "handle" /\ cpc' = "test" /\ ~Parses(msg)
        /\ UNCHANGED <<queue, msg, table, running, quote, ctl, delivered, accepted, seenPops, pops,
                       seenPushes>>
    BY DEF HandleGarbage, feedVars, popVars
  <1>2. TypeOK' /\ ThreadInv' /\ QueueInv' /\ EventsGrow'
    BY <1>1 DEF IInv, TypeOK, ThreadInv, QueueInv, EventsGrow
  <1>3. pops \in Nat \ {0} /\ msg = accepted[pops] /\ done = pops - 1 /\ done' = pops
    BY <1>1, InHand DEF done
  <1>4. TableInv'
    <2> SUFFICES ASSUME NEW t \in Tokens PROVE EntryOf(t, done)'
      BY DEF TableInv
    <2>1. EntryOf(t, pops - 1)
      BY <1>3 DEF IInv, TableInv
    <2>2. ~Names(pops, t)
      BY <1>1, <1>3 DEF Names
    <2>3. \A k \in Nat : k \in 1 .. pops <=> k \in 1 .. pops - 1 \/ k = pops
      BY <1>3
    <2>4. EntryOf(t, pops)
      BY <1>3, <2>1, <2>2, <2>3 DEF EntryOf
    <2>5. QED BY <1>1, <1>3, <2>4 DEF EntryOf, Names, Parses, Parse
  <1> QED BY <1>2, <1>4 DEF IInv

LEMMA StepHandleQuote ==
    ASSUME IInv, HandleQuote
    PROVE  IInv'
  <1> DEFINE q == Parse(msg)
  <1>1. /\ cpc = "handle" /\ cpc' = "sink" /\ Parses(msg) /\ quote' = q
        /\ UNCHANGED <<queue, msg, running, ctl, delivered, accepted, seenPops, pops, seenPushes>>
        /\ table' = [table EXCEPT ![q.token] = q]
    BY DEF HandleQuote, feedVars, popVars, Table!Upsert
  <1>2. /\ pops \in Nat \ {0} /\ msg = accepted[pops] /\ done = pops - 1 /\ done' = pops
        /\ msg \in Frames
    BY <1>1, InHand DEF done
  <1>3. q \in Quotes /\ q.token \in Tokens
    BY <1>1, <1>2, ParseType
  <1>4. Names(pops, q.token) /\ \A t \in Tokens : t # q.token => ~Names(pops, t)
    BY <1>1, <1>2 DEF Names
  <1>5. q = Parse(accepted[pops])
    BY <1>2
  <1> HIDE DEF q
  <1>6. TypeOK'
    BY <1>1, <1>3 DEF IInv, TypeOK
  <1>7. ThreadInv' /\ QueueInv' /\ EventsGrow'
    BY <1>1 DEF IInv, ThreadInv, QueueInv, EventsGrow
  <1>8. TableInv'
    <2> SUFFICES ASSUME NEW t \in Tokens PROVE EntryOf(t, done)'
      BY DEF TableInv
    <2>1. EntryOf(t, pops - 1)
      BY <1>2 DEF IInv, TableInv
    <2>2. table'[t] = IF t = q.token THEN q ELSE table[t]
      BY <1>1, <1>3 DEF IInv, TypeOK
    <2>3. \A k \in Nat : k \in 1 .. pops <=> k \in 1 .. pops - 1 \/ k = pops
      BY <1>2
    <2>4. accepted' = accepted /\ \A k : Names(k, t)' <=> Names(k, t)
      BY <1>1 DEF Names, Parses, Parse
    <2>5. CASE t = q.token
      <3>1. PICK n \in Nat \ {0} : n = pops
        BY <1>2
      <3>2. n \in 1 .. n /\ n + 1 .. n = {}
        BY <3>1
      <3>3. Names(n, t)'
        BY <2>4, <2>5, <3>1, <1>4
      <3>4. table'[t] = Parse(accepted[n])'
        BY <2>2, <2>4, <2>5, <3>1, <1>5 DEF Parse
      <3>5. QED BY <3>1, <3>2, <3>3, <3>4, <1>2 DEF EntryOf
    <2>6. CASE t # q.token
      <3>1. ~Names(pops, t) /\ table'[t] = table[t]
        BY <2>2, <2>6, <1>4
      <3>2. EntryOf(t, pops)
        BY <2>1, <2>3, <3>1, <1>2 DEF EntryOf
      <3>3. QED BY <3>1, <3>2, <2>4, <1>2 DEF EntryOf, Parse
    <2>7. QED BY <2>5, <2>6
  <1> QED BY <1>6, <1>7, <1>8 DEF IInv

LEMMA StepIInv == IInv /\ [Next]_vars => IInv'
  BY StepFeedAccept, StepQuiet, StepPopFrame, StepHandleGarbage, StepHandleQuote
     DEF Next, Feed, Consumer

\* The inductive invariant holds in every reachable state.
THEOREM Invariance == Spec => []IInv
  BY InitIInv, StepIInv, PTL DEF Spec

\* The variables have their types.
THEOREM TypeCorrect == Spec => []TypeOK
  <1>1. IInv => TypeOK
    BY DEF IInv
  <1> QED BY <1>1, Invariance, PTL

\* No accepted frame is lost, repeated or reordered between the socket and the
\* consumer's hand, across stops and restarts (consumer.cpp:10-33,
\* sharder.cpp:113-120).
THEOREM NoFrameLost == Spec => []FramesAccounted
  <1>1. IInv => FramesAccounted
    <2> SUFFICES ASSUME IInv PROVE queue = SubSeq(accepted, pops + 1, Len(accepted))
      BY DEF IInv, QueueInv, FramesAccounted
    <2> DEFINE n == Len(accepted)
               s == SubSeq(accepted, pops + 1, n)
    <2>1. /\ queue \in Seq(Frames) /\ accepted \in Seq(Frames) /\ n \in Nat
          /\ pops \in 0 .. n /\ Len(queue) = n - pops
          /\ \A i \in 1 .. Len(queue) : queue[i] = accepted[pops + i]
      BY DEF IInv, TypeOK, QueueInv
    <2>2. \A i \in 1 .. n : accepted[i] \in Frames
      BY <2>1, ElementOfSeq
    <2>3. \A i \in pops + 1 .. n : accepted[i] \in Frames
      BY <2>1, <2>2
    <2> HIDE DEF n
    <2>4. /\ s \in Seq(Frames) /\ Len(s) = IF pops + 1 <= n THEN n - (pops + 1) + 1 ELSE 0
          /\ \A i \in 1 .. n - (pops + 1) + 1 : s[i] = accepted[pops + 1 + i - 1]
      <3>1. pops + 1 \in Int /\ n \in Int  BY <2>1
      <3>2. QED BY <3>1, <2>3, SubSeqProperties
    <2> HIDE DEF s
    <2>5. Len(s) = Len(queue) /\ \A i \in 1 .. Len(queue) : queue[i] = s[i]
      BY <2>1, <2>4
    <2>6. queue = s
      BY <2>1, <2>4, <2>5, SeqEqual
    <2>7. QED BY <2>6 DEF s, n
  <1> QED BY <1>1, Invariance, PTL

\* There is a consumer thread exactly while the flag says so, and start never
\* assigns to a joinable one (consumer.cpp:10-19).
THEOREM ThreadFollowsFlag == Spec => []ThreadMatchesFlag
  <1>1. IInv => ThreadMatchesFlag
    BY DEF IInv, ThreadInv, ThreadMatchesFlag
  <1> QED BY <1>1, Invariance, PTL

\* The table is the last quote of each token, through any spelling
\* (consumer.cpp:28-30, parser.cpp:103-106).
THEOREM LatestWins == Spec => []TableIsLatest
  <1>1. IInv => TableIsLatest
    <2> SUFFICES ASSUME IInv, NEW t \in Tokens
                 PROVE  IF \E k \in 1 .. Len(Handled) : LastOf(t, k)
                        THEN table[t] = Parse(Handled[CHOOSE k \in 1 .. Len(Handled) : LastOf(t, k)])
                        ELSE table[t] = Absent
      BY DEF TableIsLatest
    <2>1. /\ accepted \in Seq(Frames) /\ Len(accepted) \in Nat
          /\ done \in 0 .. Len(accepted) /\ EntryOf(t, done)
      BY DEF IInv, TypeOK, QueueInv, TableInv, done
    <2>2. \A i \in 1 .. done : accepted[i] \in Frames
      BY <2>1, ElementOfSeq
    <2>3. Handled = SubSeq(accepted, 1, done)
      BY DEF Handled, done
    <2>4. Len(Handled) = done /\ \A i \in 1 .. done : Handled[i] = accepted[i]
      <3>1. /\ Len(Handled) = IF 1 <= done THEN done - 1 + 1 ELSE 0
            /\ \A i \in 1 .. done - 1 + 1 : Handled[i] = accepted[1 + i - 1]
        <4>1. 1 \in Int /\ done \in Int  BY <2>1
        <4>2. QED BY <4>1, <2>2, <2>3, SubSeqProperties
      <3>2. QED BY <3>1, <2>1
    <2>5. \A k \in 1 .. done : LastOf(t, k) <=> Names(k, t) /\ \A j \in k + 1 .. done : ~Names(j, t)
      <3>1. \A k \in 1 .. done : \A j \in k + 1 .. done : j \in 1 .. done
        BY <2>1
      <3>2. QED BY <3>1, <2>4 DEF LastOf, Names
    <2>6. CASE \E k \in 1 .. Len(Handled) : LastOf(t, k)
      <3> DEFINE c == CHOOSE k \in 1 .. Len(Handled) : LastOf(t, k)
      <3>1. c \in 1 .. done /\ LastOf(t, c)
        BY <2>4, <2>6
      <3>2. PICK k \in 1 .. done : /\ Names(k, t) /\ table[t] = Parse(accepted[k])
                                   /\ \A j \in k + 1 .. done : ~Names(j, t)
        <4>1. Names(c, t)
          BY <2>5, <3>1
        <4>2. QED BY <4>1, <3>1, <2>1 DEF EntryOf
      <3> HIDE DEF c
      <3>3. Names(c, t) /\ \A j \in c + 1 .. done : ~Names(j, t)
        BY <2>5, <3>1
      <3>4. c = k
        BY <3>1, <3>2, <3>3, <2>1
      <3>5. table[t] = Parse(Handled[c])
        BY <3>1, <3>2, <3>4, <2>4
      <3>6. QED BY <3>5, <2>6 DEF c
    <2>7. CASE ~\E k \in 1 .. Len(Handled) : LastOf(t, k)
      BY <2>1, <2>4, <2>5, <2>7 DEF EntryOf
    <2>8. QED BY <2>6, <2>7
  <1> QED BY <1>1, Invariance, PTL

\* A token's quote is never replaced by an older one (consumer.cpp:30).
THEOREM NeverGoesBack == Spec => QuotesNeverGoBack
  <1>1. IInv /\ [Next]_vars =>
           [\A t \in Tokens : table[t] # Absent =>
               table'[t] # Absent /\ table'[t].ltp >= table[t].ltp]_vars
    <2> SUFFICES ASSUME IInv, Next, NEW t \in Tokens, table[t] # Absent
                 PROVE  table'[t] # Absent /\ table'[t].ltp >= table[t].ltp
      OBVIOUS
    <2>1. table[t] \in Quotes /\ table[t].ltp \in Nat
      BY DEF IInv, TypeOK, Quotes
    <2>2. CASE table' = table
      BY <2>1, <2>2
    <2>3. CASE HandleQuote
      <3> DEFINE q == Parse(msg)
      <3>1. cpc = "handle" /\ Parses(msg) /\ table' = [table EXCEPT ![q.token] = q]
        BY <2>3 DEF HandleQuote, Table!Upsert
      <3>2. /\ pops \in 1 .. Len(accepted) /\ msg = accepted[pops] /\ msg \in Frames
            /\ done = pops - 1 /\ Len(accepted) \in Nat /\ accepted \in Seq(Frames)
        BY <3>1, InHand
      <3>3. q \in Quotes /\ q.ltp = accepted[pops].event
        BY <3>1, <3>2, ParseType
      <3>4. PICK k \in 1 .. pops - 1 : table[t] = Parse(accepted[k])
        BY <3>2 DEF IInv, TableInv, EntryOf
      <3>5. accepted[k].event < accepted[pops].event
        BY <3>2, <3>4 DEF IInv, EventsGrow
      <3>6. table[t].ltp = accepted[k].event
        BY <3>4 DEF Parse
      <3>7. table'[t] = IF t = q.token THEN q ELSE table[t]
        BY <3>1 DEF IInv, TypeOK
      <3>8. q # Absent /\ q.ltp \in Nat
        BY <3>3, AbsentAssumption DEF Quotes
      <3> HIDE DEF q
      <3>9. QED BY <2>1, <3>3, <3>5, <3>6, <3>7, <3>8
    <2>4. QED
      BY <2>2, <2>3 DEF Next, Feed, Controller, Consumer, FeedAccept, FeedDrop, StartExchange,
         StartSpawn, StopExchange, StopJoin, LoopTest, PopNothing, PopFrame, HandleGarbage, CallSink
  <1> QED BY <1>1, Invariance, PTL DEF Spec, QuotesNeverGoBack
=============================================================================

---------------------------- MODULE LoggerProofs ----------------------------
(***************************************************************************)
(* Proofs about Logger, for any number of threads, lines and levels.       *)
(***************************************************************************)
EXTENDS Logger, TLAPS

Steps  == {"idle", "convert", "format", "lock", "header", "payload", "newline", "unlock"}
Inside == {"header", "payload", "newline", "unlock"}

\* The mutex's holder is the one thread between lock and unlock.
MutexHeld == \A t \in Threads : pc[t] \in Inside <=> holder = t

\* The end of the stream is what the holder has put of its line: nothing, the
\* header, the header and the payload, or all of it.
StreamEnds ==
    /\ \A t \in Threads : pc[t] \in {"payload", "newline"} =>
          out # <<>> /\ out[Len(out)] = Piece(t, Before(pc[t]))
    /\ (\A t \in Threads : pc[t] \notin {"payload", "newline"}) =>
          out = <<>> \/ out[Len(out)].part = "newline"

IInv == TypeOK /\ MutexHeld /\ StreamEnds /\ LinesWhole

Pieces(times) == [by : Threads, line : 0 .. MaxLines,
                  part : {"header", "payload", "newline"},
                  taken : times, shown : [Members -> times]]

LEMMA InitIInv == Init => IInv
  <1> SUFFICES ASSUME Init PROVE IInv
    OBVIOUS
  <1>1. 0 \in 0 .. MaxLines /\ 0 \in 0 .. MaxTime /\ 0 \in Stamps
    BY LoggerAssumption DEF Init, Stamps
  <1>2. TypeOK
    BY <1>1 DEF Init, TypeOK
  <1>3. MutexHeld /\ StreamEnds /\ LinesWhole
    BY NobodyAssumption DEF Init, MutexHeld, Inside, StreamEnds, LinesWhole
  <1> QED BY <1>2, <1>3 DEF IInv

\* What TypeOK says of pc, line, stamp, done and of the rest.
LEMMA StepTypeOK ==
    ASSUME TypeOK, [Next]_vars
    PROVE  TypeOK'
  <1>1. CASE SetLevel
    BY <1>1 DEF SetLevel, TypeOK, Stamps
  <1>2. CASE Tick
    <2>1. now' \in 0 .. MaxTime /\ Stamps \subseteq Stamps'
      BY <1>2, LoggerAssumption DEF Tick, TypeOK, Stamps
    <2>2. UNCHANGED <<level, pc, line, stamp, done, buffer, header, holder, out>>
      BY <1>2 DEF Tick
    <2>3. stamp' \in [Threads -> Stamps']
      BY <2>1, <2>2 DEF TypeOK
    <2>4. [Members -> Stamps] \subseteq [Members -> Stamps']
      BY <2>1
    <2>5. buffer' \in [Members -> Stamps'] /\ header' \in [Threads -> [Members -> Stamps']]
      BY <2>2, <2>4 DEF TypeOK
    <2>6. Pieces(Stamps) \subseteq Pieces(Stamps')
      BY <2>1, <2>4 DEF Pieces
    <2>7. out \in Seq(Pieces(Stamps))
      BY DEF TypeOK, Pieces
    <2>8. out' \in Seq(Pieces(Stamps'))
      BY <2>2, <2>6, <2>7
    <2>9. out' \in Seq([by : Threads, line : 0 .. MaxLines,
                        part : {"header", "payload", "newline"},
                        taken : Stamps', shown : [Members -> Stamps']])
      BY <2>8 DEF Pieces
    <2>10. QED BY <2>1, <2>2, <2>3, <2>5, <2>9 DEF TypeOK
  <1>3. CASE \E t \in Threads : \E lvl \in 0 .. MaxLevel : LogBelowLevel(t, lvl) \/ Log(t, lvl)
    <2>1. PICK t \in Threads, lvl \in 0 .. MaxLevel : LogBelowLevel(t, lvl) \/ Log(t, lvl)
      BY <1>3
    <2>2. line[t] + 1 \in 0 .. MaxLines /\ now \in Stamps
      BY <2>1, LoggerAssumption DEF TypeOK, Stamps, LogBelowLevel, Log
    <2>3. line' \in [Threads -> 0 .. MaxLines]
      BY <2>1, <2>2 DEF TypeOK, LogBelowLevel, Log
    <2>4. UNCHANGED <<now, level, done, buffer, header, holder, out>> /\ Stamps' = Stamps
      BY <2>1 DEF LogBelowLevel, Log, Stamps
    <2>5. stamp' \in [Threads -> Stamps]
      BY <2>1, <2>2 DEF TypeOK, LogBelowLevel, Log
    <2>6. QED BY <2>1, <2>3, <2>4, <2>5 DEF TypeOK, LogBelowLevel, Log
  <1>4. CASE \E t \in Threads : \E m \in Members : Convert(t, m) \/ Format(t, m)
    <2>1. PICK t \in Threads, m \in Members : Convert(t, m) \/ Format(t, m)
      BY <1>4
    <2>2. UNCHANGED <<now, level, line, stamp, holder, out>> /\ Stamps' = Stamps
      BY <2>1 DEF Convert, Format, Stamps
    <2>3. /\ done' \in [Threads -> SUBSET Members]
          /\ pc' \in [Threads -> {"idle", "convert", "format", "lock", "header",
                                  "payload", "newline", "unlock"}]
      <3>1. PICK goOn \in {"format", "lock"} : NextMember(t, m, goOn)
        BY <2>1 DEF Convert, Format
      <3>2. done[t] \cup {m} \subseteq Members
        BY DEF TypeOK
      <3>3. done' \in [Threads -> SUBSET Members]
        BY <3>1, <3>2 DEF TypeOK, NextMember
      <3>4. pc' = pc \/ pc' = [pc EXCEPT ![t] = goOn]
        BY <3>1 DEF NextMember
      <3>5. QED BY <3>1, <3>3, <3>4 DEF TypeOK
    <2>4. buffer' \in [Members -> Stamps] /\ header' \in [Threads -> [Members -> Stamps]]
      <3>1. CASE Convert(t, m)
        BY <3>1 DEF TypeOK, Convert
      <3>2. CASE Format(t, m)
        <4>1. [header[t] EXCEPT ![m] = buffer[m]] \in [Members -> Stamps]
          BY DEF TypeOK
        <4>2. header' = [header EXCEPT ![t] = [header[t] EXCEPT ![m] = buffer[m]]]
          BY <3>2 DEF Format, TypeOK
        <4>3. buffer' = buffer
          BY <3>2 DEF Format
        <4>4. QED BY <4>1, <4>2, <4>3 DEF TypeOK
      <3>3. QED BY <2>1, <3>1, <3>2
    <2>5. QED BY <2>2, <2>3, <2>4 DEF TypeOK
  <1>5. CASE \E t \in Threads : Lock(t) \/ Unlock(t)
    BY <1>5 DEF TypeOK, Lock, Unlock, Stamps
  <1>6. CASE \E t \in Threads : Put(t)
    <2>1. PICK t \in Threads : Put(t)
      BY <1>6
    <2>2. UNCHANGED <<now, level, line, stamp, done, buffer, header, holder>> /\ Stamps' = Stamps
      BY <2>1 DEF Put, Stamps
    <2>3. Piece(t, pc[t]) \in Pieces(Stamps)
      BY <2>1 DEF TypeOK, Put, Piece, Pieces
    <2>4. out' \in Seq(Pieces(Stamps))
      <3>1. out \in Seq(Pieces(Stamps)) /\ out' = Append(out, Piece(t, pc[t]))
        BY <2>1 DEF Put, TypeOK, Pieces
      <3>2. QED BY <2>3, <3>1
    <2>5. pc' \in [Threads -> {"idle", "convert", "format", "lock", "header",
                               "payload", "newline", "unlock"}]
      BY <2>1 DEF TypeOK, Put, After
    <2>6. QED BY <2>2, <2>4, <2>5 DEF TypeOK, Pieces
  <1>7. CASE UNCHANGED vars
    BY <1>7 DEF vars, TypeOK, Stamps
  <1> QED BY <1>1, <1>2, <1>3, <1>4, <1>5, <1>6, <1>7 DEF Next, Emit

\* The steps outside the critical section.
LEMMA StepOutside ==
    ASSUME IInv,
           \/ SetLevel \/ Tick \/ UNCHANGED vars
           \/ \E t \in Threads :
                 \/ \E lvl \in 0 .. MaxLevel : LogBelowLevel(t, lvl) \/ Log(t, lvl)
                 \/ \E m \in Members : Convert(t, m) \/ Format(t, m)
    PROVE  MutexHeld' /\ StreamEnds' /\ LinesWhole'
  <1>1. holder' = holder /\ out' = out
    BY DEF SetLevel, Tick, vars, LogBelowLevel, Log, Convert, Format
  <1>2. \A u \in Threads : \/ pc'[u] = pc[u]
                           \/ pc[u] \notin Inside /\ pc'[u] \notin Inside
    BY DEF SetLevel, Tick, vars, LogBelowLevel, Log, Convert, Format, NextMember,
           Inside, IInv, TypeOK
  <1>3. \A u \in Threads : pc[u] \in Inside =>
           line'[u] = line[u] /\ stamp'[u] = stamp[u] /\ header'[u] = header[u]
    BY DEF SetLevel, Tick, vars, LogBelowLevel, Log, Convert, Format, Inside, IInv, TypeOK
  <1>4. MutexHeld'
    BY <1>1, <1>2 DEF IInv, MutexHeld
  <1>5. \A u \in Threads : pc'[u] \in {"payload", "newline"} <=> pc[u] \in {"payload", "newline"}
    BY <1>2 DEF Inside
  <1>6. \A u \in Threads : pc[u] \in {"payload", "newline"} =>
           pc'[u] = pc[u] /\ Piece(u, Before(pc[u]))' = Piece(u, Before(pc[u]))
    BY <1>2, <1>3 DEF Inside, Piece, Before
  <1>7. StreamEnds'
    BY <1>1, <1>5, <1>6 DEF IInv, StreamEnds
  <1>8. LinesWhole'
    BY <1>1 DEF IInv, LinesWhole
  <1> QED BY <1>4, <1>7, <1>8

\* Appending a header after a newline, or the next piece of the last line.
LEMMA AppendWhole ==
    ASSUME NEW S, NEW s \in Seq(S), NEW p,
           \A i \in 1 .. Len(s) :
              IF s[i].part = "header" THEN i = 1 \/ s[i - 1].part = "newline"
              ELSE i > 1 /\ s[i - 1] = [s[i] EXCEPT !.part = Before(s[i].part)],
           IF p.part = "header" THEN s = <<>> \/ s[Len(s)].part = "newline"
           ELSE s # <<>> /\ s[Len(s)] = [p EXCEPT !.part = Before(p.part)],
           NEW r, r = Append(s, p)
    PROVE  \A i \in 1 .. Len(r) :
              IF r[i].part = "header" THEN i = 1 \/ r[i - 1].part = "newline"
              ELSE i > 1 /\ r[i - 1] = [r[i] EXCEPT !.part = Before(r[i].part)]
  <1>1. Len(s) \in Nat /\ Len(r) = Len(s) + 1 /\ r[Len(s) + 1] = p
    OBVIOUS
  <1>2. \A i \in 1 .. Len(s) : r[i] = s[i]
    OBVIOUS
  <1>3. s = <<>> <=> Len(s) = 0
    OBVIOUS
  <1> TAKE i \in 1 .. Len(r)
  <1>4. CASE i \in 1 .. Len(s)
    <2>1. i = 1 \/ i - 1 \in 1 .. Len(s)
      BY <1>1, <1>4
    <2>2. i > 1 => r[i - 1] = s[i - 1]
      BY <1>1, <1>2, <2>1, <1>4
    <2>3. QED BY <1>2, <1>4, <2>1, <2>2
  <1>5. CASE i = Len(s) + 1
    <2>1. r[i] = p /\ (Len(s) # 0 => r[i - 1] = s[Len(s)])
      BY <1>1, <1>2, <1>5
    <2>2. QED BY <1>1, <1>3, <1>5, <2>1
  <1> QED BY <1>1, <1>4, <1>5

LEMMA StepPut ==
    ASSUME IInv, NEW t \in Threads, Put(t)
    PROVE  MutexHeld' /\ StreamEnds' /\ LinesWhole'
  <1> DEFINE p == Piece(t, pc[t])
  <1>1. pc[t] \in {"header", "payload", "newline"} /\ out' = Append(out, p)
    BY DEF Put
  <1>2. pc' = [pc EXCEPT ![t] = IF @ = "newline" THEN "unlock" ELSE After(@)] /\ holder' = holder
        /\ UNCHANGED <<line, stamp, header>>
    BY DEF Put
  <1>3. out \in Seq(Pieces(Stamps)) /\ pc \in [Threads -> Steps]
    BY DEF IInv, TypeOK, Pieces, Steps
  <1>4. out' # <<>> /\ out'[Len(out')] = p
    BY <1>1, <1>3
  <1>5. p.part = pc[t] /\ \A q : [p EXCEPT !.part = q] = Piece(t, q)
    BY DEF Piece
  <1>6. \A u \in Threads \ {t} : pc[u] \notin Inside /\ pc'[u] = pc[u]
    BY <1>1, <1>2, <1>3 DEF IInv, MutexHeld, Inside
  <1>7. /\ pc[t] = "header"  => pc'[t] = "payload"
        /\ pc[t] = "payload" => pc'[t] = "newline"
        /\ pc[t] = "newline" => pc'[t] = "unlock"
    BY <1>2, <1>3 DEF After
  <1>8. MutexHeld'
    BY <1>1, <1>2, <1>6, <1>7 DEF IInv, MutexHeld, Inside
  <1>9. StreamEnds'
    <2>1. ASSUME NEW u \in Threads, pc'[u] \in {"payload", "newline"}
          PROVE  out' # <<>> /\ out'[Len(out')] = Piece(u, Before(pc[u]))'
      <3>1. u = t
        BY <1>6, <2>1 DEF Inside
      <3>2. Before(pc'[t]) = pc[t]
        BY <1>1, <1>7, <2>1, <3>1 DEF Before
      <3>3. Piece(t, Before(pc[t]))' = p
        BY <1>2, <3>2 DEF Piece
      <3>4. QED BY <1>4, <3>1, <3>3
    <2>2. ASSUME \A u \in Threads : pc'[u] \notin {"payload", "newline"}
          PROVE  out'[Len(out')].part = "newline"
      BY <1>1, <1>4, <1>5, <1>7, <2>2
    <2>3. QED BY <2>1, <2>2 DEF StreamEnds
  <1>10. LinesWhole'
    <2>1. IF p.part = "header" THEN out = <<>> \/ out[Len(out)].part = "newline"
          ELSE out # <<>> /\ out[Len(out)] = [p EXCEPT !.part = Before(p.part)]
      <3>1. CASE pc[t] = "header"
        <4>1. \A u \in Threads : pc[u] \notin {"payload", "newline"}
          BY <3>1, <1>6 DEF Inside
        <4>2. QED BY <3>1, <4>1, <1>5 DEF IInv, StreamEnds
      <3>2. CASE pc[t] \in {"payload", "newline"}
        <4>1. out # <<>> /\ out[Len(out)] = Piece(t, Before(pc[t]))
          BY <3>2 DEF IInv, StreamEnds
        <4>2. QED BY <3>2, <4>1, <1>5
      <3>3. QED BY <1>1, <3>1, <3>2
    <2> HIDE DEF p
    <2>2. QED BY <2>1, <1>1, <1>3, AppendWhole DEF IInv, LinesWhole
  <1> QED BY <1>8, <1>9, <1>10

LEMMA StepLock ==
    ASSUME IInv, NEW t \in Threads, Lock(t) \/ Unlock(t)
    PROVE  MutexHeld' /\ StreamEnds' /\ LinesWhole'
  <1>1. UNCHANGED <<line, stamp, header, out>> /\ pc \in [Threads -> Steps]
    BY DEF Lock, Unlock, IInv, TypeOK, Steps
  <1>2. \A u \in Threads \ {t} : pc'[u] = pc[u] /\ holder # u /\ holder' # u
    BY <1>1, NobodyAssumption DEF Lock, Unlock, IInv, MutexHeld, Inside
  <1>3. /\ pc[t] \notin {"payload", "newline"} /\ pc'[t] \notin {"payload", "newline"}
        /\ pc'[t] \in Inside <=> holder' = t
    BY <1>1, NobodyAssumption DEF Lock, Unlock, Inside
  <1>4. MutexHeld'
    BY <1>2, <1>3 DEF IInv, MutexHeld
  <1>5. StreamEnds'
    <2>1. \A u \in Threads : pc[u] \notin {"payload", "newline"}
      BY <1>2, <1>3 DEF IInv, MutexHeld, Inside
    <2>2. \A u \in Threads : pc'[u] \notin {"payload", "newline"}
      BY <2>1, <1>2, <1>3
    <2>3. QED BY <2>1, <2>2, <1>1 DEF IInv, StreamEnds
  <1>6. LinesWhole'
    BY <1>1 DEF IInv, LinesWhole
  <1> QED BY <1>4, <1>5, <1>6

LEMMA StepIInv == IInv /\ [Next]_vars => IInv'
  <1> SUFFICES ASSUME IInv, [Next]_vars PROVE IInv'
    OBVIOUS
  <1>1. TypeOK'
    BY StepTypeOK DEF IInv
  <1>2. MutexHeld' /\ StreamEnds' /\ LinesWhole'
    BY StepOutside, StepPut, StepLock DEF Next, Emit
  <1> QED BY <1>1, <1>2 DEF IInv

\* The inductive invariant holds in every reachable state.
THEOREM Invariance == Spec => []IInv
  BY InitIInv, StepIInv, PTL DEF Spec

\* The variables have their types, and every time in use has passed
\* (logger.cpp:43-67).
THEOREM TypeCorrect == Spec => []TypeOK
  <1>1. IInv => TypeOK
    BY DEF IInv
  <1> QED BY <1>1, Invariance, PTL

\* However many threads log, no line is torn apart by another
\* (logger.cpp:64-66).
THEOREM NeverMixed == Spec => []LinesWhole
  <1>1. IInv => LinesWhole
    BY DEF IInv
  <1> QED BY <1>1, Invariance, PTL
=============================================================================

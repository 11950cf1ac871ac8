------------------------------- MODULE Logger -------------------------------
(***************************************************************************)
(* Logger (src/logger.cpp): threads that log through one logger.           *)
(*                                                                         *)
(* log() compares with the level without the mutex, takes the time, has    *)
(* std::localtime convert it into the one buffer the process has, formats  *)
(* a header from that buffer, and only then locks the mutex and writes the *)
(* line in three pieces.  The buffer is written and read member by member  *)
(* (two stand for all), each thread in its own order.                      *)
(***************************************************************************)
EXTENDS Naturals, Sequences

CONSTANTS
    Threads,
    MaxLevel,   \* ERROR; levels are numbers from 0, TRACE
    MaxLines,   \* bound: calls of log by each thread
    MaxTime     \* bound: the clock

ASSUME LoggerAssumption == MaxLevel \in Nat /\ MaxLines \in Nat /\ MaxTime \in Nat

VARIABLES
    now,      \* the clock
    level,    \* level_
    pc,       \* each thread: the next piece of emit, or "idle"
    line,     \* the number of each thread's current or last line
    stamp,    \* emit's t
    done,     \* the members converted, or formatted, so far
    buffer,   \* what std::localtime returns the address of
    header,   \* the members as each thread formatted them
    holder,   \* who holds mutex_
    out       \* the pieces written to the stream

vars == <<now, level, pc, line, stamp, done, buffer, header, holder, out>>

Members == {"date", "clock"}
Nobody  == "nobody"
ASSUME NobodyAssumption == Nobody \notin Threads

Before(p) == IF p = "payload" THEN "header" ELSE "payload"
After(p)  == IF p = "header" THEN "payload" ELSE "newline"

Piece(t, p) == [by |-> t, line |-> line[t], part |-> p,
                taken |-> stamp[t], shown |-> header[t]]

Init == /\ now = 0 /\ level \in 0 .. MaxLevel
        /\ pc = [t \in Threads |-> "idle"]
        /\ line = [t \in Threads |-> 0] /\ stamp = [t \in Threads |-> 0]
        /\ done = [t \in Threads |-> {}]
        /\ buffer = [m \in Members |-> 0]
        /\ header = [t \in Threads |-> [m \in Members |-> 0]]
        /\ holder = Nobody /\ out = <<>>
-----------------------------------------------------------------------------
\* The lock, the assignment and the unlock of set_level.
SetLevel == /\ holder = Nobody
            /\ level' \in 0 .. MaxLevel
            /\ UNCHANGED <<now, pc, line, stamp, done, buffer, header, holder, out>>

\* log, as far as emit's reading of the clock.
LogBelowLevel(t, lvl) ==
    /\ pc[t] = "idle" /\ line[t] < MaxLines /\ lvl < level
    /\ line' = [line EXCEPT ![t] = @ + 1]
    /\ UNCHANGED <<now, level, pc, stamp, done, buffer, header, holder, out>>

Log_RoundsUp(t, lvl) ==
    /\ pc[t] = "idle" /\ line[t] < MaxLines /\ lvl >= level
    /\ line'  = [line  EXCEPT ![t] = @ + 1]
    /\ stamp' = [stamp EXCEPT ![t] = now + 1]
    /\ pc'    = [pc    EXCEPT ![t] = "convert"]
    /\ UNCHANGED <<now, level, done, buffer, header, holder, out>>
Log(t, lvl) ==
    /\ pc[t] = "idle" /\ line[t] < MaxLines /\ lvl >= level
    /\ line'  = [line  EXCEPT ![t] = @ + 1]
    /\ stamp' = [stamp EXCEPT ![t] = now]
    /\ pc'    = [pc    EXCEPT ![t] = "convert"]
    /\ UNCHANGED <<now, level, done, buffer, header, holder, out>>

\* A thread's next member, and the step it goes on to after the last.
NextMember(t, m, goOn) ==
    /\ m \notin done[t]
    /\ IF done[t] \cup {m} = Members
       THEN done' = [done EXCEPT ![t] = {}] /\ pc' = [pc EXCEPT ![t] = goOn]
       ELSE done' = [done EXCEPT ![t] = @ \cup {m}] /\ UNCHANGED pc

\* std::localtime(&t)
Convert(t, m) ==
    /\ pc[t] = "convert" /\ NextMember(t, m, "format")
    /\ buffer' = [buffer EXCEPT ![m] = stamp[t]]
    /\ UNCHANGED <<now, level, line, stamp, header, holder, out>>

\* std::put_time
Format(t, m) ==
    /\ pc[t] = "format" /\ NextMember(t, m, "lock")
    /\ header' = [header EXCEPT ![t][m] = buffer[m]]
    /\ UNCHANGED <<now, level, line, stamp, buffer, holder, out>>

Lock_Ignored(t) ==
    /\ pc[t] = "lock" /\ holder' = t
    /\ pc' = [pc EXCEPT ![t] = "header"]
    /\ UNCHANGED <<now, level, line, stamp, done, buffer, header, out>>
Lock(t) ==
    /\ pc[t] = "lock" /\ holder = Nobody /\ holder' = t
    /\ pc' = [pc EXCEPT ![t] = "header"]
    /\ UNCHANGED <<now, level, line, stamp, done, buffer, header, out>>

\* One insertion into the stream; after the last, flush.
Put(t) ==
    /\ pc[t] \in {"header", "payload", "newline"}
    /\ out' = Append(out, Piece(t, pc[t]))
    /\ pc' = [pc EXCEPT ![t] = IF @ = "newline" THEN "unlock" ELSE After(@)]
    /\ UNCHANGED <<now, level, line, stamp, done, buffer, header, holder>>

Unlock(t) ==
    /\ pc[t] = "unlock" /\ holder' = Nobody
    /\ pc' = [pc EXCEPT ![t] = "idle"]
    /\ UNCHANGED <<now, level, line, stamp, done, buffer, header, out>>

Tick == /\ now < MaxTime /\ now' = now + 1
        /\ UNCHANGED <<level, pc, line, stamp, done, buffer, header, holder, out>>

Emit(t) == \/ \E m \in Members : Convert(t, m) \/ Format(t, m)
           \/ Lock(t) \/ Put(t) \/ Unlock(t)

Next == \/ SetLevel \/ Tick
        \/ \E t \in Threads :
              \/ \E lvl \in 0 .. MaxLevel : LogBelowLevel(t, lvl) \/ Log(t, lvl)
              \/ Emit(t)

Spec == Init /\ [][Next]_vars
-----------------------------------------------------------------------------
Stamps == 0 .. now

\* The variables have their types, and no time in use is ahead of the clock.
TypeOK ==
    /\ now \in 0 .. MaxTime /\ level \in 0 .. MaxLevel
    /\ pc \in [Threads -> {"idle", "convert", "format", "lock", "header",
                           "payload", "newline", "unlock"}]
    /\ line \in [Threads -> 0 .. MaxLines] /\ stamp \in [Threads -> Stamps]
    /\ done \in [Threads -> SUBSET Members]
    /\ buffer \in [Members -> Stamps] /\ header \in [Threads -> [Members -> Stamps]]
    /\ holder \in Threads \cup {Nobody}
    /\ out \in Seq([by : Threads, line : 0 .. MaxLines,
                    part : {"header", "payload", "newline"},
                    taken : Stamps, shown : [Members -> Stamps]])

\* The stream holds whole lines, except that the last may be under way: no
\* piece of one line comes between the pieces of another, although threads
\* write at the same time (logger.h:26, "thread-safe"; logger.cpp:65-67).
LinesWhole ==
    \A i \in 1 .. Len(out) :
        IF out[i].part = "header"
        THEN i = 1 \/ out[i - 1].part = "newline"
        ELSE i > 1 /\ out[i - 1] = [out[i] EXCEPT !.part = Before(out[i].part)]

\* Every line shows the time at which it was logged (logger.h:26, "Basic
\* loging API (thread-safe)"; logger.cpp:44-51).  The code breaks it.
LinesCarryOwnTime ==
    \A i \in 1 .. Len(out) : \A m \in Members : out[i].shown[m] = out[i].taken
=============================================================================

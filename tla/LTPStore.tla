------------------------------ MODULE LTPStore ------------------------------
(***************************************************************************)
(* The table of latest quotes, written by the consumer threads of all      *)
(* workers and read by the application (include/ltp_store.h,               *)
(* src/ltp_store.cpp).  A std::shared_mutex guards an unordered_map; the   *)
(* assignment map_[v.token] = v and the copies handed to readers go field  *)
(* by field, each field a step of its own, so that the lock is what keeps  *)
(* a reader from a half-written quote.                                     *)
(*                                                                         *)
(* A quote's price and time are both named by the number of the event that *)
(* carried them: a quote whose numbers differ was never upserted.          *)
(***************************************************************************)
EXTENDS Naturals, FiniteSets

CONSTANTS Tokens,     \* the instruments
          Events,     \* numbers of the events that carry quotes
          Writers,    \* consumer threads
          Readers,    \* application threads
          NoToken,    \* the token field of a default-constructed LTP
          Absent,     \* no entry in the map
          Nobody      \* the mutex has no exclusive owner

ASSUME StoreAssumption ==
    /\ Events \subseteq Nat \ {0}
    /\ IsFiniteSet(Tokens)
    /\ NoToken \notin Tokens
    /\ Nobody \notin Writers
    /\ Absent \notin [token : Tokens \cup {NoToken},
                     ltp : Events \cup {0}, ts : Events \cup {0}]

VARIABLES
    map,      \* map_
    excl,     \* the thread holding mu_ exclusively, or Nobody
    shared,   \* the threads holding mu_ shared
    wpc,      \* writer: "idle", or the next step inside upsert
    arg,      \* upsert's argument v
    rpc,      \* reader: "idle", or the next step inside get, snapshot, size
    wanted,   \* the tokens the reader asked for
    copy,     \* the reader's return value under construction
    todo,     \* the <<token, field>> pairs still to copy
    answer,   \* what the last get or snapshot returned
    counted   \* what the last size returned

writerVars == <<wpc, arg>>
readerVars == <<rpc, wanted, copy, todo, answer, counted>>
vars == <<map, excl, shared, writerVars, readerVars>>

\* struct LTP (include/parser.h): a default one, and one parsed from an event.
Blank == [token |-> NoToken, ltp |-> 0, ts |-> 0]
Quote(t, n) == [token |-> t, ltp |-> n, ts |-> n]
Quotes == {Quote(t, n) : t \in Tokens, n \in Events}
Fields == {"token", "ltp", "ts"}

Nothing == [t \in {} |-> Absent]

Init ==
    /\ map = [t \in Tokens |-> Absent]
    /\ excl = Nobody /\ shared = {}
    /\ wpc = [w \in Writers |-> "idle"]
    /\ arg = [w \in Writers |-> Blank]
    /\ rpc = [r \in Readers |-> "idle"]
    /\ wanted = [r \in Readers |-> {}]
    /\ copy = [r \in Readers |-> Nothing]
    /\ todo = [r \in Readers |-> {}]
    /\ answer = [r \in Readers |-> Nothing]
    /\ counted = [r \in Readers |-> 0]

-----------------------------------------------------------------------------
(* upsert *)

UpsertCall(w) ==
    /\ wpc[w] = "idle"
    /\ \E q \in Quotes : arg' = [arg EXCEPT ![w] = q]
    /\ wpc' = [wpc EXCEPT ![w] = "lock"]
    /\ UNCHANGED <<map, excl, shared, readerVars>>

\* std::unique_lock: waits for the readers and for another writer.
UpsertLock_LetsReadersIn(w) ==
    /\ wpc[w] = "lock"
    /\ excl = Nobody
    /\ excl' = w
    /\ wpc' = [wpc EXCEPT ![w] = "insert"]
    /\ UNCHANGED <<map, shared, arg, readerVars>>
UpsertLock(w) ==
    /\ wpc[w] = "lock"
    /\ excl = Nobody /\ shared = {}
    /\ excl' = w
    /\ wpc' = [wpc EXCEPT ![w] = "insert"]
    /\ UNCHANGED <<map, shared, arg, readerVars>>

\* map_[v.token] inserts a default LTP when the token is new.
UpsertInsert(w) ==
    /\ wpc[w] = "insert"
    /\ map' = [map EXCEPT ![arg[w].token] = IF @ = Absent THEN Blank ELSE @]
    /\ wpc' = [wpc EXCEPT ![w] = "token"]
    /\ UNCHANGED <<excl, shared, arg, readerVars>>

\* The assignment, member by member in the order of the struct.
AfterField == [token |-> "ltp", ltp |-> "ts", ts |-> "unlock"]

UpsertField(w) ==
    /\ wpc[w] \in Fields
    /\ map' = [map EXCEPT ![arg[w].token][wpc[w]] = arg[w][wpc[w]]]
    /\ wpc' = [wpc EXCEPT ![w] = AfterField[@]]
    /\ UNCHANGED <<excl, shared, arg, readerVars>>

UpsertUnlock(w) ==
    /\ wpc[w] = "unlock"
    /\ excl' = Nobody
    /\ wpc' = [wpc EXCEPT ![w] = "idle"]
    /\ arg' = [arg EXCEPT ![w] = Blank]
    /\ UNCHANGED <<map, shared, readerVars>>

-----------------------------------------------------------------------------
(* get, snapshot and size *)

ReadCall(r, ts, step) ==
    /\ rpc[r] = "idle"
    /\ wanted' = [wanted EXCEPT ![r] = ts]
    /\ rpc' = [rpc EXCEPT ![r] = step]
    /\ UNCHANGED <<map, excl, shared, copy, todo, answer, counted, writerVars>>

GetCall(r) == \E t \in Tokens : ReadCall(r, {t}, "lock")
SnapshotCall(r) == ReadCall(r, Tokens, "lock")
SizeCall(r) == ReadCall(r, {}, "locksize")

\* std::shared_lock: waits for a writer only.
ReadLock_Unguarded(r) ==
    /\ rpc[r] \in {"lock", "locksize"}
    /\ shared' = shared \cup {r}
    /\ rpc' = [rpc EXCEPT ![r] = IF @ = "lock" THEN "find" ELSE "count"]
    /\ UNCHANGED <<map, excl, wanted, copy, todo, answer, counted, writerVars>>
ReadLock(r) ==
    /\ rpc[r] \in {"lock", "locksize"}
    /\ excl = Nobody
    /\ shared' = shared \cup {r}
    /\ rpc' = [rpc EXCEPT ![r] = IF @ = "lock" THEN "find" ELSE "count"]
    /\ UNCHANGED <<map, excl, wanted, copy, todo, answer, counted, writerVars>>

\* The entries found, to be copied; a token without one gives nullopt.
ReadFind(r) ==
    /\ rpc[r] = "find"
    /\ copy' = [copy EXCEPT ![r] =
                  [t \in wanted[r] |-> IF map[t] = Absent THEN Absent ELSE Blank]]
    /\ todo' = [todo EXCEPT ![r] = {t \in wanted[r] : map[t] # Absent} \X Fields]
    /\ rpc' = [rpc EXCEPT ![r] = "copy"]
    /\ UNCHANGED <<map, excl, shared, wanted, answer, counted, writerVars>>

CopyField(r) ==
    /\ rpc[r] = "copy"
    /\ \E p \in todo[r] :
          /\ copy' = [copy EXCEPT ![r][p[1]][p[2]] = map[p[1]][p[2]]]
          /\ todo' = [todo EXCEPT ![r] = @ \ {p}]
    /\ UNCHANGED <<map, excl, shared, rpc, wanted, answer, counted, writerVars>>

\* The return value is complete; the lock goes with the scope.
ReadUnlock(r) ==
    /\ rpc[r] = "copy" /\ todo[r] = {}
    /\ answer' = [answer EXCEPT ![r] = copy[r]]
    /\ shared' = shared \ {r}
    /\ rpc' = [rpc EXCEPT ![r] = "idle"]
    /\ copy' = [copy EXCEPT ![r] = Nothing]
    /\ wanted' = [wanted EXCEPT ![r] = {}]
    /\ UNCHANGED <<map, excl, todo, counted, writerVars>>

SizeUnlock(r) ==
    /\ rpc[r] = "count"
    /\ counted' = [counted EXCEPT ![r] =
                     Cardinality({t \in Tokens : map[t] # Absent})]
    /\ shared' = shared \ {r}
    /\ rpc' = [rpc EXCEPT ![r] = "idle"]
    /\ UNCHANGED <<map, excl, wanted, copy, todo, answer, writerVars>>

-----------------------------------------------------------------------------
Upsert(w) == \/ UpsertCall(w) \/ UpsertLock(w) \/ UpsertInsert(w)
             \/ UpsertField(w) \/ UpsertUnlock(w)

Read(r) == \/ GetCall(r) \/ SnapshotCall(r) \/ SizeCall(r) \/ ReadLock(r)
           \/ ReadFind(r) \/ CopyField(r) \/ ReadUnlock(r) \/ SizeUnlock(r)

Next == (\E w \in Writers : Upsert(w)) \/ (\E r \in Readers : Read(r))

Spec == Init /\ [][Next]_vars

-----------------------------------------------------------------------------
(* Properties *)

Records == [token : Tokens \cup {NoToken},
            ltp : Events \cup {0}, ts : Events \cup {0}]
Entries == Records \cup {Absent}
Views == UNION {[ts -> Entries] : ts \in SUBSET Tokens}

\* The variables have their types.
TypeOK ==
    /\ map \in [Tokens -> Entries]
    /\ excl \in Writers \cup {Nobody}
    /\ shared \subseteq Readers
    /\ wpc \in [Writers -> {"idle", "lock", "insert", "token", "ltp", "ts", "unlock"}]
    /\ arg \in [Writers -> Records]
    /\ rpc \in [Readers -> {"idle", "lock", "locksize", "find", "copy", "count"}]
    /\ wanted \in [Readers -> SUBSET Tokens]
    /\ todo \in [Readers -> SUBSET (Tokens \X Fields)]
    /\ copy \in [Readers -> Views]
    /\ answer \in [Readers -> Views]
    /\ counted \in [Readers -> Nat]

\* No get or snapshot ever returns a quote that was not upserted as a whole:
\* price and time of different events are never mixed, and the default entry
\* that operator[] inserts is never seen.
NoTornQuote ==
    \A r \in Readers : \A t \in DOMAIN answer[r] :
        answer[r][t] = Absent \/ \E n \in Events : answer[r][t] = Quote(t, n)

\* The inductive invariant.  The lock is held by exactly the threads inside
\* their critical sections, and never by a writer and a reader together.
LockInv ==
    /\ excl # Nobody => shared = {}
    /\ \A w \in Writers : (excl = w) <=> (wpc[w] \notin {"idle", "lock"})
    /\ \A r \in Readers : (r \in shared) <=> (rpc[r] \in {"find", "copy", "count"})

\* The entry under assignment holds the members already assigned.
Assigned(w) == CASE wpc[w] = "ltp" -> {"token"}
                 [] wpc[w] = "ts" -> {"token", "ltp"}
                 [] wpc[w] = "unlock" -> Fields
                 [] OTHER -> {}
UpsertInv ==
    \A w \in Writers :
        /\ wpc[w] # "idle" => arg[w] \in Quotes
        /\ wpc[w] \in Fields \cup {"unlock"} =>
              /\ map[arg[w].token] # Absent
              /\ \A f \in Assigned(w) : map[arg[w].token][f] = arg[w][f]

\* Every other entry is a whole quote.
BeingWritten(t) == /\ excl # Nobody
                   /\ wpc[excl] \in Fields \cup {"unlock"}
                   /\ arg[excl].token = t
EntriesWhole ==
    \A t \in Tokens : \/ map[t] = Absent
                      \/ BeingWritten(t)
                      \/ \E n \in Events : map[t] = Quote(t, n)

\* What a reader has copied so far is still what the map holds.
CopyInv ==
    \A r \in Readers :
        /\ rpc[r] \in {"lock", "find", "copy"} =>
              wanted[r] = Tokens \/ \E t \in Tokens : wanted[r] = {t}
        /\ rpc[r] = "copy" =>
              /\ DOMAIN copy[r] = wanted[r]
              /\ \A t \in wanted[r] :
                    /\ map[t] = Absent <=> copy[r][t] = Absent
                    /\ map[t] # Absent =>
                          \A f \in Fields : \/ <<t, f>> \in todo[r]
                                            \/ copy[r][t][f] = map[t][f]
              /\ \A p \in todo[r] : p[1] \in wanted[r] /\ map[p[1]] # Absent

IInv == TypeOK /\ LockInv /\ UpsertInv /\ EntriesWhole /\ CopyInv /\ NoTornQuote

\* The store implements AtomicStore.  An upsert takes effect when it owns the
\* lock and has found its entry, a read when it releases the lock.
Current == [t \in Tokens |-> IF BeingWritten(t) THEN arg[excl] ELSE map[t]]
Atomic == INSTANCE AtomicStore WITH store <- Current
ImplementsAtomicStore == Atomic!StoreSpec
==============================================================================

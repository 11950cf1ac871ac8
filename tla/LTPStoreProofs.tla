--------------------------- MODULE LTPStoreProofs ---------------------------
(***************************************************************************)
(* Proofs about LTPStore for any number of tokens, events, writers and     *)
(* readers: the inductive invariant, the absence of torn quotes and the    *)
(* refinement of AtomicStore.                                              *)
(***************************************************************************)
EXTENDS LTPStore, FiniteSetTheorems, TLAPS

\* Assigning one member of a record changes that member only.
LEMMA SetField ==
    ASSUME NEW e \in Records, NEW f \in Fields, NEW q \in Records
    PROVE  /\ [e EXCEPT ![f] = q[f]] \in Records
           /\ [e EXCEPT ![f] = q[f]][f] = q[f]
           /\ \A g \in Fields \ {f} : [e EXCEPT ![f] = q[f]][g] = e[g]
  <1>1. CASE f = "token"
    BY <1>1 DEF Records, Fields
  <1>2. CASE f = "ltp"
    BY <1>2 DEF Records, Fields
  <1>3. CASE f = "ts"
    BY <1>3 DEF Records, Fields
  <1>4. QED
    BY <1>1, <1>2, <1>3 DEF Fields

\* Records with the same members are the same.
LEMMA SameFields ==
    ASSUME NEW e \in Records, NEW q \in Records, \A f \in Fields : e[f] = q[f]
    PROVE  e = q
  BY DEF Records, Fields

\* A quote is a record, filed under its token.
LEMMA QuoteIsRecord ==
    /\ \A t \in Tokens, n \in Events : Quote(t, n) \in Records
    /\ \A q \in Quotes : /\ q \in Records /\ q.token \in Tokens
                         /\ \E n \in Events : q = Quote(q.token, n)
    /\ Blank \in Records
    /\ Absent \notin Records
  BY StoreAssumption DEF Quotes, Quote, Records, Blank

\* A view is a function from some of the tokens to entries.
LEMMA ViewType ==
    /\ \A v \in Views : v \in [DOMAIN v -> Entries] /\ DOMAIN v \subseteq Tokens
    /\ \A ts \in SUBSET Tokens : \A v : v \in [ts -> Entries] => v \in Views
    /\ Nothing \in Views
  <1>1. Nothing \in [{} -> Entries]
    BY DEF Nothing
  <1>2. QED
    BY <1>1 DEF Views

\* The empty map satisfies the invariant.
LEMMA InitIInv == Init => IInv
  <1> SUFFICES ASSUME Init PROVE IInv
    OBVIOUS
  <1>1. TypeOK
    BY QuoteIsRecord, ViewType DEF Init, TypeOK, Entries
  <1>2. LockInv /\ UpsertInv /\ EntriesWhole /\ CopyInv /\ NoTornQuote
    BY StoreAssumption DEF Init, LockInv, UpsertInv, EntriesWhole, CopyInv, NoTornQuote,
           Nothing, Fields
  <1>3. QED
    BY <1>1, <1>2 DEF IInv

\* A writer inside its critical section is alone.
LEMMA WriterAlone ==
    ASSUME IInv, NEW w \in Writers, wpc[w] \notin {"idle", "lock"}
    PROVE  /\ excl = w
           /\ \A v \in Writers \ {w} : wpc[v] \in {"idle", "lock"}
           /\ shared = {}
           /\ \A r \in Readers : rpc[r] \notin {"find", "copy", "count"}
  <1>1. excl = w /\ excl # Nobody
    BY StoreAssumption DEF IInv, LockInv
  <1>2. QED
    BY <1>1 DEF IInv, LockInv

\* While a reader holds the lock every entry is whole.
LEMMA ReadersSeeWhole ==
    ASSUME IInv, NEW r \in Readers, rpc[r] \in {"find", "copy", "count"}
    PROVE  /\ excl = Nobody
           /\ \A t \in Tokens : map[t] = Absent \/ \E n \in Events : map[t] = Quote(t, n)
  <1>1. r \in shared
    BY DEF IInv, LockInv
  <1>2. excl = Nobody
    BY <1>1 DEF IInv, LockInv
  <1>3. QED
    BY <1>2 DEF IInv, EntriesWhole, BeingWritten

\* Calling upsert only fixes its argument.
LEMMA UpsertCallInv ==
    ASSUME IInv, NEW w \in Writers, UpsertCall(w) PROVE IInv'
  <1> USE DEF readerVars
  <1>1. PICK q \in Quotes : arg' = [arg EXCEPT ![w] = q]
    BY DEF UpsertCall
  <1>2. TypeOK'
    BY <1>1, QuoteIsRecord DEF IInv, TypeOK, UpsertCall
  <1>3. LockInv'
    BY DEF IInv, TypeOK, LockInv, UpsertCall
  <1>4. UpsertInv'
    BY <1>1 DEF IInv, TypeOK, UpsertInv, UpsertCall, Assigned, Fields
  <1>5. EntriesWhole'
    <2>1. ASSUME NEW t \in Tokens PROVE BeingWritten(t) => BeingWritten(t)'
      BY <1>1 DEF IInv, TypeOK, LockInv, BeingWritten, UpsertCall, Fields
    <2>2. QED
      BY <2>1 DEF IInv, EntriesWhole, UpsertCall
  <1>6. CopyInv' /\ NoTornQuote'
    BY DEF IInv, CopyInv, NoTornQuote, UpsertCall
  <1>7. QED
    BY <1>2, <1>3, <1>4, <1>5, <1>6 DEF IInv

\* The writer gets the lock only when no thread is inside.
LEMMA UpsertLockInv ==
    ASSUME IInv, NEW w \in Writers, UpsertLock(w) PROVE IInv'
  <1> USE DEF readerVars
  <1>1. TypeOK'
    BY DEF IInv, TypeOK, UpsertLock
  <1>2. LockInv'
    BY StoreAssumption DEF IInv, TypeOK, LockInv, UpsertLock
  <1>3. UpsertInv'
    BY DEF IInv, TypeOK, UpsertInv, UpsertLock, Assigned, Fields
  <1>4. EntriesWhole'
    BY DEF IInv, EntriesWhole, BeingWritten, UpsertLock
  <1>5. CopyInv' /\ NoTornQuote'
    BY DEF IInv, CopyInv, NoTornQuote, UpsertLock
  <1>6. QED
    BY <1>1, <1>2, <1>3, <1>4, <1>5 DEF IInv

\* The inserted default entry is covered by the assignment that follows.
LEMMA UpsertInsertInv ==
    ASSUME IInv, NEW w \in Writers, UpsertInsert(w) PROVE IInv'
  <1> USE DEF readerVars
  <1> DEFINE t0 == arg[w].token
  <1>1. wpc[w] = "insert" /\ arg[w] \in Quotes /\ t0 \in Tokens
    BY QuoteIsRecord DEF UpsertInsert, IInv, UpsertInv
  <1>2. /\ excl = w /\ shared = {}
        /\ \A v \in Writers \ {w} : wpc[v] \in {"idle", "lock"}
        /\ \A r \in Readers : rpc[r] \notin {"find", "copy", "count"}
    BY <1>1, WriterAlone
  <1>3. /\ map' \in [Tokens -> Entries] /\ map'[t0] # Absent
        /\ \A t \in Tokens \ {t0} : map'[t] = map[t]
    BY <1>1, QuoteIsRecord DEF UpsertInsert, IInv, TypeOK, Entries
  <1>4. TypeOK'
    BY <1>3 DEF IInv, TypeOK, UpsertInsert
  <1>5. LockInv'
    BY <1>1, <1>2 DEF IInv, TypeOK, LockInv, UpsertInsert
  <1>6. UpsertInv'
    BY <1>1, <1>2, <1>3 DEF IInv, TypeOK, UpsertInv, UpsertInsert, Assigned, Fields
  <1>7. EntriesWhole'
    BY <1>1, <1>2, <1>3, StoreAssumption
    DEF IInv, TypeOK, EntriesWhole, BeingWritten, UpsertInsert, Fields
  <1>8. CopyInv' /\ NoTornQuote'
    BY <1>2 DEF IInv, CopyInv, NoTornQuote, UpsertInsert
  <1>9. QED
    BY <1>4, <1>5, <1>6, <1>7, <1>8 DEF IInv

\* Assigning the next member keeps the earlier ones; nobody is looking.
LEMMA UpsertFieldInv ==
    ASSUME IInv, NEW w \in Writers, UpsertField(w) PROVE IInv'
  <1> USE DEF readerVars
  <1> DEFINE q == arg[w]
             t0 == q.token
             f == wpc[w]
  <1>1. /\ f \in Fields /\ q \in Quotes /\ q \in Records /\ t0 \in Tokens
        /\ map[t0] # Absent
        /\ \A g \in Assigned(w) : map[t0][g] = q[g]
    <2>1. f \in Fields
      BY DEF UpsertField
    <2>2. f # "idle"
      BY <2>1 DEF Fields
    <2>3. QED
      BY <2>1, <2>2, QuoteIsRecord DEF IInv, UpsertInv
  <1>2. /\ excl = w /\ shared = {}
        /\ \A v \in Writers \ {w} : wpc[v] \in {"idle", "lock"}
        /\ \A r \in Readers : rpc[r] \notin {"find", "copy", "count"}
    <2>1. wpc[w] \notin {"idle", "lock"}
      BY <1>1 DEF Fields
    <2>2. QED
      BY <2>1, WriterAlone
  <1>3. map[t0] \in Records
    BY <1>1 DEF IInv, TypeOK, Entries
  <1> DEFINE e == [map[t0] EXCEPT ![f] = q[f]]
  <1>4. /\ e \in Records /\ e[f] = q[f]
        /\ \A g \in Fields \ {f} : e[g] = map[t0][g]
    BY <1>1, <1>3, SetField
  <1>5. /\ map' = [map EXCEPT ![t0] = e]
        /\ wpc' = [wpc EXCEPT ![w] = AfterField[f]]
        /\ UNCHANGED <<excl, shared, arg, readerVars>>
    BY DEF UpsertField
  <1> HIDE DEF e
  <1>6. /\ map' \in [Tokens -> Entries] /\ map'[t0] = e /\ map'[t0] # Absent
        /\ \A t \in Tokens \ {t0} : map'[t] = map[t]
    BY <1>1, <1>4, <1>5, QuoteIsRecord DEF IInv, TypeOK, Entries
  <1>7. /\ wpc'[w] \in {"ltp", "ts", "unlock"}
        /\ \A v \in Writers \ {w} : wpc'[v] = wpc[v]
        /\ wpc' \in [Writers -> {"idle", "lock", "insert", "token", "ltp", "ts", "unlock"}]
    BY <1>1, <1>5 DEF IInv, TypeOK, AfterField, Fields
  <1>8. TypeOK'
    BY <1>5, <1>6, <1>7 DEF IInv, TypeOK
  <1>9. LockInv'
    BY <1>2, <1>5, <1>7 DEF IInv, LockInv
  <1>10. UpsertInv'
    <2> SUFFICES ASSUME NEW v \in Writers
                 PROVE  /\ wpc'[v] # "idle" => arg'[v] \in Quotes
                        /\ wpc'[v] \in Fields \cup {"unlock"} =>
                              /\ map'[arg'[v].token] # Absent
                              /\ \A g \in Assigned(v)' : map'[arg'[v].token][g] = arg'[v][g]
      BY DEF UpsertInv
    <2>1. CASE v # w
      BY <1>2, <1>5, <1>7, <2>1 DEF IInv, UpsertInv, Fields
    <2>2. CASE v = w
      <3>1. ASSUME NEW g \in Assigned(w)' PROVE g = f \/ g \in Assigned(w)
        BY <1>1, <1>5 DEF IInv, TypeOK, Assigned, AfterField, Fields
      <3>2. \A g \in Assigned(w) : g \in Fields
        BY DEF Assigned, Fields
      <3>3. \A g \in Assigned(w)' : e[g] = q[g]
        BY <1>1, <1>4, <3>1, <3>2
      <3>4. arg' = arg
        BY <1>5
      <3>5. QED
        BY <1>1, <1>6, <2>2, <3>3, <3>4
    <2>3. QED
      BY <2>1, <2>2
  <1>11. EntriesWhole'
    <2> SUFFICES ASSUME NEW t \in Tokens, ~ BeingWritten(t)'
                 PROVE  map'[t] = Absent \/ \E n \in Events : map'[t] = Quote(t, n)
      BY DEF EntriesWhole
    <2>1. t # t0 /\ ~ BeingWritten(t)
      BY <1>1, <1>2, <1>5, <1>7, StoreAssumption DEF BeingWritten, Fields
    <2>2. QED
      BY <1>6, <2>1 DEF IInv, EntriesWhole
  <1>12. CopyInv' /\ NoTornQuote'
    BY <1>2, <1>5 DEF IInv, CopyInv, NoTornQuote
  <1>13. QED
    BY <1>8, <1>9, <1>10, <1>11, <1>12 DEF IInv

\* The last member assigned, the entry is the whole argument.
LEMMA WrittenWhole ==
    ASSUME IInv, NEW w \in Writers, wpc[w] = "unlock"
    PROVE  arg[w] \in Quotes /\ arg[w].token \in Tokens /\ map[arg[w].token] = arg[w]
  <1>1. /\ arg[w] \in Quotes /\ map[arg[w].token] # Absent
        /\ \A f \in Fields : map[arg[w].token][f] = arg[w][f]
    BY DEF IInv, UpsertInv, Assigned
  <1>2. arg[w] \in Records /\ arg[w].token \in Tokens
    BY <1>1, QuoteIsRecord
  <1>3. map[arg[w].token] \in Records
    BY <1>1, <1>2 DEF IInv, TypeOK, Entries
  <1>4. QED
    BY <1>1, <1>2, <1>3, SameFields

\* Releasing the lock leaves a whole quote behind.
LEMMA UpsertUnlockInv ==
    ASSUME IInv, NEW w \in Writers, UpsertUnlock(w) PROVE IInv'
  <1> USE DEF readerVars
  <1>1. wpc[w] = "unlock"
    BY DEF UpsertUnlock
  <1>2. /\ arg[w] \in Quotes /\ map[arg[w].token] = arg[w]
        /\ \E n \in Events : arg[w] = Quote(arg[w].token, n)
    BY <1>1, WrittenWhole, QuoteIsRecord
  <1>3. /\ excl = w /\ shared = {}
        /\ \A v \in Writers \ {w} : wpc[v] \in {"idle", "lock"}
    BY <1>1, WriterAlone
  <1>4. TypeOK'
    BY QuoteIsRecord DEF IInv, TypeOK, UpsertUnlock
  <1>5. LockInv'
    BY <1>3, StoreAssumption DEF IInv, TypeOK, LockInv, UpsertUnlock
  <1>6. UpsertInv'
    BY <1>3 DEF IInv, TypeOK, UpsertInv, UpsertUnlock, Assigned, Fields
  <1>7. EntriesWhole'
    BY <1>2, <1>3 DEF IInv, EntriesWhole, BeingWritten, UpsertUnlock
  <1>8. CopyInv' /\ NoTornQuote'
    BY DEF IInv, CopyInv, NoTornQuote, UpsertUnlock
  <1>9. QED
    BY <1>4, <1>5, <1>6, <1>7, <1>8 DEF IInv

\* Calling get, snapshot or size only notes what is asked.
LEMMA ReadCallInv ==
    ASSUME IInv, NEW r \in Readers, GetCall(r) \/ SnapshotCall(r) \/ SizeCall(r)
    PROVE  IInv'
  <1> USE DEF writerVars
  <1>1. PICK ts \in SUBSET Tokens, step \in {"lock", "locksize"} :
            /\ ReadCall(r, ts, step)
            /\ step = "lock" => ts = Tokens \/ \E t \in Tokens : ts = {t}
    BY DEF GetCall, SnapshotCall, SizeCall
  <1>2. TypeOK' /\ LockInv'
    BY <1>1 DEF IInv, TypeOK, LockInv, ReadCall
  <1>3. UpsertInv' /\ EntriesWhole' /\ NoTornQuote'
    BY <1>1 DEF IInv, UpsertInv, EntriesWhole, NoTornQuote, BeingWritten, Assigned, ReadCall
  <1>4. CopyInv'
    BY <1>1 DEF IInv, TypeOK, CopyInv, ReadCall
  <1>5. QED
    BY <1>2, <1>3, <1>4 DEF IInv

\* A reader gets in only when no writer is inside.
LEMMA ReadLockInv ==
    ASSUME IInv, NEW r \in Readers, ReadLock(r) PROVE IInv'
  <1> USE DEF writerVars
  <1>1. TypeOK' /\ LockInv'
    BY DEF IInv, TypeOK, LockInv, ReadLock
  <1>2. UpsertInv' /\ EntriesWhole' /\ NoTornQuote'
    BY DEF IInv, UpsertInv, EntriesWhole, NoTornQuote, BeingWritten, Assigned, ReadLock
  <1>3. CopyInv'
    BY DEF IInv, TypeOK, CopyInv, ReadLock
  <1>4. QED
    BY <1>1, <1>2, <1>3 DEF IInv

\* Everything found is still to be copied.
LEMMA ReadFindInv ==
    ASSUME IInv, NEW r \in Readers, ReadFind(r) PROVE IInv'
  <1> USE DEF writerVars
  <1>1. TypeOK'
    <2> DEFINE new == [t \in wanted[r] |-> IF map[t] = Absent THEN Absent ELSE Blank]
    <2>1. wanted[r] \in SUBSET Tokens
      BY DEF IInv, TypeOK
    <2>2. new \in [wanted[r] -> Entries]
      BY QuoteIsRecord DEF Entries
    <2>3. new \in Views
      BY <2>1, <2>2, ViewType
    <2> HIDE DEF new
    <2>4. copy' = [copy EXCEPT ![r] = new]
      BY DEF ReadFind, new
    <2>5. {t \in wanted[r] : map[t] # Absent} \X Fields \in SUBSET (Tokens \X Fields)
      BY <2>1
    <2>6. QED
      BY <2>3, <2>4, <2>5 DEF IInv, TypeOK, ReadFind
  <1>2. LockInv'
    BY DEF IInv, TypeOK, LockInv, ReadFind
  <1>3. UpsertInv' /\ EntriesWhole' /\ NoTornQuote'
    BY DEF IInv, UpsertInv, EntriesWhole, NoTornQuote, BeingWritten, Assigned, ReadFind
  <1>4. CopyInv'
    BY QuoteIsRecord DEF IInv, TypeOK, CopyInv, ReadFind
  <1>5. QED
    BY <1>1, <1>2, <1>3, <1>4 DEF IInv

\* A member copied is the member in the map.
LEMMA CopyFieldInv ==
    ASSUME IInv, NEW r \in Readers, CopyField(r) PROVE IInv'
  <1> USE DEF writerVars
  <1>1. PICK p \in todo[r] : /\ copy' = [copy EXCEPT ![r][p[1]][p[2]] = map[p[1]][p[2]]]
                             /\ todo' = [todo EXCEPT ![r] = @ \ {p}]
    BY DEF CopyField
  <1> DEFINE t0 == p[1]
             f == p[2]
             e == [copy[r][t0] EXCEPT ![f] = map[t0][f]]
  <1>2. /\ rpc[r] = "copy" /\ p \in Tokens \X Fields /\ p = <<t0, f>>
        /\ t0 \in wanted[r] /\ t0 \in Tokens /\ f \in Fields /\ map[t0] # Absent
        /\ DOMAIN copy[r] = wanted[r] /\ wanted[r] \subseteq Tokens
        /\ copy[r] \in [wanted[r] -> Entries]
        /\ \A t \in wanted[r] : (map[t] = Absent) <=> (copy[r][t] = Absent)
    BY ViewType DEF CopyField, IInv, TypeOK, CopyInv
  <1>3. map[t0] \in Records /\ copy[r][t0] \in Records
    BY <1>2 DEF IInv, TypeOK, Entries
  <1>4. /\ e \in Records /\ e[f] = map[t0][f]
        /\ \A g \in Fields \ {f} : e[g] = copy[r][t0][g]
    BY <1>2, <1>3, SetField
  <1>5. copy' = [copy EXCEPT ![r] = [copy[r] EXCEPT ![t0] = e]]
    BY <1>1
  <1> HIDE DEF e
  <1>6. /\ copy'[r] \in [wanted[r] -> Entries] /\ copy'[r][t0] = e
        /\ \A t \in wanted[r] \ {t0} : copy'[r][t] = copy[r][t]
        /\ \A s \in Readers \ {r} : copy'[s] = copy[s]
        /\ copy' \in [Readers -> Views]
    <2>1. [copy[r] EXCEPT ![t0] = e] \in [wanted[r] -> Entries]
      BY <1>2, <1>4 DEF Entries
    <2>2. [copy[r] EXCEPT ![t0] = e] \in Views
      BY <2>1, <1>2, ViewType
    <2>3. QED
      BY <1>2, <1>5, <2>1, <2>2 DEF IInv, TypeOK
  <1>7. /\ todo' \in [Readers -> SUBSET (Tokens \X Fields)]
        /\ todo'[r] = todo[r] \ {p} /\ \A s \in Readers \ {r} : todo'[s] = todo[s]
    BY <1>1 DEF IInv, TypeOK
  <1>8. TypeOK'
    BY <1>6, <1>7 DEF IInv, TypeOK, CopyField
  <1>9. LockInv'
    BY DEF IInv, TypeOK, LockInv, CopyField
  <1>10. UpsertInv' /\ EntriesWhole' /\ NoTornQuote'
    BY DEF IInv, UpsertInv, EntriesWhole, NoTornQuote, BeingWritten, Assigned, CopyField
  <1>11. CopyInv'
    <2> SUFFICES ASSUME NEW s \in Readers, rpc[s] = "copy"
                 PROVE  /\ DOMAIN copy'[s] = wanted[s]
                        /\ \A t \in wanted[s] :
                              /\ map[t] = Absent <=> copy'[s][t] = Absent
                              /\ map[t] # Absent =>
                                    \A g \in Fields : \/ <<t, g>> \in todo'[s]
                                                      \/ copy'[s][t][g] = map[t][g]
                        /\ \A x \in todo'[s] : x[1] \in wanted[s] /\ map[x[1]] # Absent
      BY DEF IInv, CopyInv, CopyField
    <2>1. CASE s # r
      BY <1>6, <1>7, <2>1 DEF IInv, CopyInv
    <2>2. CASE s = r
      <3>1. DOMAIN copy'[r] = wanted[r]
        BY <1>6
      <3>2. ASSUME NEW t \in wanted[r], NEW g \in Fields, map[t] # Absent,
                   <<t, g>> \notin todo'[r]
            PROVE  copy'[r][t][g] = map[t][g]
        <4>1. CASE t = t0 /\ g = f
          BY <1>4, <1>6, <4>1
        <4>2. CASE ~ (t = t0 /\ g = f)
          <5>1. <<t, g>> # p
            BY <1>2, <4>2
          <5>2. <<t, g>> \notin todo[r]
            BY <5>1, <3>2, <1>7
          <5>3. copy[r][t][g] = map[t][g]
            BY <5>2, <3>2, <1>2 DEF IInv, CopyInv
          <5>4. CASE t = t0
            BY <5>3, <5>4, <4>2, <1>4, <1>6
          <5>5. CASE t # t0
            BY <5>3, <5>5, <1>6
          <5>6. QED
            BY <5>4, <5>5
        <4>3. QED
          BY <4>1, <4>2
      <3>3. \A t \in wanted[r] : map[t] = Absent <=> copy'[r][t] = Absent
        BY <1>2, <1>4, <1>6, QuoteIsRecord
      <3>4. \A x \in todo'[r] : x[1] \in wanted[r] /\ map[x[1]] # Absent
        BY <1>2, <1>7 DEF IInv, CopyInv
      <3>5. QED
        BY <2>2, <3>1, <3>2, <3>3, <3>4
    <2>3. QED
      BY <2>1, <2>2
  <1>12. QED
    BY <1>8, <1>9, <1>10, <1>11 DEF IInv

\* A finished copy is the map restricted to what was asked.
LEMMA CopyComplete ==
    ASSUME IInv, NEW r \in Readers, rpc[r] = "copy", todo[r] = {}
    PROVE  copy[r] = [t \in wanted[r] |-> map[t]] /\ wanted[r] \subseteq Tokens
  <1>1. /\ copy[r] \in [wanted[r] -> Entries] /\ wanted[r] \subseteq Tokens
        /\ \A t \in wanted[r] :
              /\ map[t] = Absent <=> copy[r][t] = Absent
              /\ map[t] # Absent => \A f \in Fields : copy[r][t][f] = map[t][f]
    <2>1. copy[r] \in Views /\ DOMAIN copy[r] = wanted[r] /\ wanted[r] \subseteq Tokens
      BY DEF IInv, TypeOK, CopyInv
    <2>2. copy[r] \in [wanted[r] -> Entries]
      BY <2>1, ViewType
    <2>3. \A t \in wanted[r] :
              /\ map[t] = Absent <=> copy[r][t] = Absent
              /\ map[t] # Absent => \A f \in Fields : \/ <<t, f>> \in todo[r]
                                                       \/ copy[r][t][f] = map[t][f]
      BY DEF IInv, CopyInv
    <2>4. \A t \in wanted[r], f \in Fields : <<t, f>> \notin todo[r]
      OBVIOUS
    <2>5. QED
      BY <2>1, <2>2, <2>3, <2>4
  <1>2. ASSUME NEW t \in wanted[r] PROVE copy[r][t] = map[t]
    <2>1. CASE map[t] = Absent
      BY <1>1, <2>1
    <2>2. CASE map[t] # Absent
      <3>1. map[t] \in Records /\ copy[r][t] \in Records
        BY <1>1, <2>2 DEF IInv, TypeOK, Entries
      <3>2. QED
        BY <1>1, <2>2, <3>1, SameFields
    <2>3. QED
      BY <2>1, <2>2
  <1>3. QED
    BY <1>1, <1>2

\* What a reader takes away is whole.
LEMMA ReadUnlockInv ==
    ASSUME IInv, NEW r \in Readers, ReadUnlock(r) PROVE IInv'
  <1> USE DEF writerVars
  <1>1. rpc[r] = "copy" /\ todo[r] = {}
    BY DEF ReadUnlock
  <1>2. copy[r] = [t \in wanted[r] |-> map[t]] /\ wanted[r] \subseteq Tokens
    BY <1>1, CopyComplete
  <1>3. \A t \in Tokens : map[t] = Absent \/ \E n \in Events : map[t] = Quote(t, n)
    BY <1>1, ReadersSeeWhole
  <1>4. TypeOK'
    BY ViewType DEF IInv, TypeOK, ReadUnlock
  <1>5. LockInv'
    BY DEF IInv, TypeOK, LockInv, ReadUnlock
  <1>6. UpsertInv' /\ EntriesWhole'
    BY DEF IInv, UpsertInv, EntriesWhole, BeingWritten, Assigned, ReadUnlock
  <1>7. CopyInv'
    BY DEF IInv, TypeOK, CopyInv, ReadUnlock
  <1>8. NoTornQuote'
    <2> SUFFICES ASSUME NEW s \in Readers, NEW t \in DOMAIN answer'[s]
                 PROVE  answer'[s][t] = Absent \/ \E n \in Events : answer'[s][t] = Quote(t, n)
      BY DEF NoTornQuote
    <2>1. CASE answer'[s] = answer[s]
      BY <2>1 DEF IInv, NoTornQuote
    <2>2. CASE answer'[s] # answer[s]
      <3>1. answer' = [answer EXCEPT ![r] = copy[r]]
        BY DEF ReadUnlock
      <3>2. answer'[s] = copy[r]
        BY <2>2, <3>1
      <3>3. QED
        BY <1>2, <1>3, <3>2
    <2>3. QED
      BY <2>1, <2>2
  <1>9. QED
    BY <1>4, <1>5, <1>6, <1>7, <1>8 DEF IInv

\* size releases the lock with a number.
LEMMA SizeUnlockInv ==
    ASSUME IInv, NEW r \in Readers, SizeUnlock(r) PROVE IInv'
  <1> USE DEF writerVars
  <1>1. Cardinality({t \in Tokens : map[t] # Absent}) \in Nat
    <2>1. IsFiniteSet({t \in Tokens : map[t] # Absent})
      BY StoreAssumption, FS_Subset
    <2>2. QED
      BY <2>1, FS_CardinalityType
  <1>2. TypeOK'
    BY <1>1 DEF IInv, TypeOK, SizeUnlock
  <1>3. LockInv'
    BY DEF IInv, TypeOK, LockInv, SizeUnlock
  <1>4. UpsertInv' /\ EntriesWhole' /\ NoTornQuote'
    BY DEF IInv, UpsertInv, EntriesWhole, NoTornQuote, BeingWritten, Assigned, SizeUnlock
  <1>5. CopyInv'
    BY DEF IInv, TypeOK, CopyInv, SizeUnlock
  <1>6. QED
    BY <1>2, <1>3, <1>4, <1>5 DEF IInv

\* A stuttering step changes nothing.
LEMMA StutterInv == IInv /\ UNCHANGED vars => IInv'
  BY DEF IInv, vars, readerVars, writerVars, TypeOK, LockInv, UpsertInv, EntriesWhole,
         CopyInv, NoTornQuote, BeingWritten, Assigned

\* Every step preserves the invariant.
LEMMA StepInv == IInv /\ [Next]_vars => IInv'
  <1> SUFFICES ASSUME IInv, [Next]_vars PROVE IInv'
    OBVIOUS
  <1>1. ASSUME NEW w \in Writers, Upsert(w) PROVE IInv'
    BY <1>1, UpsertCallInv, UpsertLockInv, UpsertInsertInv, UpsertFieldInv,
       UpsertUnlockInv DEF Upsert
  <1>2. ASSUME NEW r \in Readers, Read(r) PROVE IInv'
    BY <1>2, ReadCallInv, ReadLockInv, ReadFindInv, CopyFieldInv, ReadUnlockInv,
       SizeUnlockInv DEF Read
  <1>3. QED
    BY <1>1, <1>2, StutterInv DEF Next

\* The invariant holds in every reachable state.
THEOREM Invariance == Spec => []IInv
  BY InitIInv, StepInv, PTL DEF Spec

\* The variables have their types.
THEOREM TypeCorrect == Spec => []TypeOK
  BY Invariance, PTL DEF IInv

\* No get or snapshot returns a quote that was not upserted as a whole.
THEOREM NeverTorn == Spec => []NoTornQuote
  BY Invariance, PTL DEF IInv

(***************************************************************************)
(* The store implements AtomicStore.                                       *)
(***************************************************************************)

\* A step that leaves the map and the writers alone is invisible but for the
\* answer it may give.
LEMMA CurrentKept ==
    ASSUME map' = map, excl' = excl, wpc' = wpc, arg' = arg
    PROVE  Current' = Current
  BY DEF Current, BeingWritten

\* While nobody is assigning, the abstract store is the map.
LEMMA CurrentIsMap ==
    ASSUME IInv, \A t \in Tokens : ~ BeingWritten(t)
    PROVE  Current = map
  BY DEF Current, IInv, TypeOK

\* A reader that holds the lock sees the abstract store.
LEMMA ReaderSeesCurrent ==
    ASSUME IInv, NEW r \in Readers, rpc[r] \in {"find", "copy", "count"}
    PROVE  Current = map
  <1>1. \A t \in Tokens : ~ BeingWritten(t)
    BY ReadersSeeWhole DEF BeingWritten
  <1>2. QED
    BY <1>1, CurrentIsMap

\* Calling upsert and waiting for the lock change nothing a reader can see.
LEMMA UpsertWaits ==
    ASSUME IInv, NEW w \in Writers, UpsertCall(w) \/ UpsertLock(w)
    PROVE  UNCHANGED Atomic!storeVars
  <1>1. wpc[w] \in {"idle", "lock"} /\ map' = map /\ answer' = answer /\ counted' = counted
    BY DEF UpsertCall, UpsertLock, readerVars
  <1>2. ASSUME NEW t \in Tokens
        PROVE  /\ BeingWritten(t)' <=> BeingWritten(t)
               /\ BeingWritten(t) => arg'[excl'] = arg[excl]
    <2>1. excl = w => FALSE
      BY <1>1 DEF IInv, LockInv
    <2>2. CASE UpsertCall(w)
      BY <1>1, <2>1, <2>2 DEF UpsertCall, BeingWritten, IInv, TypeOK, Fields
    <2>3. CASE UpsertLock(w)
      BY <1>1, <2>1, <2>3 DEF UpsertLock, BeingWritten, IInv, TypeOK, Fields
    <2>4. QED
      BY <2>2, <2>3
  <1>3. Current' = Current
    BY <1>1, <1>2 DEF Current
  <1>4. QED
    BY <1>1, <1>3 DEF Atomic!storeVars

\* Finding the entry is the step at which the upsert takes effect.
LEMMA InsertUpserts ==
    ASSUME IInv, NEW w \in Writers, UpsertInsert(w)
    PROVE  Atomic!Upsert(arg[w]) /\ arg[w] \in Quotes
  <1> DEFINE q == arg[w]
             t0 == q.token
  <1>1. wpc[w] = "insert" /\ q \in Quotes /\ t0 \in Tokens
    BY QuoteIsRecord DEF UpsertInsert, IInv, UpsertInv
  <1>2. excl = w /\ excl # Nobody
    BY <1>1, WriterAlone, StoreAssumption
  <1>3. Current = map
    BY <1>1, <1>2, CurrentIsMap DEF BeingWritten, Fields
  <1>4. /\ excl' = w /\ arg' = arg /\ wpc'[w] = "token"
        /\ \A t \in Tokens \ {t0} : map'[t] = map[t]
        /\ answer' = answer /\ counted' = counted
    BY <1>1, <1>2 DEF UpsertInsert, IInv, TypeOK, readerVars
  <1>5. \A t \in Tokens : BeingWritten(t)' <=> t = t0
    BY <1>1, <1>2, <1>4 DEF BeingWritten, Fields
  <1>6. \A t \in Tokens : Current'[t] = IF t = t0 THEN q ELSE Current[t]
    BY <1>2, <1>3, <1>4, <1>5 DEF Current
  <1>7. Current' = [Current EXCEPT ![t0] = q]
    BY <1>6 DEF Current
  <1>8. QED
    BY <1>1, <1>4, <1>7 DEF Atomic!Upsert

\* Assigning the members is hidden by the lock.
LEMMA FieldHidden ==
    ASSUME IInv, NEW w \in Writers, UpsertField(w)
    PROVE  UNCHANGED Atomic!storeVars
  <1> DEFINE t0 == arg[w].token
  <1>1. wpc[w] \in Fields /\ arg[w] \in Quotes /\ t0 \in Tokens
    <2>1. wpc[w] \in Fields /\ wpc[w] # "idle"
      BY DEF UpsertField, Fields
    <2>2. QED
      BY <2>1, QuoteIsRecord DEF IInv, UpsertInv
  <1>2. excl = w /\ excl # Nobody
    BY <1>1, WriterAlone, StoreAssumption DEF Fields
  <1>3. /\ excl' = w /\ arg' = arg /\ wpc'[w] \in Fields \cup {"unlock"}
        /\ \A t \in Tokens \ {t0} : map'[t] = map[t]
        /\ answer' = answer /\ counted' = counted
    BY <1>1, <1>2 DEF UpsertField, IInv, TypeOK, AfterField, Fields, readerVars
  <1>4. \A t \in Tokens : (BeingWritten(t) <=> t = t0) /\ (BeingWritten(t)' <=> t = t0)
    BY <1>1, <1>2, <1>3 DEF BeingWritten
  <1>5. Current' = Current
    BY <1>2, <1>3, <1>4 DEF Current
  <1>6. QED
    BY <1>3, <1>5 DEF Atomic!storeVars

\* When the lock is released the entry is already what readers are owed.
LEMMA UnlockHidden ==
    ASSUME IInv, NEW w \in Writers, UpsertUnlock(w)
    PROVE  UNCHANGED Atomic!storeVars
  <1> DEFINE t0 == arg[w].token
  <1>1. wpc[w] = "unlock"
    BY DEF UpsertUnlock
  <1>2. t0 \in Tokens /\ map[t0] = arg[w]
    BY <1>1, WrittenWhole
  <1>3. excl = w /\ excl # Nobody
    BY <1>1, WriterAlone, StoreAssumption
  <1>4. excl' = Nobody /\ map' = map /\ answer' = answer /\ counted' = counted
    BY DEF UpsertUnlock, readerVars
  <1>5. \A t \in Tokens : (BeingWritten(t) <=> t = t0) /\ ~ BeingWritten(t)'
    BY <1>1, <1>3, <1>4 DEF BeingWritten
  <1>6. Current' = Current
    BY <1>2, <1>3, <1>4, <1>5 DEF Current
  <1>7. QED
    BY <1>4, <1>6 DEF Atomic!storeVars

\* Until it releases the lock a reader changes nothing.
LEMMA ReadHidden ==
    ASSUME NEW r \in Readers,
           \/ GetCall(r) \/ SnapshotCall(r) \/ SizeCall(r)
           \/ ReadLock(r) \/ ReadFind(r) \/ CopyField(r)
    PROVE  UNCHANGED Atomic!storeVars
  <1>1. /\ map' = map /\ excl' = excl /\ wpc' = wpc /\ arg' = arg
        /\ answer' = answer /\ counted' = counted
    BY DEF GetCall, SnapshotCall, SizeCall, ReadCall, ReadLock, ReadFind, CopyField, writerVars
  <1>2. Current' = Current
    BY <1>1, CurrentKept
  <1>3. QED
    BY <1>1, <1>2 DEF Atomic!storeVars

\* A get or a snapshot takes effect when it releases the lock.
LEMMA UnlockReads ==
    ASSUME IInv, NEW r \in Readers, ReadUnlock(r)
    PROVE  Atomic!Get(r) \/ Atomic!Snapshot(r)
  <1>1. rpc[r] = "copy" /\ todo[r] = {}
    BY DEF ReadUnlock
  <1>2. copy[r] = [t \in wanted[r] |-> map[t]]
    BY <1>1, CopyComplete
  <1>3. Current = map
    BY <1>1, ReaderSeesCurrent
  <1>4. Current' = Current
    BY CurrentKept DEF ReadUnlock, writerVars
  <1>5. /\ answer' = [answer EXCEPT ![r] = [t \in wanted[r] |-> Current[t]]]
        /\ counted' = counted
    BY <1>2, <1>3 DEF ReadUnlock
  <1>6. Atomic!Read(r, wanted[r])
    BY <1>4, <1>5 DEF Atomic!Read
  <1>7. wanted[r] = Tokens \/ \E t \in Tokens : wanted[r] = {t}
    BY <1>1 DEF IInv, CopyInv
  <1>8. QED
    BY <1>6, <1>7 DEF Atomic!Get, Atomic!Snapshot

\* size counts the entries of the abstract store.
LEMMA UnlockCounts ==
    ASSUME IInv, NEW r \in Readers, SizeUnlock(r)
    PROVE  Atomic!Size(r)
  <1>1. rpc[r] = "count"
    BY DEF SizeUnlock
  <1>2. Current = map
    BY <1>1, ReaderSeesCurrent
  <1>3. Current' = Current
    BY CurrentKept DEF SizeUnlock, writerVars
  <1>4. QED
    BY <1>2, <1>3 DEF SizeUnlock, Atomic!Size, Cardinality, Atomic!Cardinality

\* Every step is a step of AtomicStore or leaves it alone.
LEMMA StepRefines == IInv /\ [Next]_vars => [Atomic!StoreNext]_Atomic!storeVars
  <1> SUFFICES ASSUME IInv, [Next]_vars
               PROVE  [Atomic!StoreNext]_Atomic!storeVars
    OBVIOUS
  <1>1. ASSUME NEW w \in Writers, Upsert(w)
        PROVE  [Atomic!StoreNext]_Atomic!storeVars
    <2>1. CASE UpsertCall(w) \/ UpsertLock(w)
      BY <2>1, UpsertWaits
    <2>2. CASE UpsertInsert(w)
      BY <2>2, InsertUpserts DEF Atomic!StoreNext
    <2>3. CASE UpsertField(w)
      BY <2>3, FieldHidden
    <2>4. CASE UpsertUnlock(w)
      BY <2>4, UnlockHidden
    <2>5. QED
      BY <1>1, <2>1, <2>2, <2>3, <2>4 DEF Upsert
  <1>2. ASSUME NEW r \in Readers, Read(r)
        PROVE  [Atomic!StoreNext]_Atomic!storeVars
    <2>1. CASE \/ GetCall(r) \/ SnapshotCall(r) \/ SizeCall(r)
               \/ ReadLock(r) \/ ReadFind(r) \/ CopyField(r)
      BY <2>1, ReadHidden
    <2>2. CASE ReadUnlock(r)
      BY <2>2, UnlockReads DEF Atomic!StoreNext
    <2>3. CASE SizeUnlock(r)
      BY <2>3, UnlockCounts DEF Atomic!StoreNext
    <2>4. QED
      BY <1>2, <2>1, <2>2, <2>3 DEF Read
  <1>3. CASE UNCHANGED vars
    <2>1. /\ map' = map /\ excl' = excl /\ wpc' = wpc /\ arg' = arg
          /\ answer' = answer /\ counted' = counted
      BY <1>3 DEF vars, writerVars, readerVars
    <2>2. QED
      BY <2>1, CurrentKept DEF Atomic!storeVars
  <1>4. QED
    BY <1>1, <1>2, <1>3 DEF Next

\* The empty map is the empty store.
LEMMA InitRefines == Init => Atomic!StoreInit
  BY DEF Init, Atomic!StoreInit, Current, BeingWritten, Nothing

\* The store guarded by its shared mutex implements the store whose
\* operations take effect in one step.
THEOREM Refinement == Spec => ImplementsAtomicStore
  BY InitRefines, StepRefines, Invariance, PTL
  DEF Spec, ImplementsAtomicStore, Atomic!StoreSpec
==============================================================================

---------------------------- MODULE AtomicStore ----------------------------
(***************************************************************************)
(* What include/ltp_store.h promises: the latest quote of each token.      *)
(* upsert overwrites the token's quote, get and snapshot hand out quotes   *)
(* exactly as they were upserted, and a snapshot shows all tokens at one   *)
(* instant.  Each operation takes effect in one step.                      *)
(***************************************************************************)
EXTENDS FiniteSets

CONSTANTS Tokens,    \* the instruments
          Quotes,    \* the quotes callers upsert: records with a token field
          Readers,   \* the threads that read
          Absent     \* the answer for a token with no quote yet

VARIABLES store,     \* the quote of each token, or Absent
          answer,    \* what each reader's last get or snapshot returned
          counted    \* what each reader's last size returned

storeVars == <<store, answer, counted>>

StoreInit ==
    /\ store = [t \in Tokens |-> Absent]
    /\ answer = [r \in Readers |-> [t \in {} |-> Absent]]
    /\ counted = [r \in Readers |-> 0]

Upsert(q) == /\ store' = [store EXCEPT ![q.token] = q]
             /\ UNCHANGED <<answer, counted>>

\* get reads one token, snapshot reads them all.
Read(r, wanted) == /\ answer' = [answer EXCEPT ![r] = [t \in wanted |-> store[t]]]
                   /\ UNCHANGED <<store, counted>>

Get(r) == \E t \in Tokens : Read(r, {t})
Snapshot(r) == Read(r, Tokens)

Size(r) == /\ counted' = [counted EXCEPT ![r] =
                            Cardinality({t \in Tokens : store[t] # Absent})]
           /\ UNCHANGED <<store, answer>>

StoreNext == \/ \E q \in Quotes : Upsert(q)
             \/ \E r \in Readers : Get(r) \/ Snapshot(r) \/ Size(r)

StoreSpec == StoreInit /\ [][StoreNext]_storeVars
==============================================================================

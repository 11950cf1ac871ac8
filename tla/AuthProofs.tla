----------------------------- MODULE AuthProofs -----------------------------
(***************************************************************************)
(* Proofs about Auth, for any set of lifetimes, any width of an int, any   *)
(* margin and any number of sessions.                                      *)
(***************************************************************************)
EXTENDS Auth, TLAPS

\* Nothing is granted outside a call, and a refresh answers for the refresh
\* token it was called with.
GrantForCall ==
    /\ pc = "idle" => grant = NoGrant
    /\ pc = "refresh" /\ grant # NoGrant => grant.session = tokens.refresh

\* An expiry is at most the lifetime it was computed from ahead: of the clock,
\* of a grant under way and, but for the time its own answer took, of the grant
\* of the token held.
ExpiryBounded ==
    /\ tokens.expires <= now + dated.life
    /\ grant # NoGrant => grant.at <= now /\ tokens.expires <= grant.at + dated.life
    /\ tokens.access # 0 => tokens.expires <= held.at + dated.life + dated.late

IInv == TypeOK /\ GrantForCall /\ TokensOfOneLogin /\ ExpiryBounded

\* Division with remainder, for a positive divisor.
LEMMA DivMod ==
    ASSUME NEW a \in Int, NEW n \in Nat \ {0}
    PROVE  /\ a % n \in 0 .. n - 1
           /\ a \div n \in Int
           /\ a = n * (a \div n) + (a % n)
  OBVIOUS

\* The narrowing to an int never makes a lifetime longer, and what it makes
\* fits an int.
LEMMA AsIntBounds ==
    ASSUME NEW n \in Nat
    PROVE  AsInt(n) \in Int /\ AsInt(n) <= n /\ AsInt(n) <= IntMod \div 2
  <1> DEFINE h == IntMod \div 2
             q == (n + h) \div IntMod
             r == (n + h) % IntMod
  <1>1. IntMod \in Nat \ {0}
    BY AuthAssumption
  <1>2. h \in Nat /\ IntMod - 1 <= 2 * h
    BY <1>1
  <1>3. r \in 0 .. IntMod - 1 /\ q \in Int /\ n + h = IntMod * q + r
    <2>1. n + h \in Int  BY <1>2
    <2> HIDE DEF h
    <2>2. QED            BY <2>1, <1>1, DivMod
  <1> HIDE DEF h, q, r
  <1>4. IntMod * q >= 0
    <2>1. CASE q <= -1
      <3>1. IntMod * q <= -IntMod  BY <2>1, <1>1, <1>3
      <3>2. QED                    BY <3>1, <1>1, <1>2, <1>3
    <2>2. CASE q >= 0              BY <2>2, <1>1, <1>3
    <2>3. QED                      BY <2>1, <2>2, <1>3
  <1>5. AsInt(n) = r - h
    BY DEF AsInt, h, r
  <1>6. IntMod * q \in Int
    BY <1>1, <1>3
  <1> QED BY <1>1, <1>2, <1>3, <1>4, <1>5, <1>6 DEF h

\* The expiry of an answer is kept with what it was computed from, or it is at
\* most the grant's lifetime and at most an int ahead, and dated by the grant.
LEMMA ExpiryBounds ==
    ASSUME TypeOK, grant.at <= now, NEW a \in Answer, NEW kept \in Nat, NEW source
    PROVE  \/ Expiry(a, kept) = kept /\ DatedBy(a, source) = source
           \/ /\ Expiry(a, kept) \in Nat
              /\ Expiry(a, kept) <= now + grant.life
              /\ Expiry(a, kept) <= now + IntMod \div 2
              /\ DatedBy(a, source) = [life |-> grant.life, late |-> now - grant.at]
  <1>1. grant.life \in Nat /\ now \in Nat /\ grant.at \in Nat
    BY DEF TypeOK
  <1>2. /\ AsInt(grant.life) \in Int /\ AsInt(grant.life) <= grant.life
        /\ AsInt(grant.life) <= IntMod \div 2
    BY <1>1, AsIntBounds
  <1>3. IntMod \div 2 \in Int
    BY AuthAssumption
  <1>4. CASE Usable(a)
    <2>1. /\ AsInt(grant.life) > 0 /\ Expiry(a, kept) = now + AsInt(grant.life)
          /\ DatedBy(a, source) = [life |-> grant.life, late |-> now - grant.at]
      BY <1>4 DEF Usable, Expiry, DatedBy
    <2>2. QED BY <2>1, <1>1, <1>2, <1>3
  <1>5. CASE ~Usable(a)
    BY <1>5 DEF Expiry, DatedBy
  <1> QED BY <1>4, <1>5

\* A field is a token of the grant's login, nothing, or what was kept.
LEMMA ValueOf ==
    ASSUME NEW f \in Field, f # "other", NEW kept
    PROVE  Value(f, kept) \in {kept, 0, grant.session}
  BY DEF Field, Value

LEMMA InitIInv == Init => IInv
  <1> SUFFICES ASSUME Init PROVE IInv
    OBVIOUS
  <1>1. now = 1 /\ held = NotHeld /\ dated = Undated
    BY DEF Init
  <1>2. IntMod \div 2 \in Nat
    BY AuthAssumption
  <1>3. tokens = Blank /\ grant = NoGrant /\ 0 \in Session
    BY AuthAssumption DEF Init, Session
  <1>4. TypeOK
    <2>1. tokens \in [access : Session, refresh : Session, feed : Session, expires : Nat]
      BY <1>3 DEF Blank
    <2>2. tokens.expires = 0 /\ tokens.expires <= now + IntMod \div 2
      BY <1>1, <1>2, <1>3 DEF Blank
    <2>3. grant \in [session : Session, at : Nat, life : Nat]
      BY <1>3 DEF NoGrant
    <2>4. now \in Nat /\ held \in [at : Nat, life : Nat] /\ dated \in [life : Nat, late : Nat]
      BY <1>1 DEF NotHeld, Undated
    <2>5. torn \in BOOLEAN /\ logins \in Session
      BY <1>3, Zenon DEF Init
    <2>6. QED BY <2>1, <2>2, <2>3, <2>4, <2>5, Zenon DEF Init, TypeOK
  <1>5. GrantForCall /\ TokensOfOneLogin /\ ExpiryBounded
    BY <1>1, <1>3 DEF Init, GrantForCall, TokensOfOneLogin, ExpiryBounded, Blank, Undated
  <1> QED BY <1>4, <1>5 DEF IInv

\* The steps that leave the tokens alone, but for the clock's.
LEMMA StepKeepsTokens ==
    ASSUME IInv,
           \/ LoginCall \/ RefreshCall \/ RefreshWithoutToken
           \/ GrantLogin \/ GrantRefresh \/ RequestThrows \/ AnswerRefused
           \/ \E a \in Answer : LoginIncomplete(a) \/ RefreshWithoutJwt(a)
           \/ UNCHANGED vars
    PROVE  IInv'
  <1>1. UNCHANGED <<tokens, now, held, dated, torn>>
    BY DEF history, LoginCall, RefreshCall, RefreshWithoutToken, GrantLogin, GrantRefresh,
           RequestThrows, AnswerRefused, LoginIncomplete, RefreshWithoutJwt, vars
  <1>2. /\ now \in Nat /\ tokens.refresh \in Session /\ tokens.expires \in Nat
        /\ dated.life \in Nat /\ \A life \in Lifetimes : life \in Nat
    BY AuthAssumption DEF IInv, TypeOK
  <1>3. NoGrant \in [session : Session, at : Nat, life : Nat]
    BY AuthAssumption DEF NoGrant, Session
  <1>4. pc' \in {"idle", "login", "refresh"} /\ result' \in {"true", "false", "threw"}
    BY DEF IInv, TypeOK, LoginCall, RefreshCall, RefreshWithoutToken, GrantLogin,
           GrantRefresh, RequestThrows, AnswerRefused, LoginIncomplete,
           RefreshWithoutJwt, Return, vars
  <1>5. logins' \in Session /\ grant' \in [session : Session, at : Nat, life : Nat]
    <2>1. CASE GrantLogin
      BY <2>1, <1>2, AuthAssumption DEF GrantLogin, IInv, TypeOK, Session
    <2>2. CASE GrantRefresh
      BY <2>2, <1>2 DEF GrantRefresh, IInv, TypeOK
    <2>3. CASE ~GrantLogin /\ ~GrantRefresh
      BY <2>3, <1>3 DEF IInv, TypeOK, LoginCall, RefreshCall, RefreshWithoutToken,
                        RequestThrows, AnswerRefused, LoginIncomplete,
                        RefreshWithoutJwt, Return, vars
    <2>4. QED BY <2>1, <2>2, <2>3
  <1>6. TypeOK'
    BY <1>1, <1>4, <1>5 DEF IInv, TypeOK
  <1>7. \/ grant' = NoGrant
        \/ grant' = grant /\ pc' = pc
        \/ grant'.at = now /\ pc = "login" /\ pc' = pc
        \/ grant'.at = now /\ pc = "refresh" /\ pc' = pc /\ grant'.session = tokens.refresh
    BY DEF IInv, GrantForCall, LoginCall, RefreshCall, RefreshWithoutToken, GrantLogin,
           GrantRefresh, RequestThrows, AnswerRefused, LoginIncomplete,
           RefreshWithoutJwt, Return, vars
  <1>8. pc' = "idle" => grant' = NoGrant
    BY <1>7 DEF IInv, GrantForCall
  <1>9. GrantForCall'
    BY <1>1, <1>7, <1>8 DEF IInv, GrantForCall
  <1>10. TokensOfOneLogin'
    BY <1>1 DEF IInv, TokensOfOneLogin
  <1>11. ExpiryBounded'
    BY <1>1, <1>2, <1>7 DEF IInv, ExpiryBounded
  <1> QED BY <1>6, <1>9, <1>10, <1>11 DEF IInv

LEMMA StepTick ==
    ASSUME IInv, Tick
    PROVE  IInv'
  <1>1. now \in Nat /\ IntMod \div 2 \in Int /\ now' = now + 1
    BY AuthAssumption DEF IInv, TypeOK, Tick
  <1>2. UNCHANGED <<pc, tokens, result, logins, grant, held, dated, torn>>
    BY DEF Tick, history
  <1>3. tokens.expires \in Nat /\ grant.at \in Nat /\ dated.life \in Nat
    BY DEF IInv, TypeOK
  <1>4. TypeOK'
    BY <1>1, <1>2, <1>3 DEF IInv, TypeOK
  <1>5. GrantForCall' /\ TokensOfOneLogin'
    BY <1>2 DEF IInv, GrantForCall, TokensOfOneLogin
  <1>6. ExpiryBounded'
    BY <1>1, <1>2, <1>3 DEF IInv, ExpiryBounded
  <1> QED BY <1>4, <1>5, <1>6 DEF IInv

\* What a step that takes tokens t from an answer owes the invariant: it keeps
\* an expiry with its source, has none, or takes both from the grant.
LEMMA StepHolds ==
    ASSUME IInv, grant # NoGrant, NEW t, Hold(t), NEW how, Return(how),
           how \in {"true", "false", "threw"}, torn' \in BOOLEAN,
           UNCHANGED <<now, logins>>,
           t \in [access : Session, refresh : Session, feed : Session, expires : Nat],
           \/ t.expires = tokens.expires /\ dated' = dated
           \/ t.expires = 0 /\ dated' = Undated
           \/ /\ t.expires <= now + grant.life /\ t.expires <= now + IntMod \div 2
              /\ dated' = [life |-> grant.life, late |-> now - grant.at],
           ~torn' => \A x, y \in {t.access, t.refresh, t.feed} \ {0} : x = y
    PROVE  IInv'
  <1>1. /\ now \in Nat /\ IntMod \div 2 \in Nat /\ grant.at \in Nat /\ grant.life \in Nat
        /\ tokens.expires \in Nat /\ t.expires \in Nat
        /\ dated \in [life : Nat, late : Nat] /\ dated.life \in Nat /\ dated.late \in Nat
    BY AuthAssumption DEF IInv, TypeOK
  <1>2. tokens' = t /\ grant' = NoGrant /\ pc' = "idle" /\ result' = how
    BY DEF Hold, Return
  <1>3. /\ held' \in [at : Nat, life : Nat]
        /\ t.access # 0 => held'.at = grant.at
    BY <1>1 DEF Hold, NotHeld
  <1>4. NoGrant \in [session : Session, at : Nat, life : Nat]
    BY AuthAssumption DEF NoGrant, Session
  <1>5. /\ grant.at <= now /\ tokens.expires <= grant.at + dated.life
        /\ tokens.expires <= now + dated.life /\ tokens.expires <= now + IntMod \div 2
    BY DEF IInv, TypeOK, ExpiryBounded
  <1>6. /\ dated' \in [life : Nat, late : Nat] /\ t.expires <= now + IntMod \div 2
        /\ t.expires <= now + dated'.life
        /\ t.expires <= grant.at + dated'.life + dated'.late
    <2>1. CASE t.expires = tokens.expires /\ dated' = dated
      BY <2>1, <1>1, <1>5
    <2>2. CASE t.expires = 0 /\ dated' = Undated
      BY <2>2, <1>1 DEF Undated
    <2>3. CASE /\ t.expires <= now + grant.life /\ t.expires <= now + IntMod \div 2
               /\ dated' = [life |-> grant.life, late |-> now - grant.at]
      BY <2>3, <1>1, <1>5
    <2>4. QED BY <2>1, <2>2, <2>3
  <1>7. TypeOK'
    BY <1>1, <1>2, <1>3, <1>4, <1>6 DEF IInv, TypeOK
  <1>8. GrantForCall' /\ TokensOfOneLogin'
    BY <1>2 DEF GrantForCall, TokensOfOneLogin
  <1>9. ExpiryBounded'
    BY <1>1, <1>2, <1>3, <1>6 DEF ExpiryBounded
  <1> QED BY <1>7, <1>8, <1>9 DEF IInv

LEMMA StepLoginThrows ==
    ASSUME IInv, NEW a \in Answer, LoginThrows(a)
    PROVE  IInv'
  <1>1. a.jwt \in Field /\ a.refresh \in Field /\ 0 \in Session
    BY AuthAssumption DEF Answer, Session
  <1>2. grant.session \in Session
    BY DEF IInv, TypeOK
  <1>3. tokens \in [access : Session, refresh : Session, feed : Session, expires : Nat]
    BY DEF IInv, TypeOK
  <1>4. grant # NoGrant /\ Return("threw") /\ UNCHANGED <<now, logins, dated>>
    BY DEF LoginThrows
  <1>5. CASE a.jwt = "other"
    <2>1. UNCHANGED <<tokens, held, torn>>
      BY <1>5 DEF LoginThrows
    <2>2. NoGrant \in [session : Session, at : Nat, life : Nat]
      BY <1>1 DEF NoGrant
    <2>3. pc' = "idle" /\ grant' = NoGrant /\ result' = "threw"
      BY <1>4 DEF Return
    <2>4. TypeOK'
      BY <2>1, <2>2, <2>3, <1>4 DEF IInv, TypeOK
    <2>5. GrantForCall' /\ TokensOfOneLogin' /\ ExpiryBounded'
      BY <2>1, <2>3, <1>4 DEF IInv, GrantForCall, TokensOfOneLogin, ExpiryBounded
    <2>6. QED BY <2>4, <2>5 DEF IInv
  <1>6. CASE a.jwt # "other" /\ a.refresh = "other"
    <2> DEFINE t == [tokens EXCEPT !.access = Value(a.jwt, 0)]
    <2>1. Hold(t) /\ torn'
      BY <1>6 DEF LoginThrows
    <2>2. Value(a.jwt, 0) \in Session
      BY <1>1, <1>2, <1>6, ValueOf
    <2>3. /\ t \in [access : Session, refresh : Session, feed : Session, expires : Nat]
          /\ t.expires = tokens.expires
      BY <2>2, <1>3
    <2> HIDE DEF t
    <2>4. QED BY <2>1, <2>3, <1>4, StepHolds
  <1>7. CASE "other" \notin {a.jwt, a.refresh}
    <2> DEFINE t == [tokens EXCEPT !.access = Value(a.jwt, 0), !.refresh = Value(a.refresh, 0)]
    <2>1. Hold(t) /\ torn'
      BY <1>7 DEF LoginThrows
    <2>2. Value(a.jwt, 0) \in Session /\ Value(a.refresh, 0) \in Session
      BY <1>1, <1>2, <1>7, ValueOf
    <2>3. /\ t \in [access : Session, refresh : Session, feed : Session, expires : Nat]
          /\ t.expires = tokens.expires
      BY <2>2, <1>3
    <2> HIDE DEF t
    <2>4. QED BY <2>1, <2>3, <1>4, StepHolds
  <1> QED BY <1>5, <1>6, <1>7

LEMMA StepLoginTaken ==
    ASSUME IInv, NEW a \in Answer, LoginTaken(a)
    PROVE  IInv'
  <1>1. /\ a.jwt \in Field /\ a.refresh \in Field /\ a.feed \in Field
        /\ "other" \notin {a.jwt, a.refresh, a.feed} /\ 0 \in Session
    BY AuthAssumption DEF Answer, Session, LoginTaken
  <1>2. grant.session \in Session /\ TypeOK
    BY DEF IInv, TypeOK
  <1> DEFINE t == LoginTokens(a)
  <1>3. /\ Value(a.jwt, 0) \in {0, grant.session} /\ Value(a.refresh, 0) \in {0, grant.session}
        /\ Value(a.feed, 0) \in {0, grant.session}
    BY <1>1, ValueOf
  <1>4. grant # NoGrant /\ grant.at <= now
    BY DEF LoginTaken, IInv, ExpiryBounded
  <1>5. \/ Expiry(a, 0) = 0 /\ DatedBy(a, Undated) = Undated
        \/ /\ Expiry(a, 0) \in Nat
           /\ Expiry(a, 0) <= now + grant.life /\ Expiry(a, 0) <= now + IntMod \div 2
           /\ DatedBy(a, Undated) = [life |-> grant.life, late |-> now - grant.at]
    BY <1>2, <1>4, ExpiryBounds
  <1>6. /\ t \in [access : Session, refresh : Session, feed : Session, expires : Nat]
        /\ t.expires = Expiry(a, 0)
        /\ \A x, y \in {t.access, t.refresh, t.feed} \ {0} : x = y
    BY <1>1, <1>2, <1>3, <1>5 DEF LoginTokens
  <1>7. /\ Hold(t) /\ dated' = DatedBy(a, Undated) /\ torn' = FALSE
        /\ UNCHANGED <<now, logins>>
    BY DEF LoginTaken
  <1>8. PICK how \in {"true", "false"} : Return(how)
    BY DEF LoginTaken
  <1> HIDE DEF t
  <1> QED BY <1>4, <1>5, <1>6, <1>7, <1>8, StepHolds

\* The tokens a refresh leaves, wherever it ends: of the login it had.
LEMMA RefreshedOfOneLogin ==
    ASSUME IInv, pc = "refresh", grant # NoGrant, ~torn,
           NEW r \in {tokens.refresh, 0, grant.session},
           NEW f \in {tokens.feed, 0, grant.session}
    PROVE  \A x, y \in {grant.session, r, f} \ {0} : x = y
  <1>1. grant.session = tokens.refresh
    BY DEF IInv, GrantForCall
  <1>2. \A x, y \in {tokens.access, tokens.refresh, tokens.feed} \ {0} : x = y
    BY DEF IInv, TokensOfOneLogin
  <1> QED BY <1>1, <1>2

LEMMA StepRefreshThrows ==
    ASSUME IInv, NEW a \in Answer, RefreshThrows(a)
    PROVE  IInv'
  <1>1. a.refresh \in Field /\ 0 \in Session /\ Value(a.jwt, 0) = grant.session
    BY AuthAssumption DEF Answer, Session, RefreshThrows, Value
  <1>2. grant.session \in Session /\ torn \in BOOLEAN
    BY DEF IInv, TypeOK
  <1>3. tokens \in [access : Session, refresh : Session, feed : Session, expires : Nat]
    BY DEF IInv, TypeOK
  <1>4. /\ pc = "refresh" /\ grant # NoGrant /\ Return("threw")
        /\ UNCHANGED <<now, logins, dated, torn>>
    BY DEF RefreshThrows
  <1>5. CASE a.refresh = "other"
    <2> DEFINE t == [tokens EXCEPT !.access = Value(a.jwt, 0)]
    <2>1. Hold(t)
      BY <1>5 DEF RefreshThrows
    <2>2. /\ t \in [access : Session, refresh : Session, feed : Session, expires : Nat]
          /\ t.expires = tokens.expires
          /\ t.access = grant.session /\ t.refresh = tokens.refresh /\ t.feed = tokens.feed
      BY <1>1, <1>2, <1>3
    <2> HIDE DEF t
    <2>3. ~torn => \A x, y \in {t.access, t.refresh, t.feed} \ {0} : x = y
      BY <2>2, <1>4, RefreshedOfOneLogin
    <2>4. QED BY <2>1, <2>2, <2>3, <1>2, <1>4, StepHolds
  <1>6. CASE a.refresh # "other"
    <2> DEFINE t == [tokens EXCEPT !.access = Value(a.jwt, 0),
                                   !.refresh = Value(a.refresh, tokens.refresh)]
    <2>1. Hold(t)
      BY <1>6 DEF RefreshThrows
    <2>2. Value(a.refresh, tokens.refresh) \in {tokens.refresh, 0, grant.session}
      BY <1>1, <1>6, ValueOf
    <2>3. /\ t \in [access : Session, refresh : Session, feed : Session, expires : Nat]
          /\ t.expires = tokens.expires
          /\ t.access = grant.session /\ t.feed = tokens.feed
          /\ t.refresh \in {tokens.refresh, 0, grant.session}
      BY <2>2, <1>1, <1>2, <1>3
    <2> HIDE DEF t
    <2>4. ~torn => \A x, y \in {t.access, t.refresh, t.feed} \ {0} : x = y
      BY <2>3, <1>4, RefreshedOfOneLogin
    <2>5. QED BY <2>1, <2>3, <2>4, <1>2, <1>4, StepHolds
  <1> QED BY <1>5, <1>6

LEMMA StepRefreshTaken ==
    ASSUME IInv, NEW a \in Answer, RefreshTaken(a)
    PROVE  IInv'
  <1>1. /\ a.refresh \in Field /\ a.feed \in Field /\ a.refresh # "other" /\ a.feed # "other"
        /\ Value(a.jwt, 0) = grant.session /\ 0 \in Session
    BY AuthAssumption DEF Answer, Session, RefreshTaken, Value
  <1>2. grant.session \in Session /\ torn \in BOOLEAN /\ TypeOK /\ tokens.expires \in Nat
        /\ tokens.refresh \in Session /\ tokens.feed \in Session
    BY DEF IInv, TypeOK
  <1> DEFINE t == [access  |-> Value(a.jwt, 0),
                   refresh |-> Value(a.refresh, tokens.refresh),
                   feed    |-> Value(a.feed, tokens.feed),
                   expires |-> Expiry(a, tokens.expires)]
  <1>3. /\ Value(a.refresh, tokens.refresh) \in {tokens.refresh, 0, grant.session}
        /\ Value(a.feed, tokens.feed) \in {tokens.feed, 0, grant.session}
    BY <1>1, ValueOf
  <1>4. \/ /\ Expiry(a, tokens.expires) = tokens.expires /\ DatedBy(a, dated) = dated
        \/ /\ Expiry(a, tokens.expires) \in Nat
           /\ Expiry(a, tokens.expires) <= now + grant.life
           /\ Expiry(a, tokens.expires) <= now + IntMod \div 2
           /\ DatedBy(a, dated) = [life |-> grant.life, late |-> now - grant.at]
    <2>1. grant.at <= now
      BY DEF RefreshTaken, IInv, ExpiryBounded
    <2>2. QED BY <1>2, <2>1, ExpiryBounds
  <1>5. /\ t \in [access : Session, refresh : Session, feed : Session, expires : Nat]
        /\ t.access = grant.session
        /\ t.refresh \in {tokens.refresh, 0, grant.session}
        /\ t.feed \in {tokens.feed, 0, grant.session}
        /\ t.expires = Expiry(a, tokens.expires)
    BY <1>1, <1>2, <1>3, <1>4
  <1>6. /\ pc = "refresh" /\ grant # NoGrant /\ Return("true") /\ Hold(t)
        /\ dated' = DatedBy(a, dated) /\ UNCHANGED <<now, logins, torn>>
    BY DEF RefreshTaken
  <1> HIDE DEF t
  <1>7. ~torn => \A x, y \in {t.access, t.refresh, t.feed} \ {0} : x = y
    BY <1>5, <1>6, RefreshedOfOneLogin
  <1> QED BY <1>2, <1>4, <1>5, <1>6, <1>7, StepHolds

LEMMA StepIInv == IInv /\ [Next]_vars => IInv'
  <1> SUFFICES ASSUME IInv, [Next]_vars PROVE IInv'
    OBVIOUS
  <1>1. CASE \/ LoginCall \/ RefreshCall \/ RefreshWithoutToken
             \/ GrantLogin \/ GrantRefresh \/ RequestThrows \/ AnswerRefused
             \/ \E a \in Answer : LoginIncomplete(a) \/ RefreshWithoutJwt(a)
             \/ UNCHANGED vars
    BY <1>1, StepKeepsTokens
  <1>2. CASE Tick
    BY <1>2, StepTick
  <1>3. CASE \E a \in Answer : LoginThrows(a)
    BY <1>3, StepLoginThrows
  <1>4. CASE \E a \in Answer : LoginTaken(a)
    BY <1>4, StepLoginTaken
  <1>5. CASE \E a \in Answer : RefreshThrows(a)
    BY <1>5, StepRefreshThrows
  <1>6. CASE \E a \in Answer : RefreshTaken(a)
    BY <1>6, StepRefreshTaken
  <1> QED BY <1>1, <1>2, <1>3, <1>4, <1>5, <1>6 DEF Next

\* The inductive invariant holds in every reachable state.
THEOREM Invariance == Spec => []IInv
  BY InitIInv, StepIInv, PTL DEF Spec

\* The variables have their types; no expiry is more than an int ahead
\* (auth.cpp:124-133, 154-161).
THEOREM TypeCorrect == Spec => []TypeOK
  <1>1. IInv => TypeOK
    BY DEF IInv
  <1> QED BY <1>1, Invariance, PTL

\* The three tokens belong to one login unless a login threw half way
\* (auth.cpp:107-164).
THEOREM OneLogin == Spec => []TokensOfOneLogin
  <1>1. IInv => TokensOfOneLogin
    BY DEF IInv
  <1> QED BY <1>1, Invariance, PTL

\* What is_expired vouches for has its margin left, less the overrun: the time
\* its expiry's answer took and what that answer's lifetime exceeds its own by
\* (auth.cpp:93-100, 122-134, 154-162).
THEOREM ExpiryErrsByOverrun == Spec => []ValidWhileUnexpired
  <1>1. IInv => ValidWhileUnexpired
    <2> SUFFICES ASSUME IInv, tokens.expires # 0, ~IsExpired(Skew)
                 PROVE  now + Skew < Until + Overrun
      BY DEF ValidWhileUnexpired
    <2>1. /\ now \in Nat /\ tokens.expires \in Nat /\ Skew \in Nat
          /\ held.at \in Nat /\ held.life \in Nat
          /\ dated.life \in Nat /\ dated.late \in Nat
      BY AuthAssumption DEF IInv, TypeOK
    <2>2. tokens.access # 0 /\ now + Skew < tokens.expires
      BY <2>1 DEF IsExpired
    <2>3. tokens.expires <= held.at + dated.life + dated.late
      BY <2>2 DEF IInv, ExpiryBounded
    <2>4. Until + Overrun = held.at + dated.life + dated.late
      BY <2>1 DEF Until, Overrun
    <2>5. QED BY <2>1, <2>2, <2>3, <2>4
  <1> QED BY <1>1, Invariance, PTL

\* A token is_expired vouches for is still accepted, if the answer its expiry
\* came with took no longer than the margin and its own lifetime is no shorter
\* than the one the expiry was computed from.
VouchedForIsValid ==
    /\ tokens.expires # 0 /\ ~IsExpired(Skew)
    /\ dated.late <= Skew /\ dated.life <= held.life
    => now < Until

\* What the bound on the overrun means for an application that gets its answers
\* in time, from a server that states a lifetime when it shortens it
\* (auth.cpp:93-100, 122-134, 154-162).
THEOREM NeverVouchesForExpired == Spec => []VouchedForIsValid
  <1>1. TypeOK /\ ValidWhileUnexpired => VouchedForIsValid
    <2> SUFFICES ASSUME TypeOK, ValidWhileUnexpired, tokens.expires # 0, ~IsExpired(Skew),
                        dated.late <= Skew, dated.life <= held.life
                 PROVE  now < Until
      BY DEF VouchedForIsValid
    <2>1. /\ now \in Nat /\ Skew \in Nat /\ held.at \in Nat /\ held.life \in Nat
          /\ dated.life \in Nat /\ dated.late \in Nat
      BY AuthAssumption DEF TypeOK
    <2>2. now + Skew < Until + Overrun
      BY DEF ValidWhileUnexpired
    <2>3. Until \in Nat /\ Overrun \in Int /\ Overrun <= Skew
      BY <2>1 DEF Until, Overrun
    <2>4. QED BY <2>1, <2>2, <2>3
  <1> QED BY <1>1, TypeCorrect, ExpiryErrsByOverrun, PTL
=============================================================================

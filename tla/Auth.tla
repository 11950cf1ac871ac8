-------------------------------- MODULE Auth --------------------------------
(***************************************************************************)
(* Auth (src/auth.cpp): the tokens an application logs in for and          *)
(* refreshes over HTTPClient, one blocking request at a time.              *)
(*                                                                         *)
(* A token is the number of the login it descends from; 0 is the empty     *)
(* string.  The server is external: it gives each access token a lifetime  *)
(* of its own, states it or not, and answers with any of the fields        *)
(* absent, empty or of another JSON type.  An answer may take for ever:    *)
(* the request's calls are synchronous, and no timeout reaches them.       *)
(* Handling an answer assigns the token fields one by one, and reading a   *)
(* field that is not a string throws: what was assigned before stays.      *)
(* Times are whole seconds of one clock.                                   *)
(***************************************************************************)
EXTENDS Integers

CONSTANTS
    Lifetimes,    \* the lifetimes a server may give an access token, in seconds
    IntMod,       \* the number of values of an int: 2^32
    Skew,         \* is_expired's margin: 60 seconds
    MaxLogins,    \* bound: sessions granted
    MaxTime       \* bound: the clock

ASSUME AuthAssumption ==
    /\ Lifetimes \subseteq Nat
    /\ IntMod \in Nat \ {0}
    /\ Skew \in Nat /\ MaxLogins \in Nat /\ MaxTime \in Nat

VARIABLES
    pc,         \* the application: "idle", or inside "login" or "refresh"
    tokens,     \* tokens_
    result,     \* how the last call ended: "true", "false" or "threw"
    now,        \* the clock
    logins,     \* server: sessions granted so far
    grant,      \* server: the tokens its answer carries, or NoGrant
    held,       \* history: when the access token in tokens was granted, for how long
    dated,      \* history: the lifetime expires_at was computed from, and how
                \* long after the grant the answer that stated it was handled
    torn        \* history: a login threw after it had assigned some fields

history == <<held, dated, torn>>
vars == <<pc, tokens, result, now, logins, grant, history>>

Session == 0 .. MaxLogins
NoGrant == [session |-> 0, at |-> 0, life |-> 0]
NotHeld == [at |-> 0, life |-> 0]
Undated == [life |-> 0, late |-> 0]
Blank   == [access |-> 0, refresh |-> 0, feed |-> 0, expires |-> 0]

\* How a string field of the answer may look, and whether it states a lifetime.
Field  == {"absent", "empty", "text", "other"}
Answer == [jwt : Field, refresh : Field, feed : Field, states : BOOLEAN]

\* d.value(key, kept), where it does not throw.
Value(f, kept) == CASE f = "absent" -> kept
                    [] f = "empty"  -> 0
                    [] f = "text"   -> grant.session

\* get<int>() of a wider integer.
AsInt_Whole(n) == n
AsInt(n) == ((n + IntMod \div 2) % IntMod) - IntMod \div 2

\* expires_at for an answer a, kept where it gives no usable lifetime, and
\* where the expiry comes from.
Usable(a) == a.states /\ AsInt(grant.life) > 0
Expiry_NeverEarlier(a, kept) == IF Usable(a) /\ now + AsInt(grant.life) > kept
                                  THEN now + AsInt(grant.life) ELSE kept
Expiry(a, kept) == IF Usable(a) THEN now + AsInt(grant.life) ELSE kept
DatedBy(a, kept) == IF Usable(a) THEN [life |-> grant.life, late |-> now - grant.at] ELSE kept

IsExpired(skew) == tokens.access = 0 \/ (tokens.expires # 0 /\ now + skew >= tokens.expires)

Init == /\ pc = "idle" /\ tokens = Blank /\ result = "true"
        /\ now = 1 /\ logins = 0 /\ grant = NoGrant
        /\ held = NotHeld /\ dated = Undated /\ torn = FALSE
-----------------------------------------------------------------------------
Return(how) == pc' = "idle" /\ result' = how /\ grant' = NoGrant

LoginCall == /\ pc = "idle" /\ pc' = "login"
             /\ UNCHANGED <<tokens, result, now, logins, grant, history>>

RefreshCall == /\ pc = "idle" /\ tokens.refresh # 0 /\ pc' = "refresh"
               /\ UNCHANGED <<tokens, result, now, logins, grant, history>>

RefreshWithoutToken ==
    /\ pc = "idle" /\ tokens.refresh = 0 /\ result' = "false"
    /\ UNCHANGED <<pc, tokens, now, logins, grant, history>>

\* The server grants tokens: of a new session, or of the refresh token's.
GrantLogin ==
    /\ pc = "login" /\ grant = NoGrant /\ logins < MaxLogins
    /\ logins' = logins + 1
    /\ \E life \in Lifetimes : grant' = [session |-> logins + 1, at |-> now, life |-> life]
    /\ UNCHANGED <<pc, tokens, result, now, history>>

GrantRefresh ==
    /\ pc = "refresh" /\ grant = NoGrant
    /\ \E life \in Lifetimes : grant' = [session |-> tokens.refresh, at |-> now, life |-> life]
    /\ UNCHANGED <<pc, tokens, result, now, logins, history>>

\* The request throws, before or after the server acted.
RequestThrows == /\ pc # "idle" /\ Return("threw")
                 /\ UNCHANGED <<tokens, now, logins, history>>

\* Not 2xx, not JSON, no "data" object.
AnswerRefused == /\ pc # "idle" /\ Return("false")
                 /\ UNCHANGED <<tokens, now, logins, history>>

\* Assigning an access token to tokens: the server's own lifetime goes with it.
Hold(t) == /\ tokens' = t
           /\ held' = IF t.access = 0 THEN NotHeld ELSE [at |-> grant.at, life |-> grant.life]

LoginIncomplete(a) ==
    /\ pc = "login" /\ grant # NoGrant
    /\ "absent" \in {a.jwt, a.refresh}
    /\ Return("false")
    /\ UNCHANGED <<tokens, now, logins, history>>

LoginThrows(a) ==
    /\ pc = "login" /\ grant # NoGrant
    /\ "absent" \notin {a.jwt, a.refresh} /\ "other" \in {a.jwt, a.refresh, a.feed}
    /\ \/ a.jwt = "other" /\ UNCHANGED <<tokens, held, torn>>
       \/ /\ a.jwt # "other" /\ a.refresh = "other"
          /\ Hold([tokens EXCEPT !.access = Value(a.jwt, 0)]) /\ torn' = TRUE
       \/ /\ "other" \notin {a.jwt, a.refresh}
          /\ Hold([tokens EXCEPT !.access = Value(a.jwt, 0), !.refresh = Value(a.refresh, 0)])
          /\ torn' = TRUE
    /\ Return("threw")
    /\ UNCHANGED <<now, logins, dated>>

LoginTokens_KeepsFeed(a) ==
    [access |-> Value(a.jwt, 0), refresh |-> Value(a.refresh, 0),
     feed |-> Value(a.feed, tokens.feed), expires |-> Expiry(a, 0)]
LoginTokens(a) ==
    [access |-> Value(a.jwt, 0), refresh |-> Value(a.refresh, 0),
     feed |-> Value(a.feed, 0), expires |-> Expiry(a, 0)]

LoginTaken(a) ==
    /\ pc = "login" /\ grant # NoGrant
    /\ "absent" \notin {a.jwt, a.refresh} /\ "other" \notin {a.jwt, a.refresh, a.feed}
    /\ Hold(LoginTokens(a)) /\ dated' = DatedBy(a, Undated) /\ torn' = FALSE
    /\ Return(IF a.jwt = "empty" THEN "false" ELSE "true")
    /\ UNCHANGED <<now, logins>>

RefreshWithoutJwt(a) ==
    /\ pc = "refresh" /\ grant # NoGrant /\ a.jwt # "text"
    /\ Return(IF a.jwt = "other" THEN "threw" ELSE "false")
    /\ UNCHANGED <<tokens, now, logins, history>>

RefreshThrows(a) ==
    /\ pc = "refresh" /\ grant # NoGrant /\ a.jwt = "text"
    /\ \/ /\ a.refresh = "other"
          /\ Hold([tokens EXCEPT !.access = Value(a.jwt, 0)])
       \/ /\ a.refresh # "other" /\ a.feed = "other"
          /\ Hold([tokens EXCEPT !.access = Value(a.jwt, 0),
                                 !.refresh = Value(a.refresh, tokens.refresh)])
    /\ Return("threw")
    /\ UNCHANGED <<now, logins, dated, torn>>

RefreshTaken(a) ==
    /\ pc = "refresh" /\ grant # NoGrant
    /\ a.jwt = "text" /\ "other" \notin {a.refresh, a.feed}
    /\ Hold([access  |-> Value(a.jwt, 0),
             refresh |-> Value(a.refresh, tokens.refresh),
             feed    |-> Value(a.feed, tokens.feed),
             expires |-> Expiry(a, tokens.expires)])
    /\ dated' = DatedBy(a, dated)
    /\ Return("true")
    /\ UNCHANGED <<now, logins, torn>>

\* Time passes, whatever is under way.
Tick == /\ now < MaxTime
        /\ now' = now + 1
        /\ UNCHANGED <<pc, tokens, result, logins, grant, history>>

Next == \/ LoginCall \/ RefreshCall \/ RefreshWithoutToken
        \/ GrantLogin \/ GrantRefresh \/ RequestThrows \/ AnswerRefused \/ Tick
        \/ \E a \in Answer :
              \/ LoginIncomplete(a) \/ LoginThrows(a) \/ LoginTaken(a)
              \/ RefreshWithoutJwt(a) \/ RefreshThrows(a) \/ RefreshTaken(a)

Spec == Init /\ [][Next]_vars
-----------------------------------------------------------------------------
\* An expiry is the epoch (unknown) or at most an int's worth of seconds ahead.
TypeOK ==
    /\ pc \in {"idle", "login", "refresh"} /\ result \in {"true", "false", "threw"}
    /\ tokens \in [access : Session, refresh : Session, feed : Session, expires : Nat]
    /\ tokens.expires <= now + IntMod \div 2
    /\ now \in Nat /\ logins \in Session
    /\ grant \in [session : Session, at : Nat, life : Nat]
    /\ held \in [at : Nat, life : Nat] /\ dated \in [life : Nat, late : Nat]
    /\ torn \in BOOLEAN

\* The feed opened with feed_token, the requests signed with access_token and
\* the next refresh belong to one login, over any sequence of logins and
\* refreshes with fields missing, unless a login threw half way
\* (auth.cpp:116-118, 144-150).
TokensOfOneLogin ==
    ~torn => \A x, y \in {tokens.access, tokens.refresh, tokens.feed} \ {0} : x = y

\* When the server stops accepting the access token, and by how much the expiry
\* may lie behind that: the time the answer that stated it took, and what the
\* lifetime it was computed from exceeds the held token's by, where a refresh
\* gave no lifetime or threw and the older token's expiry was kept.
Until   == held.at + held.life
Overrun == dated.late + (dated.life - held.life)

\* What is_expired(skew) vouches for has skew seconds left to live, less the
\* overrun: it is still accepted if answers come within the margin and no
\* shorter-lived token takes over an older expiry, and else it is vouched for
\* too long by no more than that, over any sequence of logins and refreshes that
\* come late, leave the lifetime out, narrow it to an int or throw half way
\* (auth.cpp:93-100, 122-134, 146-162).
ValidWhileUnexpired ==
    tokens.expires # 0 /\ ~IsExpired(Skew) => now + Skew < Until + Overrun
=============================================================================

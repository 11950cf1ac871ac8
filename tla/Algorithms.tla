----------------------------- MODULE Algorithms -----------------------------
(***************************************************************************)
(* The repository's pure algorithms, each called once on inputs from small *)
(* sets: a behaviour is one call.  Words are scaled down (the constants of *)
(* QueueSizing, TOTP and Parser) so that every width is exceeded.          *)
(***************************************************************************)
EXTENDS Integers, Sequences

CONSTANTS
    SizeBits,
    WordBits, CounterBits, TicksPerSecond, BinCode(_),
    Strip, Threshold, MillisPerSecond, TicksPerMilli, TimeMod,
    Characters,      \* of Base32 texts
    MaxCharacters,   \* bound: the length of a text
    Times,           \* clock readings, in ticks
    Periods, Digits, Windows,
    Ticks,           \* market ticks: records of number, prefixed, ltp and secs
    Positions        \* in the lists of keys

Sizing == INSTANCE QueueSizing
Codes  == INSTANCE TOTP
Feed   == INSTANCE Parser WITH TicksPerSecond <- MillisPerSecond * TicksPerMilli

\* A size holds the number 8, and the decoder's buffer what the next byte needs.
ASSUME WidthAssumption == /\ SizeBits \in Nat /\ SizeBits >= 4
                          /\ WordBits \in Nat /\ WordBits >= 12

\* The constructor wants a positive period; the rest are types and units.
ASSUME InputAssumption ==
    /\ Characters \subseteq Codes!Symbol \cup {Codes!Padding, Codes!Foreign}
    /\ MaxCharacters \in Nat
    /\ Times \subseteq Int /\ Periods \subseteq Nat \ {0}
    /\ Digits \subseteq Nat /\ Windows \subseteq Nat
    /\ TicksPerSecond \in Nat \ {0}
    /\ Ticks \subseteq [number : Int, prefixed : BOOLEAN, ltp : Int, secs : Int]
    /\ Positions \subseteq 1 .. 5
    /\ Strip \in BOOLEAN /\ Threshold \in Nat
    /\ {MillisPerSecond, TicksPerMilli, TimeMod} \subseteq Nat \ {0}

VARIABLE call

NoCall == [op |-> "none"]

Init == call = NoCall

RoundCapacity == \E n \in Sizing!Words :
    call' = [op |-> "next_pow2", request |-> n, slots |-> Sizing!NextPow2(n)]

DecodeSecret ==
    \E length \in 0 .. MaxCharacters : \E text \in [1 .. length -> Characters] :
        call' = [op |-> "base32_decode", text |-> text, decodes |-> Codes!Decodes(text),
                 bytes |-> IF Codes!Decodes(text) THEN Codes!Decode(text) ELSE <<>>]

VerifyCode ==
    \E s, t \in Times : \E period \in Periods : \E digits \in Digits : \E window \in Windows :
        call' = [op |-> "verify", made |-> s, checked |-> t, window |-> window,
                 period |-> period, digits |-> digits,
                 answer |-> Codes!Verify(Codes!CodeAt(s, period, digits), t,
                                         window, period, digits)]

ParseFrame ==
    \E tick \in Ticks : \E e \in Feed!Encodings(Positions) :
        call' = [op |-> "parse_ltp", tick |-> tick, encoding |-> e,
                 quote |-> Feed!ParseLtp(Feed!Encode(tick, e))]

Next == call = NoCall /\ (RoundCapacity \/ DecodeSecret \/ VerifyCode \/ ParseFrame)

Spec == Init /\ [][Next]_call
-----------------------------------------------------------------------------
\* next_pow2 gives the least power of two of at least 8 that holds the
\* request (ingest_queue.cpp:7-13).
LeastPowerThatHolds ==
    call.op = "next_pow2" => Sizing!IsLeastPower(call.request, call.slots)

\* The decoder gives the bits of its text cut into bytes although its buffer is
\* one int that overflows on any longer secret (totp.cpp:25-53).
SecretDecoded ==
    call.op = "base32_decode" /\ call.decodes => Codes!IsDecoded(call.text, call.bytes)

\* verify accepts a code from a clock that is off by up to window periods, and
\* no code but one of the counters within the window, at either end of the
\* counters and before 1970 (totp.cpp:104-107, 149-161); for lengths whose
\* power of ten fits a word, which leaves out ten digits (totp.cpp:65).
CodesSurviveSkew ==
    call.op = "verify" /\ Codes!Fits(call.digits) =>
        Codes!IsVerified(call.made, call.checked, call.window, call.period,
                         call.digits, call.answer)

\* However the feed wraps a tick, names its fields and writes its numbers, the
\* parser reads the same quote (parser.cpp:10-48, 53-60, 72-112).
EncodingsAgree ==
    call.op = "parse_ltp" => Feed!IsParsed(call.tick, call.encoding, call.quote)
=============================================================================

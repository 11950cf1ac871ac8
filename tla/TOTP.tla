-------------------------------- MODULE TOTP --------------------------------
(***************************************************************************)
(* TOTP (src/totp.cpp): the Base32 secret, the time counter, the codes and *)
(* the window verify searches.  The HMAC and its truncation are the        *)
(* external BinCode, a number of one bit less than a word.                 *)
(***************************************************************************)
EXTENDS Integers, Sequences, SequencesExt, FiniteSetsExt

CONSTANTS
    WordBits,        \* bits of an int and of a uint32_t: 32
    CounterBits,     \* bits of the time counter: 64
    TicksPerSecond,  \* of the system clock
    BinCode(_)       \* hotp's bin_code for a counter, under the secret

(* base32_decode_impl: words, bytes and symbols are the sets of their one bits *)

\* A character is its value, a set of bits 0 to 4, or one of these.
Symbol  == SUBSET (0 .. 4)
Padding == {5}          \* '=' or white space
Foreign == {6}          \* not in the alphabet

\* (buffer << 5) | v, in an int.
Pushed(buffer, v) == ({b + 5 : b \in buffer} \cap 0 .. WordBits - 1) \cup v

\* One pass of the loop: v enters the buffer, and a full byte leaves it.
TakeSymbol_ByteLate(s, v) ==
    LET buffer == Pushed(s.buffer, v)
        bits   == s.bits + 5
    IN  IF bits > 8
        THEN [buffer |-> buffer, bits |-> bits - 8,
              out |-> Append(s.out, {j \in 0 .. 7 : j + (bits - 8) \in buffer})]
        ELSE [buffer |-> buffer, bits |-> bits, out |-> s.out]
TakeSymbol(s, v) ==
    LET buffer == Pushed(s.buffer, v)
        bits   == s.bits + 5
    IN  IF bits >= 8
        THEN [buffer |-> buffer, bits |-> bits - 8,
              out |-> Append(s.out, {j \in 0 .. 7 : j + (bits - 8) \in buffer})]
        ELSE [buffer |-> buffer, bits |-> bits, out |-> s.out]

KeepSymbol(in, c) == IF c = Padding THEN in ELSE Append(in, c)
Symbols(text) ==
    LET after[k \in 0 .. Len(text)] == IF k = 0 THEN <<>> ELSE KeepSymbol(after[k - 1], text[k])
    IN  after[Len(text)]

\* base32_decode throws for a foreign character.
Decodes(text) == Foreign \notin Range(text)
Decode(text)  ==
    LET syms == Symbols(text)
        after[k \in 0 .. Len(syms)] == IF k = 0 THEN [buffer |-> {}, bits |-> 0, out |-> <<>>]
                                       ELSE TakeSymbol(after[k - 1], syms[k])
    IN  after[Len(syms)].out

(* Codes *)

\* mod in left_pad_int: ten to the digits, in a word.
Modulus(digits) ==
    LET power[i \in 0 .. digits] == IF i = 0 THEN 1 ELSE (power[i - 1] * 10) % 2^WordBits
    IN  power[digits]

LeftPadInt(val, digits) == val % Modulus(digits)

\* duration_cast rounds towards zero.
TimeCounter(tp, period) ==
    (IF tp >= 0 THEN tp \div TicksPerSecond ELSE 0) \div period

Hotp(counter, digits) == LeftPadInt(BinCode(counter % 2^CounterBits), digits)

CodeAt(tp, period, digits) == Hotp(TimeCounter(tp, period), digits)

Verify_BelowZero(code, tp, window, period, digits) ==
    LET ctr == TimeCounter(tp, period)
    IN  \E w \in 0 .. window : code \in {Hotp(ctr + w, digits), Hotp(ctr - w, digits)}
Verify(code, tp, window, period, digits) ==
    LET ctr == TimeCounter(tp, period)
    IN  \/ code = CodeAt(tp, period, digits)
        \/ \E w \in 1 .. window : \/ code = Hotp(ctr + w, digits)
                                  \/ ctr >= w /\ code = Hotp(ctr - w, digits)
-----------------------------------------------------------------------------
(* What the algorithms are for *)

\* The bits of the symbols, in order, cut into bytes; a last piece is dropped.
IsDecoded(text, bytes) ==
    LET syms   == Symbols(text)
        One(k) == 4 - (k % 5) \in syms[(k \div 5) + 1]
    IN  /\ Len(bytes) = (5 * Len(syms)) \div 8
        /\ \A b \in DOMAIN bytes :
              bytes[b] = {j \in 0 .. 7 : One(8 * (b - 1) + (7 - j))}

TenTo(digits) == LET power[i \in 0 .. digits] == IF i = 0 THEN 1 ELSE power[i - 1] * 10
                 IN  power[digits]
Fits(digits)  == TenTo(digits) < 2^WordBits

\* The periods since 1970; a clock before it reads 0.
Elapsed(t, period) == IF t < 0 THEN 0 ELSE t \div (period * TicksPerSecond)

\* The code of a counter, as RFC 4226 defines it.
Code(c, digits) == BinCode(c % 2^CounterBits) % TenTo(digits)

\* The answer of verify at time t for a code made at time s.
IsVerified(s, t, window, period, digits, answer) ==
    /\ \/ s - t > window * period * TicksPerSecond
       \/ t - s > window * period * TicksPerSecond
       \/ answer
    /\ answer => \E d \in -window .. window :
                    /\ Elapsed(t, period) + d >= 0
                    /\ Code(Elapsed(t, period) + d, digits) = Code(Elapsed(s, period), digits)
=============================================================================

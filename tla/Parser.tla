------------------------------- MODULE Parser -------------------------------
(***************************************************************************)
(* Parser::parse_ltp (src/parser.cpp): from a parsed JSON document to a    *)
(* token, a price and a time.                                              *)
(*                                                                         *)
(* A JSON value is a record with its kind: an "object" has fields, an      *)
(* "array" items, an "int" or "float" a number, a "string" the text of a   *)
(* number after an exchange prefix or none; "null" stands for the rest.    *)
(***************************************************************************)
EXTENDS Integers, Sequences, FiniteSetsExt

CONSTANTS
    Strip,           \* whether strip_prefix_ is the exchange's prefix, or empty
    Threshold,       \* at which a number is milliseconds: 10^12
    TicksPerSecond,  \* of system_clock: 10^9
    TicksPerMilli,   \* 10^6
    TimeMod          \* 2^64

TOKEN_KEYS == <<"token", "symbol", "tradingsymbol", "instrument_token", "tokenID">>
PRICE_KEYS == <<"ltp", "last_price", "lastPrice", "price", "trade_price">>
TS_KEYS    == <<"exchange_timestamp", "timestamp", "ts", "time", "epoch">>

Contains(j, key) == j.kind = "object" /\ key \in DOMAIN j.fields
Filled(j)        == j.kind = "array" /\ j.items # <<>>

\* Frames come bare, in an array, under "data", or in an array under "data".
Unwrap(j) ==
    LET front == IF Filled(j) THEN j.items[1] ELSE j
        data  == front.fields["data"]
    IN  CASE Contains(front, "data") /\ data.kind = "object" -> data
          [] Contains(front, "data") /\ Filled(data)         -> data.items[1]
          [] OTHER                                           -> front

\* The text of a token with a prefix is no number.
Kind(v) == IF v.kind = "string" /\ v.prefixed THEN "text" ELSE v.kind
Numeric == {"int", "float", "string"}
Textual == Numeric \cup {"text"}

\* The positions of the keys whose value can be used: the first one counts.
Usable(j, keys, kinds) ==
    {i \in DOMAIN keys : Contains(j, keys[i]) /\ Kind(j.fields[keys[i]]) \in kinds}
First(j, keys, kinds) == j.fields[keys[Min(Usable(j, keys, kinds))]]

\* dump() keeps the point of a float, so its text is another token.
Text(v) == [prefixed |-> v.kind = "string" /\ v.prefixed,
            number |-> v.number, point |-> v.kind = "float"]
StripPrefix(text) == IF Strip THEN [text EXCEPT !.prefixed = FALSE] ELSE text

Magnitude(n) == IF n < 0 THEN -n ELSE n
Signed(n)    == ((n + TimeMod \div 2) % TimeMod) - TimeMod \div 2

ToTimepoint_Signed(n) == Signed(n * (IF n >= Threshold THEN TicksPerMilli ELSE TicksPerSecond))
ToTimepoint(n) ==
    Signed(n * (IF Magnitude(n) >= Threshold THEN TicksPerMilli ELSE TicksPerSecond))

Nothing == [found |-> FALSE]
Epoch   == 0

ParseLtp(json) ==
    LET j == Unwrap(json)
    IN  IF {} \in {Usable(j, TOKEN_KEYS, Textual), Usable(j, PRICE_KEYS, Numeric)}
        THEN Nothing
        ELSE [found |-> TRUE,
              token |-> StripPrefix(Text(First(j, TOKEN_KEYS, Textual))),
              ltp   |-> First(j, PRICE_KEYS, Numeric).number,
              ts    |-> IF Usable(j, TS_KEYS, Numeric) = {} THEN Epoch
                        ELSE ToTimepoint(First(j, TS_KEYS, Numeric).number)]
-----------------------------------------------------------------------------
(* The encodings of one tick *)

\* The ways a feed may write a tick: the wrapping; the position of the key and
\* the kind of each value; whether the earlier keys of a list are there with
\* null; the unit of time.
Encodings(Positions) ==
    [wrap : {"bare", "array", "data", "data_array", "array_data"},
     token : Positions, tokenKind : {"int", "string"},
     ltp : Positions, ltpKind : {"int", "float", "string", "null"},
     ts : Positions, tsKind : {"int", "float", "string", "null"},
     nulls : BOOLEAN, unit : {"seconds", "millis"}]

Null == [kind |-> "null"]
Value(kind, n, prefixed) == CASE kind = "null"   -> Null
                              [] kind = "string" -> [kind |-> kind, number |-> n, prefixed |-> prefixed]
                              [] OTHER           -> [kind |-> kind, number |-> n]

Object(f) == [kind |-> "object", fields |-> f]
Array(j)  == [kind |-> "array", items |-> <<j>>]

\* The fields that give v under the key at that place of a list.
Keys(list, at, nulls) == {list[at]} \cup {list[i] : i \in {k \in 1 .. at : nulls}}
Entry(list, at, nulls, v) ==
    [k \in Keys(list, at, nulls) |-> IF k = list[at] THEN v ELSE Null]

Body(tick, e) ==
    LET time  == IF e.unit = "seconds" THEN tick.secs
                 ELSE tick.secs * (TicksPerSecond \div TicksPerMilli)
        token == Entry(TOKEN_KEYS, e.token, e.nulls, Value(e.tokenKind, tick.number, tick.prefixed))
        ltp   == Entry(PRICE_KEYS, e.ltp, e.nulls, Value(e.ltpKind, tick.ltp, FALSE))
        ts    == Entry(TS_KEYS, e.ts, e.nulls, Value(e.tsKind, time, FALSE))
    IN  [k \in DOMAIN token \cup DOMAIN ltp \cup DOMAIN ts |->
            CASE k \in DOMAIN token -> token[k]
              [] k \in DOMAIN ltp   -> ltp[k]
              [] k \in DOMAIN ts    -> ts[k]]

Wrapped(j, wrap) == LET under == Object([k \in {"data"} |-> j])
                    IN  CASE wrap = "bare"       -> j
                          [] wrap = "array"      -> Array(j)
                          [] wrap = "data"       -> under
                          [] wrap = "data_array" -> Object([k \in {"data"} |-> Array(j)])
                          [] wrap = "array_data" -> Array(under)

Encode(tick, e) == Wrapped(Object(Body(tick, e)), e.wrap)

\* The times for which the guess of the unit is right and 64 bits are enough:
\* as real numbers, from 2001 to 2262, and as long before 1970.
InEra(secs) == LET m == Magnitude(secs)
               IN  /\ m < Threshold /\ m * (TicksPerSecond \div TicksPerMilli) >= Threshold
                   /\ m * TicksPerSecond < TimeMod \div 2

\* parse_ltp reads the tick from any encoding of it, and nothing from one
\* without a price.
IsParsed(tick, e, quote) ==
    IF e.ltpKind = "null" THEN quote = Nothing
    ELSE /\ quote.found /\ quote.ltp = tick.ltp
         /\ quote.token = StripPrefix([prefixed |-> e.tokenKind = "string" /\ tick.prefixed,
                                       number |-> tick.number, point |-> FALSE])
         /\ e.tsKind = "null" => quote.ts = Epoch
         /\ e.tsKind # "null" /\ InEra(tick.secs) => quote.ts = tick.secs * TicksPerSecond
=============================================================================

------------------------------ MODULE JsonUint ------------------------------
(***************************************************************************)
(* The JSON integer wrappers of utils/json: Uint8, Uint16, Uint32 and      *)
(* Uint64 (src/utils/json/uint8.go, src/utils/json/uint32.go,              *)
(* src/unnamed/part_008).  Each marshals to a quoted decimal string and    *)
(* unmarshals a quoted or bare decimal through strconv.ParseUint(str, 10,  *)
(* 0), whose result is 64 bits wide, then refuses a value above its own   *)
(* maximum.  Widths are scaled: Bits[t] is the width of type t, and        *)
(* Bits[Uint64] the width ParseUint parses to.  A JSON text is a sequence  *)
(* of one-character strings.                                               *)
(***************************************************************************)
EXTENDS Integers, Sequences, SequencesExt

CONSTANTS
    Types,      \* the four wrapper types
    Uint64,     \* the one of them as wide as ParseUint's result
    Bits,       \* Bits[t]: the scaled width of type t
    Inputs      \* the JSON texts given to UnmarshalJSON

Quote == "\""
Null == <<"n", "u", "l", "l">>
DigitChars == <<"0", "1", "2", "3", "4", "5", "6", "7", "8", "9">>
Digits == ToSet(DigitChars)
DigitValue(c) == CHOOSE d \in 0 .. 9 : DigitChars[d + 1] = c
MaxOf(t) == 2^Bits[t] - 1

VARIABLES
    u,      \* u[t]: the value of a variable of type t
    last    \* the last UnmarshalJSON: its type, its text and the error returned

vars == <<u, last>>

\* strconv.FormatUint(x, 10).
RECURSIVE Decimal(_)
Decimal(x) ==
    IF x < 10 THEN <<DigitChars[x + 1]>>
    ELSE Decimal(x \div 10) \o <<DigitChars[(x % 10) + 1]>>

\* strconv.ParseUint(s, 10, 0): a syntax error (value 0) unless s is a
\* non-empty string of digits; a range error with the maximum value when
\* the number does not fit 64 bits.
ParseUint(s) ==
    IF s = <<>> \/ \E i \in DOMAIN s : s[i] \notin Digits
    THEN [val |-> 0, err |-> "syntax"]
    ELSE LET n == FoldLeft(LAMBDA acc, c : 10 * acc + DigitValue(c), 0, s)
         IN  IF n > MaxOf(Uint64) THEN [val |-> MaxOf(Uint64), err |-> "range"]
                                  ELSE [val |-> n, err |-> "none"]

\* MarshalJSON: "\"" + FormatUint(u, 10) + "\"".
MarshalJSON(x) == <<Quote>> \o Decimal(x) \o <<Quote>>

\* The quotes around str are dropped when it has both.
Unquote(str) ==
    IF Len(str) >= 2 /\ str[1] = Quote /\ str[Len(str)] = Quote
    THEN SubSeq(str, 2, Len(str) - 1) ELSE str

\* Bug variant of UnmarshalJSON: the maximum of the type is not checked.
UnmarshalNoMaxCheck(t, cur, b) ==
    IF b = Null THEN [val |-> cur, err |-> "none"]
    ELSE LET p == ParseUint(Unquote(b))
         IN  [val |-> p.val % 2^Bits[t], err |-> p.err]

\* Bug variant of UnmarshalJSON: the maximum itself is refused.
UnmarshalMaxOffByOne(t, cur, b) ==
    IF b = Null THEN [val |-> cur, err |-> "none"]
    ELSE LET p == ParseUint(Unquote(b))
         IN  IF p.val >= MaxOf(t) THEN [val |-> cur, err |-> "tooLarge"]
             ELSE [val |-> p.val % 2^Bits[t], err |-> p.err]

\* UnmarshalJSON of type t on a variable holding cur: "null" leaves it;
\* otherwise the unquoted text is parsed, a value above the type's maximum
\* is refused with the variable untouched, and any other result, error or
\* not, is stored (converted to t) and the parse error returned.  For
\* Uint64 the code has no maximum check, which the first test matches: no
\* parsed value exceeds its maximum.
UnmarshalJSON(t, cur, b) ==
    IF b = Null THEN [val |-> cur, err |-> "none"]
    ELSE LET p == ParseUint(Unquote(b))
         IN  IF p.val > MaxOf(t) THEN [val |-> cur, err |-> "tooLarge"]
             ELSE [val |-> p.val % 2^Bits[t], err |-> p.err]

-----------------------------------------------------------------------------
\* json.Unmarshal decodes text b into the variable of type t.
Unmarshal(t, b) ==
    LET r == UnmarshalJSON(t, u[t], b)
    IN  /\ u' = [u EXCEPT ![t] = r.val]
        /\ last' = [type |-> t, text |-> b, err |-> r.err]

Init ==
    /\ u = [t \in Types |-> 0]
    /\ last = [type |-> Uint64, text |-> Null, err |-> "none"]

Next == \E t \in Types, b \in Inputs : Unmarshal(t, b)

Spec == Init /\ [][Next]_vars

-----------------------------------------------------------------------------
\* The number a text of decimal digits, possibly quoted, is read as by a
\* person: the reference for what Unmarshal may store.
Denotes(b) ==
    LET s == Unquote(b)
    IN  FoldSeq(LAMBDA x, acc : x + acc, 0, [i \in DOMAIN s |-> DigitValue(s[i]) * 10^(Len(s) - i)])
IsNumber(b) == LET s == Unquote(b) IN s # <<>> /\ \A i \in DOMAIN s : s[i] \in Digits

\* Marshalling then unmarshalling gives back every value of every type,
\* the maximum included, whatever the variable held before.
RoundTrip ==
    \A t \in Types : \A x \in 0 .. MaxOf(t) :
        UnmarshalJSON(t, u[t], MarshalJSON(x)) = [val |-> x, err |-> "none"]

\* A value is never silently truncated or wrapped: when UnmarshalJSON
\* returns no error for a number, the variable holds exactly that number,
\* however many digits it was written with.
NoSilentTruncation ==
    last.err = "none" /\ last.text # Null =>
        IsNumber(last.text) /\ u[last.type] = Denotes(last.text)

=============================================================================

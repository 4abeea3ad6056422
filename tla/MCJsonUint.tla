----------------------------- MODULE MCJsonUint -----------------------------
(* Uint8 and Uint64 at 2 and 5 bits: the type with a maximum check below    *)
(* ParseUint's width, and the one without.  The texts are every marshalled *)
(* value and its bare form up to one past the 64-bit maximum, a number with *)
(* more digits and with leading zeros, and malformed texts.                 *)
EXTENDS JsonUint

CONSTANTS t8, t64

MCBits == (t8 :> 2) @@ (t64 :> 5)

MCInputs ==
    {MarshalJSON(x) : x \in 0 .. 2^MCBits[t64]}
      \cup {Decimal(x) : x \in 0 .. 2^MCBits[t64]}
      \cup {<<"1", "0", "0">>, <<Quote, "0", "0", "3", Quote>>, Null,
            <<>>, <<Quote>>, <<Quote, Quote>>, <<Quote, "1">>, <<"-", "1">>,
            <<Quote, "n", "u", "l", "l", Quote>>}
=============================================================================

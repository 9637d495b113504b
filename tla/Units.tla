--------------------------------- MODULE Units ---------------------------------
(***************************************************************************)
(* The conversions of util.go, and those of helper.go and                  *)
(* transaction_raw_read.go that do not depend on the node: amounts in wei  *)
(* and in ether, the cost of gas, recovery bytes, addresses.  A decimal    *)
(* is [num, exp], the number num / 10^exp.  Definitions only.              *)
(***************************************************************************)
EXTENDS Integers, Sequences

CONSTANTS
  Precision,  \* decimal.DivisionPrecision (16)
  Half,       \* 2^63, the first number that an int64 has no place for
  Digits      \* hex digits of an address (40)

ASSUME UnitsConstants == Precision \in Nat /\ Half \in Nat \ {0} /\ Digits \in Nat

\* Decimal.Pow, which halves the exponent.
Pow10[n \in Nat] == IF n = 0 THEN 1
                    ELSE LET h == Pow10[n \div 2] IN IF n % 2 = 0 THEN h * h ELSE h * h * 10

\* Division by b > 0, truncated, and with halves rounded away from zero.
Trunc(a, b) == IF a < 0 THEN -((-a) \div b) ELSE a \div b
Rounded(a, b) == IF a < 0 THEN -((2 * (-a) + b) \div (2 * b)) ELSE (2 * a + b) \div (2 * b)

\* Mutant: the quotient is not rounded.
ToDecimalTruncated(value, decimals) ==
  [num |-> Trunc(value * Pow10[Precision], Pow10[decimals]), exp |-> Precision]

ToDecimal(value, decimals) ==
  [num |-> Rounded(value * Pow10[Precision], Pow10[decimals]), exp |-> Precision]

\* What SetString leaves of the product's text when it has a fraction: the digits
\* before the point.
ToWei(amount, decimals) == Trunc(amount.num * Pow10[decimals], Pow10[amount.exp])

Signed(x) == IF x < Half THEN x ELSE x - 2 * Half

\* Mutant: the limit goes through a number of fewer bits.
CalcGasCostShort(gasLimit, gasPrice) == (gasLimit % ((Half + 1) \div 2)) * gasPrice

\* The unsigned limit goes through int64.
CalcGasCost(gasLimit, gasPrice) == Signed(gasLimit) * gasPrice

\* V of SigRSV: the byte's two hex digits are read as decimal ones; when one of
\* them is a letter, Atoi's zero is used.
SigV(b) == LET hi == b \div 16  lo == b % 16
           IN (IF hi <= 9 /\ lo <= 9 THEN 10 * hi + lo ELSE 0) + 27

\* transaction_raw_read: the byte it puts after r and s, and V of a transaction
\* signed for a chain.
RawV(v) == (v - 27 + 4) % 256
SignedV(chain, id) == 35 + 2 * chain + id

\* An address's text: whether it begins with 0x, and the characters that follow,
\* "0", "1" (any other hex digit) and "g" (no hex digit).
Chars == {"0", "1", "g"}
IsValidAddress(t) == t.prefix /\ Len(t.chars) = Digits /\ \A i \in 1..Digits : t.chars[i] # "g"

\* FromHex pads the text to whole bytes and decodes up to the first bad one;
\* SetBytes keeps the last ones.
Decodable(s) == CHOOSE n \in 0..Len(s) : /\ n % 2 = 0 /\ \A i \in 1..n : s[i] # "g"
                                         /\ \/ n >= Len(s) - 1
                                            \/ s[n + 1] = "g" \/ s[n + 2] = "g"
HexToAddress(t) ==
  LET s == IF Len(t.chars) % 2 = 1 THEN <<"0">> \o t.chars ELSE t.chars
      n == Decodable(s)
  IN SubSeq(s, IF n > Digits THEN n - Digits + 1 ELSE 1, n)
IsZeroAddress(t) == \A i \in DOMAIN HexToAddress(t) : HexToAddress(t)[i] = "0"

\* Service.GetGasPrice, for what SuggestGasPrice answers.
GetGasPrice(price, failed, default, max) ==
  IF failed THEN default ELSE IF price > max THEN max ELSE price
===============================================================================

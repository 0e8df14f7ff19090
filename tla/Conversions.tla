---------------------------- MODULE Conversions -----------------------------
(***************************************************************************)
(* The numbers of a request on their way through the services.  A page and *)
(* its size come as text from the query string, as text and int32 over     *)
(* gRPC, and are narrowed again in wallet-service.  An amount is written   *)
(* into the outbox as JSON, read back into a map (so as a float64),        *)
(* printed again by the relay and decoded into an int64 by the handler.    *)
(* Widths are constants, so that a small instance reaches every edge.      *)
(***************************************************************************)
EXTENDS Integers, FiniteSets

CONSTANTS
    PageBits,       \* 16: ConvertStringToInt(page, 10, 16)
    SizeBits,       \* 8: the page size is an int8
    MinPageSize,    \* 8
    AmountBits,     \* 64: an amount is an int64
    MantissaBits,   \* 53: the significant bits of a float64
    NotANumber,     \* text that is no number, or absent
    ParseError

ASSUME ConversionsAssumption ==
    /\ {PageBits, SizeBits, MinPageSize, AmountBits, MantissaBits} \subseteq Nat \ {0}
    /\ MinPageSize < 2 ^ (SizeBits - 1)
    /\ MantissaBits < AmountBits - 1
    /\ ParseError \notin Int

Signed(bits) == -(2 ^ (bits - 1)) .. 2 ^ (bits - 1) - 1

-----------------------------------------------------------------------------
(* Pages                                                                   *)

(* Text to a number of so many bits *)
ConvertStringToInt(text, bits) ==
    IF text \in Signed(bits) THEN text ELSE ParseError

(* HandleListTransactions ignores the error: what it cannot parse is 0. *)
SizeFromQuery(text) ==
    IF ConvertStringToInt(text, SizeBits) = ParseError THEN 0 ELSE text

(* Go's int8(n) *)
Narrow(n, bits) == ((n + 2 ^ (bits - 1)) % (2 ^ bits)) - 2 ^ (bits - 1)

(* Mutant: the size is taken as it comes. *)
PageSizeAsAsked(asked) == Narrow(asked, SizeBits)

(* What wallet-service makes of the size it is asked for *)
PageSize(asked) ==
    LET size == Narrow(asked, SizeBits)
    IN  IF size < MinPageSize THEN MinPageSize ELSE size

(* "Defaulting to page 0" *)
FromZero(page) == IF page < 0 THEN 0 ELSE page

(* Mutants: off by one per page, either way. *)
OffsetTooFar(page, size) == FromZero(page) * (size + 1)
OffsetTooNear(page, size) == FromZero(page) * (size - 1)

Offset(page, size) == FromZero(page) * size

-----------------------------------------------------------------------------
(* Amounts                                                                 *)

(* The unit of a float64 of the size of n *)
Ulp(n) ==
    LET scale == CHOOSE k \in 0..AmountBits :
                    /\ n < 2 ^ (MantissaBits + k)
                    /\ k = 0 \/ n >= 2 ^ (MantissaBits + k - 1)
    IN  2 ^ scale

(* json.Unmarshal of a number into interface{}: the nearest float64, on a tie
   the even one *)
ToFloat(n) ==
    LET unit == Ulp(n)
        low == n \div unit
        rest == n % unit
        up == 2 * rest > unit \/ (2 * rest = unit /\ low % 2 = 1)
    IN  (IF up THEN low + 1 ELSE low) * unit

Distance(m, n) == IF m < n THEN n - m ELSE m - n

PowerOfTen[k \in 0..AmountBits + 1] ==
    IF k = 0 THEN 1 ELSE 10 * PowerOfTen[k - 1]

(* json.Marshal of a float64: the shortest decimal that reads back as the same
   float64, the nearest one of these, padded with zeros *)
Printed(float) ==
    LET around == {n \in float - Ulp(float) .. float + Ulp(float) :
                      n >= 0 /\ ToFloat(n) = float}
        zeros == CHOOSE k \in 0..AmountBits :
                    /\ \E n \in around : n % PowerOfTen[k] = 0
                    /\ \A n \in around : n % PowerOfTen[k + 1] = 0 => n = 0
        short == {n \in around : n % PowerOfTen[zeros] = 0}
    IN  CHOOSE n \in short : \A m \in short : Distance(n, float) <= Distance(m, float)

(* Mutant: a number that does not fit is cut off. *)
DecodeWrapped(n) == Narrow(n, AmountBits)

(* json.Unmarshal into the payload's int64 *)
DecodeAmount(n) == IF n \in Signed(AmountBits) THEN n ELSE ParseError

(* From the request to the handler; the sign is carried as it is. *)
Carried(amount) ==
    LET size == Distance(amount, 0)
        printed == Printed(ToFloat(size))
    IN  IF size = 0 THEN 0
        ELSE DecodeAmount(IF amount < 0 THEN -printed ELSE printed)

=============================================================================

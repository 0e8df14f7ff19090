------------------------------ MODULE Listing -------------------------------
(***************************************************************************)
(* ListTransactions end to end: a client asks the gateway for the first    *)
(* page and follows the next-page tokens, while the handlers record        *)
(* transactions of the account.  A page is one SELECT, ordered by          *)
(* created_at DESC.  created_at is now(), the start of the database        *)
(* transaction, so a row may become visible behind rows that are older in  *)
(* commit order.  Times are unique unless Ties; rows with the same time    *)
(* come in any order, a new one in every SELECT.                           *)
(***************************************************************************)
EXTENDS Conversions

CONSTANTS
    MaxRows,       \* bound: transactions requested
    Requested,     \* the amount each was requested with
    FirstPages,    \* pages clients begin with
    AskedSizes,    \* page sizes clients ask for, as text
    GrpcSizes,     \* page sizes asked of wallet-service directly
    Ties           \* may two rows have the same created_at

ASSUME ListingAssumption ==
    /\ MaxRows \in Nat
    /\ Requested \in [1..MaxRows -> Signed(AmountBits)]
    /\ FirstPages \subseteq {n \in Int : n <= 0} /\ GrpcSizes \subseteq Int
    /\ Ties \in BOOLEAN

VARIABLES
    handled,     \* how many of the requested transactions were handled
    created,     \* created_at of the rows of the table transactions
    amount,      \* their amounts
    phase,       \* of the client: idle, asking, or how its walk ended
    page,        \* the page it asks for next, as text
    size,        \* the page size it asks for, as wallet-service gets it
    atStart,     \* the rows there were when it began
    seen         \* how often each row was on a page

lvars == <<handled, created, amount, phase, page, size, atStart, seen>>

Txns == 1..MaxRows
Times == 1..MaxRows
Rows == DOMAIN created

LTypeOK ==
    /\ handled \in 0..MaxRows
    /\ Rows \subseteq 1..handled
    /\ created \in [Rows -> Times]
    /\ amount \in [Rows -> Signed(AmountBits)]
    /\ phase \in {"idle", "asking", "done", "refused", "lost"}
    /\ page \in Int
    /\ size \in Int
    /\ atStart \subseteq Rows
    /\ seen \in [Txns -> Nat]

LInit ==
    /\ handled = 0
    /\ created = << >>
    /\ amount = << >>
    /\ phase = "idle"
    /\ page = 0
    /\ size = 0
    /\ atStart = {}
    /\ seen = [t \in Txns |-> 0]

-----------------------------------------------------------------------------

(* The event of the next transaction reaches its handler: one that cannot be
   decoded becomes a dead letter, another is recorded. *)
RecordTransaction ==
    LET t == handled + 1
        carried == Carried(Requested[t])
    IN  /\ handled < MaxRows
        /\ handled' = t
        /\ \/ /\ carried = ParseError
              /\ UNCHANGED <<created, amount>>
           \/ /\ carried # ParseError
              /\ \E time \in Times :
                    /\ Ties \/ \A r \in Rows : created[r] # time
                    /\ created' = [r \in Rows \cup {t} |->
                                     IF r = t THEN time ELSE created[r]]
              /\ amount' = [r \in Rows \cup {t} |->
                              IF r = t THEN carried ELSE amount[r]]
        /\ UNCHANGED <<phase, page, size, atStart, seen>>

(* The client begins at page 0, or below, through the gateway or at
   wallet-service. *)
Begin ==
    /\ phase = "idle"
    /\ phase' = "asking"
    /\ page' \in FirstPages
    /\ size' \in {SizeFromQuery(text) : text \in AskedSizes} \cup GrpcSizes
    /\ atStart' = Rows
    /\ UNCHANGED <<handled, created, amount, seen>>

(* The first rows in the order of the SELECT: nothing newer is left out. *)
Newest(rows) == \A r \in rows, q \in Rows \ rows : created[q] <= created[r]

(* The results of SELECT ... ORDER BY created_at DESC LIMIT OFFSET: one,
   unless there are ties. *)
Selections(offset, limit) ==
    LET Atmost(n, m) == IF n < m THEN n ELSE m
        skipped == Atmost(offset, Cardinality(Rows))
        taken == Atmost(limit, Cardinality(Rows) - skipped)
    IN  {rows \in SUBSET Rows :
            /\ Cardinality(rows) = taken
            /\ \E before \in SUBSET (Rows \ rows) :
                  /\ Cardinality(before) = skipped
                  /\ Newest(before)
                  /\ Newest(before \cup rows)}

(* Is there a next page token? *)
HasToken(rows, asked) == Cardinality(rows) = PageSize(asked)

(* One page, and the client goes on if the answer has a token. *)
ListTransactions ==
    /\ phase = "asking"
    /\ ConvertStringToInt(page, PageBits) # ParseError
    /\ \E rows \in Selections(Offset(page, PageSize(size)), PageSize(size)) :
          /\ seen' = [t \in Txns |-> IF t \in rows THEN seen[t] + 1 ELSE seen[t]]
          /\ IF HasToken(rows, size)
             THEN page' = FromZero(page) + 1 /\ UNCHANGED phase
             ELSE phase' = "done" /\ UNCHANGED page
    /\ UNCHANGED <<handled, created, amount, size, atStart>>

(* On a page it cannot parse the gateway exits (see Gateway). *)
PageNotParsed ==
    /\ phase = "asking"
    /\ ConvertStringToInt(page, PageBits) = ParseError
    /\ phase' = "lost"
    /\ UNCHANGED <<handled, created, amount, page, size, atStart, seen>>

(* The SELECT fails: the gateway answers with an error. *)
ListFails ==
    /\ phase = "asking"
    /\ phase' = "refused"
    /\ UNCHANGED <<handled, created, amount, page, size, atStart, seen>>

Listed ==
    /\ phase \in {"done", "refused", "lost"} /\ handled = MaxRows
    /\ UNCHANGED lvars

LNext ==
    \/ RecordTransaction \/ Begin \/ ListTransactions \/ PageNotParsed
    \/ ListFails \/ Listed

(* A client that began goes on asking. *)
LSpec == LInit /\ [][LNext]_lvars /\ WF_lvars(ListTransactions \/ PageNotParsed)

-----------------------------------------------------------------------------
(* Properties                                                              *)

(* Whatever is recorded between two pages, and wherever in the order it turns
   up, a client that followed the tokens to the end has seen every row there
   was when it began. *)
NoneMissed == phase = "done" => \A r \in atStart : seen[r] > 0

(* A row comes a second time only because another one was recorded meanwhile:
   there are no more repetitions than new rows. *)
RepeatsBounded ==
    LET repeated == {rk \in Rows \X (2..MaxRows + 1) : seen[rk[1]] >= rk[2]}
    IN  phase # "idle" => Cardinality(repeated) <= Cardinality(Rows \ atStart)

(* Pages are numbered in so many bits: an account with more rows than they
   reach cannot be listed to its end. *)
Listable == Cardinality(Rows) < 2 ^ (PageBits - 1) * MinPageSize

(* Recorded is what was requested, for any amount a float64 holds exactly; a
   greater one is off by at most the unit of its float64 (by all of it when it
   lies half way to one neighbour and the shortest decimal half way to the
   other), never turns into one of the other sign, and where it no longer fits
   is not recorded. *)
AmountsSurvive ==
    \A r \in Rows :
        LET asked == Requested[r]
            off == Distance(asked, amount[r])
        IN  /\ Distance(asked, 0) <= 2 ^ MantissaBits => off = 0
            /\ off <= Ulp(ToFloat(Distance(asked, 0)))
            /\ asked > 0 <=> amount[r] > 0

(* Following the tokens comes to the last page, and not to a token on which
   the gateway exits, unless a SELECT fails or the account outgrows the page
   numbers. *)
WalkEnds == phase = "asking" ~> phase \in {"done", "refused"} \/ ~Listable

=============================================================================

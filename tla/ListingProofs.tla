--------------------------- MODULE ListingProofs ----------------------------
(***************************************************************************)
(* Proofs about Listing, for any number of transactions, any amounts, any  *)
(* width of page numbers, sizes, amounts and floats and any size a client  *)
(* asks for.  What is said of the pages needs created_at to tell the rows  *)
(* apart; what is said of the amounts does not.                            *)
(***************************************************************************)
EXTENDS Listing, FiniteSetTheorems, FunctionTheorems, NaturalsInduction,
        WellFoundedInduction, TLAPS

(* No two rows have the same created_at; with ties the order of the SELECT is
   not determined, and a row can fall between two pages. *)
NoTies == ~Ties

(* A power of two is a positive number: it counts the subsets of an interval. *)
LEMMA PowerPositive ==
    ASSUME NEW n \in Nat
    PROVE  2 ^ n \in Nat \ {0}
<1>1. IsFiniteSet(1..n) /\ Cardinality(1..n) = n
  BY FS_Interval
<1>2. IsFiniteSet(SUBSET (1..n)) /\ Cardinality(SUBSET (1..n)) = 2 ^ n
  BY <1>1, FS_SUBSET
<1>3. SUBSET (1..n) # {}
  OBVIOUS
<1>4. Cardinality(SUBSET (1..n)) \in Nat \ {0}
  BY <1>2, <1>3, FS_CardinalityType, FS_EmptySet
<1> QED BY <1>2, <1>4

(* A union has no more elements than its parts, and as many if they are
   disjoint. *)
LEMMA UnionCounted ==
    ASSUME NEW S, NEW T, IsFiniteSet(S), IsFiniteSet(T)
    PROVE  /\ IsFiniteSet(S \cup T)
           /\ Cardinality(S \cup T) <= Cardinality(S) + Cardinality(T)
           /\ S \cap T = {} => Cardinality(S \cup T) = Cardinality(S) + Cardinality(T)
<1>1. Cardinality(S) \in Nat /\ Cardinality(T) \in Nat
  BY FS_CardinalityType
<1>2. IsFiniteSet(S \cap T) /\ Cardinality(S \cap T) \in Nat
  BY FS_Intersection, FS_CardinalityType
<1>3. /\ IsFiniteSet(S \cup T)
      /\ Cardinality(S \cup T) = Cardinality(S) + Cardinality(T) - Cardinality(S \cap T)
  BY FS_Union
<1>4. S \cap T = {} => Cardinality(S \cap T) = 0
  BY FS_EmptySet
<1> QED BY <1>1, <1>2, <1>3, <1>4

(* Whatever size is asked for, also one that int8 wraps around, a page has at
   least one row to give. *)
LEMMA PageSizePositive ==
    ASSUME NEW asked \in Int
    PROVE  PageSize(asked) \in Nat \ {0}
<1>1. SizeBits \in Nat /\ SizeBits - 1 \in Nat /\ MinPageSize \in Nat \ {0}
  BY ConversionsAssumption
<1>2. 2 ^ SizeBits \in Nat \ {0} /\ 2 ^ (SizeBits - 1) \in Nat \ {0}
  BY <1>1, PowerPositive
<1>3. Narrow(asked, SizeBits) \in Int
  <2> DEFINE all == 2 ^ SizeBits
             half == 2 ^ (SizeBits - 1)
  <2>1. all \in Nat \ {0} /\ half \in Nat
    BY <1>2
  <2> HIDE DEF all, half
  <2>2. ((asked + half) % all) - half \in Int
    BY <2>1
  <2> QED BY <2>2 DEF Narrow, all, half
<1> QED BY <1>1, <1>3 DEF PageSize

(* A page size that cannot be parsed becomes 0, any other is a number. *)
LEMMA SizeIsNumber == \A text : SizeFromQuery(text) \in Int
BY ConversionsAssumption DEF SizeFromQuery, ConvertStringToInt, Signed

-----------------------------------------------------------------------------
(* The inductive invariant                                                 *)

(* The rows before a row in the order of the SELECT. *)
Newer(r) == {q \in Rows : created[q] > created[r]}

(* How many rows the pages so far have gone over. *)
Covered == Offset(page, PageSize(size))

(* Each showing of a row, with its number. *)
Showings == {rk \in Rows \X (1..MaxRows + 1) : seen[rk[1]] >= rk[2]}

(* The rows the client has seen or need not see. *)
Reached == {r \in Rows : seen[r] > 0 \/ r \notin atStart}

WalkTyped ==
    /\ handled \in 0..MaxRows
    /\ Rows \subseteq 1..handled
    /\ created \in [Rows -> Times]
    /\ phase \in {"idle", "asking", "done", "refused", "lost"}
    /\ page \in Int
    /\ size \in Int
    /\ atStart \subseteq Rows
    /\ seen \in [Txns -> Nat]
    /\ \A t \in Txns : seen[t] > 0 => t \in Rows /\ phase # "idle"

Distinct == \A r, q \in Rows : created[r] = created[q] => r = q

(* A row the client still has to see is not before its next page. *)
NotBehind ==
    phase = "asking" =>
        \A r \in atStart : seen[r] = 0 => Cardinality(Newer(r)) >= Covered

(* No more rows were shown than the pages went over, nor than there are rows
   seen or new. *)
ShowingsPaidFor ==
    /\ phase # "idle" => Cardinality(Showings) <= Cardinality(Reached)
    /\ phase = "asking" => Cardinality(Showings) <= Covered

WalkInv ==
    /\ WalkTyped
    /\ Distinct
    /\ NoneMissed
    /\ NotBehind
    /\ ShowingsPaidFor

(* The table is finite, and so is every set of its rows and of showings. *)
LEMMA Finiteness ==
    ASSUME WalkTyped
    PROVE  /\ IsFiniteSet(Rows)
           /\ \A S \in SUBSET Rows : IsFiniteSet(S) /\ Cardinality(S) \in Nat
           /\ IsFiniteSet(Rows \X (1..MaxRows + 1))
           /\ IsFiniteSet(Showings) /\ Cardinality(Showings) \in Nat
<1>1. handled \in Int /\ Rows \subseteq 1..handled /\ MaxRows \in Nat
  BY ListingAssumption DEF WalkTyped
<1>2. IsFiniteSet(1..handled) /\ IsFiniteSet(1..MaxRows + 1)
  BY <1>1, FS_Interval
<1>3. IsFiniteSet(Rows)
  BY <1>1, <1>2, FS_Subset
<1>4. IsFiniteSet(Rows \X (1..MaxRows + 1))
  BY <1>2, <1>3, FS_Product
<1>5. Showings \in SUBSET (Rows \X (1..MaxRows + 1))
  BY DEF Showings
<1>6. IsFiniteSet(Showings)
  BY <1>4, <1>5, FS_Subset
<1> QED BY <1>3, <1>4, <1>6, FS_Subset, FS_CardinalityType

(* The rows the pages went over are counted by a natural number. *)
LEMMA CoveredIsNat ==
    ASSUME WalkTyped
    PROVE  Covered \in Nat
<1>1. PageSize(size) \in Nat
  BY PageSizePositive DEF WalkTyped
<1>2. FromZero(page) \in Nat
  BY DEF WalkTyped, FromZero
<1> QED BY <1>1, <1>2 DEF Covered, Offset

(* Recording a row, anywhere in the order, can only push others back. *)
LEMMA RecordKeeps ==
    ASSUME NoTies, WalkInv, RecordTransaction
    PROVE  WalkInv'
<1> DEFINE t == handled + 1
<1>t. WalkTyped BY DEF WalkInv
<1>n. MaxRows \in Nat BY ListingAssumption
<1>u. UNCHANGED <<phase, page, size, atStart, seen>> /\ handled' = t /\ handled < MaxRows
  BY DEF RecordTransaction
<1>h. t \in Txns /\ handled \in Nat /\ t \notin Rows /\ Rows \subseteq Txns
  BY <1>t, <1>n, <1>u DEF WalkTyped, Txns
<1>c. Covered' = Covered
  BY <1>u DEF Covered
<1>1. CASE UNCHANGED created
  <2>1. WalkTyped'
    <3>1. handled' \in 0..MaxRows /\ 1..handled \subseteq 1..handled'
      BY <1>h, <1>n, <1>u
    <3> QED BY <1>1, <1>t, <1>u, <3>1 DEF WalkTyped, Rows
  <2>2. Distinct' /\ NoneMissed'
    BY <1>1, <1>u DEF WalkInv, Distinct, NoneMissed, Rows
  <2>3. NotBehind'
    <3>1. \A r : Newer(r)' = Newer(r)
      BY <1>1 DEF Newer, Rows
    <3> QED BY <1>c, <1>u, <3>1 DEF WalkInv, NotBehind
  <2>4. ShowingsPaidFor'
    <3>1. Showings' = Showings /\ Reached' = Reached
      BY <1>1, <1>u DEF Showings, Reached, Rows
    <3> QED BY <1>c, <1>u, <3>1 DEF WalkInv, ShowingsPaidFor
  <2> QED BY <2>1, <2>2, <2>3, <2>4 DEF WalkInv
<1>2. CASE ~UNCHANGED created
  <2>1. PICK time \in Times :
           /\ \A r \in Rows : created[r] # time
           /\ created' = [r \in Rows \cup {t} |->
                            IF r = t THEN time ELSE created[r]]
    BY <1>2 DEF RecordTransaction, NoTies
  <2>2. /\ Rows' = Rows \cup {t}
        /\ created'[t] = time
        /\ \A r \in Rows : created'[r] = created[r]
    BY <1>h, <2>1 DEF Rows
  <2>3. seen[t] = 0 /\ seen[t] \in Nat
    BY <1>t, <1>h DEF WalkTyped
  <2>4. WalkTyped'
    <3>1. handled' \in 0..MaxRows /\ Rows' \subseteq 1..handled'
      BY <1>t, <1>h, <1>n, <1>u, <2>2 DEF WalkTyped
    <3>2. created' \in [Rows' -> Times]
      BY <1>t, <2>1, <2>2 DEF WalkTyped, Times
    <3> QED BY <1>t, <1>u, <2>2, <3>1, <3>2 DEF WalkTyped
  <2>5. Distinct'
    BY <1>h, <2>1, <2>2 DEF WalkInv, Distinct
  <2>6. NoneMissed'
    BY <1>u DEF WalkInv, NoneMissed
  <2>7. NotBehind'
    <3> SUFFICES ASSUME phase = "asking", NEW r \in atStart, seen[r] = 0
                 PROVE  Cardinality(Newer(r)') >= Covered
      BY <1>c, <1>u DEF NotBehind
    <3>1. Newer(r) \subseteq Newer(r)' /\ Newer(r)' \subseteq Rows'
      BY <1>t, <2>2 DEF Newer, WalkTyped
    <3>2. Cardinality(Newer(r)) >= Covered
      BY DEF WalkInv, NotBehind
    <3>3. IsFiniteSet(Rows')
      BY <1>t, <2>2, Finiteness, FS_AddElement
    <3>4. IsFiniteSet(Newer(r)') /\ Cardinality(Newer(r)) <= Cardinality(Newer(r)')
      BY <3>1, <3>3, FS_Subset
    <3>5. IsFiniteSet(Newer(r))
      BY <3>1, <3>4, FS_Subset
    <3>6. Cardinality(Newer(r)) \in Nat /\ Cardinality(Newer(r)') \in Nat
      BY <3>4, <3>5, FS_CardinalityType
    <3> QED BY <1>t, <3>2, <3>4, <3>6, CoveredIsNat
  <2>8. ShowingsPaidFor'
    <3>1. Showings' = Showings
      BY <1>t, <1>u, <2>2, <2>3 DEF Showings
    <3>2. Reached \subseteq Reached' /\ Reached' \subseteq Rows'
      BY <1>u, <2>2 DEF Reached
    <3>3. IsFiniteSet(Rows')
      BY <1>t, <2>2, Finiteness, FS_AddElement
    <3>4. IsFiniteSet(Reached') /\ Cardinality(Reached) <= Cardinality(Reached')
      BY <3>2, <3>3, FS_Subset
    <3>5. Reached \subseteq Rows
      BY DEF Reached
    <3>6. Cardinality(Reached) \in Nat /\ Cardinality(Reached') \in Nat
          /\ Cardinality(Showings) \in Nat
      BY <1>t, <3>4, <3>5, Finiteness, FS_CardinalityType
    <3> QED BY <1>c, <1>u, <3>1, <3>4, <3>6 DEF WalkInv, ShowingsPaidFor
  <2> QED BY <2>4, <2>5, <2>6, <2>7, <2>8 DEF WalkInv
<1> QED BY <1>1, <1>2

(* A walk begins with nothing seen and nothing gone over. *)
LEMMA BeginKeeps ==
    ASSUME WalkInv, Begin
    PROVE  WalkInv'
<1>t. WalkTyped BY DEF WalkInv
<1>1. page' \in Int /\ page' <= 0 /\ size' \in Int
  BY ListingAssumption, SizeIsNumber DEF Begin
<1>2. WalkTyped'
  BY <1>t, <1>1 DEF Begin, WalkTyped, Rows
<1>3. Covered' = 0
  <2>1. FromZero(page') = 0
    BY <1>1 DEF FromZero
  <2>2. PageSize(size') \in Nat
    BY <1>1, PageSizePositive
  <2> QED BY <2>1, <2>2 DEF Covered, Offset
<1>4. \A r \in Rows : seen[r] = 0
  <2>1. Rows \subseteq Txns
    BY <1>t, ListingAssumption DEF WalkTyped, Txns
  <2> QED BY <1>t, <2>1 DEF Begin, WalkTyped
<1>5. Showings' = {} /\ Cardinality(Showings') = 0
  <2>1. Showings' = {}
    BY <1>4 DEF Begin, Showings, Rows
  <2> QED BY <2>1, FS_EmptySet
<1>6. WalkTyped' /\ \A r : Newer(r)' \subseteq Rows' /\ Reached' \subseteq Rows'
  BY <1>2 DEF Newer, Reached
<1>7. \A S \in SUBSET Rows' : Cardinality(S) \in Nat
  BY <1>t, Finiteness DEF Begin, Rows
<1>8. NotBehind' /\ ShowingsPaidFor'
  <2>1. \A r : Cardinality(Newer(r)') >= 0
    BY <1>6, <1>7
  <2>2. Cardinality(Reached') >= 0
    BY <1>6, <1>7
  <2> QED BY <1>3, <1>5, <2>1, <2>2 DEF NotBehind, ShowingsPaidFor
<1>9. Distinct' /\ NoneMissed'
  BY DEF Begin, WalkInv, Distinct, NoneMissed, Rows
<1> QED BY <1>2, <1>8, <1>9 DEF WalkInv

(* The page lies behind the rows it skips.  A row the client still has to see
   and that is not on the page has all of these before it. *)
LEMMA PageInOrder ==
    ASSUME WalkInv, phase = "asking",
           NEW rows \in Selections(Covered, PageSize(size))
    PROVE  \E before \in SUBSET (Rows \ rows) :
              /\ rows \subseteq Rows
              /\ Cardinality(before \cup rows) = Cardinality(before) + Cardinality(rows)
              /\ \/ Cardinality(before) = Covered /\ Cardinality(rows) = PageSize(size)
                 \/ before \cup rows = Rows /\ Cardinality(rows) < PageSize(size)
              /\ Cardinality(before) = Covered \/ before = Rows
              /\ \A r \in atStart : seen[r] = 0 /\ r \notin rows =>
                    r \notin before /\ before \cup rows \subseteq Newer(r)
<1> DEFINE limit == PageSize(size)
           n == Cardinality(Rows)
           skipped == IF Covered < n THEN Covered ELSE n
           taken == IF limit < n - skipped THEN limit ELSE n - skipped
<1>t. WalkTyped BY DEF WalkInv
<1>1. Covered \in Nat /\ limit \in Nat \ {0} /\ n \in Nat /\ IsFiniteSet(Rows)
  BY <1>t, CoveredIsNat, PageSizePositive, Finiteness, Rows \in SUBSET Rows DEF WalkTyped
<1>2. PICK before \in SUBSET (Rows \ rows) :
         /\ Cardinality(before) = skipped
         /\ Newest(before)
         /\ Newest(before \cup rows)
  BY DEF Selections
<1>3. rows \in SUBSET Rows /\ Cardinality(rows) = taken
  BY DEF Selections
<1>4. /\ IsFiniteSet(before) /\ IsFiniteSet(rows) /\ IsFiniteSet(before \cup rows)
      /\ Cardinality(before) \in Nat /\ Cardinality(rows) \in Nat
  BY <1>t, <1>2, <1>3, Finiteness, FS_Union
<1>5. Cardinality(before \cup rows) = Cardinality(before) + Cardinality(rows)
  <2>1. before \cap rows = {}
    BY <1>2
  <2> QED BY <1>4, <2>1, FS_Union, FS_EmptySet
<1>6. Cardinality(before \cup rows) = n => before \cup rows = Rows
  BY <1>1, <1>2, <1>3, FS_Subset
<1>7. Cardinality(before) = n => before = Rows
  BY <1>1, <1>2, FS_Subset
<1>8. /\ \/ Cardinality(before) = Covered /\ Cardinality(rows) = limit
         \/ before \cup rows = Rows /\ Cardinality(rows) < limit
      /\ Cardinality(before) = Covered \/ before = Rows
  <2> HIDE DEF limit, n
  <2>1. /\ skipped \in Nat /\ taken \in Nat
        /\ skipped = Covered \/ skipped = n
        /\ \/ skipped = Covered /\ taken = limit
           \/ skipped + taken = n /\ taken < limit
    BY <1>1
  <2> QED BY <1>2, <1>3, <1>5, <1>6, <1>7, <2>1
<1>9. ASSUME NEW r \in atStart, seen[r] = 0, r \notin rows
      PROVE  r \notin before /\ before \cup rows \subseteq Newer(r)
  <2>1. r \in Rows /\ \A q \in Rows : created[q] \in Nat
    BY <1>t, ListingAssumption DEF WalkTyped, Times
  <2>2. Cardinality(Newer(r)) >= Covered
    BY <1>9 DEF WalkInv, NotBehind
  <2>3. ASSUME r \in before PROVE FALSE
    <3>1. Newer(r) \subseteq before \ {r}
      BY <1>2, <2>1, <2>3 DEF Newest, Newer
    <3>2. IsFiniteSet(before \ {r}) /\ Cardinality(before \ {r}) = Cardinality(before) - 1
      BY <1>4, <2>3, FS_RemoveElement
    <3>3. IsFiniteSet(Newer(r)) /\ Cardinality(Newer(r)) <= Cardinality(before \ {r})
      BY <3>1, <3>2, FS_Subset
    <3>4. Cardinality(Newer(r)) \in Nat
      BY <3>3, FS_CardinalityType
    <3>5. Cardinality(before) <= Covered
      <4> HIDE DEF n
      <4> QED BY <1>1, <1>2
    <3> QED BY <1>1, <1>4, <2>2, <3>2, <3>3, <3>4, <3>5
  <2>4. ASSUME NEW x \in before \cup rows PROVE x \in Newer(r)
    <3>1. x \in Rows /\ x # r
      BY <1>2, <1>3, <1>9, <2>3
    <3>2. created[r] <= created[x]
      BY <1>2, <1>9, <2>1, <2>3 DEF Newest
    <3>3. created[r] # created[x]
      BY <2>1, <3>1 DEF WalkInv, Distinct
    <3> QED BY <2>1, <3>1, <3>2, <3>3 DEF Newer
  <2> QED BY <2>3, <2>4
<1> QED BY <1>2, <1>3, <1>5, <1>8, <1>9

(* A page adds one showing for each of its rows. *)
LEMMA PageShows ==
    ASSUME WalkTyped, NEW rows \in SUBSET Rows, UNCHANGED created,
           seen' = [t \in Txns |-> IF t \in rows THEN seen[t] + 1 ELSE seen[t]]
    PROVE  /\ Cardinality(Showings') \in Nat
           /\ Cardinality(Showings') <= Cardinality(Showings) + Cardinality(rows)
<1> DEFINE new == {<<r, seen[r] + 1>> : r \in rows}
           f == [r \in rows |-> <<r, seen[r] + 1>>]
<1>1. IsFiniteSet(rows) /\ Cardinality(rows) \in Nat /\ IsFiniteSet(Showings)
      /\ Cardinality(Showings) \in Nat
  BY Finiteness
<1>2. f \in Surjection(rows, new)
  BY DEF Surjection
<1>3. IsFiniteSet(new) /\ Cardinality(new) <= Cardinality(rows)
  BY <1>1, <1>2, FS_Surjection
<1>4. Showings' \subseteq Showings \cup new
  <2> SUFFICES ASSUME NEW r \in Rows, NEW k \in 1..MaxRows + 1, seen'[r] >= k
               PROVE  <<r, k>> \in Showings \cup new
    BY DEF Showings, Rows
  <2>1. r \in Txns /\ seen[r] \in Nat /\ k \in Nat
    BY ListingAssumption DEF WalkTyped, Txns
  <2>2. CASE seen[r] >= k
    BY <2>2 DEF Showings
  <2>3. CASE ~(seen[r] >= k)
    <3>1. r \in rows /\ k = seen[r] + 1
      BY <2>1, <2>3
    <3> QED BY <3>1
  <2> QED BY <2>2, <2>3
<1>5. /\ IsFiniteSet(Showings \cup new)
      /\ Cardinality(Showings \cup new) <= Cardinality(Showings) + Cardinality(new)
  BY <1>1, <1>3, UnionCounted
<1>6. /\ IsFiniteSet(Showings')
      /\ Cardinality(Showings') <= Cardinality(Showings \cup new)
  BY <1>4, <1>5, FS_Subset
<1>7. /\ Cardinality(Showings') \in Nat /\ Cardinality(new) \in Nat
      /\ Cardinality(Showings \cup new) \in Nat
  BY <1>3, <1>5, <1>6, FS_CardinalityType
<1> QED BY <1>1, <1>3, <1>5, <1>6, <1>7

(* A page keeps the invariant: what it shows is right behind what was gone
   over before, and after the last page nothing is left to see. *)
LEMMA PageKeeps ==
    ASSUME WalkInv, ListTransactions
    PROVE  WalkInv'
<1> DEFINE s == PageSize(size)
<1>t. WalkTyped BY DEF WalkInv
<1>p. phase = "asking" /\ UNCHANGED <<handled, created, amount, size, atStart>>
  BY DEF ListTransactions
<1>0. PICK rows \in Selections(Covered, s) :
         /\ seen' = [t \in Txns |-> IF t \in rows THEN seen[t] + 1 ELSE seen[t]]
         /\ IF HasToken(rows, size)
            THEN page' = FromZero(page) + 1 /\ UNCHANGED phase
            ELSE phase' = "done" /\ UNCHANGED page
  BY DEF ListTransactions, Covered
<1>1. PICK before \in SUBSET (Rows \ rows) :
         /\ rows \subseteq Rows
         /\ Cardinality(before \cup rows) = Cardinality(before) + Cardinality(rows)
         /\ \/ Cardinality(before) = Covered /\ Cardinality(rows) = s
            \/ before \cup rows = Rows /\ Cardinality(rows) < s
         /\ Cardinality(before) = Covered \/ before = Rows
         /\ \A r \in atStart : seen[r] = 0 /\ r \notin rows =>
               r \notin before /\ before \cup rows \subseteq Newer(r)
  BY <1>p, PageInOrder
<1>n. s \in Nat \ {0} /\ Covered \in Nat /\ Rows \subseteq Txns /\ atStart \subseteq Rows
  <2>1. s \in Nat \ {0} /\ Covered \in Nat
    BY <1>t, PageSizePositive, CoveredIsNat DEF WalkTyped
  <2>2. Rows \subseteq Txns /\ atStart \subseteq Rows
    BY <1>t, ListingAssumption DEF WalkTyped, Txns
  <2> QED BY <2>1, <2>2
<1>2. \A r \in Txns : /\ seen[r] \in Nat /\ seen'[r] \in Nat
                      /\ seen'[r] > 0 <=> seen[r] > 0 \/ r \in rows
  BY <1>0, <1>t DEF WalkTyped
<1>3. WalkTyped'
  <2>1. seen' \in [Txns -> Nat]
    BY <1>0, <1>t DEF WalkTyped
  <2>2. page' \in Int /\ phase' \in {"asking", "done"}
    BY <1>0, <1>p, <1>t DEF WalkTyped, FromZero
  <2>3. Rows' = Rows
    BY <1>p DEF Rows
  <2> QED BY <1>1, <1>2, <1>p, <1>t, <2>1, <2>2, <2>3 DEF WalkTyped
<1>4. Distinct'
  BY <1>p DEF WalkInv, Distinct, Rows
<1>5. /\ Cardinality(Showings') \in Nat /\ Cardinality(rows) \in Nat
      /\ Cardinality(Showings') <= Cardinality(Showings) + Cardinality(rows)
      /\ Cardinality(Showings) \in Nat /\ Cardinality(before) \in Nat
  BY <1>0, <1>1, <1>p, <1>t, PageShows, Finiteness
<1>6. Cardinality(Showings') <= Cardinality(Reached')
  <2>1. before \cup rows \subseteq Reached' /\ Reached' \in SUBSET Rows
    BY <1>1, <1>2, <1>n, <1>p DEF Reached, Rows
  <2>2. IsFiniteSet(Reached') /\ Cardinality(Reached') \in Nat
    BY <1>t, <2>1, Finiteness
  <2>3. Cardinality(before) + Cardinality(rows) <= Cardinality(Reached')
    BY <1>1, <2>1, <2>2, FS_Subset
  <2>4. Cardinality(Showings) <= Cardinality(before)
    <3>1. Cardinality(Showings) <= Covered /\ Cardinality(Showings) <= Cardinality(Reached)
      BY <1>p DEF WalkInv, ShowingsPaidFor
    <3>2. Reached \in SUBSET Rows
      BY DEF Reached
    <3>3. /\ Cardinality(Reached) <= Cardinality(Rows)
          /\ Cardinality(Reached) \in Nat /\ Cardinality(Rows) \in Nat
      BY <1>t, <3>2, Rows \in SUBSET Rows, Finiteness, FS_Subset
    <3> QED BY <1>1, <1>5, <1>n, <3>1, <3>3
  <2> QED BY <1>5, <2>2, <2>3, <2>4
<1>7. CASE HasToken(rows, size)
  <2>1. /\ Cardinality(rows) = s /\ Cardinality(before) = Covered
        /\ page' = FromZero(page) + 1 /\ phase' = "asking"
    BY <1>0, <1>1, <1>7, <1>n, <1>p DEF HasToken
  <2>2. Covered' = Covered + s
    <3>1. FromZero(page) \in Nat /\ FromZero(page') = FromZero(page) + 1
      BY <1>t, <2>1 DEF WalkTyped, FromZero
    <3>2. Covered' = (FromZero(page) + 1) * s
      BY <1>p, <3>1 DEF Covered, Offset
    <3>3. Covered = FromZero(page) * s
      BY DEF Covered, Offset
    <3> HIDE DEF s
    <3> QED BY <1>n, <3>1, <3>2, <3>3
  <2>3. NotBehind'
    <3> SUFFICES ASSUME NEW r \in atStart, seen'[r] = 0
                 PROVE  Cardinality(Newer(r)') >= Covered'
      BY <1>p DEF NotBehind
    <3>1. seen[r] = 0 /\ r \notin rows
      BY <1>2, <1>n
    <3>2. before \cup rows \subseteq Newer(r)
      BY <1>1, <3>1
    <3>3. Newer(r)' = Newer(r) /\ Newer(r) \in SUBSET Rows
      BY <1>p DEF Newer, Rows
    <3>4. IsFiniteSet(Newer(r)) /\ Cardinality(Newer(r)) \in Nat
      BY <1>t, <3>3, Finiteness
    <3>5. Cardinality(before \cup rows) <= Cardinality(Newer(r))
      BY <3>2, <3>4, FS_Subset
    <3> QED BY <1>1, <1>n, <2>1, <2>2, <3>3, <3>4, <3>5
  <2>4. NoneMissed'
    BY <2>1 DEF NoneMissed
  <2>5. ShowingsPaidFor'
    <3>1. Cardinality(Showings) <= Covered
      BY <1>p DEF WalkInv, ShowingsPaidFor
    <3> QED BY <1>5, <1>6, <1>n, <2>1, <2>2, <3>1 DEF ShowingsPaidFor
  <2> QED BY <1>3, <1>4, <2>3, <2>4, <2>5 DEF WalkInv
<1>8. CASE ~HasToken(rows, size)
  <2>1. before \cup rows = Rows /\ phase' = "done"
    BY <1>0, <1>1, <1>8 DEF HasToken
  <2>2. NoneMissed'
    <3> SUFFICES ASSUME NEW r \in atStart, ~(seen'[r] > 0) PROVE FALSE
      BY <1>p DEF NoneMissed
    <3>1. seen[r] = 0 /\ r \notin rows
      BY <1>2, <1>n
    <3> QED BY <1>1, <1>n, <2>1, <3>1
  <2>3. NotBehind' /\ ShowingsPaidFor'
    BY <1>6, <2>1 DEF NotBehind, ShowingsPaidFor
  <2> QED BY <1>3, <1>4, <2>2, <2>3 DEF WalkInv
<1> QED BY <1>7, <1>8

(* Every step keeps the invariant. *)
LEMMA NextWalk == NoTies /\ WalkInv /\ [LNext]_lvars => WalkInv'
<1> SUFFICES ASSUME NoTies, WalkInv, [LNext]_lvars PROVE WalkInv'
  OBVIOUS
<1>1. CASE RecordTransaction BY <1>1, RecordKeeps
<1>2. CASE Begin BY <1>2, BeginKeeps
<1>3. CASE ListTransactions BY <1>3, PageKeeps
<1>4. CASE PageNotParsed \/ ListFails
  <2>1. /\ phase = "asking" /\ phase' \in {"lost", "refused"}
        /\ UNCHANGED <<handled, created, page, size, atStart, seen>>
    BY <1>4 DEF PageNotParsed, ListFails
  <2>2. WalkTyped'
    BY <2>1 DEF WalkInv, WalkTyped, Rows
  <2>3. Showings' = Showings /\ Reached' = Reached
    BY <2>1 DEF Showings, Reached, Rows
  <2> QED BY <2>1, <2>2, <2>3
          DEF WalkInv, Distinct, NoneMissed, NotBehind, ShowingsPaidFor, Rows
<1>5. CASE Listed \/ UNCHANGED lvars
  <2>1. UNCHANGED lvars
    BY <1>5 DEF Listed
  <2>2. Showings' = Showings /\ Reached' = Reached /\ Covered' = Covered
    BY <2>1 DEF lvars, Showings, Reached, Covered, Rows
  <2>3. \A r : Newer(r)' = Newer(r)
    BY <2>1 DEF lvars, Newer, Rows
  <2> QED BY <2>1, <2>2, <2>3
          DEF lvars, WalkInv, WalkTyped, Distinct, NoneMissed, NotBehind,
              ShowingsPaidFor, Rows
<1> QED BY <1>1, <1>2, <1>3, <1>4, <1>5 DEF LNext

(* Nothing is recorded, shown or asked for at first. *)
LEMMA InitWalk == LInit => WalkInv
<1> SUFFICES ASSUME LInit PROVE WalkInv
  OBVIOUS
<1>1. Rows = {} /\ handled = 0 /\ phase = "idle"
  BY DEF LInit, Rows
<1>2. created \in [Rows -> Times]
  BY <1>1 DEF LInit, Rows
<1>3. WalkTyped
  BY <1>1, <1>2, ListingAssumption DEF LInit, WalkTyped
<1> QED BY <1>1, <1>3 DEF WalkInv, Distinct, NoneMissed, NotBehind, ShowingsPaidFor

(* Without ties, however many rows are recorded between the pages and wherever
   in the order, a client that followed the tokens to the end has seen every
   row there was when it began. *)
THEOREM NothingIsMissed == NoTies => (LSpec => []NoneMissed)
<1> SUFFICES ASSUME NoTies PROVE LSpec => []NoneMissed
  OBVIOUS
<1>1. LInit => WalkInv
  BY InitWalk
<1>2. WalkInv /\ [LNext]_lvars => WalkInv'
  BY NextWalk
<1>3. WalkInv => NoneMissed
  BY DEF WalkInv
<1> QED BY <1>1, <1>2, <1>3, PTL DEF LSpec

(* The repeated showings are all showings but the first of each row seen. *)
LEMMA RepeatsCounted ==
    ASSUME WalkInv, phase # "idle"
    PROVE  Cardinality({rk \in Rows \X (2..MaxRows + 1) : seen[rk[1]] >= rk[2]})
              <= Cardinality(Rows \ atStart)
<1> DEFINE repeated == {rk \in Rows \X (2..MaxRows + 1) : seen[rk[1]] >= rk[2]}
           shown == {r \in Rows : seen[r] > 0}
           firsts == shown \X {1}
           fresh == Rows \ atStart
<1>t. WalkTyped BY DEF WalkInv
<1>1. \A r \in Rows : seen[r] \in Nat
  BY <1>t, ListingAssumption DEF WalkTyped, Txns
<1>2. /\ IsFiniteSet(shown) /\ Cardinality(shown) \in Nat
      /\ IsFiniteSet(fresh) /\ Cardinality(fresh) \in Nat
      /\ Cardinality(Reached) \in Nat
  BY <1>t, Finiteness DEF Reached
<1>3. IsFiniteSet(firsts) /\ Cardinality(firsts) = Cardinality(shown)
  <2>1. IsFiniteSet({1}) /\ Cardinality({1}) = 1
    BY FS_Singleton
  <2>2. IsFiniteSet(firsts) /\ Cardinality(firsts) = Cardinality(shown) * Cardinality({1})
    BY <1>2, <2>1, FS_Product
  <2>3. ASSUME NEW n \in Nat PROVE n * 1 = n
    OBVIOUS
  <2> QED BY <1>2, <2>1, <2>2, <2>3
<1>4. Showings = repeated \cup firsts /\ repeated \cap firsts = {}
  BY <1>1, ListingAssumption DEF Showings
<1>5. IsFiniteSet(Showings) /\ repeated \in SUBSET Showings /\ Cardinality(Showings) \in Nat
  BY <1>t, <1>4, Finiteness
<1>6. IsFiniteSet(repeated) /\ Cardinality(repeated) \in Nat
  BY <1>5, FS_Subset, FS_CardinalityType
<1>7. Cardinality(Showings) = Cardinality(repeated) + Cardinality(shown)
  <2>1. Cardinality(repeated \cup firsts) = Cardinality(repeated) + Cardinality(firsts)
    BY <1>3, <1>4, <1>6, UnionCounted
  <2> QED BY <1>3, <1>4, <2>1
<1>8. Cardinality(Reached) <= Cardinality(shown) + Cardinality(fresh)
  <2>1. Reached = shown \cup fresh
    BY DEF Reached
  <2> QED BY <1>2, <2>1, UnionCounted
<1>9. Cardinality(Showings) <= Cardinality(Reached)
  BY DEF WalkInv, ShowingsPaidFor
<1> HIDE DEF repeated, shown, fresh
<1>10. Cardinality(repeated) <= Cardinality(fresh)
  BY <1>2, <1>5, <1>6, <1>7, <1>8, <1>9
<1> QED BY <1>10 DEF repeated, fresh

(* Without ties, a walk shows no more repetitions than rows were recorded
   since it began. *)
THEOREM RepeatsAreBounded == NoTies => (LSpec => []RepeatsBounded)
<1> SUFFICES ASSUME NoTies PROVE LSpec => []RepeatsBounded
  OBVIOUS
<1>1. LInit => WalkInv
  BY InitWalk
<1>2. WalkInv /\ [LNext]_lvars => WalkInv'
  BY NextWalk
<1>3. WalkInv => RepeatsBounded
  BY RepeatsCounted DEF RepeatsBounded
<1> QED BY <1>1, <1>2, <1>3, PTL DEF LSpec

-----------------------------------------------------------------------------
(* Amounts: powers, rounding and printing                                  *)

(* A set of natural numbers has a least one. *)
LEMMA LeastNatural ==
    ASSUME NEW S \in SUBSET Nat, S # {}
    PROVE  \E m \in S : \A k \in S : m <= k
<1> DEFINE R == OpToRel(<, Nat)
<1>1. \E m \in S : \A k \in S : ~(<<k, m>> \in R)
  <2>1. IsWellFoundedOn(R, Nat)
    BY NatLessThanWellFounded
  <2> HIDE DEF R
  <2> QED BY <2>1, WFMin
<1>2. \A k, m \in Nat : <<k, m>> \in R <=> k < m
  BY DEF OpToRel
<1>3. \A k, m \in Nat : ~(k < m) => m <= k
  OBVIOUS
<1> QED BY <1>1, <1>2, <1>3

(* Powers of two multiply: a subset of an interval is one of its first part
   and one of the rest. *)
LEMMA PowerAdds ==
    ASSUME NEW m \in Nat, NEW n \in Nat
    PROVE  2 ^ (m + n) = 2 ^ m * 2 ^ n
<1> DEFINE I == 1..m
           J == m + 1..m + n
           K == 1..m + n
           A == SUBSET I
           B == SUBSET J
           f == [T \in SUBSET K |-> <<T \cap I, T \cap J>>]
<1>1. I \cup J = K /\ I \cap J = {}
  OBVIOUS
<1>2. /\ IsFiniteSet(I) /\ Cardinality(I) = m
      /\ IsFiniteSet(J) /\ Cardinality(J) = n
      /\ IsFiniteSet(K) /\ Cardinality(K) = m + n
  <2>1. IsFiniteSet(I) /\ Cardinality(I) = IF 1 > m THEN 0 ELSE m - 1 + 1
    BY FS_Interval
  <2>2. IsFiniteSet(K) /\ Cardinality(K) = IF 1 > m + n THEN 0 ELSE (m + n) - 1 + 1
    BY FS_Interval
  <2>3. IsFiniteSet(J) /\ Cardinality(J) =
           IF m + 1 > m + n THEN 0 ELSE (m + n) - (m + 1) + 1
    BY FS_Interval
  <2> HIDE DEF I, J, K
  <2> QED BY <2>1, <2>2, <2>3
<1> HIDE DEF I, J, K
<1>3. /\ IsFiniteSet(A) /\ Cardinality(A) = 2 ^ m
      /\ IsFiniteSet(B) /\ Cardinality(B) = 2 ^ n
      /\ IsFiniteSet(SUBSET K) /\ Cardinality(SUBSET K) = 2 ^ (m + n)
  BY <1>2, FS_SUBSET
<1>4. f \in Bijection(SUBSET K, A \X B)
  <2>1. f \in [SUBSET K -> A \X B]
    OBVIOUS
  <2>2. \A T, U \in SUBSET K : f[T] = f[U] => T = U
    <3> SUFFICES ASSUME NEW T \in SUBSET K, NEW U \in SUBSET K,
                        T \cap I = U \cap I, T \cap J = U \cap J
                 PROVE  T = U
      OBVIOUS
    <3>1. T = (T \cap I) \cup (T \cap J) /\ U = (U \cap I) \cup (U \cap J)
      BY <1>1
    <3> QED BY <3>1
  <2>3. \A V \in A \X B : \E T \in SUBSET K : f[T] = V
    <3> TAKE V \in A \X B
    <3>1. V = <<V[1], V[2]>> /\ V[1] \in A /\ V[2] \in B
      OBVIOUS
    <3>2. V[1] \cup V[2] \in SUBSET K
      BY <1>1, <3>1
    <3>3. (V[1] \cup V[2]) \cap I = V[1] /\ (V[1] \cup V[2]) \cap J = V[2]
      BY <1>1, <3>1
    <3>4. f[V[1] \cup V[2]] = <<V[1], V[2]>>
      BY <3>2, <3>3
    <3> QED BY <3>1, <3>2, <3>4
  <2> HIDE DEF A, B, f
  <2> QED BY <2>1, <2>2, <2>3 DEF Bijection, Injection, Surjection, IsInjective
<1>5. Cardinality(A \X B) = Cardinality(SUBSET K)
  <2>1. ExistsBijection(SUBSET K, A \X B)
    BY <1>4 DEF ExistsBijection
  <2> HIDE DEF A, B
  <2> QED BY <1>3, <2>1, FS_Bijection
<1>6. Cardinality(A \X B) = Cardinality(A) * Cardinality(B)
  <2> HIDE DEF A, B
  <2> QED BY <1>3, FS_Product
<1> QED BY <1>3, <1>5, <1>6

(* The next power is the double. *)
LEMMA PowerDoubles ==
    ASSUME NEW n \in Nat
    PROVE  2 ^ (n + 1) = 2 * 2 ^ n
<1>1. 2 ^ (n + 1) = 2 ^ n * 2 ^ 1
  BY PowerAdds
<1>2. 2 ^ 1 = 2
  OBVIOUS
<1>3. 2 ^ n \in Nat
  BY PowerPositive
<1> QED BY <1>1, <1>2, <1>3

(* Powers of two grow. *)
LEMMA PowerGrows ==
    ASSUME NEW m \in Nat, NEW n \in Nat, m < n
    PROVE  2 ^ n >= 2 * 2 ^ m
<1>1. n = (m + 1) + (n - (m + 1)) /\ n - (m + 1) \in Nat
  OBVIOUS
<1>2. 2 ^ n = 2 ^ (m + 1) * 2 ^ (n - (m + 1))
  BY <1>1, PowerAdds
<1>3. 2 ^ (m + 1) = 2 * 2 ^ m
  BY PowerDoubles
<1>4. 2 ^ m \in Nat \ {0} /\ 2 ^ (n - (m + 1)) \in Nat \ {0}
  BY <1>1, PowerPositive
<1>5. \A a, b \in Nat \ {0} : (2 * a) * b >= 2 * a
  OBVIOUS
<1> QED BY <1>2, <1>3, <1>4, <1>5

(* A multiple leaves nothing. *)
LEMMA MultipleDivides ==
    ASSUME NEW q \in Nat, NEW u \in Nat \ {0}
    PROVE  (q * u) % u = 0
<1> DEFINE n == q * u
           d == n \div u
           r == n % u
<1>1. n \in Nat /\ n = u * d + r /\ r \in 0..u - 1 /\ d \in Nat
  OBVIOUS
<1>2. q * u = u * d + r
  BY <1>1
<1> HIDE DEF d, r, n
<1>3. (q - d) * u = r
  BY <1>1, <1>2
<1>4. q - d = 0
  <2>1. q - d >= 1 => (q - d) * u >= u
    BY <1>1
  <2>2. q - d <= -1 => (q - d) * u <= -u
    BY <1>1
  <2> QED BY <1>1, <1>3, <2>1, <2>2
<1>5. r = 0
  BY <1>3, <1>4
<1> QED BY <1>5 DEF r, n

(* Rounding to a multiple of a unit: to one of the two around the number, and
   no further off than half of the unit. *)
LEMMA Rounding ==
    ASSUME NEW n \in Nat, NEW u \in Nat \ {0}
    PROVE  LET low == n \div u
               rest == n % u
               up == 2 * rest > u \/ (2 * rest = u /\ low % 2 = 1)
               res == (IF up THEN low + 1 ELSE low) * u
           IN  /\ low \in Nat /\ low * u <= n /\ n < (low + 1) * u
               /\ res \in {low * u, (low + 1) * u}
               /\ 2 * res <= 2 * n + u /\ 2 * n <= 2 * res + u
               /\ n % u = 0 => res = n
<1> DEFINE low == n \div u
           rest == n % u
           up == 2 * rest > u \/ (2 * rest = u /\ low % 2 = 1)
           res == (IF up THEN low + 1 ELSE low) * u
<1>1. n = u * low + rest /\ rest \in 0..u - 1 /\ low \in Nat
  OBVIOUS
<1>2. low * u \in Nat /\ (low + 1) * u = low * u + u /\ n = low * u + rest
  BY <1>1
<1>3. (up /\ res = low * u + u) \/ (~up /\ res = low * u)
  BY <1>2
<1>4. up => 2 * rest >= u
  BY <1>1
<1>5. ~up => 2 * rest <= u
  BY <1>1
<1>6. up => rest # 0
  BY <1>1
<1> HIDE DEF low, rest, up, res
<1>7. /\ low \in Nat /\ low * u <= n /\ n < (low + 1) * u
      /\ res \in {low * u, (low + 1) * u}
      /\ 2 * res <= 2 * n + u /\ 2 * n <= 2 * res + u
      /\ rest = 0 => res = n
  BY <1>1, <1>2, <1>3, <1>4, <1>5, <1>6
<1> QED BY <1>7 DEF low, rest, up, res

(* The widths, and that the numbers met are below the greatest float64. *)
LEMMA Widths ==
    /\ MantissaBits \in Nat /\ AmountBits \in Nat
    /\ MantissaBits >= 1 /\ AmountBits >= 3
    /\ MantissaBits + AmountBits \in Nat
BY ConversionsAssumption

(* 2^k is the unit of a float64 of the size of n. *)
HasScale(n, k) ==
    /\ k \in 0..AmountBits
    /\ n < 2 ^ (MantissaBits + k)
    /\ k = 0 \/ n >= 2 ^ (MantissaBits + k - 1)

(* Below the greatest scale every number has one, and Ulp finds it. *)
LEMMA UlpScale ==
    ASSUME NEW n \in Nat, n < 2 ^ (MantissaBits + AmountBits)
    PROVE  \E k \in 0..AmountBits : HasScale(n, k) /\ Ulp(n) = 2 ^ k
<1> DEFINE S == {k \in Nat : n < 2 ^ (MantissaBits + k)}
<1>1. AmountBits \in S
  BY Widths
<1>2. PICK m \in S : \A k \in S : m <= k
  BY <1>1, LeastNatural
<1>3. m \in Nat /\ m <= AmountBits /\ n < 2 ^ (MantissaBits + m)
  BY <1>1, <1>2
<1>4. m = 0 \/ n >= 2 ^ (MantissaBits + m - 1)
  <2> SUFFICES ASSUME m # 0, ~(n >= 2 ^ (MantissaBits + m - 1))
               PROVE  FALSE
    OBVIOUS
  <2>1. m - 1 \in Nat /\ MantissaBits + (m - 1) = MantissaBits + m - 1
    BY <1>3, Widths
  <2>2. 2 ^ (MantissaBits + (m - 1)) \in Nat
    BY <2>1, Widths, PowerPositive
  <2>3. n < 2 ^ (MantissaBits + (m - 1))
    BY <2>1, <2>2
  <2>4. m - 1 \in S
    BY <2>1, <2>3
  <2> HIDE DEF S
  <2>5. m <= m - 1
    BY <1>2, <2>4
  <2> QED BY <1>3, <2>5
<1>5. m \in 0..AmountBits
  BY <1>3, Widths
<1> DEFINE Is(k) == /\ n < 2 ^ (MantissaBits + k)
                    /\ k = 0 \/ n >= 2 ^ (MantissaBits + k - 1)
           scale == CHOOSE k \in 0..AmountBits : Is(k)
<1>6. scale \in 0..AmountBits /\ Is(scale)
  <2>1. \E k \in 0..AmountBits : Is(k)
    BY <1>3, <1>4, <1>5
  <2> HIDE DEF Is
  <2> QED BY <2>1
<1>7. Ulp(n) = 2 ^ scale
  BY DEF Ulp
<1> HIDE DEF scale
<1> QED BY <1>6, <1>7 DEF HasScale

(* The bounds of a scale in units. *)
LEMMA ScaleBounds ==
    ASSUME NEW k \in Nat
    PROVE  /\ 2 ^ k \in Nat \ {0} /\ 2 ^ MantissaBits \in Nat \ {0}
           /\ 2 ^ (MantissaBits - 1) \in Nat \ {0}
           /\ 2 ^ (MantissaBits + k) = 2 ^ MantissaBits * 2 ^ k
           /\ 2 ^ (MantissaBits + k - 1) = 2 ^ (MantissaBits - 1) * 2 ^ k
           /\ 2 ^ (MantissaBits + k) \in Nat \ {0}
           /\ 2 ^ (MantissaBits + k - 1) \in Nat \ {0}
<1>1. MantissaBits - 1 \in Nat /\ MantissaBits + k - 1 = (MantissaBits - 1) + k
  BY Widths
<1>2. /\ 2 ^ k \in Nat \ {0} /\ 2 ^ MantissaBits \in Nat \ {0}
      /\ 2 ^ (MantissaBits - 1) \in Nat \ {0}
      /\ 2 ^ (MantissaBits + k) \in Nat \ {0}
      /\ 2 ^ (MantissaBits + k - 1) \in Nat \ {0}
  <2>1. MantissaBits + k \in Nat /\ MantissaBits + k - 1 \in Nat
    BY <1>1, Widths
  <2> QED BY <1>1, <2>1, Widths, PowerPositive
<1>3. 2 ^ (MantissaBits + k) = 2 ^ MantissaBits * 2 ^ k
  BY Widths, PowerAdds
<1>4. 2 ^ ((MantissaBits - 1) + k) = 2 ^ (MantissaBits - 1) * 2 ^ k
  BY <1>1, PowerAdds
<1> QED BY <1>1, <1>2, <1>3, <1>4

(* Of two numbers, one below the bound of a scale and one not below that of
   another, the scales are ordered. *)
LEMMA ScalesOrdered ==
    ASSUME NEW x \in Nat, NEW j \in Nat, NEW k \in Nat,
           x < 2 ^ (MantissaBits + k), j = 0 \/ x >= 2 ^ (MantissaBits + j - 1)
    PROVE  j <= k
<1> SUFFICES ASSUME j > k PROVE FALSE
  OBVIOUS
<1>1. MantissaBits + j - 1 \in Nat /\ MantissaBits + k \in Nat
      /\ MantissaBits + k <= MantissaBits + j - 1
  BY Widths
<1>2. 2 ^ (MantissaBits + k) <= 2 ^ (MantissaBits + j - 1)
  <2>1. CASE MantissaBits + k = MantissaBits + j - 1
    BY <2>1, <1>1, PowerPositive
  <2>2. CASE MantissaBits + k < MantissaBits + j - 1
    <3>1. 2 ^ (MantissaBits + j - 1) >= 2 * 2 ^ (MantissaBits + k)
      BY <1>1, <2>2, PowerGrows
    <3> QED BY <1>1, <3>1, PowerPositive
  <2> QED BY <1>1, <2>1, <2>2
<1>3. 2 ^ (MantissaBits + k) \in Nat /\ 2 ^ (MantissaBits + j - 1) \in Nat
  BY <1>1, PowerPositive
<1> QED BY <1>2, <1>3

(* What rounding to a float64 of a scale does. *)
LEMMA ToFloatRounds ==
    ASSUME NEW n \in Nat, NEW k \in 0..AmountBits, HasScale(n, k), Ulp(n) = 2 ^ k
    PROVE  /\ ToFloat(n) \in Nat
           /\ 2 * ToFloat(n) <= 2 * n + 2 ^ k /\ 2 * n <= 2 * ToFloat(n) + 2 ^ k
           /\ ToFloat(n) <= 2 ^ (MantissaBits + k)
           /\ k = 0 \/ ToFloat(n) >= 2 ^ (MantissaBits + k - 1)
           /\ \E q \in Nat : ToFloat(n) = q * 2 ^ k
           /\ n % 2 ^ k = 0 => ToFloat(n) = n
<1> DEFINE u == 2 ^ k
           top == 2 ^ MantissaBits
           half == 2 ^ (MantissaBits - 1)
           low == n \div u
           f == ToFloat(n)
<1>0. k \in Nat
  BY Widths
<1>1. /\ u \in Nat \ {0} /\ top \in Nat \ {0} /\ half \in Nat \ {0}
      /\ 2 ^ (MantissaBits + k) = top * u
      /\ 2 ^ (MantissaBits + k - 1) = half * u
  BY <1>0, ScaleBounds
<1>2. n < top * u /\ (k = 0 \/ n >= half * u)
  BY <1>1 DEF HasScale
<1>3. f = LET rest == n % u
              up == 2 * rest > u \/ (2 * rest = u /\ low % 2 = 1)
          IN  (IF up THEN low + 1 ELSE low) * u
  BY DEF ToFloat
<1> HIDE DEF u, top, half, f
<1>4. /\ low \in Nat /\ low * u <= n /\ n < (low + 1) * u
      /\ f \in {low * u, (low + 1) * u}
      /\ 2 * f <= 2 * n + u /\ 2 * n <= 2 * f + u
      /\ n % u = 0 => f = n
  BY <1>1, <1>3, Rounding
<1> HIDE DEF low
<1>5. low < top
  <2>1. low >= top => low * u >= top * u
    BY <1>1, <1>4
  <2> QED BY <1>1, <1>2, <1>4, <2>1
<1>6. f <= top * u
  <2>1. (low + 1) * u <= top * u /\ low * u <= (low + 1) * u
    BY <1>1, <1>4, <1>5
  <2> QED BY <1>1, <1>4, <2>1
<1>7. k = 0 \/ f >= half * u
  <2> SUFFICES ASSUME n >= half * u PROVE f >= half * u
    BY <1>2
  <2>1. low + 1 > half
    <3>1. low + 1 <= half => (low + 1) * u <= half * u
      BY <1>1, <1>4
    <3>2. (low + 1) * u \in Nat /\ half * u \in Nat
      BY <1>1, <1>4
    <3> QED BY <1>1, <1>4, <3>1, <3>2
  <2>2. low * u >= half * u /\ (low + 1) * u >= half * u
    BY <1>1, <1>4, <2>1
  <2> QED BY <1>4, <2>2
<1>8. f \in Nat /\ \E q \in Nat : f = q * u
  <2>1. low * u \in Nat /\ (low + 1) * u \in Nat /\ low + 1 \in Nat
    BY <1>1, <1>4
  <2>2. CASE f = low * u
    BY <1>4, <2>1, <2>2
  <2>3. CASE f = (low + 1) * u
    BY <2>1, <2>3
  <2> QED BY <1>4, <2>2, <2>3
<1> QED BY <1>1, <1>4, <1>6, <1>7, <1>8 DEF u, f

(* A float64 rounds to itself. *)
LEMMA FloatsStay ==
    ASSUME NEW n \in Nat, n < 2 ^ (MantissaBits + AmountBits),
           ToFloat(n) < 2 ^ (MantissaBits + AmountBits)
    PROVE  ToFloat(ToFloat(n)) = ToFloat(n)
<1> DEFINE f == ToFloat(n)
<1>1. PICK k \in 0..AmountBits : HasScale(n, k) /\ Ulp(n) = 2 ^ k
  BY UlpScale
<1>2. /\ f \in Nat /\ f <= 2 ^ (MantissaBits + k)
      /\ k = 0 \/ f >= 2 ^ (MantissaBits + k - 1)
      /\ \E q \in Nat : f = q * 2 ^ k
  BY <1>1, ToFloatRounds
<1> HIDE DEF f
<1>3. PICK j \in 0..AmountBits : HasScale(f, j) /\ Ulp(f) = 2 ^ j
  BY <1>2, UlpScale DEF f
<1>4. k \in Nat /\ j \in Nat
  BY <1>1, <1>3, Widths
<1>5. k <= j
  BY <1>2, <1>3, <1>4, ScalesOrdered DEF HasScale
<1>6. f % 2 ^ j = 0
  <2>1. CASE j = k
    <3>1. PICK q \in Nat : f = q * 2 ^ k
      BY <1>2
    <3> QED BY <2>1, <1>4, <3>1, MultipleDivides, PowerPositive
  <2>2. CASE j # k
    <3>1. j >= k + 1 /\ j # 0
      BY <1>4, <1>5, <2>2
    <3>2. f >= 2 ^ (MantissaBits + j - 1)
      BY <1>3, <3>1 DEF HasScale
    <3>3. j = k + 1
      <4> SUFFICES ASSUME j > k + 1 PROVE FALSE
        BY <1>4, <3>1
      <4>1. MantissaBits + j - 1 \in Nat /\ MantissaBits + k \in Nat
            /\ MantissaBits + k < MantissaBits + j - 1
        BY <1>4, Widths
      <4>2. 2 ^ (MantissaBits + j - 1) >= 2 * 2 ^ (MantissaBits + k)
        BY <4>1, PowerGrows
      <4>3. 2 ^ (MantissaBits + j - 1) \in Nat \ {0} /\ 2 ^ (MantissaBits + k) \in Nat \ {0}
        BY <4>1, PowerPositive
      <4> QED BY <1>2, <3>2, <4>2, <4>3
    <3>4. f = 2 ^ (MantissaBits + j - 1)
      <4>1. MantissaBits + j - 1 = MantissaBits + k /\ MantissaBits + k \in Nat
        BY <1>4, <3>3, Widths
      <4>2. 2 ^ (MantissaBits + k) \in Nat
        BY <4>1, PowerPositive
      <4> QED BY <1>2, <3>2, <4>1, <4>2
    <3>5. f = 2 ^ (MantissaBits - 1) * 2 ^ j
      BY <1>4, <3>4, ScaleBounds
    <3> QED BY <1>4, <3>5, ScaleBounds, MultipleDivides
  <2> QED BY <2>1, <2>2
<1>7. ToFloat(f) = f
  BY <1>2, <1>3, <1>6, ToFloatRounds
<1> QED BY <1>7 DEF f

(* There are powers of ten up to every exponent. *)
LEMMA TensExist ==
    ASSUME NEW N \in Nat
    PROVE  \E f : f = [k \in 0..N |-> IF k = 0 THEN 1 ELSE 10 * f[k - 1]]
<1> DEFINE Tens(m, f) == f = [k \in 0..m |-> IF k = 0 THEN 1 ELSE 10 * f[k - 1]]
           Bad == {m \in Nat : ~\E f : Tens(m, f)}
<1> SUFFICES ASSUME Bad # {} PROVE FALSE
  OBVIOUS
<1>1. PICK m \in Bad : \A k \in Bad : m <= k
  BY LeastNatural
<1>2. m # 0
  <2>1. Tens(0, [k \in 0..0 |-> 1])
    OBVIOUS
  <2> QED BY <2>1
<1>3. m \in Nat /\ m - 1 \in Nat /\ m - 1 \notin Bad
  <2>1. m \in Nat
    BY <1>1
  <2> HIDE DEF Bad
  <2> QED BY <1>1, <1>2, <2>1
<1>4. PICK f : Tens(m - 1, f)
  BY <1>3
<1> DEFINE g == [k \in 0..m |-> IF k = 0 THEN 1 ELSE 10 * f[k - 1]]
<1>5. \A k \in 0..m - 1 : g[k] = f[k]
  BY <1>3, <1>4
<1>6. \A k \in 0..m : k # 0 => k - 1 \in 0..m - 1
  BY <1>3
<1>7. \A k \in 0..m : g[k] = IF k = 0 THEN 1 ELSE 10 * g[k - 1]
  BY <1>5, <1>6
<1>8. Tens(m, g)
  BY <1>7
<1> QED BY <1>1, <1>8

(* A power of ten is even but for the first, and no less than the power of two. *)
LEMMA TensGrow ==
    \A k \in 0..AmountBits + 1 :
        /\ PowerOfTen[k] \in Nat /\ PowerOfTen[k] >= 2 ^ k
        /\ k = 0 => PowerOfTen[k] = 1
        /\ k > 0 => \E h \in Nat : PowerOfTen[k] = 2 * h
<1> DEFINE N == AmountBits + 1
           P == PowerOfTen
           Good(k) == P[k] \in Nat /\ P[k] >= 2 ^ k
           Bad == {k \in 0..N : ~Good(k)}
<1>0. N \in Nat
  BY Widths
<1>1. P = [k \in 0..N |-> IF k = 0 THEN 1 ELSE 10 * P[k - 1]]
  <2>1. \E f : f = [k \in 0..N |-> IF k = 0 THEN 1 ELSE 10 * f[k - 1]]
    BY <1>0, TensExist
  <2> QED BY <2>1 DEF PowerOfTen
<1> HIDE DEF P, N
<1>2. P[0] = 1 /\ \A k \in 1..N : P[k] = 10 * P[k - 1]
  BY <1>0, <1>1
<1>3. Bad = {}
  <2> SUFFICES ASSUME Bad # {} PROVE FALSE
    OBVIOUS
  <2>1. Bad \in SUBSET Nat
    BY <1>0
  <2>2. PICK m \in Bad : \A k \in Bad : m <= k
    BY <2>1, LeastNatural
  <2>3. 2 ^ 0 = 1
    OBVIOUS
  <2>a. Good(0)
    BY <1>2, <2>3
  <2>4. m # 0
    BY <2>2, <2>a
  <2>5. m \in 1..N /\ m - 1 \in 0..N /\ m - 1 \notin Bad
    <3>1. m \in 0..N
      BY <2>2
    <3> HIDE DEF Bad
    <3> QED BY <1>0, <2>2, <2>4, <3>1
  <2>6. Good(m - 1)
    BY <2>5
  <2>7. 2 ^ m = 2 * 2 ^ (m - 1)
    <3>1. m - 1 \in Nat /\ m = (m - 1) + 1
      BY <1>0, <2>5
    <3> QED BY <3>1, PowerDoubles
  <2>8. 2 ^ (m - 1) \in Nat
    BY <1>0, <2>5, PowerPositive
  <2>9. Good(m)
    BY <1>2, <2>5, <2>6, <2>7, <2>8
  <2> QED BY <2>2, <2>9
<1>4. \A k \in 0..N : k > 0 => \E h \in Nat : P[k] = 2 * h
  <2> TAKE k \in 0..N
  <2> HAVE k > 0
  <2>1. k \in 1..N /\ k - 1 \in 0..N
    BY <1>0
  <2>2. P[k] = 10 * P[k - 1] /\ P[k - 1] \in Nat
    BY <1>2, <1>3, <2>1
  <2>3. 5 * P[k - 1] \in Nat /\ P[k] = 2 * (5 * P[k - 1])
    BY <2>2
  <2> QED BY <2>3
<1> QED BY <1>2, <1>3, <1>4 DEF P, N

(* The printed decimal reads back as the float64 it was printed from, and is
   that number itself if it ends in as many zeros. *)
LEMMA PrintedReads ==
    ASSUME NEW f \in Nat, f # 0, f < 2 ^ AmountBits, ToFloat(f) = f
    PROVE  /\ Printed(f) \in Nat /\ Printed(f) # 0
           /\ Printed(f) < 2 ^ (MantissaBits + AmountBits)
           /\ ToFloat(Printed(f)) = f
           /\ \E p \in Nat : /\ p = 1 \/ \E h \in Nat : p = 2 * h
                             /\ p # 0 /\ Printed(f) % p = 0
                             /\ f % p = 0 => Printed(f) = f
<1> DEFINE A == AmountBits
           P == PowerOfTen
           u == Ulp(f)
           around == {n \in f - u .. f + u : n >= 0 /\ ToFloat(n) = f}
           Zeros(k) == /\ \E n \in around : n % P[k] = 0
                       /\ \A n \in around : n % P[k + 1] = 0 => n = 0
           zeros == CHOOSE k \in 0..A : Zeros(k)
           short == {n \in around : n % P[zeros] = 0}
           Nearest(n) == \A m \in short : Distance(n, f) <= Distance(m, f)
<1>1. /\ A \in Nat /\ 2 ^ A \in Nat /\ 2 ^ (A + 1) = 2 * 2 ^ A
      /\ 2 ^ (A + 1) <= 2 ^ (MantissaBits + A)
      /\ 2 ^ (MantissaBits + A) \in Nat
  <2>1. A \in Nat /\ A + 1 \in Nat /\ MantissaBits + A \in Nat
    BY Widths
  <2>2. 2 ^ A \in Nat /\ 2 ^ (A + 1) \in Nat /\ 2 ^ (MantissaBits + A) \in Nat
    BY <2>1, PowerPositive
  <2>3. 2 ^ (A + 1) = 2 * 2 ^ A
    BY <2>1, PowerDoubles
  <2>4. CASE MantissaBits = 1
    <3>1. MantissaBits + A = A + 1
      BY <2>1, <2>4
    <3> QED BY <2>1, <2>2, <2>3, <3>1
  <2>5. CASE MantissaBits # 1
    <3>1. A + 1 < MantissaBits + A
      BY <2>1, <2>5, Widths
    <3>2. 2 ^ (MantissaBits + A) >= 2 * 2 ^ (A + 1)
      BY <2>1, <3>1, PowerGrows
    <3> QED BY <2>1, <2>2, <2>3, <3>2
  <2> QED BY <2>4, <2>5
<1>2. u \in Nat /\ u <= 2 ^ A
  <2>1. f < 2 ^ (MantissaBits + A)
    BY <1>1
  <2>2. PICK j \in 0..A : u = 2 ^ j
    BY <2>1, UlpScale
  <2>3. j \in Nat /\ j <= A /\ 2 ^ j \in Nat
    BY <1>1, <2>2, PowerPositive
  <2>4. j < A => 2 ^ A >= 2 * 2 ^ j
    BY <1>1, <2>3, PowerGrows
  <2>5. j = A => 2 ^ j = 2 ^ A
    OBVIOUS
  <2> HIDE DEF A, u
  <2> QED BY <1>1, <2>2, <2>3, <2>4, <2>5
<1>3. f \in around
  BY <1>2
<1>4. \A n \in around : n \in Nat /\ n < 2 ^ (A + 1) /\ ToFloat(n) = f
  <2> HIDE DEF u
  <2> QED BY <1>1, <1>2
<1>5. 0 \notin around
  <2>1. 0 < 2 ^ (MantissaBits + A)
    BY <1>1, Widths, PowerPositive
  <2>2. PICK k \in 0..A : HasScale(0, k) /\ Ulp(0) = 2 ^ k
    BY <2>1, UlpScale
  <2>3. 2 ^ k \in Nat \ {0}
    BY <1>1, PowerPositive
  <2>4. 0 % 2 ^ k = 0
    BY <2>3
  <2>5. ToFloat(0) = 0
    BY <2>2, <2>4, ToFloatRounds
  <2> QED BY <2>5
<1>6. \A k \in 0..A + 1 :
         /\ P[k] \in Nat /\ P[k] >= 2 ^ k /\ 2 ^ k \in Nat \ {0}
         /\ k = 0 => P[k] = 1
         /\ k > 0 => \E h \in Nat : P[k] = 2 * h
  BY <1>1, TensGrow, PowerPositive
<1> HIDE DEF A, P, around
<1>7. zeros \in 0..A /\ Zeros(zeros)
  <2> DEFINE S == {k \in 0..A : \E n \in around : n % P[k] = 0}
             T == {j \in Nat : j <= A /\ A - j \in S}
  <2>1. 0 \in S
    <3>1. f % P[0] = 0
      BY <1>1, <1>6
    <3> QED BY <1>1, <1>3, <3>1
  <2>2. A \in T
    BY <1>1, <2>1
  <2>3. PICK j \in T : \A i \in T : j <= i
    BY <2>2, LeastNatural
  <2> DEFINE z == A - j
  <2>4. j \in Nat /\ z \in S /\ z \in 0..A
    BY <1>1, <2>3
  <2>5. ASSUME NEW n \in around, n % P[z + 1] = 0
        PROVE  n = 0
    <3>1. CASE z = A
      <4>1. P[A + 1] \in Nat /\ P[A + 1] >= 2 ^ (A + 1) /\ 2 ^ (A + 1) \in Nat
        BY <1>1, <1>6
      <4>2. n \in Nat /\ n < P[A + 1]
        BY <1>4, <4>1
      <4>3. n % P[A + 1] = n
        BY <4>1, <4>2
      <4> QED BY <2>5, <3>1, <4>3
    <3>2. CASE z # A
      <4>1. z + 1 \in 0..A /\ j - 1 \in Nat /\ j - 1 <= A /\ A - (j - 1) = z + 1
        BY <1>1, <2>4, <3>2
      <4>2. z + 1 \in S
        BY <2>5, <4>1
      <4>3. j - 1 \in T
        BY <4>1, <4>2
      <4> HIDE DEF T
      <4>4. j <= j - 1
        BY <2>3, <4>3
      <4> QED BY <2>4, <4>4
    <3> QED BY <3>1, <3>2
  <2>6. Zeros(z)
    BY <2>4, <2>5
  <2>7. \E k \in 0..A : Zeros(k)
    BY <2>4, <2>6
  <2> HIDE DEF Zeros
  <2> QED BY <2>7
<1>8. zeros + 1 \in 0..A + 1 /\ zeros \in 0..A + 1
  BY <1>1, <1>7
<1> HIDE DEF zeros
<1>9. \E n \in short : Nearest(n)
  <2> DEFINE D == {Distance(n, f) : n \in short}
  <2>1. D \in SUBSET Nat /\ D # {}
    <3>1. \A n \in short : n \in Nat
      BY <1>4
    <3>2. \A n \in Nat : Distance(n, f) \in Nat
      BY DEF Distance
    <3>3. short # {}
      BY <1>7
    <3> HIDE DEF short
    <3> QED BY <3>1, <3>2, <3>3
  <2>2. PICK d \in D : \A e \in D : d <= e
    BY <2>1, LeastNatural
  <2> QED BY <2>2
<1>10. Printed(f) = CHOOSE n \in short : Nearest(n)
  BY DEF Printed, zeros, around, A, P
<1> DEFINE r == Printed(f)
<1>11. r \in short /\ Nearest(r)
  <2> HIDE DEF Nearest, short
  <2> QED BY <1>9, <1>10
<1> HIDE DEF r
<1>12. r \in Nat /\ r # 0 /\ ToFloat(r) = f /\ r < 2 ^ (MantissaBits + AmountBits)
  <2>1. r \in Nat /\ r # 0 /\ ToFloat(r) = f /\ r < 2 ^ (A + 1)
    BY <1>4, <1>5, <1>11
  <2> QED BY <1>1, <2>1 DEF A
<1>13. r % P[zeros] = 0
  BY <1>11
<1>14. ASSUME f % P[zeros] = 0 PROVE r = f
  <2>1. f \in short
    BY <1>3, <1>14
  <2>2. Distance(r, f) <= Distance(f, f)
    BY <1>11, <2>1
  <2> QED BY <1>12, <2>2 DEF Distance
<1>15. P[zeros] \in Nat /\ P[zeros] # 0 /\ (P[zeros] = 1 \/ \E h \in Nat : P[zeros] = 2 * h)
  <2>1. P[zeros] \in Nat /\ P[zeros] >= 2 ^ zeros /\ 2 ^ zeros \in Nat \ {0}
    BY <1>6, <1>8
  <2>2. zeros = 0 \/ zeros > 0
    BY <1>1, <1>7
  <2> QED BY <1>6, <1>8, <2>1, <2>2
<1> QED BY <1>12, <1>13, <1>14, <1>15 DEF r

(* What comes out for the size of an amount: itself while a float64 holds it,
   and otherwise something no further off than the unit. *)
LEMMA SizesSurvive ==
    ASSUME NEW n \in Nat, n # 0, n <= 2 ^ (AmountBits - 1)
    PROVE  LET r == Printed(ToFloat(n))
           IN  /\ r \in Nat /\ r # 0
               /\ n <= 2 ^ MantissaBits => r = n
               /\ Distance(n, r) <= Ulp(ToFloat(n))
<1> DEFINE B == 2 ^ (AmountBits - 1)
           top == 2 ^ (MantissaBits + AmountBits)
           f == ToFloat(n)
           r == Printed(f)
<1>1. /\ AmountBits - 1 \in Nat /\ B \in Nat \ {0} /\ 2 ^ AmountBits = 2 * B
      /\ top \in Nat /\ 2 * B <= top
  <2>1. AmountBits - 1 \in Nat /\ (AmountBits - 1) + 1 = AmountBits
        /\ AmountBits < MantissaBits + AmountBits
    BY Widths
  <2>2. B \in Nat \ {0} /\ top \in Nat
    BY <2>1, Widths, PowerPositive
  <2>3. 2 ^ AmountBits = 2 * B
    BY <2>1, PowerDoubles
  <2>4. top >= 2 * 2 ^ AmountBits
    BY <2>1, Widths, PowerGrows
  <2> HIDE DEF B, top
  <2> QED BY <2>1, <2>2, <2>3, <2>4
<1>2. n < top
  <2> HIDE DEF B, top
  <2>1. n <= B
    BY DEF B
  <2> QED BY <1>1, <2>1
<1>3. PICK k \in 0..AmountBits : HasScale(n, k) /\ Ulp(n) = 2 ^ k
  BY <1>2, UlpScale
<1>4. /\ f \in Nat
      /\ 2 * f <= 2 * n + 2 ^ k /\ 2 * n <= 2 * f + 2 ^ k
      /\ k = 0 \/ f >= 2 ^ (MantissaBits + k - 1)
      /\ n % 2 ^ k = 0 => f = n
  BY <1>3, ToFloatRounds
<1>5. /\ k \in Nat /\ 2 ^ k \in Nat \ {0} /\ 2 ^ 0 = 1
      /\ 2 ^ (MantissaBits + k - 1) \in Nat \ {0}
      /\ 2 ^ (MantissaBits + k - 1) >= 2 ^ k
  <2>1. k \in Nat
    BY <1>3, Widths
  <2>2. /\ 2 ^ k \in Nat \ {0} /\ 2 ^ (MantissaBits - 1) \in Nat \ {0}
        /\ 2 ^ (MantissaBits + k - 1) = 2 ^ (MantissaBits - 1) * 2 ^ k
        /\ 2 ^ (MantissaBits + k - 1) \in Nat \ {0}
    BY <2>1, ScaleBounds
  <2>3. \A x, y \in Nat \ {0} : x * y >= y
    OBVIOUS
  <2> QED BY <2>1, <2>2, <2>3
<1>6. k = 0 => f = n
  <2>1. n % 1 = 0
    OBVIOUS
  <2> QED BY <1>4, <1>5, <2>1
<1> HIDE DEF f, r
<1>7. f # 0 /\ f < 2 ^ AmountBits
  <2>1. CASE k = 0
    <3>1. f = n /\ n <= B
      BY <1>6, <2>1
    <3> HIDE DEF B
    <3> QED BY <1>1, <3>1
  <2>2. CASE k # 0
    <3>1. n >= 2 ^ k /\ f >= 2 ^ k /\ n <= B
      <4>1. n >= 2 ^ (MantissaBits + k - 1) /\ f >= 2 ^ (MantissaBits + k - 1)
        BY <1>3, <1>4, <2>2 DEF HasScale
      <4> QED BY <1>4, <1>5, <4>1
    <3> HIDE DEF B
    <3> QED BY <1>1, <1>4, <1>5, <3>1
  <2> QED BY <2>1, <2>2
<1>8. f < top
  <2> HIDE DEF B, top
  <2> QED BY <1>1, <1>4, <1>7
<1>9. ToFloat(f) = f
  BY <1>2, <1>8, FloatsStay DEF f
<1>10. /\ r \in Nat /\ r # 0 /\ r < top /\ ToFloat(r) = f
       /\ \E p \in Nat : /\ p = 1 \/ \E h \in Nat : p = 2 * h
                         /\ p # 0 /\ r % p = 0
                         /\ f % p = 0 => r = f
  BY <1>4, <1>7, <1>9, PrintedReads DEF r
<1>11. PICK i \in 0..AmountBits : HasScale(r, i) /\ Ulp(r) = 2 ^ i
  BY <1>10, UlpScale
<1>12. /\ 2 * f <= 2 * r + 2 ^ i /\ 2 * r <= 2 * f + 2 ^ i
       /\ i = 0 \/ f >= 2 ^ (MantissaBits + i - 1)
       /\ r % 2 ^ i = 0 => f = r
  BY <1>10, <1>11, ToFloatRounds
<1>13. PICK j \in 0..AmountBits : HasScale(f, j) /\ Ulp(f) = 2 ^ j
  BY <1>4, <1>8, UlpScale
<1>14. i \in Nat /\ j \in Nat
  BY <1>11, <1>13, Widths
<1>15. Distance(n, r) <= Ulp(f)
  <2>1. k <= j /\ i <= j
    BY <1>4, <1>5, <1>12, <1>13, <1>14, ScalesOrdered DEF HasScale
  <2>2. 2 ^ k <= 2 ^ j /\ 2 ^ i <= 2 ^ j /\ 2 ^ i \in Nat /\ 2 ^ j \in Nat
    <3>1. ASSUME NEW m \in Nat, m <= j PROVE 2 ^ m <= 2 ^ j
      <4>1. m < j => 2 ^ j >= 2 * 2 ^ m
        BY <1>14, PowerGrows
      <4>2. 2 ^ m \in Nat /\ 2 ^ j \in Nat
        BY <1>14, PowerPositive
      <4>3. m = j => 2 ^ m = 2 ^ j
        OBVIOUS
      <4> QED BY <1>14, <3>1, <4>1, <4>2, <4>3
    <3> QED BY <1>5, <1>14, <2>1, <3>1, PowerPositive
  <2> QED BY <1>4, <1>5, <1>10, <1>12, <1>13, <2>2 DEF Distance
<1>16. ASSUME n <= 2 ^ MantissaBits PROVE r = n
  <2>1. /\ 2 ^ MantissaBits \in Nat /\ 2 ^ (MantissaBits + 0) = 2 ^ MantissaBits
        /\ 2 ^ (MantissaBits + 1 - 1) = 2 ^ MantissaBits
        /\ 2 ^ (MantissaBits + 1) = 2 * 2 ^ MantissaBits
        /\ 2 ^ (MantissaBits - 1) \in Nat
        /\ 2 ^ MantissaBits = 2 * 2 ^ (MantissaBits - 1)
        /\ 2 ^ MantissaBits > 0
    <3>1. MantissaBits + 0 = MantissaBits /\ MantissaBits + 1 - 1 = MantissaBits
          /\ MantissaBits - 1 \in Nat /\ (MantissaBits - 1) + 1 = MantissaBits
      BY Widths
    <3>2. 2 ^ MantissaBits \in Nat \ {0} /\ 2 ^ (MantissaBits - 1) \in Nat
      BY <3>1, Widths, PowerPositive
    <3>3. 2 ^ (MantissaBits + 1) = 2 * 2 ^ MantissaBits
      BY Widths, PowerDoubles
    <3>4. 2 ^ MantissaBits = 2 * 2 ^ (MantissaBits - 1)
      BY <3>1, PowerDoubles
    <3> QED BY <3>1, <3>2, <3>3, <3>4
  <2>2. f = n
    <3>1. CASE n < 2 ^ MantissaBits
      <4>1. n < 2 ^ (MantissaBits + 0) /\ (k = 0 \/ n >= 2 ^ (MantissaBits + k - 1))
        BY <1>3, <2>1, <3>1 DEF HasScale
      <4>2. k <= 0
        BY <1>5, <4>1, ScalesOrdered
      <4> QED BY <1>5, <1>6, <4>2
    <3>2. CASE n = 2 ^ MantissaBits
      <4>1. n < 2 ^ (MantissaBits + 1) /\ (k = 0 \/ n >= 2 ^ (MantissaBits + k - 1))
        BY <1>3, <2>1, <3>2 DEF HasScale
      <4>2. k <= 1
        BY <1>5, <4>1, ScalesOrdered
      <4>3. k = 1 => f = n
        <5>1. 2 ^ 1 = 2
          OBVIOUS
        <5>2. n % 2 = 0
          BY <2>1, <3>2
        <5> QED BY <1>4, <5>1, <5>2
      <4> QED BY <1>5, <1>6, <4>2, <4>3
    <3> QED BY <1>16, <2>1, <3>1, <3>2
  <2>3. CASE i = 0
    <3>1. 2 ^ i = 1 /\ r % 1 = 0
      BY <1>10, <2>3, <1>5
    <3> QED BY <1>12, <2>2, <3>1
  <2>4. CASE i # 0
    <3>1. i = 1
      <4> SUFFICES ASSUME i > 1 PROVE FALSE
        BY <1>14, <2>4
      <4>1. MantissaBits + i - 1 \in Nat /\ MantissaBits < MantissaBits + i - 1
        BY <1>14, Widths
      <4>2. 2 ^ (MantissaBits + i - 1) >= 2 * 2 ^ MantissaBits
        BY <4>1, Widths, PowerGrows
      <4>3. 2 ^ (MantissaBits + i - 1) \in Nat
        BY <4>1, PowerPositive
      <4> QED BY <1>12, <1>16, <2>1, <2>2, <2>4, <4>2, <4>3
    <3>2. f = 2 ^ MantissaBits /\ r >= f
      <4>1. f >= 2 ^ MantissaBits /\ r >= 2 ^ MantissaBits
        BY <1>11, <1>12, <2>1, <2>4, <3>1 DEF HasScale
      <4> QED BY <1>4, <1>10, <1>16, <2>1, <2>2, <4>1
    <3>3. r <= f + 1
      <4>1. 2 ^ i = 2
        BY <3>1
      <4> QED BY <1>4, <1>10, <1>12, <4>1
    <3>4. r # f + 1
      <4> SUFFICES ASSUME r = f + 1 PROVE FALSE
        OBVIOUS
      <4>1. PICK p \in Nat : /\ p = 1 \/ \E h \in Nat : p = 2 * h
                             /\ p # 0 /\ r % p = 0
                             /\ f % p = 0 => r = f
        BY <1>10
      <4>2. p # 1
        BY <1>4, <4>1
      <4>3. PICK h \in Nat : p = 2 * h
        BY <4>1, <4>2
      <4>4. r = p * (r \div p) /\ r \div p \in Nat
        <5>1. r \in Nat /\ p \in Nat \ {0} /\ r % p = 0
          BY <1>10, <4>1
        <5>2. \A x \in Nat, y \in Nat \ {0} :
                 x = y * (x \div y) + (x % y) /\ x \div y \in Nat
          OBVIOUS
        <5> QED BY <5>1, <5>2
      <4>5. r = 2 * (h * (r \div p)) /\ h * (r \div p) \in Nat
        BY <4>3, <4>4
      <4>6. r = 2 * 2 ^ (MantissaBits - 1) + 1
        BY <2>1, <3>2
      <4> DEFINE x == h * (r \div p)
                 y == 2 ^ (MantissaBits - 1)
      <4>7. x \in Nat /\ y \in Nat /\ r = 2 * x /\ r = 2 * y + 1
        BY <2>1, <4>5, <4>6
      <4> HIDE DEF x, y
      <4> QED BY <4>7
    <3> QED BY <1>4, <1>10, <2>2, <3>2, <3>3, <3>4
  <2> QED BY <2>3, <2>4
<1> QED BY <1>10, <1>15, <1>16 DEF f, r

(* From the request to the handler, for every int64. *)
LEMMA CarriedSurvives ==
    ASSUME NEW asked \in Signed(AmountBits), Carried(asked) # ParseError
    PROVE  LET carried == Carried(asked)
               off == Distance(asked, carried)
           IN  /\ carried \in Signed(AmountBits)
               /\ Distance(asked, 0) <= 2 ^ MantissaBits => off = 0
               /\ off <= Ulp(ToFloat(Distance(asked, 0)))
               /\ asked > 0 <=> carried > 0
<1> DEFINE B == 2 ^ (AmountBits - 1)
           n == Distance(asked, 0)
           r == Printed(ToFloat(n))
           u == Ulp(ToFloat(n))
           carried == Carried(asked)
<1>1. B \in Nat \ {0}
  BY Widths, PowerPositive
<1>2. asked \in Int /\ -B <= asked /\ asked <= B - 1
  <2> HIDE DEF B
  <2> QED BY <1>1 DEF Signed, B
<1>3. n \in Nat /\ n <= B /\ (asked < 0 => n = -asked) /\ (asked >= 0 => n = asked)
  <2> HIDE DEF B
  <2> QED BY <1>1, <1>2 DEF Distance
<1>4. CASE n = 0
  <2>1. asked = 0 /\ carried = 0
    BY <1>2, <1>3, <1>4 DEF Carried
  <2>2. u \in Nat
    <3>1. 0 < 2 ^ (MantissaBits + AmountBits)
      BY Widths, PowerPositive
    <3>2. PICK k \in 0..AmountBits : HasScale(0, k) /\ Ulp(0) = 2 ^ k
      BY <3>1, UlpScale
    <3>3. ToFloat(0) = 0
      <4>1. 2 ^ k \in Nat \ {0}
        BY Widths, PowerPositive
      <4>2. 0 % 2 ^ k = 0
        BY <4>1
      <4> QED BY <3>2, <4>2, ToFloatRounds
    <3> QED BY <1>4, <3>2, <3>3, Widths, PowerPositive
  <2> HIDE DEF u, carried, n
  <2>3. Distance(asked, carried) = 0
    BY <2>1 DEF Distance
  <2> QED BY <2>1, <2>2, <2>3 DEF u, carried, n
<1>5. CASE n # 0
  <2>1. /\ r \in Nat /\ r # 0
        /\ n <= 2 ^ MantissaBits => r = n
        /\ Distance(n, r) <= u
    BY <1>3, <1>5, SizesSurvive
  <2>2. carried = DecodeAmount(IF asked < 0 THEN -r ELSE r)
    BY <1>5 DEF Carried
  <2>3. carried \in Signed(AmountBits) /\ carried = (IF asked < 0 THEN -r ELSE r)
    BY <2>2 DEF DecodeAmount
  <2> HIDE DEF n, r, u, carried, B
  <2>4. Distance(asked, carried) = Distance(n, r)
    BY <1>2, <1>3, <2>1, <2>3 DEF Distance
  <2>5. n <= 2 ^ MantissaBits => Distance(n, r) = 0
    BY <1>3, <2>1 DEF Distance
  <2>6. asked > 0 <=> carried > 0
    BY <1>2, <1>3, <1>5, <2>1, <2>3
  <2> QED BY <2>1, <2>3, <2>4, <2>5, <2>6 DEF n, r, u, carried
<1> QED BY <1>4, <1>5
-----------------------------------------------------------------------------
(* What is recorded                                                        *)

(* The types, and that every row has what the conversions made of its request. *)
AmountInv ==
    /\ LTypeOK
    /\ \A r \in Rows : /\ Carried(Requested[r]) # ParseError
                       /\ amount[r] = Carried(Requested[r])

LEMMA InitAmounts == LInit => AmountInv
<1> SUFFICES ASSUME LInit PROVE AmountInv
  OBVIOUS
<1>1. Rows = {}
  BY DEF LInit, Rows
<1>2. created \in [Rows -> Times] /\ amount \in [Rows -> Signed(AmountBits)]
  BY <1>1 DEF LInit, Rows
<1>3. MaxRows \in Nat
  BY ListingAssumption
<1> QED BY <1>1, <1>2, <1>3 DEF AmountInv, LTypeOK, LInit

(* Only the handler writes an amount, and it writes what it decoded. *)
LEMMA RecordKeepsAmounts ==
    ASSUME AmountInv, RecordTransaction
    PROVE  AmountInv'
<1> DEFINE t == handled + 1
           carried == Carried(Requested[t])
<1>1. MaxRows \in Nat /\ t \in 1..MaxRows /\ Requested[t] \in Signed(AmountBits)
  BY ListingAssumption DEF AmountInv, LTypeOK, RecordTransaction
<1>2. /\ handled' = t /\ handled' \in 0..MaxRows /\ 1..handled \subseteq 1..handled'
      /\ t \notin Rows /\ t \in 1..handled'
      /\ UNCHANGED <<phase, page, size, atStart, seen>>
  BY <1>1 DEF AmountInv, LTypeOK, RecordTransaction
<1>3. CASE carried = ParseError
  <2>1. UNCHANGED <<created, amount>>
    BY <1>3 DEF RecordTransaction
  <2> QED BY <1>2, <2>1 DEF AmountInv, LTypeOK, Rows
<1>4. CASE carried # ParseError
  <2>1. carried \in Signed(AmountBits)
    BY <1>1, <1>4, CarriedSurvives
  <2> HIDE DEF carried
  <2>2. PICK time \in Times :
           created' = [r \in Rows \cup {t} |-> IF r = t THEN time ELSE created[r]]
    BY <1>4 DEF RecordTransaction, carried
  <2>3. amount' = [r \in Rows \cup {t} |-> IF r = t THEN carried ELSE amount[r]]
    BY <1>4 DEF RecordTransaction, carried
  <2>4. Rows' = Rows \cup {t}
    BY <2>2 DEF Rows
  <2>5. /\ created' \in [Rows' -> Times]
        /\ amount' \in [Rows' -> Signed(AmountBits)]
    BY <2>1, <2>2, <2>3, <2>4 DEF AmountInv, LTypeOK
  <2>6. Rows' \subseteq 1..handled' /\ atStart' \subseteq Rows'
    BY <1>2, <2>4 DEF AmountInv, LTypeOK
  <2>7. LTypeOK'
    BY <1>2, <2>5, <2>6 DEF AmountInv, LTypeOK
  <2>8. \A r \in Rows' : /\ Carried(Requested[r]) # ParseError
                         /\ amount'[r] = Carried(Requested[r])
    BY <1>4, <2>3, <2>4 DEF AmountInv, carried
  <2> QED BY <2>7, <2>8 DEF AmountInv
<1> QED BY <1>3, <1>4

(* A walk over the pages leaves the rows alone, whatever the order of a page. *)
LEMMA NextAmounts == AmountInv /\ [LNext]_lvars => AmountInv'
<1> SUFFICES ASSUME AmountInv, [LNext]_lvars PROVE AmountInv'
  OBVIOUS
<1> DEFINE Kept == UNCHANGED <<handled, created, amount>>
           Client == /\ phase' \in {"idle", "asking", "done", "refused", "lost"}
                     /\ page' \in Int /\ size' \in Int
                     /\ atStart' \subseteq Rows
                     /\ seen' \in [Txns -> Nat]
<1>1. ASSUME Kept, Client PROVE AmountInv'
  BY <1>1 DEF AmountInv, LTypeOK, Rows
<1>2. CASE RecordTransaction
  BY <1>2, RecordKeepsAmounts
<1>3. CASE Begin
  <2>1. page' \in Int
    BY <1>3, ListingAssumption DEF Begin
  <2>2. size' \in Int
    BY <1>3, ListingAssumption, SizeIsNumber DEF Begin
  <2>3. Kept /\ Client
    BY <1>3, <2>1, <2>2 DEF Begin, AmountInv, LTypeOK
  <2> QED BY <1>1, <2>3
<1>4. CASE ListTransactions
  <2>1. PICK rows : seen' = [x \in Txns |-> IF x \in rows THEN seen[x] + 1 ELSE seen[x]]
    BY <1>4 DEF ListTransactions
  <2>2. seen' \in [Txns -> Nat]
    BY <2>1 DEF AmountInv, LTypeOK
  <2>3. page' \in Int
    BY <1>4 DEF ListTransactions, FromZero, AmountInv, LTypeOK
  <2>4. phase' \in {phase, "done"}
    BY <1>4 DEF ListTransactions
  <2>5. Kept /\ Client
    BY <1>4, <2>2, <2>3, <2>4 DEF ListTransactions, AmountInv, LTypeOK
  <2> QED BY <1>1, <2>5
<1>5. CASE PageNotParsed \/ ListFails
  BY <1>1, <1>5 DEF PageNotParsed, ListFails, AmountInv, LTypeOK
<1>6. CASE Listed \/ UNCHANGED lvars
  BY <1>1, <1>6 DEF Listed, lvars, AmountInv, LTypeOK
<1> QED BY <1>2, <1>3, <1>4, <1>5, <1>6 DEF LNext

(* Every variable of the walk and of the table keeps its type, whatever is asked
   for and recorded, and every recorded amount is an int64. *)
THEOREM ListingTyped == LSpec => []LTypeOK
<1>1. AmountInv => LTypeOK
  BY DEF AmountInv
<1> QED BY <1>1, InitAmounts, NextAmounts, PTL DEF LSpec

(* For every int64, from the request through JSON and float64 to the handler:
   what is recorded is what was requested as long as a float64 holds it, is off by
   at most its unit beyond, and never of another sign. *)
THEOREM AmountsAreCarried == LSpec => []AmountsSurvive
<1>1. AmountInv => AmountsSurvive
  <2> SUFFICES ASSUME AmountInv, NEW r \in Rows
               PROVE  LET asked == Requested[r]
                          off == Distance(asked, amount[r])
                      IN  /\ Distance(asked, 0) <= 2 ^ MantissaBits => off = 0
                          /\ off <= Ulp(ToFloat(Distance(asked, 0)))
                          /\ asked > 0 <=> amount[r] > 0
    BY DEF AmountsSurvive
  <2>1. r \in 1..MaxRows
    BY ListingAssumption DEF AmountInv, LTypeOK
  <2>2. Requested[r] \in Signed(AmountBits)
    BY <2>1, ListingAssumption
  <2>3. Carried(Requested[r]) # ParseError /\ amount[r] = Carried(Requested[r])
    BY DEF AmountInv
  <2> QED BY <2>2, <2>3, CarriedSurvives
<1> QED BY <1>1, InitAmounts, NextAmounts, PTL DEF LSpec

=============================================================================

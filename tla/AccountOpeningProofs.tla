------------------------ MODULE AccountOpeningProofs ------------------------
(***************************************************************************)
(* Proofs about AccountOpening, for any number of users, currencies and    *)
(* concurrent calls.                                                       *)
(***************************************************************************)
EXTENDS AccountOpening, FiniteSetTheorems, TLAPS

(* The calls that have counted and will still add an account. *)
Adding(u, m) ==
    {c \in Callers :
        /\ call[c] # NoCall
        /\ call[c].user = u /\ call[c].currency = m
        /\ CanOpenNewAccounts(call[c].count)}

(* The calls that will add an account are some of the callers. *)
LEMMA AddingIsFinite ==
    ASSUME NEW u, NEW m
    PROVE  /\ IsFiniteSet(Adding(u, m))
           /\ Cardinality(Adding(u, m)) \in Nat
           /\ Cardinality(Callers) \in Nat
           /\ Cardinality(Adding(u, m)) <= Cardinality(Callers)
BY OpeningAssumption, FS_Subset, FS_CardinalityType DEF Adding

(* A call that counted is no idle call. *)
LEMMA CountedIsACall ==
    \A u, m, n :
        [state |-> "counted", user |-> u, currency |-> m, count |-> n] # NoCall
BY DEF NoCall

(* Tables and calls are well typed, and no call has counted more accounts than
   there are now: accounts are never taken away. *)
THEOREM OpeningTyped == ASpec => []ATypeOK
<1>1. AInit => ATypeOK
  BY DEF AInit, ATypeOK, Calls
<1>2. ATypeOK /\ [ANext]_avars => ATypeOK'
  <2> SUFFICES ASSUME ATypeOK, [ANext]_avars PROVE ATypeOK'
    OBVIOUS
  <2>1. ASSUME NEW c \in Callers, NEW u \in Users, NEW m \in Currencies,
               Count(c, u, m)
        PROVE  ATypeOK'
    BY <2>1 DEF ATypeOK, Count, OfCurrency, Calls, NoCall
  <2>2. ASSUME NEW c \in Callers, Insert(c)
        PROVE  ATypeOK'
    BY <2>2 DEF ATypeOK, Insert, Calls, NoCall
  <2>3. ASSUME NEW c \in Callers, ReturnError(c)
        PROVE  ATypeOK'
    BY <2>3 DEF ATypeOK, ReturnError, Calls, NoCall
  <2>4. CASE UNCHANGED avars
    BY <2>4 DEF ATypeOK, avars
  <2> QED
    BY <2>1, <2>2, <2>3, <2>4 DEF ANext
<1> QED
  BY <1>1, <1>2, PTL DEF ASpec

(* The limit is overrun by less than the number of concurrent calls.  A call
   joins those that will add an account only while the limit is not reached,
   when even all callers together stay below the bound; afterwards each of
   them trades its place for the account it adds. *)
THEOREM OverrunIsBounded == ASpec => []OverrunBounded
<1>1. AInit => OverrunBounded
  <2> SUFFICES ASSUME AInit, NEW u \in Users, NEW m \in Currencies
               PROVE  accounts[u][m] + Cardinality(Adding(u, m))
                          < Limit + Cardinality(Callers)
    BY DEF OverrunBounded, Adding
  <2>1. Adding(u, m) = {} /\ accounts[u][m] = 0
    BY DEF AInit, Adding
  <2> QED
    BY <2>1, FS_EmptySet, AddingIsFinite, OpeningAssumption
<1>2. ATypeOK /\ OverrunBounded /\ [ANext]_avars => OverrunBounded'
  <2> SUFFICES ASSUME ATypeOK, OverrunBounded, [ANext]_avars,
                      NEW u \in Users, NEW m \in Currencies
               PROVE  accounts'[u][m] + Cardinality(Adding(u, m)')
                          < Limit + Cardinality(Callers)
    BY DEF OverrunBounded, Adding
  <2> DEFINE A == Adding(u, m)
  <2>0. /\ accounts[u][m] \in Nat /\ Limit \in Nat /\ Cardinality(Callers) \in Nat
        /\ accounts[u][m] + Cardinality(A) < Limit + Cardinality(Callers)
        /\ IsFiniteSet(A) /\ Cardinality(A) \in Nat
    <3>1. accounts[u][m] \in Nat
      BY DEF ATypeOK
    <3>2. accounts[u][m] + Cardinality(A) < Limit + Cardinality(Callers)
      BY DEF OverrunBounded, Adding
    <3> QED
      BY <3>1, <3>2, AddingIsFinite, OpeningAssumption
  <2>1. ASSUME NEW c \in Callers, NEW v \in Users, NEW n \in Currencies,
               Count(c, v, n)
        PROVE  accounts'[u][m] + Cardinality(A') < Limit + Cardinality(Callers)
    <3>1. accounts' = accounts
      BY <2>1 DEF Count
    <3>2. CASE v = u /\ n = m /\ CanOpenNewAccounts(accounts[u][m])
      <4>1. accounts[u][m] < Limit
        BY <3>2 DEF CanOpenNewAccounts
      <4>2. Cardinality(A') \in Nat /\ Cardinality(A') <= Cardinality(Callers)
        <5>1. A' \in SUBSET Callers
          BY DEF Adding
        <5> QED
          BY <5>1, OpeningAssumption, FS_Subset, FS_CardinalityType
      <4> QED
        BY <3>1, <4>1, <4>2, <2>0
    <3>3. CASE ~(v = u /\ n = m /\ CanOpenNewAccounts(accounts[u][m]))
      <4>1. c \notin A /\ c \notin A'
        BY <2>1, <3>3 DEF Adding, Count, OfCurrency, ATypeOK, NoCall
      <4>2. A' = A
        BY <2>1, <4>1 DEF Adding, Count, ATypeOK
      <4> QED
        BY <3>1, <4>2, <2>0
    <3> QED
      BY <3>2, <3>3
  <2>2. ASSUME NEW c \in Callers, Insert(c)
        PROVE  accounts'[u][m] + Cardinality(A') < Limit + Cardinality(Callers)
    <3>1. A' = A \ {c}
      BY <2>2 DEF Adding, Insert, ATypeOK
    <3>2. CASE call[c].user = u /\ call[c].currency = m
      <4>1. c \in A
        BY <2>2, <3>2 DEF Adding, Insert
      <4>2. Cardinality(A') = Cardinality(A) - 1
        BY <3>1, <4>1, <2>0, FS_RemoveElement
      <4>3. accounts'[u][m] = accounts[u][m] + 1
        BY <2>2, <3>2 DEF Insert, ATypeOK
      <4> QED
        BY <4>2, <4>3, <2>0
    <3>3. CASE ~(call[c].user = u /\ call[c].currency = m)
      <4>1. A' = A
        BY <3>1, <3>3 DEF Adding
      <4>2. accounts'[u][m] = accounts[u][m]
        BY <2>2, <3>3 DEF Insert, ATypeOK, Calls, NoCall
      <4> QED
        BY <4>1, <4>2, <2>0
    <3> QED
      BY <3>2, <3>3
  <2>3. ASSUME NEW c \in Callers, ReturnError(c)
        PROVE  accounts'[u][m] + Cardinality(A') < Limit + Cardinality(Callers)
    <3>1. A' = A \ {c} /\ accounts' = accounts
      BY <2>3 DEF Adding, ReturnError, ATypeOK
    <3>2. Cardinality(A') \in Nat /\ Cardinality(A') <= Cardinality(A)
      <4>1. A' \in SUBSET A
        BY <3>1
      <4> QED
        BY <4>1, <2>0, FS_Subset, FS_CardinalityType
    <3> QED
      BY <3>1, <3>2, <2>0
  <2>4. CASE UNCHANGED avars
    BY <2>4, <2>0 DEF avars, Adding
  <2> QED
    BY <2>1, <2>2, <2>3, <2>4 DEF ANext
<1> QED
  BY <1>1, <1>2, OpeningTyped, PTL DEF ASpec

=============================================================================

----------------------------- MODULE RangeProofs -----------------------------
(***************************************************************************)
(* Proofs about the two algorithms on ranges.  IotlbRange, for any request *)
(* and word width: what the blocks of an invalidation cover; RangeInv is   *)
(* inductive.  BdfRangeSet, for any requester space and capacity: what     *)
(* insert keeps, and that it implements RequesterSet; SetInv is inductive. *)
(***************************************************************************)
EXTENDS IotlbRange, BdfRangeSet, FiniteSetTheorems, WellFoundedInduction, TLAPS

-----------------------------------------------------------------------------
(* Induction, by the least element of a set.                               *)

(* A non-empty set of naturals has a least element.                        *)
LEMMA LeastElement ==
  ASSUME NEW T \in SUBSET Nat, T # {}
  PROVE  \E x \in T : \A y \in T : x <= y
  <1>1. PICK x \in T : \A y \in T : ~(<<y, x>> \in OpToRel(<, Nat))
    BY NatLessThanWellFounded, WFMin
  <1>2. \A y \in T : ~(y < x)
    BY <1>1 DEF OpToRel
  <1>3. QED
    BY <1>2

(* A set that holds 0 and the successor of each of its naturals holds all  *)
(* of them.                                                                *)
LEMMA Induction ==
  ASSUME NEW S, 0 \in S, \A n \in Nat : n \in S => n + 1 \in S
  PROVE  Nat \subseteq S
  <1> DEFINE T == Nat \ S
  <1> SUFFICES ASSUME T # {} PROVE FALSE
    OBVIOUS
  <1>1. T \in SUBSET Nat
    OBVIOUS
  <1> HIDE DEF T
  <1>2. PICK x \in T : \A y \in T : x <= y
    BY <1>1, LeastElement
  <1>3. x \in Nat /\ x \notin S /\ x # 0
    BY DEF T
  <1>4. x - 1 \in Nat /\ x - 1 \notin T
    BY <1>2, <1>3
  <1>5. x - 1 \in S
    BY <1>4 DEF T
  <1>6. QED
    BY <1>3, <1>4, <1>5

(* A bounded non-empty set of naturals has a greatest element.             *)
LEMMA GreatestElement ==
  ASSUME NEW n \in Nat, NEW S \in SUBSET (0 .. n), S # {}
  PROVE  Max(S) \in S /\ \A y \in S : y <= Max(S)
  <1> DEFINE T == {n - x : x \in S}
  <1>1. T \in SUBSET Nat
    <2>1. \A x \in S : n - x \in Nat
      OBVIOUS
    <2>2. QED
      BY <2>1
  <1>1a. T # {}
    <2>1. PICK x : x \in S
      OBVIOUS
    <2>2. n - x \in T
      BY <2>1
    <2>3. QED
      BY <2>2
  <1>2. PICK t \in T : \A y \in T : t <= y
    BY <1>1, <1>1a, LeastElement
  <1>3. PICK x \in S : t = n - x
    BY <1>2
  <1>4. \A y \in S : n - y \in T
    OBVIOUS
  <1>5. \A y \in S : x >= y
    BY <1>2, <1>3, <1>4
  <1>6. Max(S) \in S /\ \A y \in S : Max(S) >= y
    BY <1>5 DEF Max
  <1>7. QED
    BY <1>6

-----------------------------------------------------------------------------
(* Powers of two and divisibility.                                         *)

(* A power of two up to the word size is a positive natural.               *)
LEMMA PowerPositive ==
  \A k \in 0 .. WordBits : 2^k \in Nat \ {0}
  <1> DEFINE S == {k \in Nat : k <= WordBits => 2^k \in Nat \ {0}}
  <1>1. 0 \in S
    BY PowersOfTwo
  <1>2. ASSUME NEW k \in Nat, k \in S PROVE k + 1 \in S
    <2>1. CASE k + 1 <= WordBits
      <3>1. 2^(k + 1) = 2 * 2^k
        BY <2>1, BoundsAssumption, PowersOfTwo
      <3>2. 2^k \in Nat \ {0}
        BY <1>2, <2>1, BoundsAssumption
      <3>3. 2^(k + 1) \in Nat \ {0}
        BY <3>1, <3>2
      <3>4. QED
        BY <3>3
    <2>2. CASE ~(k + 1 <= WordBits)
      BY <2>2
    <2>3. QED
      BY <2>1, <2>2
  <1>3. Nat \subseteq S
    <2> HIDE DEF S
    <2>1. QED
      BY <1>1, <1>2, Induction
  <1>4. QED
    BY <1>3, BoundsAssumption

(* A smaller power divides a larger one.                                   *)
LEMMA PowerDivides ==
  ASSUME NEW a \in 0 .. WordBits, NEW b \in a .. WordBits
  PROVE  \E f \in Nat \ {0} : 2^b = f * 2^a
  <1> DEFINE P == 2^a
             S == {d \in Nat : a + d <= WordBits => \E f \in Nat \ {0} : 2^(a + d) = f * P}
  <1>1. P \in Nat \ {0} /\ a \in Nat /\ WordBits \in Nat
    BY PowerPositive, BoundsAssumption
  <1>2. 0 \in S
    <2>1. 2^(a + 0) = 1 * P
      BY <1>1
    <2>2. QED
      BY <2>1
  <1> HIDE DEF P
  <1>3. ASSUME NEW d \in Nat, d \in S PROVE d + 1 \in S
    <2>1. CASE a + (d + 1) <= WordBits
      <3>1. a + d \in 0 .. WordBits /\ a + (d + 1) = (a + d) + 1
        BY <1>1, <2>1
      <3>2. 2^(a + (d + 1)) = 2 * 2^(a + d)
        BY <3>1, PowersOfTwo
      <3>3. PICK f \in Nat \ {0} : 2^(a + d) = f * P
        BY <1>3, <3>1
      <3>4. 2^(a + (d + 1)) = (2 * f) * P /\ 2 * f \in Nat \ {0}
        BY <1>1, <3>2, <3>3
      <3>5. QED
        BY <3>4
    <2>2. CASE ~(a + (d + 1) <= WordBits)
      BY <2>2
    <2>3. QED
      BY <2>1, <2>2
  <1>4. Nat \subseteq S
    <2> HIDE DEF S
    <2>1. QED
      BY <1>2, <1>3, Induction
  <1>5. b - a \in Nat /\ a + (b - a) = b /\ b <= WordBits
    BY <1>1
  <1>6. b - a \in S
    BY <1>4, <1>5
  <1>7. QED
    BY <1>5, <1>6 DEF P

(* A remainder of zero is a multiple.                                      *)
LEMMA Multiple ==
  ASSUME NEW n \in Nat, NEW P \in Nat \ {0}
  PROVE  n % P = 0 <=> \E q \in Nat : n = q * P
  <1>1. n % P = 0 => n = (n \div P) * P /\ n \div P \in Nat
    BY SMT
  <1>2. ASSUME NEW q \in Nat, n = q * P PROVE n % P = 0
    BY <1>2, SMT
  <1>3. QED
    BY <1>1, <1>2

(* Multiples of P: their sums, differences and least positive one.         *)
LEMMA MultipleArithmetic ==
  ASSUME NEW a \in Nat, NEW b \in Nat, NEW P \in Nat \ {0}, a % P = 0, b % P = 0
  PROVE  /\ (a + b) % P = 0
         /\ b <= a => (a - b) % P = 0
         /\ a > 0 => P <= a
         /\ b < a => b + P <= a
  <1>1. PICK q \in Nat : a = q * P
    BY Multiple
  <1>2. PICK r \in Nat : b = r * P
    BY Multiple
  <1>3. (a + b) % P = 0
    <2>1. a + b = (q + r) * P /\ q + r \in Nat /\ a + b \in Nat
      BY <1>1, <1>2
    <2>2. QED
      BY <2>1, Multiple
  <1>4. b <= a => r <= q
    BY <1>1, <1>2
  <1>5. ASSUME b <= a PROVE (a - b) % P = 0
    <2>1. a - b = (q - r) * P /\ q - r \in Nat /\ a - b \in Nat
      BY <1>1, <1>2, <1>4, <1>5
    <2>2. QED
      BY <2>1, Multiple
  <1>6. ASSUME b < a PROVE b + P <= a
    <2>1. r < q
      BY <1>1, <1>2, <1>4, <1>6
    <2>2. (r + 1) * P <= q * P
      BY <2>1
    <2>3. QED
      BY <1>1, <1>2, <2>2
  <1>7. ASSUME a > 0 PROVE P <= a
    <2>1. q >= 1
      BY <1>1, <1>7
    <2>2. QED
      BY <1>1, <2>1
  <1>8. QED
    BY <1>3, <1>5, <1>6, <1>7

(* A larger exponent gives a power no smaller, which the smaller divides.  *)
LEMMA PowerOrder ==
  ASSUME NEW a \in 0 .. WordBits, NEW b \in a .. WordBits
  PROVE  /\ 2^a <= 2^b /\ 2^b % 2^a = 0
         /\ \A n \in Nat : n % 2^b = 0 => n % 2^a = 0
  <1> DEFINE P == 2^a
             R == 2^b
  <1>1. PICK f \in Nat \ {0} : R = f * P
    BY PowerDivides
  <1>2. P \in Nat \ {0} /\ R \in Nat \ {0}
    BY PowerPositive, BoundsAssumption
  <1> HIDE DEF P, R
  <1>3. P <= R
    BY <1>1, <1>2
  <1>4. R % P = 0
    BY <1>1, <1>2, Multiple
  <1>5. ASSUME NEW n \in Nat, n % R = 0 PROVE n % P = 0
    <2>1. PICK q \in Nat : n = q * R
      BY <1>2, <1>5, Multiple
    <2>2. n = (q * f) * P /\ q * f \in Nat
      BY <1>1, <1>2, <2>1
    <2>3. QED
      BY <1>2, <2>2, Multiple
  <1>6. QED
    BY <1>3, <1>4, <1>5 DEF P, R

(* The largest power of two within a positive count is within it.          *)
LEMMA FloorLog2Fits ==
  ASSUME NEW n \in Nat \ {0}
  PROVE  FloorLog2(n) \in 0 .. WordBits - 1 /\ 2^FloorLog2(n) <= n
  <1> DEFINE S == {k \in 0 .. WordBits - 1 : 2^k <= n}
  <1>1. WordBits - 1 \in Nat /\ S \in SUBSET (0 .. WordBits - 1)
    BY BoundsAssumption
  <1>2. 0 \in S
    BY <1>1, PowersOfTwo
  <1>3. Max(S) \in S
    <2> HIDE DEF S
    <2>1. QED
      BY <1>1, <1>2, GreatestElement
  <1>4. QED
    BY <1>3 DEF FloorLog2

(* The power of two at a page's trailing zeros divides it.                 *)
LEMMA TrailingZerosDivide ==
  ASSUME NEW n \in Nat
  PROVE  TrailingZeros(n) \in 0 .. WordBits - 1 /\ n % 2^TrailingZeros(n) = 0
  <1> DEFINE S == {k \in 0 .. WordBits - 1 : n % 2^k = 0}
  <1>1. WordBits - 1 \in Nat /\ S \in SUBSET (0 .. WordBits - 1)
    BY BoundsAssumption
  <1>2. 0 \in S
    <2>1. n % 1 = 0
      OBVIOUS
    <2>2. QED
      BY <1>1, <2>1, PowersOfTwo
  <1>3. Max(S) \in S
    <2> HIDE DEF S
    <2>1. QED
      BY <1>1, <1>2, GreatestElement
  <1>4. QED
    BY <1>3 DEF TrailingZeros

(* The larger of two numbers, Rust's max.                                  *)
LEMMA MaxOfTwo ==
  ASSUME NEW a \in Int, NEW b \in Int
  PROVE  Max({a, b}) = IF a >= b THEN a ELSE b
  <1>1. PICK x \in {a, b} : \A y \in {a, b} : x >= y
    <2>1. CASE a >= b
      BY <2>1
    <2>2. CASE ~(a >= b)
      BY <2>2
    <2>3. QED
      BY <2>1, <2>2
  <1>2. Max({a, b}) \in {a, b} /\ \A y \in {a, b} : Max({a, b}) >= y
    BY <1>1 DEF Max
  <1>3. QED
    BY <1>2

(* The smaller of two numbers, where saturating_add stops at usize::MAX.   *)
LEMMA MinOfTwo ==
  ASSUME NEW a \in Int, NEW b \in Int
  PROVE  Min({a, b}) = IF a <= b THEN a ELSE b
  <1>1. PICK x \in {a, b} : \A y \in {a, b} : x <= y
    <2>1. CASE a <= b
      BY <2>1
    <2>2. CASE ~(a <= b)
      BY <2>2
    <2>3. QED
      BY <2>1, <2>2
  <1>2. Min({a, b}) \in {a, b} /\ \A y \in {a, b} : Min({a, b}) <= y
    BY <1>1 DEF Min
  <1>3. QED
    BY <1>2

(* The smallest of three, as next_address_mask takes it.                   *)
LEMMA MinOfThree ==
  ASSUME NEW a \in Int, NEW b \in Int, NEW c \in Int
  PROVE  /\ Min({a, b, c}) \in {a, b, c}
         /\ Min({a, b, c}) <= a /\ Min({a, b, c}) <= b /\ Min({a, b, c}) <= c
  <1>1. \E x \in {a, b, c} : \A y \in {a, b, c} : x <= y
    <2>1. CASE a <= b /\ a <= c
      BY <2>1
    <2>2. CASE b <= a /\ b <= c
      BY <2>2
    <2>3. CASE c <= a /\ c <= b
      BY <2>3
    <2>4. QED
      BY <2>1, <2>2, <2>3
  <1>2. Min({a, b, c}) \in {a, b, c} /\ \A y \in {a, b, c} : Min({a, b, c}) <= y
    BY <1>1 DEF Min
  <1>3. QED
    BY <1>2

-----------------------------------------------------------------------------
(* The inductive invariant.                                                *)

(* What the domains of the variables add to TypeOK.                        *)
Domains ==
  /\ request \in Requests
  /\ cursor \in [next : 0 .. MaxWord, remaining : Nat]
  /\ flushed \subseteq Everything
  /\ result \in {"start", "running", "Leaf", "Domain", "Err"}

(* The pages of the range the cursor has passed.                           *)
Passed == Total(request) - cursor.remaining

(* A plan under way is one for blocks, and what remains is a whole number  *)
(* of the pages asked for.                                                 *)
Planned ==
  result = "running" =>
    /\ ~NeedsDomain(request)
    /\ cursor.remaining <= Total(request)
    /\ cursor.remaining % 2^request.mask = 0

(* The pages passed that exist are flushed and, inside the address space,  *)
(* no others.  The cursor stands just past them unless next_page has       *)
(* saturated; every page that exists has been passed by then.              *)
InStep ==
  result = "running" =>
    /\ (request.page .. request.page + Passed - 1) \intersect Everything \subseteq flushed
    /\ InSpace(request) => flushed \subseteq request.page .. request.page + Passed - 1
    /\ request.page + Passed <= MaxWord =>
         cursor.next = request.page + Passed /\ cursor.next % 2^request.mask = 0

(* What an outcome says of the pages flushed.                              *)
Outcome ==
  /\ result = "start" => flushed = {}
  /\ result = "Domain" => flushed = Everything
  /\ result = "Leaf" =>
       /\ Wanted(request) \intersect Everything \subseteq flushed
       /\ InSpace(request) => flushed \subseteq Wanted(request)

RangeInv == Domains /\ Planned /\ InStep /\ Outcome

-----------------------------------------------------------------------------
(* The block next_block takes.                                             *)

(* A request that is given a plan has a page size hardware has a mask for, *)
(* within its maximum, and a first page aligned to it.                     *)
LEMMA PlannedRequest ==
  ASSUME NEW q \in Requests, ~NeedsDomain(q)
  PROVE  /\ q.mask \in 0 .. WordBits - 1 /\ q.max \in q.mask .. WordBits - 1
         /\ Span(q) = 2^q.mask /\ q.page % 2^q.mask = 0
         /\ q.page \in Nat /\ q.count \in Nat /\ WordBits \in Nat
  <1>1. WordBits \in Nat \ {0} /\ q.mask # Unsupported /\ q.mask \in GranuleMasks
    BY BoundsAssumption DEF NeedsDomain, Requests
  <1>2. q.mask \in 0 .. WordBits - 1
    BY <1>1, BoundsAssumption
  <1>3. q.max \in 0 .. WordBits - 1 /\ ~(q.max < q.mask)
    BY <1>1, BoundsAssumption DEF Requests, NeedsDomain
  <1>4. Max({q.mask, 0}) = q.mask
    <2>1. q.mask \in Int /\ 0 \in Int /\ q.mask >= 0
      BY <1>1, <1>2
    <2>2. QED
      BY <2>1, MaxOfTwo
  <1>5. Span(q) = 2^q.mask
    BY <1>4 DEF Span
  <1>6. q.page % 2^q.mask = 0
    BY <1>5 DEF NeedsDomain
  <1>7. q.page \in Nat /\ q.count \in Nat
    BY BoundsAssumption DEF Requests, Everything
  <1>8. QED
    BY <1>1, <1>2, <1>3, <1>5, <1>6, <1>7

(* next_address_mask: the block is at least a page of the size asked for,  *)
(* at most what hardware takes, fits what remains, and is aligned when the *)
(* cursor is aligned to the page size.                                     *)
LEMMA MaskFits ==
  ASSUME NEW q \in Requests, ~NeedsDomain(q),
         NEW c \in [next : 0 .. MaxWord, remaining : Nat],
         c.remaining > 0, c.remaining % 2^q.mask = 0
  PROVE  /\ AddressMask(c, q) \in q.mask .. q.max
         /\ 2^AddressMask(c, q) <= c.remaining
         /\ c.next % 2^q.mask = 0 => c.next % 2^AddressMask(c, q) = 0
  <1> DEFINE fl == FloorLog2(c.remaining)
             tz == TrailingZeros(c.next)
             lo == Min({fl, tz, q.max})
             m == AddressMask(c, q)
  <1>1. /\ q.mask \in 0 .. WordBits - 1 /\ q.max \in q.mask .. WordBits - 1
        /\ WordBits \in Nat
    BY PlannedRequest
  <1>2. c.remaining \in Nat \ {0} /\ c.next \in Nat
    <2>1. 2^WordBits \in Nat
      BY <1>1, PowerPositive
    <2>2. QED
      BY <2>1 DEF MaxWord
  <1>3. fl \in 0 .. WordBits - 1 /\ 2^fl <= c.remaining
    BY <1>2, FloorLog2Fits
  <1>4. tz \in 0 .. WordBits - 1 /\ c.next % 2^tz = 0
    BY <1>2, TrailingZerosDivide
  <1>5. m = Max({lo, q.mask})
    BY DEF AddressMask
  <1> HIDE DEF fl, tz, m
  <1>6. lo \in {fl, tz, q.max} /\ lo <= fl /\ lo <= tz /\ lo <= q.max
    <2>1. fl \in Int /\ tz \in Int /\ q.max \in Int
      BY <1>1, <1>3, <1>4
    <2>2. QED
      BY <2>1, MinOfThree
  <1> HIDE DEF lo
  <1>7. lo \in 0 .. WordBits - 1
    BY <1>1, <1>3, <1>4, <1>6
  <1>8. m = IF lo >= q.mask THEN lo ELSE q.mask
    <2>1. lo \in Int /\ q.mask \in Int
      BY <1>1, <1>7
    <2>2. QED
      BY <1>5, <2>1, MaxOfTwo
  <1>9. m \in q.mask .. q.max
    BY <1>1, <1>6, <1>7, <1>8
  <1>10. 2^m <= c.remaining
    <2>1. CASE m = q.mask
      <3>1. 2^q.mask \in Nat \ {0}
        BY <1>1, PowerPositive
      <3>2. 2^q.mask <= c.remaining
        BY <1>2, <3>1, MultipleArithmetic
      <3>3. QED
        BY <2>1, <3>2
    <2>2. CASE m = lo
      <3>1. lo \in 0 .. WordBits /\ fl \in lo .. WordBits
        BY <1>1, <1>3, <1>6, <1>7
      <3>2. 2^lo <= 2^fl
        BY <3>1, PowerOrder
      <3>3. 2^lo \in Nat /\ 2^fl \in Nat
        BY <1>1, <3>1, PowerPositive
      <3>4. QED
        BY <1>2, <1>3, <2>2, <3>2, <3>3
    <2>3. QED
      BY <1>8, <2>1, <2>2
  <1>11. ASSUME c.next % 2^q.mask = 0 PROVE c.next % 2^m = 0
    <2>1. CASE m = q.mask
      BY <1>11, <2>1
    <2>2. CASE m = lo
      <3>1. lo \in 0 .. WordBits /\ tz \in lo .. WordBits
        BY <1>1, <1>4, <1>6, <1>7
      <3>2. c.next % 2^lo = 0
        BY <1>2, <1>4, <3>1, PowerOrder
      <3>3. QED
        BY <2>2, <3>2
    <2>3. QED
      BY <1>8, <2>1, <2>2
  <1>12. QED
    BY <1>9, <1>10, <1>11 DEF m

-----------------------------------------------------------------------------
(* RangeInv is an invariant.                                               *)

(* The bounds on pages and words are naturals.                             *)
LEMMA Bounds ==
  /\ 2^AddressBits \in Nat \ {0} /\ MaxWord \in Nat
  /\ 2^AddressBits <= MaxWord + 1
  <1>1. AddressBits \in 0 .. WordBits /\ WordBits \in AddressBits .. WordBits /\ WordBits \in 0 .. WordBits
    BY BoundsAssumption
  <1>2. 2^AddressBits \in Nat \ {0} /\ 2^WordBits \in Nat \ {0}
    BY <1>1, PowerPositive
  <1>3. 2^AddressBits <= 2^WordBits
    BY <1>1, PowerOrder
  <1>4. QED
    BY <1>2, <1>3 DEF MaxWord

(* The pages asked for are a whole number of the page size's spans.        *)
LEMMA TotalIsWhole ==
  ASSUME NEW q \in Requests, ~NeedsDomain(q)
  PROVE  Total(q) \in Nat /\ Total(q) % 2^q.mask = 0
  <1> DEFINE P == 2^q.mask
  <1>1. P \in Nat \ {0} /\ q.count \in Nat /\ Span(q) = P
    BY PlannedRequest, PowerPositive
  <1> HIDE DEF P
  <1>2. Total(q) = q.count * P /\ Total(q) \in Nat
    BY <1>1 DEF Total
  <1>3. Total(q) % P = 0
    BY <1>1, <1>2, Multiple
  <1>4. QED
    BY <1>2, <1>3 DEF P

(* A call starts with nothing flushed.                                     *)
LEMMA RangeStarts ==
  ASSUME Init PROVE RangeInv
  <1>1. Domains
    BY Bounds DEF Init, Domains
  <1>2. Planned /\ InStep /\ Outcome
    BY DEF Init, Planned, InStep, Outcome
  <1>3. QED
    BY <1>1, <1>2 DEF RangeInv

(* The plan of an accepted request starts at its first page.               *)
LEMMA PlanStarts ==
  ASSUME RangeInv, StartPlan PROVE RangeInv'
  <1> USE DEF RangeInv, StartPlan
  <1>1. /\ request \in Requests /\ ~NeedsDomain(request) /\ flushed = {}
        /\ result' = "running" /\ request' = request /\ flushed' = {}
    BY DEF Domains, Outcome
  <1>2. Total(request) \in Nat /\ Total(request) % 2^request.mask = 0
    BY <1>1, TotalIsWhole
  <1>3. request.page \in Nat /\ request.page % 2^request.mask = 0
    BY <1>1, PlannedRequest
  <1>4. cursor' = [next |-> request.page, remaining |-> Total(request)]
    BY DEF Plan
  <1>5. request.page \in 0 .. MaxWord
    BY <1>1, Bounds DEF Requests, Everything
  <1>6. Domains'
    BY <1>1, <1>2, <1>4, <1>5 DEF Domains
  <1>7. Planned'
    BY <1>1, <1>2, <1>4 DEF Planned, NeedsDomain, Total, Span
  <1>8. Passed' = 0
    BY <1>1, <1>2, <1>4 DEF Passed, Total, Span
  <1>9. InStep'
    <2>1. (request.page .. request.page + 0 - 1) = {}
      BY <1>3
    <2>2. Everything' = Everything /\ MaxWord' = MaxWord
      BY DEF Everything, MaxWord
    <2>3. request.page + 0 = request.page
      BY <1>3
    <2>4. QED
      BY <1>1, <1>3, <1>4, <1>8, <2>1, <2>2, <2>3 DEF InStep
  <1>10. Outcome'
    BY <1>1 DEF Outcome
  <1>11. QED
    BY <1>6, <1>7, <1>9, <1>10

(* The cursor after a block, whether or not its descriptor was accepted.   *)
LEMMA CursorAdvances ==
  ASSUME RangeInv, FlushBlock
  PROVE  LET m == AddressMask(cursor, request) IN
         /\ m \in request.mask .. request.max /\ 2^m \in Nat \ {0}
         /\ 2^m <= cursor.remaining
         /\ cursor' \in [next : 0 .. MaxWord, remaining : Nat]
         /\ cursor'.remaining = cursor.remaining - 2^m
         /\ cursor'.remaining % 2^request.mask = 0
         /\ cursor'.next = IF cursor.next + 2^m <= MaxWord THEN cursor.next + 2^m ELSE MaxWord
  <1> DEFINE m == AddressMask(cursor, request)
             B == 2^m
             P == 2^request.mask
  <1>1. /\ request \in Requests /\ ~NeedsDomain(request)
        /\ cursor \in [next : 0 .. MaxWord, remaining : Nat]
        /\ cursor.remaining > 0 /\ cursor.remaining % P = 0
    BY DEF RangeInv, Domains, Planned, FlushBlock
  <1>2. m \in request.mask .. request.max /\ B <= cursor.remaining
    BY <1>1, MaskFits
  <1>3. request.mask \in 0 .. WordBits - 1 /\ request.max \in request.mask .. WordBits - 1 /\ WordBits \in Nat
    BY <1>1, PlannedRequest
  <1>4. request.mask \in 0 .. WordBits /\ m \in request.mask .. WordBits /\ m \in 0 .. WordBits
    <2> HIDE DEF m
    <2>1. QED
      BY <1>2, <1>3
  <1>5. B \in Nat \ {0} /\ P \in Nat \ {0} /\ B % P = 0
    <2> HIDE DEF m
    <2>1. QED
      BY <1>4, PowerPositive, PowerOrder
  <1>6. cursor' = [next |-> Min({cursor.next + B, MaxWord}), remaining |-> cursor.remaining - B]
    BY DEF FlushBlock, Advance, BlockPages
  <1> HIDE DEF B, P, m
  <1>7. cursor.next \in Nat /\ MaxWord \in Nat
    BY <1>1, Bounds
  <1>8. Min({cursor.next + B, MaxWord}) = IF cursor.next + B <= MaxWord THEN cursor.next + B ELSE MaxWord
    <2>1. cursor.next + B \in Int /\ MaxWord \in Int
      BY <1>5, <1>7
    <2>2. QED
      BY <2>1, MinOfTwo
  <1>9. cursor.remaining - B \in Nat /\ (cursor.remaining - B) % P = 0
    BY <1>1, <1>2, <1>5, MultipleArithmetic
  <1>10. Min({cursor.next + B, MaxWord}) \in 0 .. MaxWord
    BY <1>5, <1>7, <1>8
  <1>11. QED
    BY <1>2, <1>5, <1>6, <1>8, <1>9, <1>10 DEF m, B, P

(* The end of a range inside the address space is in it.                   *)
LEMMA InSpaceEnds ==
  ASSUME NEW q \in Requests, ~NeedsDomain(q), InSpace(q), Total(q) > 0
  PROVE  q.page + Total(q) <= 2^AddressBits
  <1> DEFINE A == 2^AddressBits
             T == Total(q)
  <1>1. (q.page .. q.page + T - 1) \subseteq 0 .. A - 1
    BY DEF InSpace, Wanted, Everything
  <1>2. q.page \in Nat /\ T \in Nat /\ A \in Nat \ {0} /\ T > 0
    BY PlannedRequest, TotalIsWhole, Bounds
  <1> HIDE DEF A, T
  <1>3. q.page + T - 1 \in q.page .. q.page + T - 1
    BY <1>2
  <1>4. q.page + T - 1 \in 0 .. A - 1
    BY <1>1, <1>3
  <1>5. QED
    BY <1>2, <1>4 DEF A, T

(* Until next_page saturates, hardware invalidates the pages of a block    *)
(* from the cursor on that exist, and the cursor moves just past them.     *)
LEMMA BlockIsExact ==
  ASSUME RangeInv, FlushBlock, request.page + Passed <= MaxWord
  PROVE  LET B == 2^AddressMask(cursor, request) IN
         /\ cursor.next < 2^AddressBits =>
              Block(cursor.next, AddressMask(cursor, request))
                = (cursor.next .. cursor.next + B - 1) \intersect Everything
         /\ cursor.next + B <= MaxWord =>
              cursor'.next = cursor.next + B /\ cursor'.next % 2^request.mask = 0
  <1> DEFINE m == AddressMask(cursor, request)
             B == 2^m
             P == 2^request.mask
             A == 2^AddressBits
             p == cursor.next
  <1>1. /\ request \in Requests /\ ~NeedsDomain(request) /\ result = "running"
        /\ cursor \in [next : 0 .. MaxWord, remaining : Nat]
        /\ cursor.remaining > 0 /\ cursor.remaining % P = 0
    BY DEF RangeInv, Domains, Planned, FlushBlock
  <1>2. p % P = 0
    BY <1>1 DEF RangeInv, InStep
  <1>3. request.mask \in 0 .. WordBits - 1 /\ request.max \in request.mask .. WordBits - 1
        /\ WordBits \in Nat
    BY <1>1, PlannedRequest
  <1>4. p % B = 0
    BY <1>1, <1>2, MaskFits
  <1>5. /\ m \in request.mask .. request.max /\ B \in Nat \ {0}
        /\ cursor'.next = IF p + B <= MaxWord THEN p + B ELSE MaxWord
    BY CursorAdvances
  <1>6. A \in Nat \ {0} /\ MaxWord \in Nat
    BY Bounds
  <1>7. p \in Nat
    BY <1>1, <1>6
  <1>8. Block(p, m) = ((p % A) - ((p % A) % B) .. (p % A) - ((p % A) % B) + B - 1) \intersect Everything
    BY DEF Block
  <1>9. P \in Nat \ {0} /\ B % P = 0
    <2> HIDE DEF m
    <2>1. request.mask \in 0 .. WordBits /\ m \in request.mask .. WordBits
      BY <1>3, <1>5
    <2>2. QED
      BY <2>1, PowerPositive, PowerOrder
  <1> HIDE DEF m, B, P, A, p
  <1>10. ASSUME p < A PROVE Block(p, m) = (p .. p + B - 1) \intersect Everything
    <2>1. p % A = p
      BY <1>6, <1>7, <1>10
    <2>2. p - (p % B) = p
      BY <1>4, <1>7
    <2>3. QED
      BY <1>8, <2>1, <2>2
  <1>11. (p + B) % P = 0
    BY <1>2, <1>5, <1>7, <1>9, MultipleArithmetic
  <1>12. QED
    BY <1>5, <1>10, <1>11 DEF m, B, P, A, p

(* A block, accepted or refused, leaves what the plan promises.            *)
LEMMA BlockStep ==
  ASSUME RangeInv, FlushBlock PROVE RangeInv'
  <1> DEFINE m == AddressMask(cursor, request)
             B == 2^m
             K == Block(cursor.next, m)
  <1>1. /\ request \in Requests /\ request' = request /\ ~NeedsDomain(request)
        /\ cursor \in [next : 0 .. MaxWord, remaining : Nat]
        /\ flushed \subseteq Everything /\ result = "running"
        /\ cursor.remaining > 0 /\ cursor.remaining <= Total(request)
    BY DEF RangeInv, Domains, Planned, FlushBlock
  <1>2. /\ B \in Nat \ {0} /\ B <= cursor.remaining
        /\ cursor' \in [next : 0 .. MaxWord, remaining : Nat]
        /\ cursor'.remaining = cursor.remaining - B
        /\ cursor'.remaining % 2^request.mask = 0
    BY CursorAdvances
  <1>3. \/ flushed' = flushed \union K /\ result' = "running"
        \/ flushed' \in {flushed, flushed \union K} /\ result' = "Err"
    BY DEF FlushBlock, Submit
  <1>4. K \subseteq Everything
    BY DEF Block
  <1>5. Total(request) \in Nat /\ request.page \in Nat
    BY <1>1, TotalIsWhole, PlannedRequest
  <1>6. request.page + Passed <= MaxWord =>
          /\ cursor.next = request.page + Passed
          /\ cursor.next < 2^AddressBits => K = (cursor.next .. cursor.next + B - 1) \intersect Everything
          /\ cursor.next + B <= MaxWord =>
               cursor'.next = cursor.next + B /\ cursor'.next % 2^request.mask = 0
    BY <1>1, BlockIsExact DEF RangeInv, InStep
  <1>7. /\ (request.page .. request.page + Passed - 1) \intersect Everything \subseteq flushed
        /\ InSpace(request) => flushed \subseteq request.page .. request.page + Passed - 1
    BY <1>1 DEF RangeInv, InStep
  <1> HIDE DEF m, B, K
  <1>8. Domains'
    <2>1. flushed' \subseteq Everything /\ result' \in {"running", "Err"}
      BY <1>1, <1>3, <1>4
    <2>2. Everything' = Everything /\ Requests' = Requests /\ MaxWord' = MaxWord
      BY DEF Everything, Requests, MaxWord
    <2>3. QED
      BY <1>1, <1>2, <2>1, <2>2 DEF Domains
  <1>9. Planned'
    <2>1. cursor'.remaining <= Total(request)
      BY <1>1, <1>2, <1>5
    <2>2. QED
      BY <1>1, <1>2, <2>1 DEF Planned, NeedsDomain, Total, Span
  <1>10. Total(request)' = Total(request) /\ InSpace(request)' = InSpace(request)
    BY <1>1 DEF Total, Span, InSpace, Wanted, Everything
  <1>11. Passed' = Passed + B /\ Passed \in Nat /\ Passed = Total(request) - cursor.remaining
    BY <1>1, <1>2, <1>5, <1>10 DEF Passed
  <1>12. InStep'
    <2> DEFINE g == request.page
               d == Passed
               A == 2^AddressBits
    <2>1. Everything' = Everything /\ MaxWord' = MaxWord /\ Everything = 0 .. A - 1
      BY DEF Everything, MaxWord
    <2>2. g \in Nat /\ d \in Nat /\ A \in Nat \ {0} /\ MaxWord \in Nat /\ A <= MaxWord + 1
      BY <1>5, <1>11, Bounds
    <2> SUFFICES ASSUME result' = "running"
                 PROVE  /\ (g .. g + (d + B) - 1) \intersect Everything \subseteq flushed'
                        /\ InSpace(request) => flushed' \subseteq g .. g + (d + B) - 1
                        /\ g + (d + B) <= MaxWord =>
                             /\ cursor'.next = g + (d + B)
                             /\ cursor'.next % 2^request.mask = 0
      BY <1>1, <1>10, <1>11, <2>1 DEF InStep
    <2>3. flushed' = flushed \union K
      BY <1>3
    <2>4. InSpace(request) => g + d < A
      <3>1. Total(request) > 0 /\ d < Total(request)
        BY <1>1, <1>5, <1>11
      <3>2. InSpace(request) => g + Total(request) <= A
        BY <1>1, <3>1, InSpaceEnds
      <3>3. QED
        BY <1>5, <2>2, <3>1, <3>2
    <2>5. g + d < A => g + d <= MaxWord /\ K = (g + d .. g + d + B - 1) \intersect Everything
      BY <1>6, <2>2
    <2>6. (g .. g + d - 1) \intersect Everything \subseteq flushed
      BY <1>7
    <2>7. InSpace(request) => flushed \subseteq g .. g + d - 1
      BY <1>7
    <2>8. g + (d + B) <= MaxWord => cursor'.next = g + (d + B) /\ cursor'.next % 2^request.mask = 0
      BY <1>2, <1>6, <2>2
    <2> HIDE DEF g, d, A
    <2>9. ASSUME NEW x \in (g .. g + (d + B) - 1) \intersect Everything PROVE x \in flushed'
      <3>1. CASE x < g + d
        BY <1>2, <2>2, <2>3, <2>6, <2>9, <3>1
      <3>2. CASE x >= g + d
        <4>1. g + d < A /\ x \in g + d .. g + d + B - 1
          BY <1>2, <2>1, <2>2, <2>9, <3>2
        <4>2. QED
          BY <2>3, <2>5, <2>9, <4>1
      <3>3. QED
        BY <1>2, <2>2, <2>9, <3>1, <3>2
    <2>10. ASSUME InSpace(request), NEW x \in flushed' PROVE x \in g .. g + (d + B) - 1
      <3>1. x \in g .. g + d - 1 \/ x \in g + d .. g + d + B - 1
        BY <2>3, <2>4, <2>5, <2>7, <2>10
      <3>2. QED
        BY <1>2, <2>2, <3>1
    <2>11. QED
      BY <2>8, <2>9, <2>10
  <1>13. Outcome'
    BY <1>3 DEF Outcome
  <1>14. QED
    BY <1>8, <1>9, <1>12, <1>13 DEF RangeInv

(* The end of a plan, and every way a call ends without one.               *)
LEMMA OtherSteps ==
  ASSUME RangeInv, NothingToDo \/ FlushDomain \/ RejectTotal \/ Finish
  PROVE  RangeInv'
  <1>1. request' = request /\ cursor' = cursor
    BY DEF NothingToDo, FlushDomain, RejectTotal, Finish
  <1>2. result' \in {"Leaf", "Domain", "Err"} /\ flushed' \in {flushed, flushed \union Everything}
    BY DEF NothingToDo, FlushDomain, RejectTotal, Finish, Submit
  <1>3. Domains'
    <2>1. flushed' \subseteq Everything
      BY <1>2 DEF RangeInv, Domains
    <2>2. Everything' = Everything /\ Requests' = Requests /\ MaxWord' = MaxWord
      BY DEF Everything, Requests, MaxWord
    <2>3. QED
      BY <1>1, <1>2, <2>1, <2>2 DEF RangeInv, Domains
  <1>4. Planned' /\ InStep'
    BY <1>2 DEF Planned, InStep
  <1>5. Wanted(request)' = Wanted(request) /\ InSpace(request)' = InSpace(request) /\ Everything' = Everything
    BY <1>1 DEF Wanted, InSpace, Total, Span, Everything
  <1>6. ASSUME result' = "Domain" PROVE flushed' = Everything
    <2>1. flushed' = flushed \union Everything
      BY <1>6 DEF NothingToDo, FlushDomain, RejectTotal, Finish, Submit
    <2>2. QED
      BY <2>1 DEF RangeInv, Domains
  <1>7. ASSUME result' = "Leaf"
        PROVE  /\ Wanted(request) \intersect Everything \subseteq flushed'
               /\ InSpace(request) => flushed' \subseteq Wanted(request)
    <2>1. CASE NothingToDo
      <3>1. flushed' = {} /\ request.count = 0 /\ request \in Requests
        BY <2>1 DEF NothingToDo, RangeInv, Outcome, Domains
      <3>2. Max({request.mask, 0}) \in 0 .. WordBits
        <4>1. request.mask \in Int /\ 0 \in Int /\ request.mask <= WordBits /\ WordBits \in Nat
          <5>1. request.mask \in GranuleMasks \union {-1}
            BY <3>1 DEF Requests, Unsupported
          <5>2. WordBits \in Nat \ {0} /\ GranuleMasks \subseteq 0 .. WordBits - 1
            BY BoundsAssumption
          <5>3. CASE request.mask = -1
            BY <5>2, <5>3
          <5>4. CASE request.mask \in GranuleMasks
            <6>1. request.mask \in 0 .. WordBits - 1
              BY <5>2, <5>4
            <6>2. QED
              BY <5>2, <6>1
          <5>5. QED
            BY <5>1, <5>3, <5>4
        <4>2. QED
          BY <4>1, MaxOfTwo
      <3>3. Span(request) \in Nat
        BY <3>2, PowerPositive DEF Span
      <3>4. Total(request) = 0 /\ request.page \in Nat
        BY <3>1, <3>3, Bounds DEF Total, Requests, Everything
      <3>5. Wanted(request) = {}
        BY <3>4 DEF Wanted
      <3>6. QED
        BY <3>1, <3>5
    <2>2. CASE Finish
      <3>1. /\ request \in Requests /\ ~NeedsDomain(request) /\ cursor.remaining = 0
            /\ flushed' = flushed
            /\ (request.page .. request.page + Passed - 1) \intersect Everything \subseteq flushed
            /\ InSpace(request) => flushed \subseteq request.page .. request.page + Passed - 1
        BY <1>7, <2>2 DEF Finish, RangeInv, Domains, Planned, InStep
      <3>2. Passed = Total(request)
        BY <3>1, TotalIsWhole DEF Passed
      <3>3. QED
        BY <3>1, <3>2 DEF Wanted
    <2>3. QED
      BY <1>7, <2>1, <2>2 DEF FlushDomain, RejectTotal, Submit
  <1>8. Outcome'
    BY <1>2, <1>5, <1>6, <1>7 DEF Outcome
  <1>9. QED
    BY <1>3, <1>4, <1>8 DEF RangeInv

(* invalidate_iotlb_range keeps the plan, the pages invalidated and the    *)
(* outcome in step, for every request and every refusal by the queue.      *)
THEOREM RangeInvariance == Spec => []RangeInv
  <1>1. Init => RangeInv
    BY RangeStarts
  <1>2. RangeInv /\ [Next]_vars => RangeInv'
    <2> SUFFICES ASSUME RangeInv, [Next]_vars PROVE RangeInv'
      OBVIOUS
    <2>1. CASE StartPlan
      BY <2>1, PlanStarts
    <2>2. CASE FlushBlock
      BY <2>2, BlockStep
    <2>3. CASE NothingToDo \/ FlushDomain \/ RejectTotal \/ Finish
      BY <2>3, OtherSteps
    <2>4. CASE UNCHANGED vars
      BY <2>4 DEF vars, RangeInv, Domains, Planned, InStep, Outcome, Passed
    <2>5. QED
      BY <2>1, <2>2, <2>3, <2>4 DEF Next
  <1>3. QED
    BY <1>1, <1>2, PTL DEF Spec

-----------------------------------------------------------------------------
(* What a caller relies on.                                                *)

(* The unchecked subtraction of a block from remaining_pages never wraps,  *)
(* for any request, hardware mask and word width.                          *)
THEOREM BlockNeverExceeds == Spec => []NoUnderflow
  <1>1. RangeInv => NoUnderflow
    BY DEF RangeInv, Domains, NoUnderflow, TypeOK
  <1>2. QED
    BY <1>1, RangeInvariance, PTL

(* Every block queued for a range whose end is a usize is aligned, not     *)
(* below the page size asked for and not above the hardware maximum.       *)
(* Past that end next_page has saturated and is aligned to nothing.        *)
THEOREM BlocksAreAcceptable == Spec => []BlocksAcceptable
  <1>1. RangeInv => BlocksAcceptable
    <2> SUFFICES ASSUME RangeInv, request.page + Total(request) <= MaxWord + 1,
                        result = "running", cursor.remaining > 0
                 PROVE  LET m == AddressMask(cursor, request)
                        IN cursor.next % 2^m = 0 /\ request.mask <= m /\ m <= request.max
      BY DEF BlocksAcceptable, EndFits
    <2>1. /\ request \in Requests /\ ~NeedsDomain(request)
          /\ cursor \in [next : 0 .. MaxWord, remaining : Nat]
          /\ cursor.remaining % 2^request.mask = 0
      BY DEF RangeInv, Domains, Planned
    <2>2. request.page + Passed <= MaxWord
      <3>1. request.page \in Nat /\ Total(request) \in Nat /\ MaxWord \in Nat /\ cursor.remaining \in Nat
        BY <2>1, PlannedRequest, TotalIsWhole, Bounds
      <3>2. QED
        BY <3>1 DEF Passed
    <2>3. cursor.next % 2^request.mask = 0
      BY <2>2 DEF RangeInv, InStep
    <2>4. /\ AddressMask(cursor, request) \in request.mask .. request.max
          /\ cursor.next % 2^AddressMask(cursor, request) = 0
      BY <2>1, <2>3, MaskFits
    <2>5. request.mask \in 0 .. WordBits - 1 /\ request.max \in request.mask .. WordBits - 1 /\ WordBits \in Nat
      BY <2>1, PlannedRequest
    <2>6. QED
      BY <2>4, <2>5
  <1>2. QED
    BY <1>1, RangeInvariance, PTL

(* An Ok means that every page of the range that exists has been           *)
(* invalidated, for every request; and under a Leaf outcome no others, if  *)
(* the range lies inside the address space.                                *)
THEOREM OkCoversTheRange == Spec => []OkCoversRange
  <1>1. RangeInv => OkCoversRange
    <2> SUFFICES ASSUME RangeInv PROVE OkCoversRange
      OBVIOUS
    <2>1. result = "Leaf" => /\ Wanted(request) \intersect Everything \subseteq flushed
                             /\ InSpace(request) => flushed \subseteq Wanted(request)
      BY DEF RangeInv, Outcome
    <2>2. result = "Domain" => flushed = Everything
      BY DEF RangeInv, Outcome
    <2>3. ASSUME result = "running", InSpace(request) PROVE flushed \subseteq Wanted(request)
      <3>1. /\ request \in Requests /\ ~NeedsDomain(request) /\ cursor.remaining \in Nat
            /\ flushed \subseteq request.page .. request.page + (Total(request) - cursor.remaining) - 1
        BY <2>3 DEF RangeInv, Domains, Planned, InStep, Passed
      <3>2. Total(request) \in Nat /\ request.page \in Nat
        BY <3>1, TotalIsWhole, PlannedRequest
      <3>3. QED
        BY <3>1, <3>2 DEF Wanted
    <2>4. QED
      BY <2>1, <2>2, <2>3 DEF OkCoversRange
  <1>2. QED
    BY <1>1, RangeInvariance, PTL

-----------------------------------------------------------------------------
(* BdfRangeSet: windows and the ids they cover.                            *)

WindowRecords == [start : 0 .. Space - 1, end : 0 .. Space]

(* The ids of the first n windows of w, and the ids at which runs start.   *)
Covered(w, n) == UNION {Bdfs(w[k]) : k \in 0 .. n - 1}
RunStarts(S) == {x \in S : x - 1 \notin S}
Starts(w, n) == {w[k].start : k \in 0 .. n - 1}

(* Window k is one of the first n, and x is in it.                         *)
LEMMA CoveredHas ==
  ASSUME NEW n \in Nat, NEW w, \A k \in 0 .. n - 1 : w[k] \in WindowRecords
  PROVE  \A x : x \in Covered(w, n) <=>
                  x \in Int /\ \E k \in 0 .. n - 1 : w[k].start <= x /\ x < w[k].end
  <1>1. ASSUME NEW k \in 0 .. n - 1, NEW x
        PROVE  x \in Bdfs(w[k]) <=> x \in Int /\ w[k].start <= x /\ x < w[k].end
    <2>1. w[k].start \in Int /\ w[k].end \in Int
      BY SizeAssumption DEF WindowRecords
    <2>2. QED
      BY <2>1 DEF Bdfs
  <1>2. QED
    BY <1>1 DEF Covered

(* A run of what n windows cover starts where one of them does.            *)
LEMMA RunsStartAtWindows ==
  ASSUME NEW n \in Nat, NEW w, \A k \in 0 .. n - 1 : w[k] \in WindowRecords
  PROVE  \A x \in RunStarts(Covered(w, n)) : \E k \in 0 .. n - 1 : x = w[k].start
  <1> SUFFICES ASSUME NEW x \in RunStarts(Covered(w, n))
               PROVE  \E k \in 0 .. n - 1 : x = w[k].start
    OBVIOUS
  <1>1. x \in Covered(w, n) /\ x - 1 \notin Covered(w, n)
    BY DEF RunStarts
  <1>2. PICK k \in 0 .. n - 1 : x \in Int /\ w[k].start <= x /\ x < w[k].end
    BY <1>1, CoveredHas
  <1>3. ~(w[k].start <= x - 1 /\ x - 1 < w[k].end)
    BY <1>1, <1>2, CoveredHas
  <1>4. w[k].start \in Int /\ w[k].end \in Int
    BY SizeAssumption DEF WindowRecords
  <1>5. QED
    BY <1>2, <1>3, <1>4

(* The starts of n windows are at most n, and n if they differ.            *)
LEMMA StartsCounted ==
  ASSUME NEW n \in Nat, NEW w
  PROVE  /\ IsFiniteSet(Starts(w, n)) /\ Cardinality(Starts(w, n)) <= n
         /\ (\A j, k \in 0 .. n - 1 : j # k => w[j].start # w[k].start) => Cardinality(Starts(w, n)) = n
  <1> DEFINE T == {w[k].start : k \in 0 .. n - 1}
             f == [k \in 0 .. n - 1 |-> w[k].start]
  <1>1. IsFiniteSet(0 .. n - 1) /\ Cardinality(0 .. n - 1) = n
    <2>1. 0 \in Int /\ n - 1 \in Int
      OBVIOUS
    <2>2. IsFiniteSet(0 .. n - 1) /\ Cardinality(0 .. n - 1) = IF 0 > n - 1 THEN 0 ELSE (n - 1) - 0 + 1
      BY <2>1, FS_Interval
    <2>3. QED
      BY <2>2
  <1>2. f \in [0 .. n - 1 -> T]
    OBVIOUS
  <1>3. f \in Surjection(0 .. n - 1, T)
    BY <1>2 DEF Surjection
  <1>4. /\ IsFiniteSet(T) /\ Cardinality(T) <= n
        /\ Cardinality(T) = n <=> f \in Injection(0 .. n - 1, T)
    BY <1>1, <1>3, FS_Surjection
  <1>5. ASSUME \A j, k \in 0 .. n - 1 : j # k => w[j].start # w[k].start
        PROVE  f \in Injection(0 .. n - 1, T)
    BY <1>2, <1>5 DEF Injection, IsInjective
  <1>6. T = Starts(w, n)
    BY DEF Starts
  <1>7. QED
    BY <1>4, <1>5, <1>6

(* n windows cover at most n runs.                                         *)
LEMMA RunsAtMost ==
  ASSUME NEW n \in Nat, NEW w, \A k \in 0 .. n - 1 : w[k] \in WindowRecords
  PROVE  /\ IsFiniteSet(RunStarts(Covered(w, n)))
         /\ Cardinality(RunStarts(Covered(w, n))) \in Nat
         /\ Cardinality(RunStarts(Covered(w, n))) <= n
  <1> DEFINE T == Starts(w, n)
             R == RunStarts(Covered(w, n))
  <1>1. R \in SUBSET T
    BY RunsStartAtWindows DEF Starts
  <1>2. IsFiniteSet(T) /\ Cardinality(T) <= n
    BY StartsCounted
  <1> HIDE DEF T, R
  <1>3. IsFiniteSet(R) /\ Cardinality(R) <= Cardinality(T)
    BY <1>1, <1>2, FS_Subset
  <1>4. Cardinality(T) \in Nat /\ Cardinality(R) \in Nat
    BY <1>2, <1>3, FS_CardinalityType
  <1>5. QED
    BY <1>2, <1>3, <1>4 DEF R

(* n windows apart from one another, none of them empty, cover n runs.     *)
LEMMA RunsExactly ==
  ASSUME NEW n \in Nat, NEW w, \A k \in 0 .. n - 1 : w[k] \in WindowRecords,
         \A k \in 0 .. n - 1 : w[k].start < w[k].end,
         \A j, k \in 0 .. n - 1 : j < k => w[j].end < w[k].start
  PROVE  Cardinality(RunStarts(Covered(w, n))) = n
  <1> DEFINE T == Starts(w, n)
             R == RunStarts(Covered(w, n))
  <1>1. \A k \in 0 .. n - 1 : w[k].start \in Int /\ w[k].end \in Int
    BY SizeAssumption DEF WindowRecords
  <1>2. R \subseteq T
    BY RunsStartAtWindows DEF Starts
  <1>3. ASSUME NEW k \in 0 .. n - 1 PROVE w[k].start \in R
    <2>1. w[k].start \in Covered(w, n)
      BY <1>1, CoveredHas
    <2>2. ASSUME w[k].start - 1 \in Covered(w, n) PROVE FALSE
      <3>1. PICK j \in 0 .. n - 1 : w[j].start <= w[k].start - 1 /\ w[k].start - 1 < w[j].end
        BY <2>2, CoveredHas
      <3>2. CASE j < k
        BY <1>1, <3>1, <3>2
      <3>3. CASE k < j
        BY <1>1, <3>1, <3>3
      <3>4. CASE j = k
        BY <1>1, <3>1, <3>4
      <3>5. QED
        BY <3>2, <3>3, <3>4
    <2>3. QED
      BY <2>1, <2>2 DEF RunStarts
  <1>4. R = T
    BY <1>2, <1>3 DEF Starts
  <1>5. \A j, k \in 0 .. n - 1 : j # k => w[j].start # w[k].start
    <2>1. \A j, k \in 0 .. n - 1 : j # k => j < k \/ k < j
      OBVIOUS
    <2>2. QED
      BY <1>1, <2>1
  <1> HIDE DEF T, R
  <1>6. Cardinality(T) = n
    BY <1>5, StartsCounted DEF T
  <1>7. QED
    BY <1>4, <1>6 DEF R

(* An invariant state's windows, spelled out.                              *)
LEMMA WindowFacts ==
  ASSUME SetInv
  PROVE  /\ count \in Nat /\ Capacity \in Nat /\ Space \in Nat /\ count <= Capacity
         /\ windows \in [Indices -> WindowRecords]
         /\ \A k \in Indices : windows[k] \in WindowRecords
         /\ \A k \in Indices : /\ windows[k].start \in Nat /\ windows[k].end \in Nat
                               /\ windows[k].start < Space /\ windows[k].end <= Space
         /\ \A k \in 0 .. count - 1 : k \in Indices /\ k \in Nat
  <1>1. /\ count \in 0 .. Capacity /\ windows \in [Indices -> WindowRecords]
    BY DEF SetInv, Canonical, SetTypeOK, WindowRecords
  <1>2. Capacity \in Nat /\ Space \in Nat
    BY SizeAssumption
  <1>3. \A k \in Indices : windows[k] \in WindowRecords
    BY <1>1
  <1>4. \A c \in WindowRecords : /\ c.start \in Nat /\ c.end \in Nat
                                 /\ c.start < Space /\ c.end <= Space
    BY <1>2 DEF WindowRecords
  <1>5. \A k \in 0 .. count - 1 : k \in Indices /\ k \in Nat
    BY <1>1, <1>2 DEF Indices
  <1>6. QED
    BY <1>1, <1>2, <1>3, <1>4, <1>5

(* A range a caller builds is EMPTY or holds ids.                          *)
LEMMA RangeFacts ==
  ASSUME NEW r \in Ranges
  PROVE  /\ r \in WindowRecords /\ r.start \in Nat /\ r.end \in Nat
         /\ r.start < Space /\ r.end <= Space /\ r.start <= r.end
  <1>1. Space \in Nat /\ Space > 0
    BY SizeAssumption
  <1>2. CASE r = EMPTY
    BY <1>1, <1>2 DEF EMPTY, Window, WindowRecords
  <1>3. CASE r # EMPTY
    <2>1. PICK s \in 0 .. Space - 1 : \E e \in s + 1 .. Space : r = Window(s, e)
      BY <1>3 DEF Ranges
    <2> PICK e \in s + 1 .. Space : r = Window(s, e)
      BY <2>1
    <2>2. s \in Nat /\ e \in Nat /\ s < e /\ e <= Space /\ s < Space
      BY <1>1
    <2>3. r.start = s /\ r.end = e /\ r = [start |-> s, end |-> e]
      BY DEF Window
    <2>4. s \in 0 .. Space - 1 /\ e \in 0 .. Space
      BY <1>1, <2>2
    <2>5. QED
      BY <2>2, <2>3, <2>4 DEF WindowRecords
  <1>4. QED
    BY <1>2, <1>3

(* The scan of insert stops at the first window that touches the range or  *)
(* lies behind it.                                                         *)
LEMMA ScanStops ==
  ASSUME SetInv, NEW r
  PROVE  /\ StopAt(r) \in Nat /\ StopAt(r) <= count
         /\ \A k \in 0 .. count - 1 :
              k < StopAt(r) => ~Touches(r, windows[k]) /\ ~Before(r, windows[k])
         /\ StopAt(r) < count =>
              Touches(r, windows[StopAt(r)]) \/ Before(r, windows[StopAt(r)])
  <1> DEFINE T == {count} \union {k \in 0 .. count - 1 : Touches(r, windows[k]) \/ Before(r, windows[k])}
  <1>1. count \in Nat /\ T \in SUBSET Nat /\ T # {}
    BY WindowFacts
  <1>2. PICK x \in T : \A y \in T : x <= y
    BY <1>1, LeastElement
  <1>3. x \in Nat /\ \A y \in T : y \in Nat
    BY <1>1
  <1>4. Min(T) \in T /\ \A y \in T : Min(T) <= y
    BY <1>2 DEF Min
  <1>5. StopAt(r) = Min(T)
    BY DEF StopAt
  <1> DEFINE i == Min(T)
  <1> HIDE DEF i
  <1>6. i \in T /\ \A y \in T : i <= y
    BY <1>4 DEF i
  <1>7. i \in Nat /\ i <= count
    BY <1>1, <1>6
  <1>8. ASSUME NEW k \in 0 .. count - 1, k < i
        PROVE  ~Touches(r, windows[k]) /\ ~Before(r, windows[k])
    <2>1. k \notin T
      BY <1>6, <1>7, <1>8
    <2>2. QED
      BY <2>1
  <1>9. i < count => Touches(r, windows[i]) \/ Before(r, windows[i])
    <2>1. i # count => i \in {k \in 0 .. count - 1 : Touches(r, windows[k]) \/ Before(r, windows[k])}
      BY <1>6
    <2>2. QED
      BY <1>1, <1>7, <2>1
  <1>10. QED
    BY <1>5, <1>7, <1>8, <1>9 DEF i

(* Where the windows of an idle set lie to a new range: the ones before    *)
(* the place of the scan end in front of it and the others start behind    *)
(* it.                                                                     *)
LEMMA NewRangeApart ==
  ASSUME SetInv, phase = "idle", NEW r \in Ranges, IsNew(r)
  PROVE  /\ r.start < r.end
         /\ \A k \in 0 .. count - 1 :
              /\ k < StopAt(r) => windows[k].end < r.start
              /\ k >= StopAt(r) => r.end < windows[k].start
  <1> DEFINE i == StopAt(r)
  <1>1. /\ r.start \in Nat /\ r.end \in Nat /\ r.start <= r.end
    BY RangeFacts
  <1>2. i \in Nat /\ i <= count
    BY ScanStops
  <1>3. r.start < r.end
    BY <1>1 DEF IsNew, HasAlready
  <1>4. ASSUME NEW k \in 0 .. count - 1
        PROVE  /\ k < i => windows[k].end < r.start
               /\ k >= i => r.end < windows[k].start
    <2>1. windows[k].start \in Nat /\ windows[k].end \in Nat /\ k \in Nat
      BY WindowFacts
    <2>2. ASSUME k < i PROVE windows[k].end < r.start
      <3>1. ~Touches(r, windows[k]) /\ ~Before(r, windows[k])
        BY <2>2, ScanStops
      <3>2. QED
        BY <1>1, <2>1, <3>1 DEF Touches, Before
    <2>3. ASSUME k >= i PROVE r.end < windows[k].start
      <3>1. i < count /\ i \in 0 .. count - 1 /\ count \in Nat
        BY <1>2, <2>1, <2>3, WindowFacts
      <3>2. ~Touches(r, windows[i])
        BY <3>1 DEF IsNew
      <3>3. Before(r, windows[i])
        BY <3>1, <3>2, ScanStops
      <3>4. windows[i].start \in Nat /\ windows[i].end \in Nat /\ windows[i].start < windows[i].end
        BY <3>1, WindowFacts DEF SetInv, Canonical
      <3>5. r.end < windows[i].start
        BY <1>1, <3>2, <3>3, <3>4 DEF Touches, Before
      <3>6. i < k => windows[i].start < windows[k].start
        BY <3>1 DEF SetInv, OthersApart
      <3>7. i = k \/ i < k
        BY <1>2, <2>1, <2>3
      <3>8. QED
        BY <1>1, <2>1, <3>4, <3>5, <3>6, <3>7
    <2>4. QED
      BY <2>2, <2>3
  <1>5. QED
    BY <1>3, <1>4

(* The windows with a new range put in its place: count + 1 windows apart, *)
(* which cover the ids of the set and of the range.                        *)
Spliced(r) ==
  [k \in 0 .. count |-> CASE k < StopAt(r) -> windows[k]
                          [] k = StopAt(r) -> r
                          [] OTHER -> windows[k - 1]]

(* Each of them.                                                           *)
LEMMA SplicedPointwise ==
  ASSUME SetInv, NEW r
  PROVE  /\ \A k \in 0 .. count : k < StopAt(r) => Spliced(r)[k] = windows[k]
         /\ Spliced(r)[StopAt(r)] = r /\ StopAt(r) \in 0 .. count
         /\ \A k \in 0 .. count : StopAt(r) < k => Spliced(r)[k] = windows[k - 1]
  <1>1. StopAt(r) \in Nat /\ StopAt(r) <= count /\ count \in Nat
    BY ScanStops, WindowFacts
  <1>2. \A k \in 0 .. count : StopAt(r) < k => ~(k < StopAt(r)) /\ k # StopAt(r)
    BY <1>1
  <1>3. StopAt(r) \in 0 .. count /\ ~(StopAt(r) < StopAt(r))
    BY <1>1
  <1>4. QED
    BY <1>1, <1>2, <1>3 DEF Spliced

(* They are windows, apart from one another.                               *)
LEMMA SplicedApart ==
  ASSUME SetInv, phase = "idle", NEW r \in Ranges, IsNew(r)
  PROVE  /\ \A k \in 0 .. count : Spliced(r)[k] \in WindowRecords
         /\ \A k \in 0 .. count : Spliced(r)[k].start < Spliced(r)[k].end
         /\ \A j, k \in 0 .. count : j < k => Spliced(r)[j].end < Spliced(r)[k].start
  <1> DEFINE i == StopAt(r)
             w == Spliced(r)
  <1>1. i \in Nat /\ i <= count /\ count \in Nat
    BY ScanStops, WindowFacts
  <1>2. /\ \A k \in 0 .. count : k < i => w[k] = windows[k]
        /\ w[i] = r
        /\ \A k \in 0 .. count : i < k => w[k] = windows[k - 1]
    BY SplicedPointwise
  <1>3. /\ r.start < r.end
        /\ \A k \in 0 .. count - 1 : /\ k < i => windows[k].end < r.start
                                     /\ k >= i => r.end < windows[k].start
    BY NewRangeApart
  <1>4. /\ \A k \in 0 .. count - 1 : windows[k] \in WindowRecords /\ windows[k].start < windows[k].end
        /\ \A j, k \in 0 .. count - 1 : j < k => windows[j].end < windows[k].start
    BY WindowFacts DEF SetInv, Canonical, OthersApart
  <1>5. r \in WindowRecords /\ r.start \in Nat /\ r.end \in Nat
    BY RangeFacts
  <1>6. \A k \in 0 .. count - 1 : windows[k].start \in Nat /\ windows[k].end \in Nat
    BY WindowFacts
  <1> HIDE DEF i, w
  <1>7. \A k \in 0 .. count : /\ k < i => k \in 0 .. count - 1
                              /\ i < k => k - 1 \in 0 .. count - 1 /\ k - 1 >= i
                              /\ k < i \/ k = i \/ i < k
    BY <1>1
  <1>8. ASSUME NEW k \in 0 .. count PROVE w[k] \in WindowRecords /\ w[k].start < w[k].end
    BY <1>2, <1>3, <1>4, <1>5, <1>7
  <1>9. ASSUME NEW j \in 0 .. count, NEW k \in 0 .. count, j < k PROVE w[j].end < w[k].start
    <2>1. CASE k < i
      <3>1. j < i /\ j \in 0 .. count - 1 /\ k \in 0 .. count - 1
        BY <1>1, <1>9, <2>1
      <3>2. QED
        BY <1>2, <1>4, <1>9, <2>1, <3>1
    <2>2. CASE k = i
      BY <1>2, <1>3, <1>7, <1>9, <2>2
    <2>3. CASE i < k /\ j = i
      BY <1>2, <1>3, <1>7, <2>3
    <2>4. CASE i < k /\ i < j
      <3>1. j - 1 < k - 1
        BY <1>9
      <3>2. QED
        BY <1>2, <1>4, <1>7, <2>4, <3>1
    <2>5. CASE i < k /\ j < i
      <3>1. j < k - 1 /\ j \in 0 .. count - 1 /\ k - 1 \in 0 .. count - 1
        BY <1>1, <1>7, <2>5
      <3>2. QED
        BY <1>2, <1>4, <2>5, <3>1
    <2>6. QED
      BY <1>7, <2>1, <2>2, <2>3, <2>4, <2>5
  <1>10. QED
    BY <1>8, <1>9 DEF w

(* They cover the set and the range.                                       *)
LEMMA SplicedCovers ==
  ASSUME SetInv, phase = "idle", NEW r \in Ranges, IsNew(r)
  PROVE  Covered(Spliced(r), count + 1) = Members \union Bdfs(r)
  <1> DEFINE i == StopAt(r)
             w == Spliced(r)
  <1>1. i \in Nat /\ i <= count /\ count \in Nat /\ (count + 1) - 1 = count
    BY ScanStops, WindowFacts
  <1>2. /\ \A k \in 0 .. count : k < i => w[k] = windows[k]
        /\ w[i] = r
        /\ \A k \in 0 .. count : i < k => w[k] = windows[k - 1]
    BY SplicedPointwise
  <1> HIDE DEF i, w
  <1>3. ASSUME NEW x \in Bdfs(r) \union Members PROVE \E k \in 0 .. count : x \in Bdfs(w[k])
    <2>1. CASE x \in Bdfs(r)
      BY <1>1, <1>2, <2>1
    <2>2. CASE x \in Members
      <3>1. PICK k \in 0 .. count - 1 : x \in Bdfs(windows[k])
        BY <2>2 DEF Members
      <3>2. CASE k < i
        <4>1. k \in 0 .. count /\ w[k] = windows[k]
          BY <1>1, <1>2, <3>2
        <4>2. QED
          BY <3>1, <4>1
      <3>3. CASE ~(k < i)
        <4>1. k + 1 \in 0 .. count /\ i < k + 1 /\ (k + 1) - 1 = k
          BY <1>1, <3>3
        <4>2. w[k + 1] = windows[k]
          BY <1>2, <4>1
        <4>3. QED
          BY <3>1, <4>1, <4>2
      <3>4. QED
        BY <3>2, <3>3
    <2>3. QED
      BY <2>1, <2>2
  <1>4. ASSUME NEW k \in 0 .. count, NEW x \in Bdfs(w[k]) PROVE x \in Bdfs(r) \union Members
    <2>1. CASE k < i
      <3>1. k \in 0 .. count - 1 /\ w[k] = windows[k]
        BY <1>1, <1>2, <2>1
      <3>2. QED
        BY <3>1, <1>4 DEF Members
    <2>2. CASE k = i
      BY <1>2, <1>4, <2>2
    <2>3. CASE i < k
      <3>1. k - 1 \in 0 .. count - 1 /\ w[k] = windows[k - 1]
        BY <1>1, <1>2, <2>3
      <3>2. QED
        BY <3>1, <1>4 DEF Members
    <2>4. QED
      BY <1>1, <2>1, <2>2, <2>3
  <1>5. Covered(w, count + 1) = UNION {Bdfs(w[k]) : k \in 0 .. count}
    BY <1>1 DEF Covered
  <1>6. QED
    BY <1>3, <1>4, <1>5 DEF w

(* A new range makes one run more: no count windows could hold the result. *)
LEMMA OneRunMore ==
  ASSUME SetInv, phase = "idle", NEW r \in Ranges, IsNew(r)
  PROVE  Cardinality(RunStarts(Members \union Bdfs(r))) = count + 1
  <1>1. count + 1 \in Nat /\ (count + 1) - 1 = count
    BY WindowFacts
  <1>2. Cardinality(RunStarts(Covered(Spliced(r), count + 1))) = count + 1
    BY <1>1, SplicedApart, RunsExactly
  <1>3. QED
    BY <1>2, SplicedCovers

(* The ids of a range are requester ids.                                   *)
LEMMA AskedTyped ==
  ASSUME NEW r \in Ranges
  PROVE  Bdfs(r) \subseteq 0 .. Space - 1
  <1>1. r.start \in Nat /\ r.end \in Nat /\ r.end <= Space /\ Space \in Nat
    BY RangeFacts, SizeAssumption
  <1>2. QED
    BY <1>1 DEF Bdfs

-----------------------------------------------------------------------------
(* The steps of insert.                                                    *)

(* A range that is empty or inside a window adds no id.                    *)
LEMMA KeepStep ==
  ASSUME SetInv, phase = "idle", NEW r \in Ranges, KeepWindows(r), asked' = Bdfs(r)
  PROVE  SetInv' /\ Members' = Members \union Bdfs(r)
  <1>1. UNCHANGED <<windows, count, phase, index>> /\ answer' = "Ok" /\ HasAlready(r)
    BY DEF KeepWindows
  <1>2. SetTypeOK'
    BY <1>1, AskedTyped DEF SetInv, Canonical, SetTypeOK, Indices
  <1>3. SetInv'
    BY <1>1, <1>2 DEF SetInv, Canonical, OthersApart
  <1>4. Members' = Members
    BY <1>1 DEF Members
  <1>5. r.start \in Nat /\ r.end \in Nat
    BY RangeFacts
  <1>6. CASE r.start = r.end
    <2>1. Bdfs(r) = {}
      BY <1>5, <1>6 DEF Bdfs
    <2>2. QED
      BY <1>3, <1>4, <2>1
  <1>7. CASE r.start # r.end
    <2> DEFINE i == StopAt(r)
    <2>1. i < count /\ Inside(r, windows[i])
      BY <1>1, <1>7 DEF HasAlready
    <2>2. i \in 0 .. count - 1
      <3>1. i \in Nat /\ count \in Nat
        BY ScanStops, WindowFacts
      <3>2. QED
        BY <2>1, <3>1
    <2>3. windows[i].start \in Nat /\ windows[i].end \in Nat
      BY <2>2, WindowFacts
    <2>4. Bdfs(r) \subseteq Bdfs(windows[i])
      BY <1>5, <2>1, <2>3 DEF Bdfs, Inside
    <2>5. Bdfs(windows[i]) \subseteq Members
      BY <2>2 DEF Members
    <2>6. QED
      BY <1>3, <1>4, <2>4, <2>5
  <1>8. QED
    BY <1>6, <1>7

(* Full changes nothing.                                                   *)
LEMMA RefuseStep ==
  ASSUME SetInv, phase = "idle", NEW r \in Ranges, Refuse(r), asked' = Bdfs(r)
  PROVE  SetInv' /\ Members' = Members
  <1>1. UNCHANGED <<windows, count, phase, index>> /\ answer' = "Full"
    BY DEF Refuse
  <1>2. SetTypeOK'
    BY <1>1, AskedTyped DEF SetInv, Canonical, SetTypeOK, Indices
  <1>3. QED
    BY <1>1, <1>2 DEF SetInv, Canonical, OthersApart, Members

(* insert_at splices the range into the array.                             *)
LEMMA InsertAtStep ==
  ASSUME SetInv, phase = "idle", NEW r \in Ranges, InsertAt(r), asked' = Bdfs(r)
  PROVE  SetInv' /\ Members' = Members \union Bdfs(r)
  <1> DEFINE i == StopAt(r)
             w == Spliced(r)
  <1>1. /\ IsNew(r) /\ count < Capacity
        /\ windows' = [k \in Indices |-> CASE k < i -> windows[k]
                                           [] k = i -> r
                                           [] i < k /\ k <= count -> windows[k - 1]
                                           [] OTHER -> windows[k]]
        /\ count' = count + 1 /\ phase' = "left" /\ index' = i /\ answer' = "Ok"
    BY DEF InsertAt
  <1>2. /\ i \in Nat /\ i <= count /\ count \in Nat /\ Capacity \in Nat
        /\ count' - 1 = count
    BY <1>1, ScanStops, WindowFacts
  <1>3. /\ \A k \in 0 .. count : k < i => w[k] = windows[k]
        /\ w[i] = r
        /\ \A k \in 0 .. count : i < k => w[k] = windows[k - 1]
    BY SplicedPointwise
  <1>4. /\ \A k \in 0 .. count : w[k] \in WindowRecords
        /\ \A k \in 0 .. count : w[k].start < w[k].end
        /\ \A j, k \in 0 .. count : j < k => w[j].end < w[k].start
    BY <1>1, SplicedApart
  <1>5. Covered(w, count + 1) = Members \union Bdfs(r)
    BY <1>1, SplicedCovers
  <1>6. /\ \A k \in Indices : windows[k] \in WindowRecords
        /\ \A k \in count .. Capacity - 1 : windows[k] = EMPTY
    BY WindowFacts DEF SetInv, Canonical
  <1> HIDE DEF i, w
  <1>7. \A k \in 0 .. count : k \in Indices
    BY <1>1, <1>2 DEF Indices
  <1>8. ASSUME NEW k \in 0 .. count PROVE windows'[k] = w[k]
    <2>1. CASE k < i
      BY <1>1, <1>3, <1>7, <2>1
    <2>2. CASE k = i
      <3>1. ~(k < i)
        BY <1>2, <2>2
      <3>2. windows'[k] = r
        BY <1>1, <1>7, <2>2, <3>1
      <3>3. QED
        BY <1>3, <2>2, <3>2
    <2>3. CASE i < k
      <3>1. ~(k < i) /\ k # i /\ k <= count
        BY <1>2, <2>3
      <3>2. windows'[k] = windows[k - 1]
        BY <1>1, <1>7, <2>3, <3>1
      <3>3. QED
        BY <1>3, <2>3, <3>2
    <2>4. QED
      BY <1>2, <2>1, <2>2, <2>3
  <1>9. ASSUME NEW k \in Indices, k > count PROVE windows'[k] = windows[k]
    <2>1. ~(k < i) /\ k # i /\ ~(i < k /\ k <= count)
      BY <1>2, <1>9 DEF Indices
    <2>2. QED
      BY <1>1, <2>1
  <1>10. ASSUME NEW k \in Indices PROVE windows'[k] \in WindowRecords
    <2>1. k \in 0 .. count \/ k > count
      BY <1>2 DEF Indices
    <2>2. QED
      BY <1>4, <1>6, <1>8, <1>9, <2>1
  <1>11. windows' \in [Indices -> WindowRecords]
    <2>1. windows' = [k \in Indices |-> windows'[k]]
      BY <1>1
    <2>2. QED
      BY <1>10, <2>1
  <1>12. SetTypeOK'
    <2>1. count' \in 0 .. Capacity /\ index' \in Indices
      BY <1>1, <1>2 DEF Indices
    <2>2. QED
      BY <1>1, <1>11, <2>1, AskedTyped DEF SetTypeOK, Indices, WindowRecords
  <1>13. Canonical'
    <2>1. \A k \in 0 .. count' - 1 : windows'[k].start < windows'[k].end
      BY <1>2, <1>4, <1>8
    <2>2. ASSUME NEW k \in count' .. Capacity - 1 PROVE windows'[k] = EMPTY
      <3>1. k \in Indices /\ k > count /\ k \in count .. Capacity - 1
        BY <1>1, <1>2 DEF Indices
      <3>2. QED
        BY <1>6, <1>9, <3>1
    <2>3. phase' # "idle"
      BY <1>1
    <2>4. QED
      BY <1>12, <2>1, <2>2, <2>3 DEF Canonical, EMPTY, Window
  <1>14. OthersApart'
    <2>1. index' < count'
      BY <1>1, <1>2
    <2>2. ASSUME NEW j \in 0 .. count' - 1, NEW k \in 0 .. count' - 1, j < k
          PROVE  windows'[j].start < windows'[k].start /\ windows'[j].end < windows'[k].start
      <3>1. j \in 0 .. count /\ k \in 0 .. count
        BY <1>2
      <3>2. w[j].end < w[k].start /\ w[j].start < w[j].end
        BY <1>4, <2>2, <3>1
      <3>3. w[j].start \in Int /\ w[j].end \in Int /\ w[k].start \in Int
        BY <1>4, <3>1, SizeAssumption DEF WindowRecords
      <3>4. w[j].start < w[k].start
        BY <3>2, <3>3
      <3>5. QED
        BY <1>8, <3>1, <3>2, <3>4
    <2>3. QED
      BY <2>1, <2>2 DEF OthersApart
  <1>15. Members' = Covered(w, count + 1)
    <2>1. Members' = UNION {Bdfs(windows'[k]) : k \in 0 .. count}
      BY <1>2 DEF Members, Bdfs
    <2>2. Covered(w, count + 1) = UNION {Bdfs(w[k]) : k \in 0 .. count}
      BY <1>1, <1>2 DEF Covered
    <2>3. QED
      BY <1>8, <2>1, <2>2
  <1>16. QED
    BY <1>5, <1>13, <1>14, <1>15 DEF SetInv

(* Two windows that touch make one, with the ids of both.                  *)
LEMMA Joined ==
  ASSUME NEW c \in WindowRecords, NEW r \in WindowRecords,
         c.start < c.end, r.start < r.end, r.start <= c.end, r.end >= c.start,
         NEW u, u = Window(Min({c.start, r.start}), Max({c.end, r.end}))
  PROVE  /\ u \in WindowRecords /\ u.start < u.end /\ Bdfs(u) = Bdfs(c) \union Bdfs(r)
         /\ u.start = IF c.start <= r.start THEN c.start ELSE r.start
  <1>1. /\ c.start \in Int /\ c.end \in Int /\ r.start \in Int /\ r.end \in Int
        /\ c.start \in 0 .. Space - 1 /\ r.start \in 0 .. Space - 1
        /\ c.end \in 0 .. Space /\ r.end \in 0 .. Space
    BY SizeAssumption DEF WindowRecords
  <1>2. /\ u.start = IF c.start <= r.start THEN c.start ELSE r.start
        /\ u.end = IF c.end >= r.end THEN c.end ELSE r.end
        /\ u = [start |-> u.start, end |-> u.end]
    BY <1>1, MaxOfTwo, MinOfTwo DEF Window
  <1>3. u.start \in 0 .. Space - 1 /\ u.end \in 0 .. Space
    BY <1>1, <1>2
  <1>4. u \in WindowRecords
    BY <1>2, <1>3 DEF WindowRecords
  <1>5. u.start < u.end
    BY <1>1, <1>2
  <1>6. Bdfs(u) = Bdfs(c) \union Bdfs(r)
    BY <1>1, <1>2 DEF Bdfs
  <1>7. QED
    BY <1>2, <1>4, <1>5, <1>6

(* The window at the place of the scan grows; those before it stay apart   *)
(* from it.                                                                *)
LEMMA ExtendStep ==
  ASSUME SetInv, phase = "idle", NEW r \in Ranges, ExtendWindow(r), asked' = Bdfs(r)
  PROVE  SetInv' /\ Members' = Members \union Bdfs(r)
  <1> DEFINE i == StopAt(r)
             c == windows[i]
             u == Window(Min({c.start, r.start}), Max({c.end, r.end}))
  <1>1. /\ ~HasAlready(r) /\ i < count /\ Touches(r, c)
        /\ windows' = [windows EXCEPT ![i] = u]
        /\ phase' = "left" /\ index' = i /\ answer' = "Ok" /\ count' = count
    BY DEF ExtendWindow
  <1>2. i \in Nat /\ count \in Nat /\ Capacity \in Nat /\ count <= Capacity
    BY ScanStops, WindowFacts
  <1>3. i \in 0 .. count - 1 /\ i \in Indices
    BY <1>1, <1>2 DEF Indices
  <1>4. /\ r \in WindowRecords /\ r.start \in Nat /\ r.end \in Nat /\ r.start < r.end
    BY <1>1, RangeFacts DEF HasAlready
  <1>5. /\ \A k \in 0 .. count - 1 : k \in Indices /\ windows[k].start < windows[k].end
        /\ \A j, k \in 0 .. count - 1 : j < k => /\ windows[j].start < windows[k].start
                                                 /\ windows[j].end < windows[k].start
        /\ \A k \in Indices : /\ windows[k] \in WindowRecords
                              /\ windows[k].start \in Nat /\ windows[k].end \in Nat
        /\ windows \in [Indices -> WindowRecords]
        /\ \A k \in count .. Capacity - 1 : windows[k] = EMPTY
    BY WindowFacts DEF SetInv, Canonical, OthersApart
  <1>6. /\ u \in WindowRecords /\ u.start < u.end /\ Bdfs(u) = Bdfs(c) \union Bdfs(r)
        /\ u.start = IF c.start <= r.start THEN c.start ELSE r.start
    BY <1>1, <1>3, <1>4, <1>5, Joined DEF Touches
  <1>7. ASSUME NEW j \in 0 .. count - 1, j < i PROVE windows[j].end < r.start
    <2>1. ~Touches(r, windows[j]) /\ ~Before(r, windows[j])
      BY <1>7, ScanStops
    <2>2. windows[j].start \in Nat /\ windows[j].end \in Nat
      BY <1>5
    <2>3. QED
      BY <1>4, <2>1, <2>2 DEF Touches, Before
  <1>8. c.start \in Nat /\ c.end \in Nat
    BY <1>3, <1>5
  <1> HIDE DEF i, u, c
  <1>9. u.start \in Nat /\ u.start <= c.start
    BY <1>4, <1>6, <1>8
  <1>10. windows'[i] = u /\ \A k \in Indices : k # i => windows'[k] = windows[k]
    BY <1>1, <1>3, <1>5
  <1>11. windows' \in [Indices -> WindowRecords]
    BY <1>1, <1>5, <1>6
  <1>12. SetTypeOK'
    <2>1. count' \in 0 .. Capacity /\ index' \in Indices
      BY <1>1, <1>2, <1>3
    <2>2. QED
      BY <1>1, <1>11, <2>1, AskedTyped DEF SetTypeOK, Indices, WindowRecords
  <1>13. Canonical'
    <2>1. \A k \in 0 .. count' - 1 : windows'[k].start < windows'[k].end
      BY <1>1, <1>5, <1>6, <1>10
    <2>2. ASSUME NEW k \in count' .. Capacity - 1 PROVE windows'[k] = EMPTY
      <3>1. k \in Indices /\ k # i /\ k \in count .. Capacity - 1
        BY <1>1, <1>2 DEF Indices
      <3>2. QED
        BY <1>5, <1>10, <3>1
    <2>3. phase' # "idle"
      BY <1>1
    <2>4. QED
      BY <1>12, <2>1, <2>2, <2>3 DEF Canonical, EMPTY, Window
  <1>14. OthersApart'
    <2>1. index' < count'
      BY <1>1
    <2>2. ASSUME NEW j \in 0 .. count - 1, NEW k \in 0 .. count - 1, j < k
          PROVE  windows'[j].start < windows'[k].start
                 /\ (j # i => windows'[j].end < windows'[k].start)
      <3>1. /\ windows[j].start < windows[k].start /\ windows[j].end < windows[k].start
            /\ windows[j].start \in Nat /\ windows[j].end \in Nat /\ windows[k].start \in Nat
            /\ windows[j].start < windows[j].end
        BY <1>5, <2>2
      <3>2. CASE k = i
        <4>1. windows'[j] = windows[j] /\ windows[j].end < r.start /\ windows'[k] = u
          BY <1>5, <1>7, <1>10, <2>2, <3>2
        <4>2. windows[j].end < c.start
          BY <3>1, <3>2 DEF c
        <4>3. windows[j].end < u.start
          BY <1>6, <4>1, <4>2
        <4>4. QED
          BY <1>9, <3>1, <4>1, <4>3
      <3>3. CASE j = i
        <4>1. windows'[k] = windows[k] /\ windows'[j] = u /\ c.start < windows[k].start
          BY <1>5, <1>10, <2>2, <3>1, <3>3 DEF c
        <4>2. QED
          BY <1>8, <1>9, <3>1, <3>3, <4>1
      <3>4. CASE j # i /\ k # i
        BY <1>5, <1>10, <3>1, <3>4
      <3>5. QED
        BY <3>2, <3>3, <3>4
    <2>3. QED
      BY <1>1, <2>1, <2>2 DEF OthersApart
  <1>15. Members' = Members \union Bdfs(r)
    <2>1. Members' = UNION {Bdfs(windows'[k]) : k \in 0 .. count - 1}
      BY <1>1 DEF Members, Bdfs
    <2>2. Members = UNION {Bdfs(windows[k]) : k \in 0 .. count - 1}
      BY DEF Members
    <2>3. \A k \in 0 .. count - 1 : Bdfs(windows'[k]) = IF k = i THEN Bdfs(windows[k]) \union Bdfs(r)
                                                      ELSE Bdfs(windows[k])
      BY <1>5, <1>6, <1>10 DEF c
    <2>4. QED
      BY <1>3, <2>1, <2>2, <2>3
  <1>16. QED
    BY <1>13, <1>14, <1>15 DEF SetInv

(* The loop to the left finds nothing to merge: insert has stopped at the  *)
(* first window the range touches.                                         *)
LEMMA LeftStep ==
  ASSUME SetInv, MergeLeft
  PROVE  SetInv' /\ Members' = Members /\ UNCHANGED <<windows, count, index, asked, answer>>
  <1>1. count \in Nat /\ index \in Indices /\ phase = "left" /\ index < count /\ Capacity \in Nat
    BY WindowFacts DEF SetInv, Canonical, SetTypeOK, OthersApart, MergeLeft
  <1>2. ~(index > 0 /\ Merges(index - 1, index))
    <2> SUFFICES ASSUME index > 0 PROVE ~(windows[index].start <= windows[index - 1].end)
      BY DEF Merges
    <2>1. /\ index - 1 \in 0 .. count - 1 /\ index \in 0 .. count - 1
          /\ index - 1 < index /\ index - 1 # index
      BY <1>1 DEF Indices
    <2>2. windows[index - 1].end < windows[index].start
      BY <2>1 DEF SetInv, OthersApart
    <2>3. windows[index - 1].end \in Nat /\ windows[index].start \in Nat
      BY <2>1, WindowFacts
    <2>4. QED
      BY <2>2, <2>3
  <1>3. phase' = "right" /\ UNCHANGED <<windows, count, index, asked, answer>>
    BY <1>2 DEF MergeLeft
  <1>4. SetTypeOK'
    BY <1>3 DEF SetInv, Canonical, SetTypeOK, Indices
  <1>5. Canonical'
    BY <1>3, <1>4 DEF SetInv, Canonical, EMPTY, Window
  <1>6. OthersApart'
    BY <1>1, <1>3 DEF SetInv, OthersApart
  <1>7. QED
    BY <1>3, <1>5, <1>6 DEF SetInv, Members

(* Merging the window at the index with the next one: it grows, and the    *)
(* ones behind move down by one.                                           *)
LEMMA MergeEffect ==
  ASSUME SetInv, phase = "right", index + 1 < count, MergePair(index, index + 1)
  PROVE  /\ windows' \in [Indices -> WindowRecords] /\ count' = count - 1
         /\ windows'[index] = Window(windows[index].start,
                                     Max({windows[index].end, windows[index + 1].end}))
         /\ \A k \in 0 .. count - 1 :
              /\ k < index => windows'[k] = windows[k]
              /\ index < k /\ k < count - 1 => windows'[k] = windows[k + 1]
         /\ \A k \in count - 1 .. Capacity - 1 : windows'[k] = EMPTY
  <1> DEFINE e == Max({windows[index].end, windows[index + 1].end})
             w == [windows EXCEPT ![index].end = e]
  <1>1. /\ windows' = [k \in Indices |-> CASE index + 1 <= k /\ k < count - 1 -> w[k + 1]
                                           [] k = count - 1 -> EMPTY
                                           [] OTHER -> w[k]]
        /\ count' = count - 1
    BY DEF MergePair, Remove
  <1>2. /\ index \in Nat /\ count \in Nat /\ Capacity \in Nat /\ count <= Capacity
        /\ index \in Indices /\ index + 1 \in Indices
    <2>1. count \in Nat /\ Capacity \in Nat /\ count <= Capacity /\ index \in Indices
      BY WindowFacts DEF SetInv, Canonical, SetTypeOK
    <2>2. QED
      BY <2>1 DEF Indices
  <1>3. /\ windows \in [Indices -> WindowRecords]
        /\ \A k \in Indices : windows[k] \in WindowRecords
        /\ \A k \in count .. Capacity - 1 : windows[k] = EMPTY
    BY WindowFacts DEF SetInv, Canonical
  <1>4. e \in 0 .. Space
    <2>1. /\ windows[index].end \in 0 .. Space /\ windows[index + 1].end \in 0 .. Space
          /\ windows[index].end \in Int /\ windows[index + 1].end \in Int
      BY <1>2, <1>3, SizeAssumption DEF WindowRecords
    <2>2. QED
      BY <2>1, MaxOfTwo
  <1> HIDE DEF e
  <1>5. /\ w[index] = Window(windows[index].start, e)
        /\ \A k \in Indices : k # index => w[k] = windows[k]
    BY <1>2, <1>3 DEF WindowRecords, Window
  <1>6. Window(windows[index].start, e) \in WindowRecords /\ EMPTY \in WindowRecords
    <2>1. windows[index].start \in 0 .. Space - 1
      BY <1>2, <1>3 DEF WindowRecords
    <2>2. 0 \in 0 .. Space - 1 /\ 0 \in 0 .. Space
      BY SizeAssumption
    <2>3. QED
      BY <1>4, <2>1, <2>2 DEF WindowRecords, Window, EMPTY
  <1>7. \A k \in Indices : w[k] \in WindowRecords
    BY <1>3, <1>5, <1>6
  <1> HIDE DEF w
  <1>8. windows'[index] = w[index]
    <2>1. ~(index + 1 <= index) /\ index # count - 1
      BY <1>2
    <2>2. QED
      BY <1>1, <1>2, <2>1
  <1>9. ASSUME NEW k \in 0 .. count - 1, k < index PROVE windows'[k] = windows[k]
    <2>1. k \in Indices /\ ~(index + 1 <= k) /\ k # count - 1 /\ k # index
      BY <1>2, <1>9 DEF Indices
    <2>2. windows'[k] = w[k]
      BY <1>1, <2>1
    <2>3. QED
      BY <1>5, <2>1, <2>2
  <1>10. ASSUME NEW k \in 0 .. count - 1, index < k, k < count - 1 PROVE windows'[k] = windows[k + 1]
    <2>1. k \in Indices /\ k + 1 \in Indices /\ index + 1 <= k /\ k + 1 # index
      BY <1>2, <1>10 DEF Indices
    <2>2. windows'[k] = w[k + 1]
      BY <1>1, <1>10, <2>1
    <2>3. QED
      BY <1>5, <2>1, <2>2
  <1>11. ASSUME NEW k \in count - 1 .. Capacity - 1 PROVE windows'[k] = EMPTY
    <2>1. k \in Indices /\ ~(k < count - 1) /\ k # index
      BY <1>2 DEF Indices
    <2>2. CASE k = count - 1
      BY <1>1, <2>1, <2>2
    <2>3. CASE k # count - 1
      <3>1. k \in count .. Capacity - 1
        BY <1>2, <2>3
      <3>2. windows'[k] = w[k]
        BY <1>1, <2>1, <2>3
      <3>3. QED
        BY <1>3, <1>5, <2>1, <3>1, <3>2
    <2>4. QED
      BY <2>2, <2>3
  <1>12. ASSUME NEW k \in Indices PROVE windows'[k] \in WindowRecords
    <2>1. CASE index + 1 <= k /\ k < count - 1
      <3>1. k + 1 \in Indices /\ windows'[k] = w[k + 1]
        BY <1>1, <1>2, <2>1 DEF Indices
      <3>2. QED
        BY <1>7, <3>1
    <2>2. CASE k = count - 1
      BY <1>1, <1>2, <1>6, <1>11, <2>2
    <2>3. CASE ~(index + 1 <= k /\ k < count - 1) /\ k # count - 1
      <3>1. windows'[k] = w[k]
        BY <1>1, <2>3
      <3>2. QED
        BY <1>7, <3>1
    <2>4. QED
      BY <2>1, <2>2, <2>3
  <1>13. windows' \in [Indices -> WindowRecords]
    <2>1. windows' = [k \in Indices |-> windows'[k]]
      BY <1>1
    <2>2. QED
      BY <1>12, <2>1
  <1>14. QED
    BY <1>1, <1>5, <1>8, <1>9, <1>10, <1>11, <1>13 DEF e

(* A round of the loop to the right that merges.                           *)
LEMMA RightMerges ==
  ASSUME SetInv, phase = "right", index + 1 < count, Merges(index, index + 1),
         MergePair(index, index + 1), UNCHANGED <<index, phase, asked, answer>>
  PROVE  SetInv' /\ Members' = Members
  <1> DEFINE c == windows[index]
             d == windows[index + 1]
             u == Window(c.start, Max({c.end, d.end}))
  <1>1. /\ windows' \in [Indices -> WindowRecords] /\ count' = count - 1
        /\ windows'[index] = u
        /\ \A k \in 0 .. count - 1 :
              /\ k < index => windows'[k] = windows[k]
              /\ index < k /\ k < count - 1 => windows'[k] = windows[k + 1]
        /\ \A k \in count - 1 .. Capacity - 1 : windows'[k] = EMPTY
    BY MergeEffect
  <1>2. /\ index \in Nat /\ count \in Nat /\ Capacity \in Nat /\ count <= Capacity
        /\ index \in Indices
    <2>1. count \in Nat /\ Capacity \in Nat /\ count <= Capacity /\ index \in Indices
      BY WindowFacts DEF SetInv, Canonical, SetTypeOK
    <2>2. QED
      BY <2>1 DEF Indices
  <1>3. index \in 0 .. count - 1 /\ index + 1 \in 0 .. count - 1 /\ index < index + 1
    BY <1>2
  <1>4. /\ \A k \in 0 .. count - 1 : /\ windows[k] \in WindowRecords
                                     /\ windows[k].start \in Nat /\ windows[k].end \in Nat
                                     /\ windows[k].start < windows[k].end
        /\ \A j, k \in 0 .. count - 1 : j < k =>
             /\ windows[j].start < windows[k].start
             /\ j # index => windows[j].end < windows[k].start
    BY WindowFacts DEF SetInv, Canonical, OthersApart
  <1>5. /\ c.start \in Nat /\ c.end \in Nat /\ d.start \in Nat /\ d.end \in Nat
        /\ c.start < c.end /\ d.start < d.end /\ c.start < d.start /\ d.start <= c.end
    BY <1>3, <1>4 DEF Merges
  <1>6. u.start = c.start /\ u.end = IF c.end >= d.end THEN c.end ELSE d.end
    BY <1>5, MaxOfTwo DEF Window
  <1>7. u.start < u.end
    BY <1>5, <1>6
  <1>8. Bdfs(u) = Bdfs(c) \union Bdfs(d)
    BY <1>5, <1>6 DEF Bdfs
  <1> HIDE DEF u
  <1>9. SetTypeOK'
    <2>1. count' \in 0 .. Capacity
      BY <1>1, <1>2
    <2>2. QED
      BY <1>1, <2>1 DEF SetInv, Canonical, SetTypeOK, Indices, WindowRecords
  <1>10. \A k \in 0 .. count' - 1 : /\ k \in 0 .. count - 1 /\ k < count - 1
                                    /\ index < k => k + 1 \in 0 .. count - 1
                                    /\ k < index \/ k = index \/ index < k
    BY <1>1, <1>2
  <1>11. Canonical'
    <2>1. ASSUME NEW k \in 0 .. count' - 1 PROVE windows'[k].start < windows'[k].end
      BY <1>1, <1>4, <1>7, <1>10
    <2>2. phase' # "idle" /\ \A k \in count' .. Capacity - 1 : windows'[k] = EMPTY
      BY <1>1
    <2>3. QED
      BY <1>9, <2>1, <2>2 DEF Canonical, EMPTY, Window
  <1>12. OthersApart'
    <2>1. index' < count'
      BY <1>1, <1>2
    <2>2. ASSUME NEW j \in 0 .. count' - 1, NEW k \in 0 .. count' - 1, j < k
          PROVE  windows'[j].start < windows'[k].start
                 /\ (j # index => windows'[j].end < windows'[k].start)
      <3>1. CASE k < index
        <4>1. j < index /\ j # index
          BY <1>2, <2>2, <3>1
        <4>2. windows'[j] = windows[j] /\ windows'[k] = windows[k]
          BY <1>1, <1>10, <3>1, <4>1
        <4>3. QED
          BY <1>4, <1>10, <2>2, <4>1, <4>2
      <3>2. CASE k = index
        <4>1. j < index /\ j # index /\ windows'[j] = windows[j] /\ windows'[k].start = c.start
          BY <1>1, <1>2, <1>6, <1>10, <2>2, <3>2
        <4>2. QED
          BY <1>3, <1>4, <1>10, <4>1
      <3>3. CASE index < k
        <4>1. windows'[k] = windows[k + 1] /\ k + 1 \in 0 .. count - 1
          BY <1>1, <1>10, <3>3
        <4>2. CASE j < index
          <5>1. windows'[j] = windows[j] /\ j < k + 1
            BY <1>1, <1>10, <2>2, <4>2
          <5>2. QED
            BY <1>4, <1>10, <1>2, <4>1, <4>2, <5>1
        <4>3. CASE j = index
          <5>1. windows'[j].start = windows[j].start /\ j < k + 1
            BY <1>1, <1>6, <2>2, <4>3
          <5>2. QED
            BY <1>4, <1>10, <4>1, <4>3, <5>1
        <4>4. CASE index < j
          <5>1. windows'[j] = windows[j + 1] /\ j + 1 \in 0 .. count - 1
            BY <1>1, <1>10, <4>4
          <5>2. j + 1 < k + 1 /\ j + 1 # index
            BY <1>2, <2>2, <4>4
          <5>3. QED
            BY <1>4, <4>1, <5>1, <5>2
        <4>5. QED
          BY <1>10, <4>2, <4>3, <4>4
      <3>4. QED
        BY <1>10, <3>1, <3>2, <3>3
    <2>3. QED
      BY <2>1, <2>2 DEF OthersApart
  <1>13. Members' = Members
    <2>1. Members' = UNION {Bdfs(windows'[k]) : k \in 0 .. count' - 1}
      BY DEF Members, Bdfs
    <2>2. ASSUME NEW k \in 0 .. count' - 1, NEW x \in Bdfs(windows'[k]) PROVE x \in Members
      <3>1. CASE k < index
        <4>1. windows'[k] = windows[k]
          BY <1>1, <1>10, <3>1
        <4>2. QED
          BY <1>10, <2>2, <4>1 DEF Members
      <3>2. CASE k = index
        <4>1. x \in Bdfs(c) \/ x \in Bdfs(d)
          BY <1>1, <1>8, <2>2, <3>2
        <4>2. QED
          BY <1>3, <4>1 DEF Members
      <3>3. CASE index < k
        <4>1. windows'[k] = windows[k + 1]
          BY <1>1, <1>10, <3>3
        <4>2. QED
          BY <1>10, <2>2, <3>3, <4>1 DEF Members
      <3>4. QED
        BY <1>10, <3>1, <3>2, <3>3
    <2>3. ASSUME NEW k \in 0 .. count - 1, NEW x \in Bdfs(windows[k])
          PROVE  \E j \in 0 .. count' - 1 : x \in Bdfs(windows'[j])
      <3>1. CASE k < index
        <4>1. k \in 0 .. count' - 1 /\ windows'[k] = windows[k]
          BY <1>1, <1>2, <3>1
        <4>2. QED
          BY <2>3, <4>1
      <3>2. CASE k = index \/ k = index + 1
        <4>1. index \in 0 .. count' - 1 /\ x \in Bdfs(windows'[index])
          BY <1>1, <1>2, <1>8, <2>3, <3>2
        <4>2. QED
          BY <4>1
      <3>3. CASE index + 1 < k
        <4>1. /\ k - 1 \in 0 .. count' - 1 /\ k - 1 \in 0 .. count - 1 /\ index < k - 1
              /\ k - 1 < count - 1 /\ (k - 1) + 1 = k
          BY <1>1, <1>2, <3>3
        <4>2. windows'[k - 1] = windows[k]
          BY <1>1, <4>1
        <4>3. QED
          BY <2>3, <4>1, <4>2
      <3>4. QED
        BY <1>2, <3>1, <3>2, <3>3
    <2>4. Members = UNION {Bdfs(windows[k]) : k \in 0 .. count - 1}
      BY DEF Members
    <2>5. QED
      BY <2>1, <2>2, <2>3, <2>4
  <1>14. QED
    BY <1>11, <1>12, <1>13 DEF SetInv

(* The round that does not leaves the windows apart: those behind the next *)
(* one start later still.                                                  *)
LEMMA RightEnds ==
  ASSUME SetInv, phase = "right", ~(index + 1 < count /\ Merges(index, index + 1)),
         phase' = "idle", index' = 0, UNCHANGED <<windows, count, asked, answer>>
  PROVE  SetInv' /\ Members' = Members
  <1>1. /\ index \in Nat /\ count \in Nat /\ Capacity \in Nat /\ 0 \in Indices
    <2>1. count \in Nat /\ Capacity \in Nat \ {0} /\ index \in Indices
      BY WindowFacts, SizeAssumption DEF SetInv, Canonical, SetTypeOK
    <2>2. QED
      BY <2>1 DEF Indices
  <1>2. SetTypeOK'
    BY <1>1 DEF SetInv, Canonical, SetTypeOK, Indices
  <1>3. \A k \in 0 .. count - 1 : windows[k].start \in Nat /\ windows[k].end \in Nat
    BY WindowFacts
  <1>4. ASSUME NEW j \in 0 .. count - 1, NEW k \in 0 .. count - 1, j < k
        PROVE  windows[j].start < windows[k].start /\ windows[j].end < windows[k].start
    <2>1. windows[j].start < windows[k].start /\ (j # index => windows[j].end < windows[k].start)
      BY <1>4 DEF SetInv, OthersApart
    <2>2. ASSUME j = index PROVE windows[j].end < windows[k].start
      <3>1. index + 1 < count /\ index + 1 \in 0 .. count - 1 /\ (index + 1 < k \/ index + 1 = k)
        BY <1>1, <1>4, <2>2
      <3>2. windows[index].end < windows[index + 1].start
        BY <1>3, <2>2, <3>1 DEF Merges
      <3>3. index + 1 < k => windows[index + 1].start < windows[k].start
        BY <3>1 DEF SetInv, OthersApart
      <3>4. QED
        BY <1>3, <2>2, <3>1, <3>2, <3>3
    <2>3. QED
      BY <2>1, <2>2
  <1>5. \A k \in 0 .. count - 2 : windows[k].end < windows[k + 1].start
    <2>1. \A k \in 0 .. count - 2 : k \in 0 .. count - 1 /\ k + 1 \in 0 .. count - 1 /\ k < k + 1
      BY <1>1
    <2>2. QED
      BY <1>4, <2>1
  <1>6. Canonical'
    BY <1>2, <1>5 DEF SetInv, Canonical, EMPTY, Window
  <1>7. OthersApart'
    BY <1>4 DEF OthersApart
  <1>8. QED
    BY <1>6, <1>7 DEF SetInv, Members

(* The loop to the right.                                                  *)
LEMMA RightStep ==
  ASSUME SetInv, MergeRight
  PROVE  SetInv' /\ Members' = Members /\ UNCHANGED <<asked, answer>>
  <1>1. phase = "right" /\ UNCHANGED <<asked, answer>>
    BY DEF MergeRight
  <1>2. CASE index + 1 < count /\ Merges(index, index + 1)
    <2>1. MergePair(index, index + 1) /\ UNCHANGED <<index, phase>>
      BY <1>2 DEF MergeRight
    <2>2. QED
      BY <1>1, <1>2, <2>1, RightMerges
  <1>3. CASE ~(index + 1 < count /\ Merges(index, index + 1))
    <2>1. phase' = "idle" /\ index' = 0 /\ UNCHANGED <<windows, count>>
      BY <1>3 DEF MergeRight
    <2>2. QED
      BY <1>1, <1>3, <2>1, RightEnds
  <1>4. QED
    BY <1>2, <1>3

-----------------------------------------------------------------------------
(* What the set is for its callers.                                        *)

(* The abstract specification counts runs by their starts.                 *)
LEMMA RunsAreStarts ==
  ASSUME NEW S
  PROVE  Abstract!Runs(S) = Cardinality(RunStarts(S))
  BY DEF Abstract!Runs, RunStarts, Cardinality, Abstract!Cardinality

(* The empty set of ids.                                                   *)
LEMMA SetStarts ==
  ASSUME SetInit
  PROVE  SetInv /\ Members = {}
  <1>1. /\ windows = [k \in Indices |-> EMPTY] /\ count = 0 /\ 0 .. count - 1 = {} /\ 0 .. count - 2 = {}
        /\ phase = "idle" /\ index = 0 /\ asked = {} /\ answer = "Ok"
    BY DEF SetInit
  <1>2. Capacity \in Nat \ {0} /\ 0 \in Indices /\ 0 \in 0 .. Capacity
    BY SizeAssumption DEF Indices
  <1>3. EMPTY \in [start : 0 .. Space - 1, end : 0 .. Space]
    <2>1. 0 \in 0 .. Space - 1 /\ 0 \in 0 .. Space
      BY SizeAssumption
    <2>2. QED
      BY <2>1 DEF EMPTY, Window
  <1>4. SetTypeOK
    BY <1>1, <1>2, <1>3 DEF SetTypeOK
  <1>5. Canonical
    BY <1>1, <1>4 DEF Canonical, Indices
  <1>6. OthersApart
    BY <1>1 DEF OthersApart
  <1>7. Members = {}
    BY <1>1 DEF Members
  <1>8. QED
    BY <1>5, <1>6, <1>7 DEF SetInv

(* insert keeps the invariant.                                             *)
LEMMA InsertStep ==
  ASSUME SetInv, NEW r \in Ranges, InsertRange(r)
  PROVE  /\ SetInv' /\ asked' = Bdfs(r)
         /\ \/ answer' = "Ok" /\ Members' = Members \union Bdfs(r)
            \/ answer' = "Full" /\ Members' = Members /\ IsNew(r) /\ count = Capacity
  <1>1. phase = "idle" /\ asked' = Bdfs(r)
    BY DEF InsertRange
  <1>2. CASE KeepWindows(r)
    BY <1>1, <1>2, KeepStep DEF KeepWindows
  <1>3. CASE ExtendWindow(r)
    BY <1>1, <1>3, ExtendStep DEF ExtendWindow
  <1>4. CASE Refuse(r)
    BY <1>1, <1>4, RefuseStep DEF Refuse
  <1>5. CASE InsertAt(r)
    BY <1>1, <1>5, InsertAtStep DEF InsertAt
  <1>6. QED
    BY <1>2, <1>3, <1>4, <1>5 DEF InsertRange

(* Every step keeps it.                                                    *)
LEMMA SetStep ==
  ASSUME SetInv, [SetNext]_setVars
  PROVE  SetInv'
  <1>1. CASE MergeLeft
    BY <1>1, LeftStep
  <1>2. CASE MergeRight
    BY <1>2, RightStep
  <1>3. ASSUME NEW r \in Ranges, InsertRange(r) PROVE SetInv'
    BY <1>3, InsertStep
  <1>4. CASE UNCHANGED setVars
    BY <1>4 DEF setVars, SetInv, Canonical, SetTypeOK, OthersApart, Indices, EMPTY, Window
  <1>5. QED
    BY <1>1, <1>2, <1>3, <1>4 DEF SetNext

(* Whatever is inserted in whatever order, the windows are well formed and *)
(* sorted, and only the one at merge_around's index may reach into others. *)
THEOREM SetInvariance == SetSpec => []SetInv
  <1>1. SetInit => SetInv
    BY SetStarts
  <1>2. SetInv /\ [SetNext]_setVars => SetInv'
    BY SetStep
  <1>3. QED
    BY <1>1, <1>2, PTL DEF SetSpec

(* When insert has returned, the array is the canonical form of its set:   *)
(* non-empty windows, sorted, neither overlapping nor adjacent, and empty  *)
(* ones behind them.                                                       *)
THEOREM WindowsAreCanonical == SetSpec => []Canonical
  <1>1. SetInv => Canonical
    BY DEF SetInv
  <1>2. QED
    BY <1>1, SetInvariance, PTL

(* The ids of a range are one of the abstract intervals.                   *)
LEMMA RangeIsInterval ==
  ASSUME NEW r \in Ranges
  PROVE  Bdfs(r) \in Abstract!Intervals
  <1>1. /\ r.start \in Nat /\ r.end \in Nat /\ r.start < Space /\ r.end <= Space /\ r.start <= r.end
        /\ Space \in Nat
    BY RangeFacts, SizeAssumption
  <1>2. CASE r.start = r.end
    <2>1. Bdfs(r) = {}
      BY <1>1, <1>2 DEF Bdfs
    <2>2. QED
      BY <2>1 DEF Abstract!Intervals
  <1>3. CASE r.start # r.end
    <2>1. r.start \in 0 .. Space - 1 /\ r.end - 1 \in 0 .. Space - 1
      BY <1>1, <1>3
    <2>2. Bdfs(r) = r.start .. (r.end - 1)
      BY DEF Bdfs
    <2>3. QED
      BY <2>1, <2>2 DEF Abstract!Intervals
  <1>4. QED
    BY <1>2, <1>3

(* An insert is an Add: Ok only if the windows hold the enlarged set, and  *)
(* Full only if no Capacity windows could.                                 *)
LEMMA InsertAdds ==
  ASSUME SetInv, NEW r \in Ranges, InsertRange(r)
  PROVE  Abstract!Next
  <1> DEFINE S == Bdfs(r)
  <1>1. /\ SetInv' /\ asked' = S
        /\ \/ answer' = "Ok" /\ Members' = Members \union S
           \/ answer' = "Full" /\ Members' = Members /\ IsNew(r) /\ count = Capacity
    BY InsertStep
  <1>2. S \in Abstract!Intervals
    BY RangeIsInterval
  <1> HIDE DEF S
  <1>3. CASE answer' = "Ok" /\ Members' = Members \union S
    <2>1. /\ count' \in Nat /\ Capacity \in Nat /\ count' <= Capacity
          /\ \A k \in 0 .. count' - 1 : windows'[k] \in WindowRecords
      <3>1. SetTypeOK'
        BY <1>1 DEF SetInv, Canonical
      <3>2. count' \in 0 .. Capacity
        BY <3>1 DEF SetTypeOK
      <3>3. windows' \in [Indices -> WindowRecords]
        BY <3>1 DEF SetTypeOK, WindowRecords, Indices
      <3>4. Capacity \in Nat
        BY SizeAssumption
      <3>5. count' \in Nat /\ count' <= Capacity
        BY <3>2, <3>4
      <3>6. ASSUME NEW n \in Nat, n <= Capacity PROVE \A k \in 0 .. n - 1 : k \in Indices
        BY <3>4, <3>6 DEF Indices
      <3>7. QED
        BY <3>3, <3>4, <3>5, <3>6
    <2>2. Members' = Covered(windows', count')
      BY DEF Members, Covered, Bdfs
    <2>3. /\ Cardinality(RunStarts(Covered(windows', count'))) \in Nat
          /\ Cardinality(RunStarts(Covered(windows', count'))) <= count'
      BY <2>1, RunsAtMost
    <2>4. Covered(windows', count') = Members \union S
      BY <1>3, <2>2
    <2>5. Cardinality(RunStarts(Members \union S)) <= Capacity
      BY <2>1, <2>3, <2>4
    <2>6. Abstract!Add(S)
      BY <1>1, <1>3, <2>5, RunsAreStarts DEF Abstract!Add
    <2>7. QED
      BY <1>2, <2>6 DEF Abstract!Next
  <1>4. CASE answer' = "Full" /\ Members' = Members /\ IsNew(r) /\ count = Capacity
    <2>1. phase = "idle"
      BY DEF InsertRange
    <2>2. Cardinality(RunStarts(Members \union S)) = count + 1
      BY <1>4, <2>1, OneRunMore DEF S
    <2>3. count + 1 > Capacity
      BY <1>4, SizeAssumption
    <2>4. Abstract!Runs(Members \union S) > Capacity
      BY <2>2, <2>3, RunsAreStarts
    <2>5. Abstract!Add(S)
      BY <1>1, <1>4, <2>4 DEF Abstract!Add
    <2>6. QED
      BY <1>2, <2>5 DEF Abstract!Next
  <1>5. QED
    BY <1>1, <1>3, <1>4

(* The array implements a set of requester ids that grows by whole ranges: *)
(* the step that writes the range adds exactly its ids, or answers Full,   *)
(* changing nothing, exactly when no Capacity windows could hold the       *)
(* result; the rounds of merge_around change nothing a caller sees.        *)
THEOREM SetRefinement == SetSpec => ImplementsSet
  <1>1. SetInit => Abstract!Init
    BY SetStarts DEF SetInit, Abstract!Init
  <1>2. SetInv /\ [SetNext]_setVars => [Abstract!Next]_(Abstract!vars)
    <2> SUFFICES ASSUME SetInv, [SetNext]_setVars PROVE [Abstract!Next]_(Abstract!vars)
      OBVIOUS
    <2>1. CASE MergeLeft
      BY <2>1, LeftStep DEF Abstract!vars
    <2>2. CASE MergeRight
      BY <2>2, RightStep DEF Abstract!vars
    <2>3. ASSUME NEW r \in Ranges, InsertRange(r) PROVE Abstract!Next
      BY <2>3, InsertAdds
    <2>4. CASE UNCHANGED setVars
      BY <2>4 DEF setVars, Abstract!vars, Members, Bdfs
    <2>5. QED
      BY <2>1, <2>2, <2>3, <2>4 DEF SetNext
  <1>3. QED
    BY <1>1, <1>2, SetInvariance, PTL DEF SetSpec, ImplementsSet, Abstract!Spec

=============================================================================

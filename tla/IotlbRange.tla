------------------------------ MODULE IotlbRange ------------------------------
(***************************************************************************)
(* VtdUnit::invalidate_iotlb_range and the VtdIotlbRangePlan it walks, of  *)
(* src/src/arch/x86_64/intel/ctrl.rs.  One behaviour is one call: the      *)
(* decision between a domain-wide flush and page-selective blocks, then    *)
(* one queued descriptor per block, any of which the queue may refuse.     *)
(* Pages are numbered in 4 KiB units; usize has WordBits bits and an IOVA  *)
(* AddressBits bits of page number (usize::BITS - 12).                     *)
(***************************************************************************)
EXTENDS Integers, FiniteSets, FiniteSetsExt

CONSTANTS
  WordBits,    \* usize::BITS
  AddressBits, \* bits of a page number that fit an address
  GranuleMasks,\* vtd_iotlb_granule_address_mask of the page sizes: 0, 9, 18 in the code
  MaxMasks,    \* address masks hardware may report as its maximum
  MaxCount,    \* bound on count_pages
  Threshold    \* IOTLB_RANGE_DOMAIN_INVALIDATION_THRESHOLD

ASSUME BoundsAssumption ==
  /\ WordBits \in Nat \ {0}
  /\ AddressBits \in 1 .. WordBits
  /\ GranuleMasks \subseteq 0 .. WordBits - 1
  /\ MaxMasks \subseteq 0 .. WordBits - 1
  /\ MaxCount \in Nat /\ Threshold \in Nat

(* Powers of two by their defining equations: the provers know none of     *)
(* exponentiation.                                                         *)
ASSUME PowersOfTwo ==
  2^0 = 1 /\ \A k \in 0 .. WordBits : 2^(k + 1) = 2 * 2^k

VARIABLES
  request,   \* the call: first page, page size, count, and what hardware offers
  cursor,    \* VtdIotlbRangePlan: next_page and remaining_pages
  flushed,   \* pages of the domain invalidated so far
  result     \* "running", then the InvalidateScope or "Err"

vars == <<request, cursor, flushed, result>>

MaxWord == 2^WordBits - 1

(* PageSize::Size4K, 2M, 1G by their address mask; a size hardware has no  *)
(* mask for is Unsupported.                                                *)
Unsupported == -1

Everything == 0 .. 2^AddressBits - 1

(* A range may run past the end of the address space: count_pages is the   *)
(* caller's.                                                               *)
Requests ==
  [page : Everything, mask : GranuleMasks \union {Unsupported}, count : 0 .. MaxCount,
   max : MaxMasks, selective : BOOLEAN]

(* page_span and total_pages.                                              *)
Span(q) == 2^Max({q.mask, 0})
Total(q) == q.count * Span(q)

Wanted(q) == q.page .. q.page + Total(q) - 1
InSpace(q) == Wanted(q) \subseteq Everything

-----------------------------------------------------------------------------
(* The plan.                                                               *)

FloorLog2(n) == Max({k \in 0 .. WordBits - 1 : 2^k <= n})
TrailingZeros(n) == Max({k \in 0 .. WordBits - 1 : n % 2^k = 0})

(* next_address_mask: the largest block that the rest of the range, the    *)
(* alignment of its first page and hardware allow.                         *)
AddressMaskUnaligned(c, q) ==
  Max({Min({FloorLog2(c.remaining), q.max}), q.mask})

AddressMaskTooLarge(c, q) ==
  Max({Min({FloorLog2(c.remaining) + 1, TrailingZeros(c.next), q.max}), q.mask})

AddressMask(c, q) ==
  Max({Min({FloorLog2(c.remaining), TrailingZeros(c.next), q.max}), q.mask})

(* The block at the cursor and the cursor after it.                        *)
BlockPages(c, q) == 2^AddressMask(c, q)

Advance(c, q) ==
  [next |-> Min({c.next + BlockPages(c, q), MaxWord}),
   remaining |-> c.remaining - BlockPages(c, q)]

Plan(q) == [next |-> q.page, remaining |-> Total(q)]

(* descriptor_count: the whole plan, walked on a copy.                     *)
DescriptorCount(q) ==
  LET Blocks[c \in [next : 0 .. MaxWord, remaining : Int]] ==
        IF c.remaining <= 0 THEN 0 ELSE 1 + Blocks[Advance(c, q)]
  IN Blocks[Plan(q)]

(* What hardware invalidates for a page-selective descriptor: the block    *)
(* of 2^mask pages its address lies in, low address bits ignored, as far   *)
(* as the pages exist.  The code's checked_shl(12) drops the page bits     *)
(* that fit no address.                                                    *)
Block(page, mask) ==
  LET p == page % 2^AddressBits
      base == p - (p % 2^mask)
  IN (base .. base + 2^mask - 1) \intersect Everything

-----------------------------------------------------------------------------
(* The call.                                                               *)

Init ==
  /\ request \in Requests
  /\ cursor = [next |-> 0, remaining |-> 0]
  /\ flushed = {}
  /\ result = "start"

NothingToDo ==
  /\ result = "start" /\ request.count = 0
  /\ result' = "Leaf"
  /\ UNCHANGED <<request, cursor, flushed>>

(* The reasons to flush the whole domain, before the plan is made and      *)
(* after.                                                                  *)
NeedsDomain(q) ==
  q.mask = Unsupported \/ ~q.selective \/ q.max < q.mask \/ q.page % Span(q) # 0

Overflows(q) == Total(q) > MaxWord

TooManyBlocks(q) == DescriptorCount(q) > Threshold

(* A queued descriptor: submit answers Ok once hardware has consumed it    *)
(* (CommandQueue shows when that holds), or Err, before or after it did.   *)
Submit(pages, ok) ==
  \/ flushed' = flushed \union pages /\ result' = ok
  \/ flushed' \in {flushed, flushed \union pages} /\ result' = "Err"

FlushDomain ==
  /\ result = "start" /\ request.count > 0
  /\ \/ NeedsDomain(request)
     \/ ~NeedsDomain(request) /\ ~Overflows(request) /\ TooManyBlocks(request)
  /\ Submit(Everything, "Domain")
  /\ UNCHANGED <<request, cursor>>

(* checked_mul: AddressOverflow.                                           *)
RejectTotal ==
  /\ result = "start" /\ request.count > 0
  /\ ~NeedsDomain(request) /\ Overflows(request)
  /\ result' = "Err"
  /\ UNCHANGED <<request, cursor, flushed>>

StartPlan ==
  /\ result = "start" /\ request.count > 0
  /\ ~NeedsDomain(request) /\ ~Overflows(request) /\ ~TooManyBlocks(request)
  /\ cursor' = Plan(request)
  /\ result' = "running"
  /\ UNCHANGED <<request, flushed>>

FlushBlockIgnoringErrors ==
  /\ result = "running" /\ cursor.remaining > 0
  /\ cursor' = Advance(cursor, request)
  /\ \/ flushed' = flushed \union Block(cursor.next, AddressMask(cursor, request))
     \/ flushed' = flushed
  /\ UNCHANGED <<request, result>>

FlushBlock ==
  /\ result = "running" /\ cursor.remaining > 0
  /\ cursor' = Advance(cursor, request)
  /\ Submit(Block(cursor.next, AddressMask(cursor, request)), "running")
  /\ UNCHANGED request

Finish ==
  /\ result = "running" /\ cursor.remaining = 0
  /\ result' = "Leaf"
  /\ UNCHANGED <<request, cursor, flushed>>

Next == NothingToDo \/ FlushDomain \/ RejectTotal \/ StartPlan \/ FlushBlock \/ Finish

Spec == Init /\ [][Next]_vars

-----------------------------------------------------------------------------
(* Every variable stays in its domain.                                     *)
TypeOK ==
  /\ request \in Requests
  /\ cursor.next \in 0 .. MaxWord /\ cursor.remaining \in Int
  /\ flushed \subseteq Everything
  /\ result \in {"start", "running", "Leaf", "Domain", "Err"}

(* next_block subtracts the block from remaining_pages with an unchecked   *)
(* `-=`: the block never exceeds what remains.                             *)
NoUnderflow == TypeOK /\ cursor.remaining >= 0

(* An Ok means every page of the request that has an address has been      *)
(* invalidated, by the domain flush or by the blocks together.  As long as *)
(* the request stays inside the address space, a Leaf outcome also means   *)
(* that nothing else has been.                                             *)
OkCoversRange ==
  /\ result \in {"Leaf", "Domain"} => Wanted(request) \intersect Everything \subseteq flushed
  /\ result \in {"running", "Leaf"} /\ InSpace(request) => flushed \subseteq Wanted(request)

(* The block about to be queued is one hardware accepts: naturally         *)
(* aligned, not below the page size asked for, not above the reported      *)
(* maximum.  A misaligned block would silently cover other pages.  A range *)
(* that runs past the last page number of a usize is exempt: next_page     *)
(* saturates there and is aligned to nothing; OkCoversRange holds of it.   *)
EndFits(q) == q.page + Total(q) <= MaxWord + 1

BlocksAcceptable ==
  result = "running" /\ cursor.remaining > 0 /\ EndFits(request) =>
    LET m == AddressMask(cursor, request)
    IN cursor.next % 2^m = 0 /\ request.mask <= m /\ m <= request.max

=============================================================================

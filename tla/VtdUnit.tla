------------------------------- MODULE VtdUnit -------------------------------
(***************************************************************************)
(* VtdUnit and VtdDomainController of src/src/arch/x86_64/intel/ctrl.rs:   *)
(* attaching requesters to translation domains, mapping, remapping and     *)
(* unmapping pages, and the queued invalidations that take stale           *)
(* translations out of the hardware.                                       *)
(*                                                                         *)
(* A controller borrows its unit mutably, so one software operation runs   *)
(* at a time; the hardware reads tables and fills its caches between any   *)
(* two of its steps.  A queued invalidation is one step here; CommandQueue *)
(* models the ring.  What an Ok of it means depends on the head: while the *)
(* head stands where the next descriptor goes, an Ok means that hardware   *)
(* has fetched the descriptor; while it stands anywhere else, after a      *)
(* time-out, with the queue off, or after a second install, the Ok comes   *)
(* at once (wait_for_consumed only looks whether the head is elsewhere).   *)
(***************************************************************************)
EXTENDS Naturals, FiniteSets

CONSTANTS
  Clients,       \* PCI requesters
  Domains,       \* translation domains; one stands for its root and its id
  Pages,         \* what a leaf entry can hold: an iova, its frame and its flags
  IovaOf,        \* the iova of each page
  PagesFor,      \* the pages callers map in each domain
  Buses,         \* buses with a context table
  BusOf,         \* the bus of each client
  PassThroughCap,\* extended capability: pass-through contexts
  MaxPending,    \* bound on the descriptors published and not yet fetched
  IotlbSize      \* translations the IOTLB holds at once

(* A context entry is two 64-bit words.  Low: Present with a translation   *)
(* root or pass-through, or neither.  High: address width and domain id.   *)
Absent == "absent"
Pass == "pass"
Zero == "zero"

(* The binding of a client whose last operation is not done or failed.     *)
Unknown == "unknown"

ASSUME ConstantsAssumption ==
  /\ BusOf \in [Clients -> Buses] /\ DOMAIN IovaOf = Pages
  /\ PagesFor \in [Domains -> SUBSET Pages]
  /\ PassThroughCap \in BOOLEAN /\ MaxPending \in Nat /\ IotlbSize \in Nat
  /\ Domains \intersect {Absent, Pass, Zero, Unknown} = {}

VARIABLES
  queue,      \* invalidation queue: "none", "installed" (init done), "enabled" (GSTS.QIES)
  pending,    \* what hardware has yet to fetch before the head is at the tail
  enabled,    \* GSTS.TES
  tables,     \* buses whose context table is installed
  context,    \* context entries in memory, word by word
  pages,      \* pages mapped in each domain's second-level table
  cached,     \* hardware context cache
  iotlb,      \* hardware IOTLB: domain id, and the root and page it was filled from
  op,         \* the operation in progress
  binding,    \* history: the target of each client's last Ok bind or unbind
  confirmed,  \* history: pages not mapped whose invalidation, unmap's own or a later
              \* request's, was submitted with an Ok
  rebound     \* history: pairs of domains, a bind having written the second over
              \* an entry that was present with the first

softVars == <<queue, pending, enabled, tables, context, pages, op>>
hwVars == <<cached, iotlb>>
historyVars == <<binding, confirmed, rebound>>
vars == <<softVars, hwVars, historyVars>>

Targets == Domains \union {Pass, Absent}
Entries == [low : Targets, high : Domains \union {Zero}]
Contexts == [root : Targets, did : Domains \union {Zero}]
Lines == [did : Domains \union {Zero}, root : Domains, page : Pages]

(* Pairs of two domains.                                                   *)
Changes == {p \in Domains \X Domains : p[1] # p[2]}

(* A context hardware does not cache.                                      *)
NoContext == [root |-> Absent, did |-> Zero]

(* Invalidation descriptors.  A Gap is what else lies between head and     *)
(* tail, slots of an earlier lap or an earlier queue.                      *)
ContextFlush(c) == [kind |-> "context", client |-> c]
GlobalFlush == [kind |-> "global"]
DomainFlush(d) == [kind |-> "domain", domain |-> d]
PageFlush(d, v) == [kind |-> "page", domain |-> d, iova |-> v]
Gap == [kind |-> "gap"]

Descriptors ==
  {GlobalFlush, Gap} \union {ContextFlush(c) : c \in Clients}
    \union {DomainFlush(d) : d \in Domains}
    \union {PageFlush(d, IovaOf[p]) : d \in Domains, p \in Pages}

(* The translations a descriptor drops, by the id they are tagged with.    *)
Covers(x, did, v) == x \in {GlobalFlush, DomainFlush(did), PageFlush(did, v)}

(* Whether an invalidation of the page is still to be fetched.             *)
Awaited(d, p) == \E x \in pending : Covers(x, d, IovaOf[p])

AddPending(x) == Cardinality(pending \union {x}) <= MaxPending /\ pending' = pending \union {x}

Idle == [step |-> "idle"]
Attachments ==
  [step : {"low", "high", "flush context", "flush domain"},
   client : Clients, active : Domains, target : Targets]
Unmappings == [step : {"flush page"}, active : Domains, page : Pages]

(* disabled, pass_through and from_domain.                                 *)
Entry(target) ==
  [low |-> target, high |-> IF target \in Domains THEN target ELSE Zero]

Init ==
  /\ queue = "none" /\ pending = {}
  /\ enabled = FALSE
  /\ tables = {}
  /\ context = [c \in Clients |-> Entry(Absent)]
  /\ pages = [d \in Domains |-> {}]
  /\ cached = [c \in Clients |-> NoContext]
  /\ iotlb = {}
  /\ op = Idle
  /\ binding = [c \in Clients |-> Unknown]
  /\ confirmed = {} /\ rebound = {}

-----------------------------------------------------------------------------
(* Bringing the unit up.                                                   *)

(* install_queued_invalidation: the last step, waiting for QIES, can time  *)
(* out after everything else has been done.  On a queue that was there     *)
(* already, what it still had to fetch is lost, and with it the Ok that it *)
(* was given; the head keeps its place or, if the queue was off, may start *)
(* over, while software starts at slot 0.                                  *)
InstallQueue ==
  /\ op = Idle
  /\ \/ queue' = "enabled"
     \/ queue # "enabled" /\ queue' = "installed"
  /\ pending' = {} \/ (queue # "none" /\ pending' = {Gap})
  /\ binding' = [c \in Clients |-> IF ContextFlush(c) \in pending THEN Unknown ELSE binding[c]]
  /\ confirmed' = {p \in confirmed : ~Awaited(p[1], p[2])}
  /\ UNCHANGED <<enabled, tables, context, pages, op, hwVars, rebound>>

(* install_context_table: the caller's table, with whatever entries it     *)
(* holds, takes the place of a table that was there.  Nothing is           *)
(* invalidated.                                                            *)
InstallContextTable(b) ==
  /\ op = Idle
  /\ tables' = tables \union {b}
  /\ \E table \in [Clients -> Targets] :
       context' = [c \in Clients |-> IF BusOf[c] = b THEN Entry(table[c]) ELSE context[c]]
  /\ binding' = [c \in Clients |-> IF BusOf[c] = b THEN Unknown ELSE binding[c]]
  /\ UNCHANGED <<queue, pending, enabled, pages, op, hwVars, confirmed, rebound>>

(* enable_translation, with its queue checks; a time-out of the last wait  *)
(* leaves TES either way.                                                  *)
EnableTranslation ==
  /\ op = Idle
  /\ queue # "none"
  /\ queue' = "enabled"
  /\ enabled' \in {TRUE, enabled}
  /\ UNCHANGED <<pending, tables, context, pages, op, hwVars, historyVars>>

(* registers_mut().disable_translation: caches keep what they have.  A     *)
(* time-out leaves TES either way.                                         *)
DisableTranslation ==
  /\ op = Idle
  /\ enabled' \in {FALSE, enabled}
  /\ UNCHANGED <<queue, pending, tables, context, pages, op, hwVars, historyVars>>

(* registers_mut().disable_queued_invalidation.  The queue stays active    *)
(* for software, so submissions go on.  Hardware may keep its head or      *)
(* start over at slot 0, which leaves a gap.                               *)
DisableQueue ==
  /\ op = Idle
  /\ queue = "enabled"
  /\ queue' = "installed"
  /\ pending' = pending \/ AddPending(Gap)
  /\ UNCHANGED <<enabled, tables, context, pages, op, hwVars, historyVars>>

-----------------------------------------------------------------------------
(* Queued invalidations.                                                   *)

(* What hardware drops when it executes x.                                 *)
Execute(x) ==
  /\ cached' = [c \in Clients |-> IF x = ContextFlush(c) THEN NoContext ELSE cached[c]]
  /\ iotlb' = {e \in iotlb : ~Covers(x, e.did, IovaOf[e.page])}

Done(x) == queue = "enabled" /\ pending = {} /\ Execute(x) /\ UNCHANGED pending

Publish(x) ==
  /\ queue # "none"
  /\ AddPending(x)
  /\ UNCHANGED hwVars

(* submit_queued_invalidation.  With the head at the new slot, Ok waits    *)
(* for hardware; with the head at another slot it comes at once.           *)
SubmitOk(x) == Done(x) \/ (pending # {} /\ Publish(x))

(* An Err comes before the descriptor is published (no queue, no capacity, *)
(* the slot not empty, never its turn), when waiting for the head times    *)
(* out, or from check_error after hardware has fetched it.                 *)
SubmitErr(x) == UNCHANGED <<pending, hwVars>> \/ Publish(x) \/ Done(x)

(* Hardware fetches what is left.  The order is left open, and a           *)
(* descriptor may be there more than once.                                 *)
Fetch(x) ==
  /\ queue = "enabled"
  /\ x \in pending
  /\ Execute(x)
  /\ pending' \in {pending, pending \ {x}}
  /\ UNCHANGED <<queue, enabled, tables, context, pages, op, historyVars>>

-----------------------------------------------------------------------------
(* bind_context and unbind_context.  The early returns (selector, segment, *)
(* a domain other than the controller's, no context table, pass-through    *)
(* without the capability) leave everything as it is.                      *)

Admissible(c, active, target) ==
  /\ target \in Domains => target = active
  /\ BusOf[c] \in tables
  /\ target = Pass => PassThroughCap

Refuse ==
  /\ op = Idle
  /\ \E c \in Clients, active \in Domains, t \in Targets : ~Admissible(c, active, t)
  /\ UNCHANGED vars

Attach(c, active, target) ==
  /\ op = Idle
  /\ Admissible(c, active, target)
  /\ op' = [step |-> "low", client |-> c, active |-> active, target |-> target]
  /\ binding' = [binding EXCEPT ![c] = Unknown]
  /\ UNCHANGED <<queue, pending, enabled, tables, context, pages, hwVars, confirmed,
                 rebound>>

Bind(c, active, target) == Attach(c, active, target)
Unbind(c, active) == Attach(c, active, Absent)

(* write_128: the low word, with Present, then the high word.  Written     *)
(* over a domain, the low word makes an entry of both for a moment.        *)
WriteLow ==
  /\ op.step = "low"
  /\ context' = [context EXCEPT ![op.client].low = Entry(op.target).low]
  /\ op' = [op EXCEPT !.step = "high"]
  /\ rebound' = rebound \union (({context[op.client].low} \X {op.target}) \intersect Changes)
  /\ UNCHANGED <<queue, pending, enabled, tables, pages, hwVars, binding, confirmed>>

WriteHighOfDomains ==
  /\ op.step = "high"
  /\ context' = IF op.target \in Domains
                THEN [context EXCEPT ![op.client].high = Entry(op.target).high]
                ELSE context
  /\ op' = [op EXCEPT !.step = "flush context"]
  /\ UNCHANGED <<queue, pending, enabled, tables, pages, hwVars, historyVars>>

WriteHigh ==
  /\ op.step = "high"
  /\ context' = [context EXCEPT ![op.client].high = Entry(op.target).high]
  /\ op' = [op EXCEPT !.step = "flush context"]
  /\ UNCHANGED <<queue, pending, enabled, tables, pages, hwVars, historyVars>>

FlushContextOnBind ==
  /\ op.step = "flush context"
  /\ op' = [op EXCEPT !.step = "flush domain"]
  /\ IF op.target = Absent THEN UNCHANGED <<pending, hwVars>> ELSE SubmitOk(ContextFlush(op.client))
  /\ UNCHANGED <<queue, enabled, tables, context, pages, historyVars>>

FlushContextOnUnbind ==
  /\ op.step = "flush context"
  /\ op' = [op EXCEPT !.step = "flush domain"]
  /\ IF op.target # Absent THEN UNCHANGED <<pending, hwVars>> ELSE SubmitOk(ContextFlush(op.client))
  /\ UNCHANGED <<queue, enabled, tables, context, pages, historyVars>>

FlushContext ==
  /\ op.step = "flush context"
  /\ \/ SubmitOk(ContextFlush(op.client)) /\ op' = [op EXCEPT !.step = "flush domain"]
     \/ SubmitErr(ContextFlush(op.client)) /\ op' = Idle
  /\ UNCHANGED <<queue, enabled, tables, context, pages, historyVars>>

FlushDomain ==
  /\ op.step = "flush domain"
  /\ \/ /\ SubmitOk(DomainFlush(op.active))
        /\ binding' = [binding EXCEPT ![op.client] = op.target]
     \/ SubmitErr(DomainFlush(op.active)) /\ UNCHANGED binding
  /\ op' = Idle
  /\ UNCHANGED <<queue, enabled, tables, context, pages, confirmed, rebound>>

-----------------------------------------------------------------------------
(* map, remap, protect and unmap.  The page table is the kore_memory       *)
(* crate's: it writes the entry and calls the VtdQueuedInvalidator it was  *)
(* handed, whose flush hooks drop the Result of the submission.            *)

Map(d, p) ==
  /\ op = Idle
  /\ p \in PagesFor[d] /\ \A q \in pages[d] : IovaOf[q] # IovaOf[p]
  /\ pages' = [pages EXCEPT ![d] = @ \union {p}]
  /\ confirmed' = confirmed \ {<<d, p>>}
  /\ UNCHANGED <<queue, pending, enabled, tables, context, op, hwVars, binding, rebound>>

Unmap(d, p) ==
  /\ op = Idle
  /\ p \in pages[d]
  /\ pages' = [pages EXCEPT ![d] = @ \ {p}]
  /\ op' = [step |-> "flush page", active |-> d, page |-> p]
  /\ UNCHANGED <<queue, pending, enabled, tables, context, hwVars, historyVars>>

(* remap gives the iova another frame, protect other flags.                *)
Remap(d, p, q) ==
  /\ op = Idle
  /\ p \in pages[d] /\ q \in PagesFor[d] \ {p} /\ IovaOf[q] = IovaOf[p]
  /\ pages' = [pages EXCEPT ![d] = (@ \ {p}) \union {q}]
  /\ op' = [step |-> "flush page", active |-> d, page |-> p]
  /\ confirmed' = confirmed \ {<<d, q>>}
  /\ UNCHANGED <<queue, pending, enabled, tables, context, hwVars, binding, rebound>>

(* What a flush hook submits: the page or, when hardware cannot select it  *)
(* or more than 32 flushes are pending, the domain.                        *)
Flushes(d, p) == {PageFlush(d, IovaOf[p]), DomainFlush(d)}

FlushPageNoop ==
  /\ op.step = "flush page"
  /\ op' = Idle
  /\ confirmed' = confirmed \union {<<op.active, op.page>>}
  /\ UNCHANGED <<queue, pending, enabled, tables, context, pages, hwVars, binding, rebound>>

FlushPage ==
  /\ op.step = "flush page"
  /\ \E x \in Flushes(op.active, op.page) :
       \/ SubmitOk(x) /\ confirmed' = confirmed \union {<<op.active, op.page>>}
       \/ SubmitErr(x) /\ UNCHANGED confirmed
  /\ op' = Idle
  /\ UNCHANGED <<queue, enabled, tables, context, pages, binding, rebound>>

(* Controller::invalidate, which reports the submission's Result.  A Leaf  *)
(* request falls back to the domain when hardware cannot select the page.  *)
Requests(d) == {GlobalFlush, DomainFlush(d)} \union {PageFlush(d, IovaOf[p]) : p \in PagesFor[d]}

NotMapped == UNION {{d} \X (PagesFor[d] \ pages[d]) : d \in Domains}

Invalidate(d) ==
  /\ op = Idle
  /\ \E x \in Requests(d) :
       \/ /\ SubmitOk(x)
          /\ confirmed' = confirmed \union {p \in NotMapped : Covers(x, p[1], IovaOf[p[2]])}
       \/ SubmitErr(x) /\ UNCHANGED confirmed
  /\ UNCHANGED <<queue, enabled, tables, context, pages, op, binding, rebound>>

-----------------------------------------------------------------------------
(* The hardware, as the code relies on it.  A present entry whose high     *)
(* word is still zero has address width 0, which is a fault and not        *)
(* cached.  Nothing is translated while TES is clear.                      *)

Decode(entry) ==
  IF entry.low = Absent \/ (entry.low \in Domains /\ entry.high = Zero)
  THEN NoContext
  ELSE [root |-> entry.low, did |-> entry.high]

FillContext(c) ==
  /\ enabled
  /\ cached[c] = NoContext
  /\ cached' = [cached EXCEPT ![c] = Decode(context[c])]
  /\ UNCHANGED <<softVars, iotlb, historyVars>>

FillIotlb(c) ==
  /\ enabled
  /\ cached[c].root \in Domains
  /\ Cardinality(iotlb) < IotlbSize
  /\ \E p \in pages[cached[c].root] :
       iotlb' = iotlb \union {[did |-> cached[c].did, root |-> cached[c].root, page |-> p]}
  /\ UNCHANGED <<softVars, cached, historyVars>>

Evict ==
  /\ \/ \E c \in Clients : cached' = [cached EXCEPT ![c] = NoContext] /\ UNCHANGED iotlb
     \/ \E e \in iotlb : iotlb' = iotlb \ {e} /\ UNCHANGED cached
  /\ UNCHANGED <<softVars, historyVars>>

Step == WriteLow \/ WriteHigh \/ FlushContext \/ FlushDomain \/ FlushPage

Next ==
  \/ InstallQueue \/ EnableTranslation \/ DisableTranslation \/ DisableQueue \/ Refuse
  \/ \E b \in Buses : InstallContextTable(b)
  \/ \E c \in Clients, active \in Domains :
       Unbind(c, active) \/ \E target \in Targets : Bind(c, active, target)
  \/ \E d \in Domains :
       Invalidate(d) \/ \E p \in Pages : Map(d, p) \/ Unmap(d, p) \/ \E q \in Pages : Remap(d, p, q)
  \/ Step
  \/ \E c \in Clients : FillContext(c) \/ FillIotlb(c)
  \/ Evict \/ \E x \in pending : Fetch(x)

Spec == Init /\ [][Next]_vars

-----------------------------------------------------------------------------
(* Every variable stays in its domain.                                     *)
TypeOK ==
  /\ queue \in {"none", "installed", "enabled"} /\ pending \subseteq Descriptors
  /\ enabled \in BOOLEAN
  /\ tables \subseteq Buses
  /\ context \in [Clients -> Entries]
  /\ pages \in [Domains -> SUBSET Pages]
  /\ cached \in [Clients -> Contexts]
  /\ iotlb \subseteq Lines
  /\ op \in {Idle} \union Attachments \union Unmappings
  /\ binding \in [Clients -> Targets \union {Unknown}]
  /\ confirmed \subseteq Domains \X Pages /\ rebound \subseteq Changes

(* What client c can reach now: through the context hardware has cached or *)
(* would read, the pages the IOTLB still holds for its domain id and the   *)
(* pages its root maps.                                                    *)
ContextsOf(c) == {cached[c], Decode(context[c])} \ {NoContext}

ReachesMemory(c) == \E x \in ContextsOf(c) : x.root = Pass

Reaches(c) ==
  UNION {{<<e.root, e.page>> : e \in {l \in iotlb : l.did = x.did}}
           \union (IF x.root = Pass THEN {} ELSE {x.root} \X pages[x.root])
         : x \in ContextsOf(c)}

(* Once an unbind, or a bind to Abort, has returned Ok and hardware has    *)
(* fetched its context flush, the client reaches nothing, whatever failed, *)
(* was cached, was rebound or was replaced before.  The flush has been     *)
(* fetched when Ok is returned unless an earlier descriptor had not been.  *)
UnbindRevokes ==
  enabled => \A c \in Clients :
    (binding[c] = Absent /\ ContextFlush(c) \notin pending) => ContextsOf(c) = {}

(* The domains whose pages may be cached under the id of d: d itself, and  *)
(* those that a bind wrote over an entry of d, as hardware may have read   *)
(* the entry between its two words.                                        *)
MixedWith(d) == {d} \union {r \in Domains : <<d, r>> \in rebound}

(* Once a bind to a domain has returned Ok and its context flush has been  *)
(* fetched, the client bypasses no translation and reaches pages of that   *)
(* domain alone, or of domains bound directly over it, which bind's own    *)
(* flush of the new domain's id leaves cached.                             *)
BindConfines ==
  enabled => \A c \in Clients :
    (binding[c] \in Domains /\ ContextFlush(c) \notin pending) =>
      ~ReachesMemory(c) /\ Reaches(c) \subseteq MixedWith(binding[c]) \X Pages

(* Every IOTLB line carries the id of the domain whose table it came from, *)
(* unless a bind replaced an entry of that id by the domain directly:      *)
(* page-selective and domain-selective flushes go by the id alone.  An     *)
(* unbind, an Abort or a pass-through between two domains leaves no trace. *)
LinesTagged == \A e \in iotlb : e.root \in MixedWith(e.did)

(* Once the page's invalidation has been submitted with an Ok, by unmap's  *)
(* own flush or by a later invalidate request that covers the page, and    *)
(* hardware has fetched it, no client reaches the page, even if the flush  *)
(* that unmap sent failed unnoticed.  Pages of a domain that was bound     *)
(* directly over another's entry may be cached under the other's id, which *)
(* no flush of their own domain finds.                                     *)
InvalidateConfirms ==
  \A c \in Clients, p \in confirmed :
    (~Awaited(p[1], p[2]) /\ \A d \in Domains \ {p[1]} : p[1] \notin MixedWith(d)) =>
      p \notin Reaches(c)

-----------------------------------------------------------------------------
(* The inductive invariant.                                                *)

Settled(c) == context[c] = Entry(context[c].low)

(* How far the entry of the operation in progress has been written; every  *)
(* other entry is whole.                                                   *)
EntriesInStep ==
  /\ \A c \in Clients : ~(op.step = "high" /\ op.client = c) => Settled(c)
  /\ op \in Attachments =>
       /\ binding[op.client] = Unknown
       /\ op.step # "low" => context[op.client].low = op.target
       /\ (op.step = "high" /\ op.target \in Domains /\ context[op.client].high # Zero)
            => op.target \in MixedWith(context[op.client].high)

(* From the context flush on, hardware has the new entry or none, or has   *)
(* yet to fetch the flush.                                                 *)
CacheFollows(c, target) ==
  /\ context[c] = Entry(target)
  /\ ContextFlush(c) \in pending \/ cached[c] \in {NoContext, Decode(Entry(target))}

CachesInStep ==
  /\ (op \in Attachments /\ op.step = "flush domain") => CacheFollows(op.client, op.target)
  /\ \A c \in Clients : binding[c] # Unknown => CacheFollows(c, binding[c])

(* A cached context or line mixes two domains only after a direct rebind.  *)
TagsAgree ==
  /\ \A c \in Clients : cached[c].root \in Domains => cached[c].root \in MixedWith(cached[c].did)
  /\ LinesTagged

(* Confirmed pages are out of the tables, and out of their own domain's    *)
(* lines once the invalidation has been fetched.                           *)
PagesInStep ==
  /\ \A p \in confirmed : p[2] \notin pages[p[1]]
  /\ op \in Unmappings => op.page \notin pages[op.active]
  /\ \A e \in iotlb :
       (e.did = e.root /\ <<e.root, e.page>> \in confirmed) => Awaited(e.root, e.page)

IndInv == TypeOK /\ EntriesInStep /\ CachesInStep /\ TagsAgree /\ PagesInStep

=============================================================================

---------------------------- MODULE VtdUnitProofs ----------------------------
(***************************************************************************)
(* Machine-checked proofs about VtdUnit, for any number of requesters,     *)
(* domains, pages and buses, any backlog and any submissions failing.      *)
(* IndInv is inductive; the promises of bind, unbind and invalidate follow *)
(* from it.                                                                *)
(***************************************************************************)
EXTENDS VtdUnit, TLAPS

-----------------------------------------------------------------------------
(* Facts about the data.                                                   *)

(* The markers of a context word are no domains and differ.                *)
LEMMA Markers ==
  /\ Absent \notin Domains /\ Pass \notin Domains /\ Zero \notin Domains
  /\ Unknown \notin Domains
  /\ Absent # Pass /\ Absent # Unknown /\ Pass # Unknown
BY ConstantsAssumption DEF Absent, Pass, Zero, Unknown

(* The entry written for a target holds that target and its domain id.     *)
LEMMA EntryShape ==
  ASSUME NEW t \in Targets
  PROVE  /\ Entry(t) \in Entries
         /\ Entry(t).low = t
         /\ t \in Domains => Entry(t).high = t
         /\ t \notin Domains => Entry(t).high = Zero
BY DEF Entry, Entries, Targets

(* An entry is the pair of its words.                                      *)
LEMMA EntryPair ==
  ASSUME NEW e \in Entries, NEW f \in Entries, e.low = f.low, e.high = f.high
  PROVE  e = f
BY DEF Entries

(* What hardware makes of an entry.                                        *)
LEMMA DecodeShape ==
  ASSUME NEW e \in Entries
  PROVE  /\ Decode(e) \in Contexts
         /\ e.low = Absent => Decode(e) = NoContext
         /\ Decode(e).root \in Domains =>
              /\ e.high # Zero
              /\ Decode(e).root = e.low
              /\ Decode(e).did = e.high
BY Markers DEF Decode, NoContext, Contexts, Entries, Targets

(* The step of an operation tells its kind.                                *)
LEMMA OpKinds ==
  ASSUME TypeOK
  PROVE  /\ op.step \in {"low", "high", "flush context", "flush domain"} => op \in Attachments
         /\ op.step = "flush page" => op \in Unmappings
         /\ op \in Attachments =>
              op.client \in Clients /\ op.active \in Domains /\ op.target \in Targets
         /\ op \in Unmappings => op.active \in Domains /\ op.page \in Pages
         /\ op \in Attachments => op \notin Unmappings /\ op # Idle
         /\ op \in Unmappings => op # Idle
<1>1. op \in {Idle} \union Attachments \union Unmappings
  BY DEF TypeOK
<1>2. Idle.step = "idle"
  BY DEF Idle
<1>3. op \in Attachments =>
        /\ op.step \in {"low", "high", "flush context", "flush domain"}
        /\ op.client \in Clients /\ op.active \in Domains /\ op.target \in Targets
  BY DEF Attachments
<1>4. op \in Unmappings => op.step = "flush page" /\ op.active \in Domains /\ op.page \in Pages
  BY DEF Unmappings
<1> QED
  BY <1>1, <1>2, <1>3, <1>4

(* Between operations nothing is half done.                                *)
LEMMA IdleKind ==
  Idle \notin Attachments /\ Idle \notin Unmappings /\ Idle.step = "idle"
BY DEF Idle, Attachments, Unmappings

(* The descriptors callers submit, told apart.                             *)
LEMMA DescriptorShape ==
  /\ \A c \in Clients : ContextFlush(c) \in Descriptors
  /\ \A d \in Domains : DomainFlush(d) \in Descriptors
  /\ \A d \in Domains, p \in Pages : PageFlush(d, IovaOf[p]) \in Descriptors
  /\ GlobalFlush \in Descriptors /\ Gap \in Descriptors
BY DEF Descriptors

-----------------------------------------------------------------------------
(* What submissions and hardware may do to the caches: caches lose,        *)
(* pending gains.                                                          *)

Loses ==
  /\ cached' \in [Clients -> Contexts]
  /\ \A c \in Clients : cached'[c] \in {cached[c], NoContext}
  /\ iotlb' \subseteq iotlb

Gains == pending \subseteq pending' /\ pending' \subseteq Descriptors

(* Nothing that x covers is left.                                          *)
Dropped(x) ==
  /\ \A c \in Clients : x = ContextFlush(c) => cached'[c] = NoContext
  /\ \A e \in iotlb' : ~Covers(x, e.did, IovaOf[e.page])

(* No context is not a domain.                                             *)
LEMMA NoContextShape == NoContext \in Contexts /\ NoContext.root \notin Domains
BY Markers DEF NoContext, Contexts, Targets

(* Executing a descriptor drops what it covers.                            *)
LEMMA Executed ==
  ASSUME TypeOK, NEW x, Execute(x)
  PROVE  Loses /\ Dropped(x)
<1>1. cached' = [c \in Clients |-> IF x = ContextFlush(c) THEN NoContext ELSE cached[c]]
  BY DEF Execute
<1>2. cached \in [Clients -> Contexts]
  BY DEF TypeOK
<1>3. cached' \in [Clients -> Contexts]
  BY <1>1, <1>2, NoContextShape
<1>4. \A c \in Clients : /\ cached'[c] \in {cached[c], NoContext}
                         /\ x = ContextFlush(c) => cached'[c] = NoContext
  BY <1>1
<1>5. iotlb' \subseteq iotlb /\ \A e \in iotlb' : ~Covers(x, e.did, IovaOf[e.page])
  BY DEF Execute
<1> QED
  BY <1>3, <1>4, <1>5 DEF Loses, Dropped

(* A submission, whatever its result.                                      *)
LEMMA Submitted ==
  ASSUME TypeOK, NEW x \in Descriptors, SubmitOk(x) \/ SubmitErr(x)
  PROVE  Loses /\ Gains
<1>1. CASE Done(x)
  BY <1>1, Executed DEF Done, Gains, TypeOK
<1>2. CASE Publish(x)
  BY <1>2 DEF Publish, AddPending, hwVars, Loses, Gains, TypeOK
<1>3. CASE UNCHANGED <<pending, hwVars>>
  BY <1>3 DEF hwVars, Loses, Gains, TypeOK
<1> QED
  BY <1>1, <1>2, <1>3 DEF SubmitOk, SubmitErr

(* An Ok: hardware has executed the descriptor, or has yet to fetch it.    *)
LEMMA SubmittedOk ==
  ASSUME TypeOK, NEW x, SubmitOk(x)
  PROVE  x \in pending' \/ Dropped(x)
<1>1. CASE Done(x)
  BY <1>1, Executed DEF Done
<1>2. CASE Publish(x)
  BY <1>2 DEF Publish, AddPending
<1> QED
  BY <1>1, <1>2 DEF SubmitOk

(* Caches that lose keep their tags, and keep following their entries.     *)
LEMMA LosesKeepsTags ==
  ASSUME TagsAgree, Loses, UNCHANGED rebound
  PROVE  TagsAgree'
<1>1. \A c \in Clients : cached'[c].root \in Domains => cached'[c] = cached[c]
  BY NoContextShape DEF Loses
<1>2. (\A c \in Clients : cached[c].root \in Domains => cached[c].root \in MixedWith(cached[c].did))'
  BY <1>1 DEF TagsAgree, MixedWith
<1>3. \A e \in iotlb' : e.root \in MixedWith(e.did)'
  BY DEF Loses, TagsAgree, LinesTagged, MixedWith
<1> QED
  BY <1>2, <1>3 DEF TagsAgree, LinesTagged

(* A cache that follows its entry goes on doing so.                        *)
LEMMA LosesKeepsFollowing ==
  ASSUME Loses, pending \subseteq pending', UNCHANGED context,
         NEW c \in Clients, NEW t, CacheFollows(c, t)
  PROVE  CacheFollows(c, t)'
BY DEF Loses, CacheFollows

(* So do the bindings.                                                     *)
LEMMA LosesKeepsBindings ==
  ASSUME CachesInStep, Loses, pending \subseteq pending', UNCHANGED <<context, binding>>
  PROVE  \A c \in Clients : binding'[c] # Unknown => CacheFollows(c, binding[c])'
<1> SUFFICES ASSUME NEW c \in Clients, binding[c] # Unknown
             PROVE  CacheFollows(c, binding[c])'
  OBVIOUS
<1>1. PICK t : t = binding[c]
  OBVIOUS
<1>2. CacheFollows(c, t)'
  BY <1>1, LosesKeepsFollowing DEF CachesInStep
<1> QED
  BY <1>1, <1>2

(* Confirmed pages stay out of their domain's lines.                       *)
LEMMA LosesKeepsLines ==
  ASSUME PagesInStep, iotlb' \subseteq iotlb, pending \subseteq pending', UNCHANGED confirmed
  PROVE  \A e \in iotlb' :
           (e.did = e.root /\ <<e.root, e.page>> \in confirmed') => Awaited(e.root, e.page)'
BY DEF PagesInStep, Awaited

-----------------------------------------------------------------------------
(* Steps that touch neither tables nor history.                            *)

(* A step after which caches have lost, pending has gained and registers   *)
(* may have changed.                                                       *)
LEMMA QuietStep ==
  ASSUME IndInv, Loses, Gains,
         UNCHANGED <<tables, context, pages, op, binding, confirmed, rebound>>,
         queue' \in {"none", "installed", "enabled"}, enabled' \in BOOLEAN
  PROVE  IndInv'
<1> USE DEF IndInv
<1>1. TypeOK'
  <2>1. iotlb' \subseteq Lines
    BY DEF Loses, TypeOK
  <2> QED
    BY <2>1 DEF Loses, Gains, TypeOK
<1>2. EntriesInStep'
  BY DEF EntriesInStep, Settled, MixedWith
<1>3. CachesInStep'
  <2>1. (op \in Attachments /\ op.step = "flush domain") => CacheFollows(op.client, op.target)'
    <3> SUFFICES ASSUME op \in Attachments, op.step = "flush domain"
                 PROVE  CacheFollows(op.client, op.target)'
      OBVIOUS
    <3>1. PICK c \in Clients, t \in Targets : c = op.client /\ t = op.target
      BY OpKinds
    <3>2. CacheFollows(c, t)'
      BY <3>1, LosesKeepsFollowing DEF CachesInStep, Gains
    <3> QED
      BY <3>1, <3>2
  <2> QED
    BY <2>1, LosesKeepsBindings DEF CachesInStep, Gains
<1>4. TagsAgree'
  BY LosesKeepsTags
<1>5. PagesInStep'
  <2>1. iotlb' \subseteq iotlb /\ pending \subseteq pending'
    BY DEF Loses, Gains
  <2> QED
    BY <2>1, LosesKeepsLines DEF PagesInStep
<1> QED
  BY <1>1, <1>2, <1>3, <1>4, <1>5

(* enable_translation, disable_translation, disable_queued_invalidation.   *)
LEMMA RegisterStep ==
  ASSUME IndInv, EnableTranslation \/ DisableTranslation \/ DisableQueue
  PROVE  IndInv'
<1>1. UNCHANGED <<tables, context, pages, op, binding, confirmed, rebound, cached, iotlb>>
  BY DEF EnableTranslation, DisableTranslation, DisableQueue, hwVars, historyVars
<1>2. Loses
  BY <1>1 DEF Loses, IndInv, TypeOK
<1>3. Gains
  BY DescriptorShape DEF EnableTranslation, DisableTranslation, DisableQueue, AddPending, Gains,
     IndInv, TypeOK
<1>4. queue' \in {"none", "installed", "enabled"} /\ enabled' \in BOOLEAN
  BY DEF EnableTranslation, DisableTranslation, DisableQueue, IndInv, TypeOK
<1> QED
  BY <1>1, <1>2, <1>3, <1>4, QuietStep

(* Hardware drops something of its own accord.                             *)
LEMMA EvictStep ==
  ASSUME IndInv, Evict
  PROVE  IndInv'
<1>1. UNCHANGED <<queue, enabled, pending, tables, context, pages, op, binding, confirmed, rebound>>
  BY DEF Evict, softVars, historyVars
<1>2. Loses
  BY NoContextShape DEF Evict, Loses, IndInv, TypeOK
<1>3. Gains
  BY <1>1 DEF Gains, IndInv, TypeOK
<1> QED
  BY <1>1, <1>2, <1>3, QuietStep DEF IndInv, TypeOK

(* Nothing happens.                                                        *)
LEMMA StutterStep ==
  ASSUME IndInv, UNCHANGED vars
  PROVE  IndInv'
<1>1. UNCHANGED <<queue, enabled, pending, tables, context, pages, op, binding, confirmed, rebound,
                  cached, iotlb>>
  BY DEF vars, softVars, hwVars, historyVars
<1>2. Loses /\ Gains
  BY <1>1 DEF Loses, Gains, IndInv, TypeOK
<1> QED
  BY <1>1, <1>2, QuietStep DEF IndInv, TypeOK

(* Hardware fetches a descriptor it had yet to fetch: what stops being     *)
(* pending has been dropped from the caches.                               *)
LEMMA FetchStep ==
  ASSUME IndInv, NEW x \in pending, Fetch(x)
  PROVE  IndInv'
<1> USE DEF IndInv
<1>a. UNCHANGED <<queue, enabled, tables, context, pages, op, binding, confirmed, rebound>>
  BY DEF Fetch, historyVars
<1>b. Loses /\ Dropped(x)
  BY Executed DEF Fetch
<1>c. pending' \subseteq pending /\ \A y \in pending : y \in pending' \/ y = x
  BY DEF Fetch
<1>1. TypeOK'
  <2>1. iotlb' \subseteq Lines /\ pending' \subseteq Descriptors
    BY <1>b, <1>c DEF Loses, TypeOK
  <2> QED
    BY <1>a, <1>b, <2>1 DEF Loses, TypeOK
<1>2. EntriesInStep'
  BY <1>a DEF EntriesInStep, Settled, MixedWith
<1>3. CachesInStep'
  <2>1. ASSUME NEW c \in Clients, NEW t, CacheFollows(c, t)
        PROVE  CacheFollows(c, t)'
    <3>1. CASE ContextFlush(c) = x
      BY <1>a, <1>b, <2>1, <3>1 DEF CacheFollows, Dropped
    <3>2. CASE ContextFlush(c) # x
      BY <1>a, <1>b, <1>c, <2>1, <3>2 DEF CacheFollows, Loses
    <3> QED
      BY <3>1, <3>2
  <2>2. ASSUME op \in Attachments, op.step = "flush domain"
        PROVE  CacheFollows(op.client, op.target)'
    <3>1. PICK c \in Clients, t \in Targets : c = op.client /\ t = op.target
      BY <2>2, OpKinds
    <3>2. CacheFollows(c, t)'
      BY <2>1, <2>2, <3>1 DEF CachesInStep
    <3> QED
      BY <1>a, <3>1, <3>2
  <2>3. ASSUME NEW c \in Clients, binding[c] # Unknown
        PROVE  CacheFollows(c, binding[c])'
    <3>1. PICK t : t = binding[c]
      OBVIOUS
    <3>2. CacheFollows(c, t)'
      BY <2>1, <2>3, <3>1 DEF CachesInStep
    <3> QED
      BY <1>a, <3>1, <3>2
  <2> QED
    BY <1>a, <2>2, <2>3 DEF CachesInStep
<1>4. TagsAgree'
  BY <1>a, <1>b, LosesKeepsTags
<1>5. PagesInStep'
  <2>1. ASSUME NEW e \in iotlb', e.did = e.root, <<e.root, e.page>> \in confirmed
        PROVE  Awaited(e.root, e.page)'
    <3>1. e \in iotlb
      BY <1>b, <2>1 DEF Loses
    <3>2. PICK y \in pending : Covers(y, e.root, IovaOf[e.page])
      BY <2>1, <3>1 DEF PagesInStep, Awaited
    <3>3. y # x
      BY <1>b, <2>1, <3>2 DEF Dropped
    <3> QED
      BY <1>c, <3>2, <3>3 DEF Awaited
  <2> QED
    BY <1>a, <2>1 DEF PagesInStep
<1> QED
  BY <1>1, <1>2, <1>3, <1>4, <1>5

-----------------------------------------------------------------------------
(* Bringing the unit up.                                                   *)

(* install_queued_invalidation: what was pending is lost, and no promise   *)
(* that rested on it stands.                                               *)
LEMMA InstallQueueStep ==
  ASSUME IndInv, InstallQueue
  PROVE  IndInv'
<1> USE IdleKind DEF IndInv
<1>a. UNCHANGED <<enabled, tables, context, pages, op, cached, iotlb, rebound>> /\ op = Idle
  BY DEF InstallQueue, hwVars
<1>b. binding' = [c \in Clients |-> IF ContextFlush(c) \in pending THEN Unknown ELSE binding[c]]
  BY DEF InstallQueue
<1>c. confirmed' \subseteq confirmed /\ \A p \in confirmed' : ~Awaited(p[1], p[2])
  BY DEF InstallQueue
<1>1. TypeOK'
  <2>1. binding' \in [Clients -> Targets \union {Unknown}]
    BY <1>b DEF TypeOK
  <2>2. pending' \subseteq Descriptors /\ queue' \in {"none", "installed", "enabled"}
    BY DescriptorShape DEF InstallQueue
  <2>3. confirmed' \subseteq Domains \X Pages
    BY <1>c DEF TypeOK
  <2> QED
    BY <1>a, <2>1, <2>2, <2>3 DEF TypeOK
<1>2. EntriesInStep'
  BY <1>a DEF EntriesInStep, Settled
<1>3. CachesInStep'
  <2>1. ASSUME NEW c \in Clients, binding'[c] # Unknown
        PROVE  CacheFollows(c, binding[c])'
    <3>1. binding'[c] = binding[c] /\ ContextFlush(c) \notin pending
      BY <1>b, <2>1
    <3> QED
      BY <1>a, <2>1, <3>1 DEF CachesInStep, CacheFollows
  <2> QED
    BY <1>a, <2>1 DEF CachesInStep
<1>4. TagsAgree'
  BY <1>a DEF TagsAgree, LinesTagged, MixedWith
<1>5. PagesInStep'
  <2>1. ASSUME NEW e \in iotlb, e.did = e.root, <<e.root, e.page>> \in confirmed'
        PROVE  FALSE
    BY <1>c, <2>1 DEF PagesInStep
  <2> QED
    BY <1>a, <1>c, <2>1 DEF PagesInStep
<1> QED
  BY <1>1, <1>2, <1>3, <1>4, <1>5

(* install_context_table: the entries of the new table are whole, and its  *)
(* clients' bindings are forgotten.                                        *)
LEMMA InstallContextTableStep ==
  ASSUME IndInv, NEW b \in Buses, InstallContextTable(b)
  PROVE  IndInv'
<1> USE IdleKind DEF IndInv
<1>a. /\ UNCHANGED <<queue, pending, enabled, pages, op, cached, iotlb, confirmed, rebound>>
      /\ op = Idle /\ tables' = tables \union {b}
  BY DEF InstallContextTable, hwVars
<1>b. PICK table \in [Clients -> Targets] :
        context' = [c \in Clients |-> IF BusOf[c] = b THEN Entry(table[c]) ELSE context[c]]
  BY DEF InstallContextTable
<1>c. binding' = [c \in Clients |-> IF BusOf[c] = b THEN Unknown ELSE binding[c]]
  BY DEF InstallContextTable
<1>d. context' \in [Clients -> Entries]
  BY <1>b, EntryShape DEF TypeOK
<1>1. TypeOK'
  BY <1>a, <1>c, <1>d DEF TypeOK
<1>2. EntriesInStep'
  <2>1. ASSUME NEW c \in Clients
        PROVE  context'[c] = Entry(context'[c].low)
    <3>1. CASE BusOf[c] = b
      BY <1>b, <3>1, EntryShape
    <3>2. CASE BusOf[c] # b
      BY <1>a, <1>b, <3>2 DEF EntriesInStep, Settled
    <3> QED
      BY <3>1, <3>2
  <2> QED
    BY <1>a, <2>1 DEF EntriesInStep, Settled
<1>3. CachesInStep'
  BY <1>a, <1>b, <1>c DEF CachesInStep, CacheFollows, TypeOK
<1>4. TagsAgree'
  BY <1>a DEF TagsAgree, LinesTagged, MixedWith
<1>5. PagesInStep'
  BY <1>a DEF PagesInStep, Awaited
<1> QED
  BY <1>1, <1>2, <1>3, <1>4, <1>5

-----------------------------------------------------------------------------
(* bind_context and unbind_context.                                        *)

(* bind and unbind begin: their checks, and nothing written yet.           *)
LEMMA AttachStep ==
  ASSUME IndInv, NEW c \in Clients, NEW active \in Domains, NEW target \in Targets,
         Attach(c, active, target)
  PROVE  IndInv'
<1> USE DEF Attach, hwVars, IndInv
<1>0. op' \in Attachments /\ op'.step = "low" /\ op'.client = c /\ op'.target = target
      /\ op' \notin Unmappings
  BY DEF Attachments, Unmappings
<1>1. TypeOK'
  BY <1>0 DEF TypeOK
<1>2. EntriesInStep'
  BY <1>0, IdleKind DEF EntriesInStep, Settled, TypeOK
<1>3. CachesInStep'
  BY <1>0 DEF CachesInStep, CacheFollows, TypeOK
<1>4. TagsAgree'
  BY DEF TagsAgree, LinesTagged, MixedWith
<1>5. PagesInStep'
  BY <1>0 DEF PagesInStep, Awaited
<1> QED
  BY <1>1, <1>2, <1>3, <1>4, <1>5

(* The low word: an entry may now mix two domains, and rebound says so.    *)
LEMMA WriteLowStep ==
  ASSUME IndInv, WriteLow
  PROVE  IndInv'
<1> USE DEF IndInv
<1> DEFINE c == op.client
           t == op.target
<1>0. /\ op \in Attachments /\ op.step = "low" /\ c \in Clients /\ t \in Targets
      /\ op \notin Unmappings
  BY OpKinds DEF WriteLow
<1>a. /\ op' \in Attachments /\ op'.step = "high" /\ op'.client = c /\ op'.target = t
      /\ op' \notin Unmappings
  BY <1>0 DEF WriteLow, Attachments, Unmappings
<1>b. context' = [context EXCEPT ![c].low = t]
  BY <1>0, EntryShape DEF WriteLow
<1>c. UNCHANGED <<queue, pending, enabled, tables, pages, cached, iotlb, binding, confirmed>>
  BY DEF WriteLow, hwVars
<1>d. /\ context' \in [Clients -> Entries]
      /\ context'[c].low = t /\ context'[c].high = context[c].high
      /\ \A x \in Clients : x # c => context'[x] = context[x]
  BY <1>0, <1>b DEF TypeOK, Entries
<1>e. /\ rebound \subseteq rebound' /\ rebound' \subseteq Changes
      /\ <<context[c].low, t>> \in Changes => <<context[c].low, t>> \in rebound'
  BY DEF WriteLow, TypeOK
<1>1. TypeOK'
  BY <1>a, <1>c, <1>d, <1>e DEF TypeOK
<1>2. EntriesInStep'
  <2>1. \A x \in Clients : x # c => Settled(x)'
    BY <1>0, <1>d DEF EntriesInStep, Settled
  <2>2. binding'[c] = Unknown
    BY <1>0, <1>c DEF EntriesInStep
  <2>3. ASSUME t \in Domains, context[c].high # Zero
        PROVE  t = context[c].high \/ <<context[c].high, t>> \in rebound'
    <3>1. context[c] = Entry(context[c].low) /\ context[c].low \in Targets
      BY <1>0 DEF EntriesInStep, Settled, TypeOK, Entries
    <3>2. context[c].low \in Domains /\ context[c].high = context[c].low
      BY <2>3, <3>1, EntryShape
    <3> QED
      BY <1>e, <2>3, <3>2 DEF Changes
  <2>4. ((op.target \in Domains /\ context[op.client].high # Zero)
          => op.target \in MixedWith(context[op.client].high))'
    BY <1>a, <1>d, <2>3 DEF MixedWith
  <2> QED
    BY <1>a, <1>d, <2>1, <2>2, <2>4 DEF EntriesInStep
<1>3. CachesInStep'
  <2>1. binding[c] = Unknown
    BY <1>0 DEF EntriesInStep
  <2> QED
    BY <1>a, <1>c, <1>d, <2>1 DEF CachesInStep, CacheFollows
<1>4. TagsAgree'
  BY <1>c, <1>e DEF TagsAgree, LinesTagged, MixedWith
<1>5. PagesInStep'
  BY <1>a, <1>c DEF PagesInStep, Awaited
<1> QED
  BY <1>1, <1>2, <1>3, <1>4, <1>5

(* The high word: the entry is whole again.                                *)
LEMMA WriteHighStep ==
  ASSUME IndInv, WriteHigh
  PROVE  IndInv'
<1> USE DEF IndInv
<1> DEFINE c == op.client
           t == op.target
<1>0. /\ op \in Attachments /\ op.step = "high" /\ c \in Clients /\ t \in Targets
  BY OpKinds DEF WriteHigh
<1>a. /\ op' \in Attachments /\ op'.step = "flush context" /\ op'.client = c /\ op'.target = t
      /\ op' \notin Unmappings
  BY <1>0 DEF WriteHigh, Attachments, Unmappings
<1>b. context' = [context EXCEPT ![c].high = Entry(t).high]
  BY DEF WriteHigh
<1>c. UNCHANGED <<queue, pending, enabled, tables, pages, cached, iotlb, binding, confirmed,
                  rebound>>
  BY DEF WriteHigh, hwVars, historyVars
<1>d. /\ context' \in [Clients -> Entries]
      /\ context'[c].low = context[c].low /\ context'[c].high = Entry(t).high
      /\ \A x \in Clients : x # c => context'[x] = context[x]
  <2>1. Entry(t).high \in Domains \union {Zero}
    BY <1>0, EntryShape
  <2> QED
    BY <1>0, <1>b, <2>1 DEF TypeOK, Entries
<1>1. TypeOK'
  BY <1>a, <1>c, <1>d DEF TypeOK
<1>2. EntriesInStep'
  <2>1. \A x \in Clients : x # c => Settled(x)'
    BY <1>0, <1>d DEF EntriesInStep, Settled
  <2>2. binding'[c] = Unknown /\ context[c].low = t
    BY <1>0, <1>c DEF EntriesInStep
  <2>3. Settled(c)'
    <3>1. context'[c] \in Entries
      BY <1>0, <1>d
    <3>2. context'[c] = Entry(t)
      BY <1>0, <1>d, <2>2, <3>1, EntryShape, EntryPair
    <3> QED
      BY <1>a, <1>d, <2>2, <3>2 DEF Settled
  <2> QED
    BY <1>a, <1>d, <2>1, <2>2, <2>3 DEF EntriesInStep
<1>3. CachesInStep'
  <2>1. binding[c] = Unknown
    BY <1>0 DEF EntriesInStep
  <2> QED
    BY <1>a, <1>c, <1>d, <2>1 DEF CachesInStep, CacheFollows
<1>4. TagsAgree'
  BY <1>c DEF TagsAgree, LinesTagged, MixedWith
<1>5. PagesInStep'
  BY <1>a, <1>c DEF PagesInStep, Awaited
<1> QED
  BY <1>1, <1>2, <1>3, <1>4, <1>5

(* The context flush, done, left to hardware, or failed.                   *)
LEMMA FlushContextStep ==
  ASSUME IndInv, FlushContext
  PROVE  IndInv'
<1> USE DEF IndInv
<1> DEFINE c == op.client
           t == op.target
<1>0. /\ op \in Attachments /\ op.step = "flush context" /\ c \in Clients /\ t \in Targets
      /\ op \notin Unmappings
  BY OpKinds DEF FlushContext
<1>a. UNCHANGED <<queue, enabled, tables, context, pages, binding, confirmed, rebound>>
  BY DEF FlushContext, historyVars
<1>b. Loses /\ Gains
  BY <1>0, DescriptorShape, Submitted DEF FlushContext
<1>e. \/ op' = Idle
      \/ /\ op' \in Attachments /\ op'.step = "flush domain"
         /\ op'.client = c /\ op'.target = t /\ op' \notin Unmappings
         /\ ContextFlush(c) \in pending' \/ cached'[c] = NoContext
  <2>1. CASE SubmitOk(ContextFlush(c)) /\ op' = [op EXCEPT !.step = "flush domain"]
    <3>1. ContextFlush(c) \in pending' \/ cached'[c] = NoContext
      BY <1>0, <2>1, SubmittedOk DEF Dropped
    <3> QED
      BY <1>0, <2>1, <3>1 DEF Attachments, Unmappings
  <2> QED
    BY <2>1 DEF FlushContext
<1>1. TypeOK'
  <2>1. iotlb' \subseteq Lines
    BY <1>b DEF Loses, TypeOK
  <2> QED
    BY <1>a, <1>b, <1>e, <2>1 DEF Loses, Gains, TypeOK
<1>2. EntriesInStep'
  <2>1. \A x \in Clients : Settled(x)'
    BY <1>0, <1>a DEF EntriesInStep, Settled
  <2>2. CASE op' = Idle
    BY <2>1, <2>2, IdleKind DEF EntriesInStep
  <2>3. CASE op' # Idle
    BY <1>0, <1>a, <1>e, <2>1, <2>3 DEF EntriesInStep
  <2> QED
    BY <2>2, <2>3
<1>3. CachesInStep'
  <2>1. \A x \in Clients : binding'[x] # Unknown => CacheFollows(x, binding[x])'
    BY <1>a, <1>b, LosesKeepsBindings DEF Gains
  <2>2. op' \in Attachments => CacheFollows(op.client, op.target)'
    <3>1. context[c] = Entry(t)
      BY <1>0 DEF EntriesInStep, Settled
    <3> QED
      BY <1>0, <1>a, <1>e, <3>1, IdleKind DEF CacheFollows, TypeOK
  <2> QED
    BY <1>e, <2>1, <2>2, IdleKind DEF CachesInStep
<1>4. TagsAgree'
  BY <1>a, <1>b, LosesKeepsTags
<1>5. PagesInStep'
  <2>1. iotlb' \subseteq iotlb /\ pending \subseteq pending'
    BY <1>b DEF Loses, Gains
  <2> QED
    BY <1>a, <1>e, <2>1, LosesKeepsLines, IdleKind DEF PagesInStep
<1> QED
  BY <1>1, <1>2, <1>3, <1>4, <1>5

(* The domain flush ends the operation; an Ok becomes a binding.           *)
LEMMA FlushDomainStep ==
  ASSUME IndInv, FlushDomain
  PROVE  IndInv'
<1> USE DEF IndInv
<1> DEFINE c == op.client
           t == op.target
<1>0. /\ op \in Attachments /\ op.step = "flush domain" /\ c \in Clients /\ t \in Targets
      /\ op.active \in Domains
  BY OpKinds DEF FlushDomain
<1>a. UNCHANGED <<queue, enabled, tables, context, pages, confirmed, rebound>> /\ op' = Idle
  BY DEF FlushDomain
<1>b. Loses /\ Gains
  BY <1>0, DescriptorShape, Submitted DEF FlushDomain
<1>d. binding' = binding \/ binding' = [binding EXCEPT ![c] = t]
  BY DEF FlushDomain
<1>1. TypeOK'
  <2>1. iotlb' \subseteq Lines
    BY <1>b DEF Loses, TypeOK
  <2>2. binding' \in [Clients -> Targets \union {Unknown}]
    BY <1>0, <1>d DEF TypeOK
  <2> QED
    BY <1>a, <1>b, <2>1, <2>2 DEF Loses, Gains, TypeOK
<1>2. EntriesInStep'
  BY <1>0, <1>a, IdleKind DEF EntriesInStep, Settled
<1>3. CachesInStep'
  <2>1. CacheFollows(c, t)
    BY <1>0 DEF CachesInStep
  <2>2. ASSUME NEW x \in Clients, binding'[x] # Unknown
        PROVE  CacheFollows(x, binding[x])'
    <3>1. PICK u : u = binding'[x]
      OBVIOUS
    <3>2. CacheFollows(x, u)
      BY <1>0, <1>d, <2>1, <2>2, <3>1 DEF CachesInStep, TypeOK
    <3>3. CacheFollows(x, u)'
      BY <1>a, <1>b, <3>2, LosesKeepsFollowing DEF Gains
    <3> QED
      BY <3>1, <3>3
  <2> QED
    BY <1>a, <2>2, IdleKind DEF CachesInStep
<1>4. TagsAgree'
  BY <1>a, <1>b, LosesKeepsTags
<1>5. PagesInStep'
  <2>1. iotlb' \subseteq iotlb /\ pending \subseteq pending'
    BY <1>b DEF Loses, Gains
  <2> QED
    BY <1>a, <2>1, LosesKeepsLines, IdleKind DEF PagesInStep
<1> QED
  BY <1>1, <1>2, <1>3, <1>4, <1>5

-----------------------------------------------------------------------------
(* map, remap, protect, unmap and invalidate.                              *)

(* map adds a page and withdraws what was confirmed of it.                 *)
LEMMA MapStep ==
  ASSUME IndInv, NEW d \in Domains, NEW v \in Pages, Map(d, v)
  PROVE  IndInv'
<1> USE IdleKind DEF Map, hwVars, IndInv
<1>1. TypeOK'
  BY DEF TypeOK
<1>2. EntriesInStep'
  BY DEF EntriesInStep, Settled
<1>3. CachesInStep'
  BY DEF CachesInStep, CacheFollows
<1>4. TagsAgree'
  BY DEF TagsAgree, LinesTagged, MixedWith
<1>5. PagesInStep'
  <2>1. \A p \in confirmed' : p \in confirmed /\ p \in Domains \X Pages /\ p # <<d, v>>
    BY DEF TypeOK
  <2>2. \A p \in confirmed' : p[2] \notin pages'[p[1]]
    BY <2>1 DEF PagesInStep, TypeOK
  <2> QED
    BY <2>2 DEF PagesInStep, Awaited
<1> QED
  BY <1>1, <1>2, <1>3, <1>4, <1>5

(* unmap takes the page out of the table before it flushes.                *)
LEMMA UnmapStep ==
  ASSUME IndInv, NEW d \in Domains, NEW v \in Pages, Unmap(d, v)
  PROVE  IndInv'
<1> USE DEF Unmap, hwVars, historyVars, IndInv
<1>0. /\ op' \in Unmappings /\ op' \notin Attachments /\ op'.step = "flush page"
      /\ op'.active = d /\ op'.page = v
  BY DEF Unmappings, Attachments
<1>1. TypeOK'
  BY <1>0 DEF TypeOK
<1>2. EntriesInStep'
  BY <1>0, IdleKind DEF EntriesInStep, Settled
<1>3. CachesInStep'
  BY <1>0 DEF CachesInStep, CacheFollows
<1>4. TagsAgree'
  BY DEF TagsAgree, LinesTagged, MixedWith
<1>5. PagesInStep'
  <2>1. \A p \in confirmed : p \in Domains \X Pages
    BY DEF TypeOK
  <2>2. \A p \in confirmed' : p[2] \notin pages'[p[1]]
    BY <2>1 DEF PagesInStep, TypeOK
  <2> QED
    BY <1>0, <2>2 DEF PagesInStep, TypeOK, Awaited
<1> QED
  BY <1>1, <1>2, <1>3, <1>4, <1>5

(* remap and protect: the old page is out before the flush, the new one is *)
(* no longer confirmed.                                                    *)
LEMMA RemapStep ==
  ASSUME IndInv, NEW d \in Domains, NEW p \in Pages, NEW q \in Pages, Remap(d, p, q)
  PROVE  IndInv'
<1> USE DEF IndInv
<1>0. /\ op = Idle /\ op' \in Unmappings /\ op' \notin Attachments /\ op'.step = "flush page"
      /\ op'.active = d /\ op'.page = p
  BY DEF Remap, Unmappings, Attachments
<1>a. UNCHANGED <<queue, pending, enabled, tables, context, cached, iotlb, binding, rebound>>
  BY DEF Remap, hwVars
<1>b. p # q /\ pages' = [pages EXCEPT ![d] = (@ \ {p}) \union {q}]
  BY DEF Remap
<1>c. confirmed' = confirmed \ {<<d, q>>}
  BY DEF Remap
<1>1. TypeOK'
  BY <1>0, <1>a, <1>b, <1>c DEF TypeOK
<1>2. EntriesInStep'
  BY <1>0, <1>a, IdleKind DEF EntriesInStep, Settled
<1>3. CachesInStep'
  BY <1>0, <1>a DEF CachesInStep, CacheFollows
<1>4. TagsAgree'
  BY <1>a DEF TagsAgree, LinesTagged, MixedWith
<1>5. PagesInStep'
  <2>1. \A a \in Domains : \A b \in pages'[a] : b \in pages[a] \/ (a = d /\ b = q)
    BY <1>b DEF TypeOK
  <2>2. \A a \in Domains, b \in Pages : <<a, b>> \in confirmed' => b \notin pages'[a]
    BY <1>c, <2>1 DEF PagesInStep
  <2>3. \A x \in confirmed' : x \in Domains \X Pages
    BY <1>c DEF TypeOK
  <2>4. \A x \in confirmed' : x[2] \notin pages'[x[1]]
    BY <2>2, <2>3
  <2>5. p \notin pages'[d]
    BY <1>b DEF TypeOK
  <2>6. confirmed' \subseteq confirmed
    BY <1>c
  <2> QED
    BY <1>0, <1>a, <2>4, <2>5, <2>6 DEF PagesInStep, Awaited
<1> QED
  BY <1>1, <1>2, <1>3, <1>4, <1>5

(* A submission that confirms pages: those it adds are out of the tables,  *)
(* and the descriptor, executed or pending, covers them.                   *)
LEMMA ConfirmStep ==
  ASSUME IndInv, NEW x \in Descriptors, SubmitOk(x), NEW S \in SUBSET (Domains \X Pages),
         \A p \in S : p[2] \notin pages[p[1]] /\ Covers(x, p[1], IovaOf[p[2]]),
         confirmed' = confirmed \union S,
         UNCHANGED pages
  PROVE  /\ \A p \in confirmed' : p[2] \notin pages'[p[1]]
         /\ \A e \in iotlb' :
              (e.did = e.root /\ <<e.root, e.page>> \in confirmed') => Awaited(e.root, e.page)'
<1>1. Loses /\ Gains /\ (x \in pending' \/ Dropped(x))
  BY Submitted, SubmittedOk DEF IndInv
<1>2. \A p \in confirmed' : p[2] \notin pages'[p[1]]
  BY DEF IndInv, PagesInStep
<1>3. ASSUME NEW e \in iotlb', e.did = e.root, <<e.root, e.page>> \in confirmed'
      PROVE  Awaited(e.root, e.page)'
  <2>1. CASE <<e.root, e.page>> \in confirmed
    <3>1. PICK y \in pending : Covers(y, e.root, IovaOf[e.page])
      BY <1>1, <1>3, <2>1 DEF IndInv, PagesInStep, Awaited, Loses
    <3>2. y \in pending'
      BY <1>1 DEF Gains
    <3> QED
      BY <3>1, <3>2 DEF Awaited
  <2>2. CASE <<e.root, e.page>> \in S
    <3>1. Covers(x, e.root, IovaOf[e.page])
      BY <2>2
    <3>2. x \in pending'
      BY <1>1, <1>3, <3>1 DEF Dropped
    <3> QED
      BY <3>1, <3>2 DEF Awaited
  <2> QED
    BY <1>3, <2>1, <2>2
<1> QED
  BY <1>2, <1>3

(* The flush of unmap and remap, whose Result nobody sees.                 *)
LEMMA FlushPageStep ==
  ASSUME IndInv, FlushPage
  PROVE  IndInv'
<1> USE DEF IndInv
<1>0. /\ op \in Unmappings /\ op \notin Attachments /\ op.step = "flush page"
      /\ op.active \in Domains /\ op.page \in Pages
  BY OpKinds DEF FlushPage
<1>a. UNCHANGED <<queue, enabled, tables, context, pages, binding, rebound>> /\ op' = Idle
  BY DEF FlushPage
<1>b. PICK x \in Flushes(op.active, op.page) :
        \/ SubmitOk(x) /\ confirmed' = confirmed \union {<<op.active, op.page>>}
        \/ SubmitErr(x) /\ UNCHANGED confirmed
  BY DEF FlushPage
<1>c. x \in Descriptors /\ Covers(x, op.active, IovaOf[op.page])
  BY <1>0, <1>b, DescriptorShape DEF Flushes, Covers
<1>d. Loses /\ Gains
  BY <1>b, <1>c, Submitted
<1>e. PICK q \in Domains \X Pages :
        q = <<op.active, op.page>> /\ q[1] = op.active /\ q[2] = op.page
  <2>1. PICK a \in Domains, v \in Pages : a = op.active /\ v = op.page
    BY <1>0
  <2>2. <<a, v>> \in Domains \X Pages
    OBVIOUS
  <2> QED
    BY <2>1, <2>2
<1>1. TypeOK'
  <2>1. confirmed' \subseteq Domains \X Pages
    BY <1>b, <1>e DEF TypeOK
  <2>2. iotlb' \subseteq Lines
    BY <1>d DEF Loses, TypeOK
  <2> QED
    BY <1>a, <1>d, <2>1, <2>2 DEF Loses, Gains, TypeOK
<1>2. EntriesInStep'
  BY <1>0, <1>a, IdleKind DEF EntriesInStep, Settled
<1>3. CachesInStep'
  BY <1>a, <1>d, LosesKeepsBindings, IdleKind DEF CachesInStep, Gains
<1>4. TagsAgree'
  BY <1>a, <1>d, LosesKeepsTags
<1>5. PagesInStep'
  <2>1. CASE SubmitOk(x) /\ confirmed' = confirmed \union {<<op.active, op.page>>}
    <3>1. PICK S \in SUBSET (Domains \X Pages) : S = {q}
      OBVIOUS
    <3>2. q[2] \notin pages[q[1]] /\ Covers(x, q[1], IovaOf[q[2]])
      BY <1>0, <1>c, <1>e DEF PagesInStep
    <3>3. \A p \in S : p[2] \notin pages[p[1]] /\ Covers(x, p[1], IovaOf[p[2]])
      BY <3>1, <3>2
    <3>4. confirmed' = confirmed \union S
      BY <1>e, <2>1, <3>1
    <3> QED
      BY <1>a, <1>c, <2>1, <3>3, <3>4, ConfirmStep, IdleKind DEF PagesInStep
  <2>2. CASE UNCHANGED confirmed
    <3>1. iotlb' \subseteq iotlb /\ pending \subseteq pending'
      BY <1>d DEF Loses, Gains
    <3> QED
      BY <1>a, <2>2, <3>1, LosesKeepsLines, IdleKind DEF PagesInStep
  <2> QED
    BY <1>b, <2>1, <2>2
<1> QED
  BY <1>1, <1>2, <1>3, <1>4, <1>5

(* invalidate confirms what its descriptor covers.                         *)
LEMMA InvalidateStep ==
  ASSUME IndInv, NEW d \in Domains, Invalidate(d)
  PROVE  IndInv'
<1>a. UNCHANGED <<queue, enabled, tables, context, pages, op, binding, rebound>> /\ op = Idle
  BY DEF Invalidate
<1> DEFINE S(x) == {p \in NotMapped : Covers(x, p[1], IovaOf[p[2]])}
<1>b. PICK x \in Requests(d) :
        \/ SubmitOk(x) /\ confirmed' = confirmed \union S(x)
        \/ SubmitErr(x) /\ UNCHANGED confirmed
  BY DEF Invalidate
<1>c. x \in Descriptors
  <2>1. PagesFor[d] \subseteq Pages
    BY ConstantsAssumption
  <2> QED
    BY <1>b, <2>1, DescriptorShape DEF Requests
<1>d. Loses /\ Gains
  BY <1>b, <1>c, Submitted DEF IndInv
<1>e. /\ S(x) \in SUBSET (Domains \X Pages)
      /\ \A p \in S(x) : p[2] \notin pages[p[1]] /\ Covers(x, p[1], IovaOf[p[2]])
  <2>1. ASSUME NEW p \in NotMapped
        PROVE  p \in Domains \X Pages /\ p[2] \notin pages[p[1]]
    <3>1. PICK a \in Domains : p \in {a} \X (PagesFor[a] \ pages[a])
      BY <2>1 DEF NotMapped
    <3>2. PagesFor[a] \subseteq Pages
      BY ConstantsAssumption
    <3> QED
      BY <3>1, <3>2
  <2> QED
    BY <2>1
<1>1. CASE UNCHANGED confirmed
  BY <1>a, <1>d, <1>1, QuietStep DEF IndInv, TypeOK
<1>2. CASE SubmitOk(x) /\ confirmed' = confirmed \union S(x)
  <2> USE DEF IndInv
  <2>0. PICK T \in SUBSET (Domains \X Pages) : T = S(x)
    BY <1>e
  <2>a. /\ \A p \in T : p[2] \notin pages[p[1]] /\ Covers(x, p[1], IovaOf[p[2]])
        /\ confirmed' = confirmed \union T
    BY <1>2, <1>e, <2>0
  <2> HIDE DEF S
  <2>1. TypeOK'
    <3>1. confirmed' \subseteq Domains \X Pages
      BY <2>a DEF TypeOK
    <3>2. iotlb' \subseteq Lines
      BY <1>d DEF Loses, TypeOK
    <3> QED
      BY <1>a, <1>d, <3>1, <3>2 DEF Loses, Gains, TypeOK
  <2>2. EntriesInStep'
    BY <1>a, IdleKind DEF EntriesInStep, Settled
  <2>3. CachesInStep'
    BY <1>a, <1>d, LosesKeepsBindings, IdleKind DEF CachesInStep, Gains
  <2>4. TagsAgree'
    BY <1>a, <1>d, LosesKeepsTags
  <2>5. PagesInStep'
    BY <1>a, <1>c, <1>2, <2>a, ConfirmStep, IdleKind DEF PagesInStep
  <2> QED
    BY <2>1, <2>2, <2>3, <2>4, <2>5
<1> QED
  BY <1>b, <1>1, <1>2

-----------------------------------------------------------------------------
(* The hardware.                                                           *)

(* Hardware reads an entry, whole or half written.                         *)
LEMMA FillContextStep ==
  ASSUME IndInv, NEW c \in Clients, FillContext(c)
  PROVE  IndInv'
<1> USE DEF IndInv
<1>a. UNCHANGED <<queue, pending, enabled, tables, context, pages, op, iotlb, binding, confirmed,
                  rebound>>
  BY DEF FillContext, softVars, historyVars
<1>b. context[c] \in Entries
  BY DEF TypeOK
<1>c. /\ cached' \in [Clients -> Contexts] /\ cached'[c] = Decode(context[c])
      /\ \A x \in Clients : x # c => cached'[x] = cached[x]
  BY <1>b, DecodeShape DEF FillContext, TypeOK
<1>1. TypeOK'
  BY <1>a, <1>c DEF TypeOK
<1>2. EntriesInStep'
  BY <1>a DEF EntriesInStep, Settled, MixedWith
<1>3. CachesInStep'
  BY <1>a, <1>c, OpKinds DEF CachesInStep, CacheFollows
<1>4. TagsAgree'
  <2>1. ASSUME cached'[c].root \in Domains
        PROVE  (cached[c].root \in MixedWith(cached[c].did))'
    <3>1. /\ cached'[c].root = context[c].low /\ cached'[c].did = context[c].high
          /\ context[c].low \in Domains /\ context[c].high # Zero
      BY <1>b, <1>c, <2>1, DecodeShape
    <3>2. context[c].low \in MixedWith(context[c].high)
      <4>1. CASE op.step = "high" /\ op.client = c
        BY <3>1, <4>1, OpKinds DEF EntriesInStep
      <4>2. CASE ~(op.step = "high" /\ op.client = c)
        <5>1. context[c] = Entry(context[c].low) /\ context[c].low \in Targets
          BY <1>b, <4>2 DEF EntriesInStep, Settled, Entries
        <5> QED
          BY <3>1, <5>1, EntryShape DEF MixedWith
      <4> QED
        BY <4>1, <4>2
    <3> QED
      BY <1>a, <3>1, <3>2 DEF MixedWith
  <2>2. ASSUME NEW x \in Clients, x # c, cached'[x].root \in Domains
        PROVE  (cached[x].root \in MixedWith(cached[x].did))'
    BY <1>a, <1>c, <2>2 DEF TagsAgree, MixedWith
  <2>3. LinesTagged'
    BY <1>a DEF TagsAgree, LinesTagged, MixedWith
  <2> QED
    BY <2>1, <2>2, <2>3 DEF TagsAgree
<1>5. PagesInStep'
  BY <1>a DEF PagesInStep, Awaited
<1> QED
  BY <1>1, <1>2, <1>3, <1>4, <1>5

(* Hardware walks a table and keeps the line.                              *)
LEMMA FillIotlbStep ==
  ASSUME IndInv, NEW c \in Clients, FillIotlb(c)
  PROVE  IndInv'
<1> USE DEF IndInv
<1>a. UNCHANGED <<queue, pending, enabled, tables, context, pages, op, cached, binding, confirmed,
                  rebound>>
  BY DEF FillIotlb, softVars, historyVars
<1>b. PICK p \in pages[cached[c].root] :
        iotlb' = iotlb \union {[did |-> cached[c].did, root |-> cached[c].root, page |-> p]}
  BY DEF FillIotlb
<1>c. cached[c].root \in Domains
  BY DEF FillIotlb
<1>d. PICK new \in Lines :
        /\ new = [did |-> cached[c].did, root |-> cached[c].root, page |-> p]
        /\ new.did = cached[c].did /\ new.root = cached[c].root /\ new.page = p
  <2>1. PICK d \in Domains \union {Zero}, r \in Domains : d = cached[c].did /\ r = cached[c].root
    BY <1>c DEF TypeOK, Contexts
  <2>2. p \in Pages
    BY <1>b, <1>c DEF TypeOK
  <2>3. [did |-> d, root |-> r, page |-> p] \in Lines
    BY <2>2 DEF Lines
  <2> QED
    BY <2>1, <2>3
<1>e. iotlb' = iotlb \union {new}
  BY <1>b, <1>d
<1>1. TypeOK'
  <2>1. iotlb' \subseteq Lines
    BY <1>e DEF TypeOK
  <2> QED
    BY <1>a, <2>1 DEF TypeOK
<1>2. EntriesInStep'
  BY <1>a DEF EntriesInStep, Settled, MixedWith
<1>3. CachesInStep'
  BY <1>a DEF CachesInStep, CacheFollows
<1>4. TagsAgree'
  <2>1. new.root \in MixedWith(new.did)
    BY <1>c, <1>d DEF TagsAgree
  <2>2. \A e \in iotlb' : e.root \in MixedWith(e.did)
    BY <1>e, <2>1 DEF TagsAgree, LinesTagged
  <2> QED
    BY <1>a, <2>2 DEF TagsAgree, LinesTagged, MixedWith
<1>5. PagesInStep'
  <2>1. <<new.root, new.page>> \notin confirmed
    BY <1>b, <1>d DEF PagesInStep
  <2> QED
    BY <1>a, <1>e, <2>1 DEF PagesInStep, Awaited
<1> QED
  BY <1>1, <1>2, <1>3, <1>4, <1>5

-----------------------------------------------------------------------------
(* The invariant.                                                          *)

(* The unit starts with nothing installed.                                 *)
LEMMA InitHolds == Init => IndInv
<1> SUFFICES ASSUME Init PROVE IndInv
  OBVIOUS
<1> USE IdleKind DEF Init
<1>0. Absent \in Targets
  BY DEF Targets
<1>1. TypeOK
  BY <1>0, EntryShape DEF TypeOK, NoContext, Contexts, Targets
<1>2. EntriesInStep
  BY <1>0, EntryShape DEF EntriesInStep, Settled
<1>3. CachesInStep
  BY DEF CachesInStep
<1>4. TagsAgree
  BY Markers DEF TagsAgree, LinesTagged, NoContext
<1>5. PagesInStep
  BY DEF PagesInStep
<1> QED
  BY <1>1, <1>2, <1>3, <1>4, <1>5 DEF IndInv

(* Every step preserves the invariant.                                     *)
LEMMA NextPreserves == IndInv /\ [Next]_vars => IndInv'
<1> SUFFICES ASSUME IndInv, [Next]_vars PROVE IndInv'
  OBVIOUS
<1>1. CASE UNCHANGED vars
  BY <1>1, StutterStep
<1>2. CASE InstallQueue
  BY <1>2, InstallQueueStep
<1>3. CASE EnableTranslation \/ DisableTranslation \/ DisableQueue
  BY <1>3, RegisterStep
<1>4. CASE Refuse
  BY <1>4, StutterStep DEF Refuse
<1>5. CASE \E b \in Buses : InstallContextTable(b)
  BY <1>5, InstallContextTableStep
<1>6. CASE \E c \in Clients, active \in Domains :
             Unbind(c, active) \/ \E target \in Targets : Bind(c, active, target)
  <2>1. \E c \in Clients, active \in Domains, target \in Targets : Attach(c, active, target)
    BY <1>6 DEF Bind, Unbind, Targets
  <2> QED
    BY <2>1, AttachStep
<1>7. CASE \E d \in Domains :
             Invalidate(d) \/ \E p \in Pages : Map(d, p) \/ Unmap(d, p) \/ \E q \in Pages : Remap(d, p, q)
  <2>1. PICK d \in Domains :
          Invalidate(d) \/ \E p \in Pages : Map(d, p) \/ Unmap(d, p) \/ \E q \in Pages : Remap(d, p, q)
    BY <1>7
  <2>2. CASE Invalidate(d)
    BY <2>2, InvalidateStep
  <2>3. ASSUME NEW p \in Pages, Map(d, p) \/ Unmap(d, p)
        PROVE  IndInv'
    BY <2>3, MapStep, UnmapStep
  <2>4. ASSUME NEW p \in Pages, NEW q \in Pages, Remap(d, p, q)
        PROVE  IndInv'
    BY <2>4, RemapStep
  <2> QED
    BY <2>1, <2>2, <2>3, <2>4
<1>8. CASE Step
  BY <1>8, WriteLowStep, WriteHighStep, FlushContextStep, FlushDomainStep, FlushPageStep DEF Step
<1>9. CASE \E c \in Clients : FillContext(c) \/ FillIotlb(c)
  BY <1>9, FillContextStep, FillIotlbStep
<1>10. CASE Evict
  BY <1>10, EvictStep
<1>11. CASE \E x \in pending : Fetch(x)
  BY <1>11, FetchStep
<1> QED
  BY <1>1, <1>2, <1>3, <1>4, <1>5, <1>6, <1>7, <1>8, <1>9, <1>10, <1>11 DEF Next

(* IndInv holds in every state of the unit, whatever fails, is fetched     *)
(* late or is rebound, and however software and hardware interleave.       *)
THEOREM UnitInvariance == Spec => []IndInv
BY InitHolds, NextPreserves, PTL DEF Spec

(* Every variable of the unit stays in its domain.                         *)
THEOREM UnitTypeCorrect == Spec => []TypeOK
<1>1. IndInv => TypeOK
  BY DEF IndInv
<1> QED
  BY <1>1, UnitInvariance, PTL

(* unbind_context: after an Ok unbind or bind to Abort whose context flush *)
(* has been fetched, hardware has no context for the client, in memory or  *)
(* cached, even with time-outs, a queue turned off, replaced tables and    *)
(* direct rebinding before.                                                *)
THEOREM UnbindIsRevocation == Spec => []UnbindRevokes
<1>1. IndInv => UnbindRevokes
  <2> SUFFICES ASSUME IndInv, NEW c \in Clients, binding[c] = Absent,
                      ContextFlush(c) \notin pending
               PROVE  ContextsOf(c) = {}
    BY DEF UnbindRevokes
  <2>1. Absent \in Targets /\ Absent # Unknown
    BY Markers DEF Targets
  <2>2. context[c] = Entry(Absent) /\ cached[c] \in {NoContext, Decode(Entry(Absent))}
    BY <2>1 DEF IndInv, CachesInStep, CacheFollows
  <2>3. Decode(Entry(Absent)) = NoContext
    BY <2>1, EntryShape, DecodeShape
  <2> QED
    BY <2>2, <2>3 DEF ContextsOf
<1> QED
  BY <1>1, UnitInvariance, PTL

(* write_128 writes Present before the domain id: hardware that reads the  *)
(* entry in between pairs the ids of two domains only where a bind wrote   *)
(* the one directly over the other.                                        *)
THEOREM TagsStayTrue == Spec => []LinesTagged
<1>1. IndInv => LinesTagged
  BY DEF IndInv, TagsAgree
<1> QED
  BY <1>1, UnitInvariance, PTL

(* bind_context: after an Ok bind to a domain whose context flush has been *)
(* fetched, the client reaches that domain's pages, those of domains that  *)
(* a bind wrote directly over an entry of it, and no other memory.         *)
THEOREM BindIsConfinement == Spec => []BindConfines
<1>1. IndInv => BindConfines
  <2> SUFFICES ASSUME IndInv, NEW c \in Clients, NEW d \in Domains, binding[c] = d,
                      ContextFlush(c) \notin pending
               PROVE  ~ReachesMemory(c) /\ Reaches(c) \subseteq MixedWith(d) \X Pages
    BY DEF BindConfines
  <2>1. d \in Targets /\ d # Unknown /\ d # Pass
    BY Markers DEF Targets
  <2>2. context[c] = Entry(d) /\ cached[c] \in {NoContext, Decode(Entry(d))}
    BY <2>1 DEF IndInv, CachesInStep, CacheFollows
  <2>3. Decode(Entry(d)) = [root |-> d, did |-> d]
    BY <2>1, EntryShape, Markers DEF Decode
  <2>4. \A x \in ContextsOf(c) : x.root = d /\ x.did = d
    BY <2>2, <2>3 DEF ContextsOf
  <2>5. ~ReachesMemory(c)
    BY <2>1, <2>4 DEF ReachesMemory
  <2>6. \A e \in iotlb : e.did = d => e.root \in MixedWith(d) /\ e.page \in Pages
    BY DEF IndInv, TagsAgree, LinesTagged, TypeOK, Lines
  <2>7. pages[d] \subseteq Pages /\ d \in MixedWith(d)
    BY DEF IndInv, TypeOK, MixedWith
  <2>8. ASSUME NEW q \in Reaches(c)
        PROVE  q \in MixedWith(d) \X Pages
    <3>1. PICK x \in ContextsOf(c) :
            q \in {<<e.root, e.page>> : e \in {l \in iotlb : l.did = x.did}}
                    \union (IF x.root = Pass THEN {} ELSE {x.root} \X pages[x.root])
      BY <2>8 DEF Reaches
    <3> QED
      BY <2>1, <2>4, <2>6, <2>7, <3>1
  <2> QED
    BY <2>5, <2>8
<1> QED
  BY <1>1, UnitInvariance, PTL

(* invalidate: no client reaches a page that is not mapped once an         *)
(* invalidation covering it has returned Ok and been fetched, whatever     *)
(* failed before, unless the page's domain was bound directly over         *)
(* another's entry.                                                        *)
THEOREM InvalidateIsConfirmation == Spec => []InvalidateConfirms
<1>1. IndInv => InvalidateConfirms
  <2> SUFFICES ASSUME IndInv, NEW c \in Clients, NEW p \in confirmed, ~Awaited(p[1], p[2]),
                      \A d \in Domains \ {p[1]} : p[1] \notin MixedWith(d),
                      p \in Reaches(c)
               PROVE  FALSE
    BY DEF InvalidateConfirms
  <2>1. p \in Domains \X Pages /\ p[2] \notin pages[p[1]]
    BY DEF IndInv, TypeOK, PagesInStep
  <2>2. PICK x \in ContextsOf(c) :
          p \in {<<e.root, e.page>> : e \in {l \in iotlb : l.did = x.did}}
                  \union (IF x.root = Pass THEN {} ELSE {x.root} \X pages[x.root])
    BY DEF Reaches
  <2>3. p \notin {x.root} \X pages[x.root]
    BY <2>1
  <2>4. PICK e \in iotlb : p = <<e.root, e.page>>
    BY <2>2, <2>3
  <2>5. e.root = p[1] /\ e.page = p[2] /\ e.root \in MixedWith(e.did)
    BY <2>4 DEF IndInv, TagsAgree, LinesTagged
  <2>6. e.did \in Domains => e.did = e.root
    BY <2>5
  <2>7. e.did = e.root
    BY <2>5, <2>6 DEF MixedWith, IndInv, TypeOK, Changes
  <2> QED
    BY <2>4, <2>5, <2>7 DEF IndInv, PagesInStep
<1> QED
  BY <1>1, UnitInvariance, PTL

=============================================================================

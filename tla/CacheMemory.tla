----------------------------- MODULE CacheMemory -----------------------------
(***************************************************************************)
(* Page caches (page-cache.ts) over one memory manager (memory.ts), beside *)
(* an operator that only counts its bytes and a reservation.  The caches   *)
(* are the only owners that give bytes back.  A page has a weight; times   *)
(* of touch are modelled by the order of the caches in them.               *)
(***************************************************************************)
EXTENDS Integers, Sequences, SequencesExt, FiniteSets, FiniteSetsExt

CONSTANTS
  Caches,     \* the caches: trees of one database and of others
  Keys,       \* page ids
  Weights,    \* weights of a page
  Budgets,    \* budgets of the manager
  Limits,     \* limits of a cache
  MaxTracked  \* bound: bytes of the operator and of the reservation

VARIABLES
  caches,    \* entries oldest first, resident bytes, limit, loads under way
  bytes,     \* the bytes the manager counts for each owner
  used,      \* #usedBytes
  order,     \* the caches whose handle is not released, by time of touch
  budget     \* #maxBytes

vars == <<caches, bytes, used, order, budget>>

NonNegative(n) == Max({0, n})

-----------------------------------------------------------------------------
(* page-cache.ts *)

Weight(entries) == FoldLeft(LAMBDA sum, e : sum + e.bytes, 0, entries)

\* evictOldest, until no more than the target is resident.
Evicted(cache, target) ==
  LET Left(n) == cache.resident - Weight(SubSeq(cache.entries, 1, n))
      n == Min({m \in 0..Len(cache.entries) : Left(m) <= target \/ m = Len(cache.entries)})
  IN [cache EXCEPT !.entries = SubSeq(@, n + 1, Len(@)), !.resident = Left(n)]

Has(cache, key) == \E e \in ToSet(cache.entries) : e.key = key

\* The page moves to the young end; loading it again replaces it.
Filled(cache, key, weight) ==
  LET others == SelectSeq(cache.entries, LAMBDA e : e.key # key)
  IN [cache EXCEPT !.entries = Append(others, [key |-> key, bytes |-> weight]),
                   !.resident = @ + weight]

-----------------------------------------------------------------------------
(* memory.ts, on a state s of the manager and the caches. *)

State == [caches |-> caches, bytes |-> bytes, used |-> used]

ReclaimFrom(s, cache) ==
  LET asked == Min({s.remaining, s.bytes[cache]})
      after == Evicted(s.caches[cache], NonNegative(s.caches[cache].resident - asked))
      reclaimed == Min({s.caches[cache].resident - after.resident, s.bytes[cache]})
  IN IF s.remaining <= 0 THEN s
     ELSE [s EXCEPT !.caches[cache] = after, !.bytes[cache] = @ - reclaimed,
                    !.used = @ - reclaimed, !.remaining = @ - reclaimed]

\* Mutant: the cache touched last gives first.
NewestFirst(s, by, target) ==
  FoldRight(LAMBDA cache, left : ReclaimFrom(left, cache), by,
            [caches |-> s.caches, bytes |-> s.bytes, used |-> s.used, remaining |-> target])

\* reclaimTo: the caches in the order they were touched, until enough is free.
ReclaimTo(s, by, target) ==
  FoldLeft(ReclaimFrom, [caches |-> s.caches, bytes |-> s.bytes, used |-> s.used,
                         remaining |-> target], by)

ReclaimToBudget(s, by, max) == ReclaimTo(s, by, NonNegative(s.used - max))

Counted(s, owner, n) == [s EXCEPT !.used = @ + n - s.bytes[owner], !.bytes[owner] = n]
Touched(cache) == Append(SelectSeq(order, LAMBDA c : c # cache), cache)

\* resize of a cache's handle to what it holds; nothing once it is released.
Resized(s, cache) ==
  IF cache \notin ToSet(order) THEN s
  ELSE ReclaimToBudget(Counted(s, cache, s.caches[cache].resident), Touched(cache), budget)

Become(s) == caches' = s.caches /\ bytes' = s.bytes /\ used' = s.used
Changed(cache, now) == [State EXCEPT !.caches[cache] = now]

ResizeTo(cache, now) ==
  /\ Become(Resized(Changed(cache, now), cache))
  /\ order' = IF cache \in ToSet(order) THEN Touched(cache) ELSE order
  /\ UNCHANGED budget

-----------------------------------------------------------------------------
Init ==
  /\ \E limit \in Limits :
       caches = [c \in Caches |-> [entries |-> <<>>, resident |-> 0, limit |-> limit,
                                   loads |-> [k \in Keys |-> 0]]]
  /\ bytes = [o \in Caches \union {"operator", "reservation"} |-> 0]
  /\ used = 0
  /\ order = SetToSeq(Caches)
  /\ budget \in Budgets

\* get of a page that is there.
Hit(c, k) ==
  /\ Has(caches[c], k)
  /\ caches' = [caches EXCEPT ![c].entries =
                  LET mine == SelectSeq(@, LAMBDA e : e.key = k)
                  IN SelectSeq(@, LAMBDA e : e.key # k) \o mine]
  /\ UNCHANGED <<bytes, used, order, budget>>

\* get of a page that is neither there nor being loaded.
Miss(c, k) ==
  /\ ~Has(caches[c], k) /\ caches[c].loads[k] = 0
  /\ caches' = [caches EXCEPT ![c].loads[k] = 1]
  /\ UNCHANGED <<bytes, used, order, budget>>

Arrived(c, k) == [caches[c] EXCEPT !.loads[k] = @ - 1]

\* The load arrives: the page is kept unless it alone is over the limit.
Loaded(c, k) ==
  /\ caches[c].loads[k] > 0
  /\ \E weight \in Weights :
       IF weight <= caches[c].limit
       THEN ResizeTo(c, Evicted(Filled(Arrived(c, k), k, weight), caches[c].limit))
       ELSE caches' = [caches EXCEPT ![c] = Arrived(c, k)] /\ UNCHANGED <<bytes, used, order, budget>>

LoadFails(c, k) ==
  /\ caches[c].loads[k] > 0
  /\ caches' = [caches EXCEPT ![c] = Arrived(c, k)]
  /\ UNCHANGED <<bytes, used, order, budget>>

Cleared(cache) == [cache EXCEPT !.entries = <<>>, !.resident = 0]
Clear(c) == ResizeTo(c, Cleared(caches[c]))

\* dispose: the cache is cleared and its handle released.
Dispose(c) ==
  /\ c \in ToSet(order)
  /\ Become(Counted(Changed(c, Cleared(caches[c])), c, 0))
  /\ order' = SelectSeq(order, LAMBDA x : x # c)
  /\ UNCHANGED budget

SetLimit(c) ==
  \E limit \in Limits : ResizeTo(c, Evicted([caches[c] EXCEPT !.limit = limit], limit))

ReclaimCache(c) ==
  \E n \in 1..MaxTracked :
    ResizeTo(c, Evicted(caches[c], NonNegative(caches[c].resident - n)))

SetMaxBytes ==
  \E max \in Budgets :
    budget' = max /\ Become(ReclaimToBudget(State, order, max)) /\ UNCHANGED order

Reclaim ==
  \E n \in 1..MaxTracked :
    Become(ReclaimTo(State, order, n)) /\ UNCHANGED <<order, budget>>

\* An operator that holds rows resizes its handle (executor.ts, dataflow.ts).
Track ==
  \E n \in 0..MaxTracked :
    /\ Become(ReclaimToBudget(Counted(State, "operator", n), order, budget))
    /\ UNCHANGED <<order, budget>>

\* reserve: what can be freed is freed; then the bytes are there, or it throws.
Reserve ==
  \E n \in 1..MaxTracked :
    LET freed == ReclaimTo(State, order, NonNegative(used + n - budget))
    IN /\ bytes["reservation"] = 0
       /\ Become(IF n <= NonNegative(budget - freed.used) THEN Counted(freed, "reservation", n)
                 ELSE freed)
       /\ UNCHANGED <<order, budget>>

Release ==
  /\ Become(Counted(State, "reservation", 0))
  /\ UNCHANGED <<order, budget>>

Next ==
  \/ \E c \in Caches :
       \/ \E k \in Keys : Hit(c, k) \/ Miss(c, k) \/ Loaded(c, k) \/ LoadFails(c, k)
       \/ Clear(c) \/ Dispose(c) \/ SetLimit(c) \/ ReclaimCache(c)
  \/ SetMaxBytes \/ Reclaim \/ Track \/ Reserve \/ Release
Spec == Init /\ [][Next]_vars

-----------------------------------------------------------------------------
\* What the manager counts is what is there: the bytes used are those of its owners,
\* a cache's bytes are those of the pages it holds, each page once, although pages are
\* evicted from inside the manager's own walk (reclaimTo, reclaimInternal).
Accounted ==
  /\ used = bytes["operator"] + bytes["reservation"] + MapThenSumSet(LAMBDA c : bytes[c], Caches)
  /\ \A c \in Caches : caches[c].resident = Weight(caches[c].entries)
  /\ \A c \in ToSet(order) : bytes[c] = caches[c].resident

\* The manager is over its budget only when no cache has a page left to give
\* (reclaimToBudget).
OverBudgetOnlyWhenDry ==
  used > budget => \A c \in ToSet(order) : caches[c].entries = <<>>

\* A reservation is granted only within the budget, whatever had to be evicted for it
\* (reserve).
Granted == bytes'["reservation"] > bytes["reservation"] => used' <= budget
ReservedWithinBudget == [][Granted]_vars

\* When the budget shrinks, an operator grows or bytes are reserved, the caches give
\* pages in the order they were touched: one gives only after those touched before it
\* have given all theirs (reclaimTo).
GivenOldestFirst ==
  (budget' # budget \/ \E o \in {"operator", "reservation"} : bytes'[o] # bytes[o]) =>
    \A i, j \in DOMAIN order :
      (i < j /\ Len(caches'[order[j]].entries) < Len(caches[order[j]].entries))
        => caches'[order[i]].entries = <<>>
OldestFirst == [][GivenOldestFirst]_vars

\* The manager accounts for every page a cache holds (docs/api/runtime.md:11).
CachedPagesAccounted ==
  used >= MapThenSumSet(LAMBDA c : caches[c].resident, Caches)
=============================================================================

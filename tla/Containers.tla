----------------------------- MODULE Containers -----------------------------
(***************************************************************************)
(* Memory and rings: arenas (flow/Arena.h) and Deque<T> (flow/Deque.h),    *)
(* two machines that share nothing.                                        *)
(***************************************************************************)
EXTENDS Integers, Sequences, FiniteSets, FiniteSetsExt, SequencesExt

(***************************************************************************)
(* Arenas: memory handed out from reference counted blocks.  A block grows *)
(* into a new one that refers to it, an arena may depend on another, and a *)
(* block is freed with everything only it refers to.                       *)
(*                                                                         *)
(* Sizes are those of the code on a 64-bit build.                          *)
(***************************************************************************)
CONSTANTS Arenas,      \* Arena objects
          Sizes,       \* sizes that are allocated or reserved
          MaxBlocks,   \* bound on the blocks in use
          MaxOps       \* bound on the operations on arenas

\* What the constants have to be.
ArenaAssumption ==
    IsFiniteSet(Arenas) /\ Sizes \subseteq Nat /\ MaxBlocks \in Nat
    /\ MaxOps \in Nat

SMALL == 64
LARGE == 8193
TINY_HEADER == 6
Header == 20        \* sizeof(ArenaBlock)
RefSize == 16       \* sizeof(ArenaBlockRef)

VARIABLES
    blocks,   \* the blocks; one that was freed may be used again
    impl,     \* each arena's block, or 0
    mem,      \* the allocations each arena must keep alive: block, offset, size
    stack,    \* destroy(): blocks to free
    ops       \* operations so far

arenaVars == <<blocks, impl, mem, stack, ops>>

Block(tiny, size, used) ==
    [tiny |-> tiny, size |-> size, used |-> used, refs |-> <<>>, count |-> 1, live |-> TRUE]

Freed == [Block(TRUE, 0, 0) EXCEPT !.live = FALSE]

ArenaInit ==
    /\ blocks = [b \in 1..MaxBlocks |-> Freed] /\ stack = <<>> /\ ops = 0
    /\ impl = [a \in Arenas |-> 0] /\ mem = [a \in Arenas |-> {}]

Unused(bs, b) == bs[b].size - bs[b].used

-----------------------------------------------------------------------------
(***************************************************************************)
(* Operations on blocks: each returns the blocks afterwards.               *)
(***************************************************************************)
\* The smallest of the allocator's sizes that is enough; larger is as asked.
Fit(n, sizes) == IF \E s \in sizes : n <= s THEN Min({s \in sizes : n <= s}) ELSE n

AddRef(bs, b) == [bs EXCEPT ![b].count = @ + 1]

\* The reference is written into the block, where the next data would go.
MakeReference(bs, b, next) ==
    [bs EXCEPT ![b].refs = Append(@, [to |-> next, at |-> bs[b].used]),
               ![b].used = @ + RefSize]

ReqSize(bs, n, next) == n + Header + (IF next = 0 THEN 0 ELSE RefSize)

\* Each block is larger than the one before, up to a limit.
Grown(r, prev) ==
    IF r < LARGE THEN Max({r, Min({prev * 2, Max({LARGE - 1, r * 4})})}) ELSE r

Big(r) == Block(FALSE, Fit(r, {128, 256, 512, 1024, 2048, 4096, 8192}), Header)

\* A huge block hangs off the old one if that has more room left.
HangsOff(bs, r, n, next) ==
    r >= LARGE /\ next # 0 /\ ~bs[next].tiny /\ Unused(bs, next) >= r - n

(***************************************************************************)
(* create: the blocks, the arena's block and the block to allocate from.   *)
(***************************************************************************)
New(bs) == Min({b \in DOMAIN bs : ~bs[b].live})
Room == \E b \in DOMAIN blocks : ~blocks[b].live

CreateBig(bs, n, next, r) ==
    IF HangsOff(bs, r, n, next)
    THEN [bs |-> MakeReference([bs EXCEPT ![New(bs)] = Big(r)], next, New(bs)), impl |-> next, b |-> New(bs)]
    ELSE [bs |-> IF next = 0 THEN [bs EXCEPT ![New(bs)] = Big(r)]
                 ELSE MakeReference([bs EXCEPT ![New(bs)] = Big(r)], New(bs), next),
          impl |-> New(bs), b |-> New(bs)]

Create(bs, n, next) ==
    IF n <= SMALL - TINY_HEADER /\ next = 0
    THEN [bs |-> [bs EXCEPT ![New(bs)] =
                        Block(TRUE, Fit(n + TINY_HEADER, {16, 32, 64}), TINY_HEADER)],
          impl |-> New(bs), b |-> New(bs)]
    ELSE CreateBig(bs, n, next,
                   Grown(ReqSize(bs, n, next), IF next = 0 THEN 0 ELSE bs[next].size))

\* addUsed, and the allocation it makes.
Use(c, a, n) ==
    /\ blocks' = [c.bs EXCEPT ![c.b].used = @ + n]
    /\ impl' = [impl EXCEPT ![a] = c.impl]
    /\ mem' = [mem EXCEPT ![a] = @ \cup {[block |-> c.b, at |-> c.bs[c.b].used, size |-> n]}]

-----------------------------------------------------------------------------
\* operator new (size_t, Arena&).
Allocate(a, n) ==
    /\ IF impl[a] # 0 /\ Unused(blocks, impl[a]) >= n
       THEN Use([bs |-> blocks, impl |-> impl[a], b |-> impl[a]], a, n)
       ELSE Room /\ Use(Create(blocks, n, impl[a]), a, n)
    /\ UNCHANGED stack

\* Arena(reservedSize).
Reserve(a, n) ==
    /\ impl[a] = 0 /\ n > 0 /\ Room
    /\ \E c \in {Create(blocks, n, 0)} : blocks' = c.bs /\ impl' = [impl EXCEPT ![a] = c.impl]
    /\ UNCHANGED <<mem, stack>>

\* The blocks a block refers to, directly or not (getUniqueBlocks).
RECURSIVE Reach(_)
Reach(bs) ==
    LET more == bs \cup UNION {{blocks[b].refs[n].to : n \in DOMAIN blocks[b].refs} : b \in bs}
    IN IF more = bs THEN bs ELSE Reach(more)

\* Fault: the other block is not counted.
CountedNot(bs, other) == bs

Counted(bs, other) == AddRef(bs, other)

\* a.dependsOn(p).  Nothing in the code prevents a circle, which is never
\* freed; callers make none.
DependsOn(a, p) ==
    /\ impl[p] # 0 /\ impl[a] \notin Reach({impl[p]})
    /\ \E bs \in {Counted(blocks, impl[p])} :
         IF impl[a] = 0 \/ bs[impl[a]].tiny \/ Unused(bs, impl[a]) < RefSize
         THEN /\ Room
              /\ \E c \in {Create(bs, SMALL, impl[a])} :
                   /\ blocks' = MakeReference(c.bs, c.b, impl[p])
                   /\ impl' = [impl EXCEPT ![a] = c.impl]
         ELSE blocks' = MakeReference(bs, impl[a], impl[p]) /\ UNCHANGED impl
    /\ mem' = [mem EXCEPT ![a] = @ \cup mem[p]]
    /\ UNCHANGED stack

\* delref of the block an arena had, or nothing.
Released(bs, b) == IF b = 0 THEN bs ELSE [bs EXCEPT ![b].count = @ - 1]
Pushed(bs, b) == IF b # 0 /\ bs[b].count = 0 THEN Append(stack, b) ELSE stack

\* Arena& operator=(const Arena&), and the copy constructor.
Assign(a, p) ==
    /\ a # p /\ impl[p] # 0
    /\ \E bs \in {Released(AddRef(blocks, impl[p]), impl[a])} :
         blocks' = bs /\ stack' = Pushed(bs, impl[a])
    /\ impl' = [impl EXCEPT ![a] = impl[p]] /\ mem' = [mem EXCEPT ![a] = mem[p]]

\* Arena& operator=(Arena&&).  Between two arenas with one block Reference's
\* assignment does nothing, and both keep their references.
MoveArena(a, p) ==
    /\ a # p /\ impl[p] # 0
    /\ IF impl[a] = impl[p]
       THEN mem' = [mem EXCEPT ![a] = mem[p]] /\ UNCHANGED <<blocks, stack, impl>>
       ELSE /\ \E bs \in {Released(blocks, impl[a])} : blocks' = bs /\ stack' = Pushed(bs, impl[a])
            /\ impl' = [impl EXCEPT ![a] = impl[p], ![p] = 0]
            /\ mem' = [mem EXCEPT ![a] = mem[p], ![p] = {}]

Destruct(a) ==
    /\ impl[a] # 0
    /\ \E bs \in {Released(blocks, impl[a])} : blocks' = bs /\ stack' = Pushed(bs, impl[a])
    /\ impl' = [impl EXCEPT ![a] = 0] /\ mem' = [mem EXCEPT ![a] = {}]

(***************************************************************************)
(* One turn of destroy(): the references of the block on top are dropped,  *)
(* blocks that lose their last one are pushed, and the block is released.  *)
(* Other threads may use arenas that share blocks in between.              *)
(***************************************************************************)
Dying(bs, refs) == SelectSeq(refs, LAMBDA r : bs[r.to].count = 0)

Unreferenced(bs, refs) ==
    [b \in DOMAIN bs |->
        [bs[b] EXCEPT !.count = @ - Cardinality({n \in DOMAIN refs : refs[n].to = b})]]

DestroyNext ==
    /\ stack # <<>>
    /\ \E b \in {Last(stack)} : \E refs \in {blocks[b].refs} :
         \E bs \in {Unreferenced(blocks, refs)} :
           /\ blocks' = [bs EXCEPT ![b] = Freed]
           /\ \E dying \in {{Dying(bs, refs)[n].to : n \in DOMAIN Dying(bs, refs)}} :
                stack' = Front(stack) \o SetToSeq(dying)
    /\ UNCHANGED <<impl, mem>>

Operation ==
    \/ \E a \in Arenas, n \in Sizes : Allocate(a, n) \/ Reserve(a, n)
    \/ \E a, p \in Arenas : DependsOn(a, p) \/ Assign(a, p) \/ MoveArena(a, p)
    \/ \E a \in Arenas : Destruct(a)

ArenaNext ==
    \/ ops < MaxOps /\ ops' = ops + 1 /\ Operation
    \/ DestroyNext /\ UNCHANGED ops

ArenaSpec == ArenaInit /\ [][ArenaNext]_arenaVars

-----------------------------------------------------------------------------
(***************************************************************************)
(* Pieces of a block: its allocations and the references written into it.  *)
(***************************************************************************)
Live == {b \in DOMAIN blocks : blocks[b].live}
Pieces(b) ==
    {<<m.at, m.size>> : m \in {x \in UNION {mem[a] : a \in Arenas} : x.block = b}}
    \cup {<<blocks[b].refs[n].at, RefSize>> : n \in DOMAIN blocks[b].refs}

(***************************************************************************)
(* Nothing written into a block overlaps its header, another piece or the  *)
(* end of the block, although references share the space with data.        *)
(***************************************************************************)
NoOverlap ==
    \A b \in Live :
      /\ blocks[b].used <= blocks[b].size
      /\ \A p \in Pieces(b) : /\ p[1] >= (IF blocks[b].tiny THEN TINY_HEADER ELSE Header)
                              /\ p[1] + p[2] <= blocks[b].used
                              /\ \A q \in Pieces(b) \ {p} :
                                    p[1] + p[2] <= q[1] \/ q[1] + q[2] <= p[1]

References(b) ==
    Cardinality({a \in Arenas : impl[a] = b})
    + MapThenSumSet(LAMBDA c : Cardinality({n \in DOMAIN blocks[c].refs : blocks[c].refs[n].to = b}),
                    Live)

(***************************************************************************)
(* A block's count is the number of arenas and blocks that refer to it.    *)
(***************************************************************************)
CountsAgree == \A b \in Live : blocks[b].count = References(b)

(***************************************************************************)
(* What an arena allocated, or came to depend on through a copy, a move or *)
(* dependsOn, is in a block that the arena reaches and that is not freed.  *)
(***************************************************************************)
MemoryIsKept ==
    \A a \in Arenas : \A m \in mem[a] : m.block \in Live \cap Reach({impl[a]} \ {0})

(***************************************************************************)
(* When no destroy is under way every live block is reached by an arena.   *)
(***************************************************************************)
NothingLeaks == stack = <<>> => Live \subseteq Reach({impl[a] : a \in Arenas} \ {0})

(***************************************************************************)
(* All of this at once, while arenas are copied, moved, appended to and    *)
(* destroyed.                                                              *)
(***************************************************************************)
ArenaSafe == NoOverlap /\ CountsAgree /\ MemoryIsKept /\ NothingLeaks

-----------------------------------------------------------------------------
(***************************************************************************)
(* Deque<T>: a double ended queue in a circular array whose size is a      *)
(* power of two.  Indexes are unsigned words of W bits (32 in the code),   *)
(* and mask is -1, all ones, while there is no array.                      *)
(***************************************************************************)
CONSTANTS W,              \* bits of a word
          FirstSize,      \* half of the first array's size (4 in the code)
          Values,         \* elements
          Deques

\* What the constants have to be.
DequeAssumption == W \in Nat /\ W > 2 /\ FirstSize \in Nat \ {0} /\ Values \subseteq Nat \ {0}

VARIABLES deque,      \* begin, end, mask, and arr: a function on slots, Raw where nothing lives
          ref,        \* what each deque should hold
          misuse      \* a slot was constructed twice, or destroyed when nothing lived there

dequeVars == <<deque, ref, misuse>>

Raw == 0
Word(n) == n % 2^W
max_size == 2^(W - 2)
NoSlots == [s \in {} |-> Raw]
Fresh == [begin |-> 0, end |-> 0, mask |-> 2^W - 1, arr |-> NoSlots]

DequeInit == deque = [d \in Deques |-> Fresh] /\ ref = [d \in Deques |-> <<>>] /\ misuse = FALSE

size(q) == Word(q.end - q.begin)
capacity(q) == Word(q.mask + 1)
\* n & mask, for a mask of ones
Masked(n, q) == IF q.mask = 2^W - 1 THEN n ELSE n % (q.mask + 1)
Slot(q, i) == Masked(Word(q.begin + i), q)
Occupied(q) == {Slot(q, i) : i \in 0..(size(q) - 1)}

full(q) == q.end = Word(q.begin + q.mask + 1)

\* The size of the next array.
NewSize(q) == 2 * IF q.arr = NoSlots THEN FirstSize ELSE q.mask + 1

\* The elements, moved to the front of an array of n slots.
Moved(q, n) == [s \in 0..(n - 1) |-> IF s < size(q) THEN q.arr[Slot(q, s)] ELSE Raw]

grow(q) == [begin |-> 0, end |-> Word(q.end - q.begin), mask |-> NewSize(q) - 1, arr |-> Moved(q, NewSize(q))]

Roomy(q) == IF full(q) THEN grow(q) ELSE q

-----------------------------------------------------------------------------
push_back(d, v) ==
    \/ \* std::bad_alloc
       full(deque[d]) /\ NewSize(deque[d]) > max_size /\ UNCHANGED dequeVars
    \/ /\ ~(full(deque[d]) /\ NewSize(deque[d]) > max_size)
       /\ \E q \in {Roomy(deque[d])} :
            /\ misuse' = (misuse \/ q.arr[Masked(q.end, q)] # Raw)
            /\ deque' = [deque EXCEPT ![d] = [q EXCEPT !.arr[Masked(q.end, q)] = v, !.end = Word(@ + 1)]]
       /\ ref' = [ref EXCEPT ![d] = Append(@, v)]

Destroyed(q, s) == [q EXCEPT !.arr[s] = Raw]

pop_back(d) ==
    /\ size(deque[d]) # 0
    /\ \E s \in {Masked(Word(deque[d].end - 1), deque[d])} :
         /\ misuse' = (misuse \/ deque[d].arr[s] = Raw)
         /\ deque' = [deque EXCEPT ![d] = Destroyed([@ EXCEPT !.end = Word(@ - 1)], s)]
    /\ ref' = [ref EXCEPT ![d] = SubSeq(@, 1, Len(@) - 1)]

\* Fault: end does not come back with begin.
AdvanceBeginOnly(q) == [q EXCEPT !.begin = IF q.begin = q.mask THEN 0 ELSE @ + 1]

Advance(q) ==
    IF q.begin = q.mask THEN [q EXCEPT !.begin = Word(@ - q.mask), !.end = Word(@ - (q.mask + 1))]
    ELSE [q EXCEPT !.begin = Word(@ + 1)]

pop_front(d) ==
    /\ size(deque[d]) # 0
    /\ misuse' = (misuse \/ deque[d].arr[deque[d].begin] = Raw)
    /\ deque' = [deque EXCEPT ![d] = Advance(Destroyed(@, deque[d].begin))]
    /\ ref' = [ref EXCEPT ![d] = SubSeq(@, 2, Len(@))]

clear(d) ==
    /\ deque' = [deque EXCEPT ![d] = [begin |-> 0, end |-> 0, mask |-> @.mask,
                                      arr |-> [s \in DOMAIN @.arr |-> Raw]]]
    /\ ref' = [ref EXCEPT ![d] = <<>>]
    /\ misuse' = (misuse \/ \E s \in Occupied(deque[d]) : deque[d].arr[s] = Raw)

\* The copy constructor, and operator=(Deque const&) after cleanup.  A deque is
\* not assigned to itself: the code does not look, and would copy from the storage
\* it has just allocated; nobody in the repository does it.
CopyDeque(d, r) ==
    /\ d # r
    /\ deque' = [deque EXCEPT ![d] =
           [begin |-> 0, end |-> size(deque[r]), mask |-> deque[r].mask,
            arr |-> IF capacity(deque[r]) = 0 THEN NoSlots ELSE Moved(deque[r], capacity(deque[r]))]]
    /\ ref' = [ref EXCEPT ![d] = ref[r]]
    /\ UNCHANGED misuse

MovedFrom(q) == Fresh

\* The move constructor, and operator=(Deque&&) after cleanup.
MoveDeque(d, r) ==
    /\ d # r
    /\ deque' = [deque EXCEPT ![d] = deque[r], ![r] = MovedFrom(deque[r])]
    /\ ref' = [ref EXCEPT ![d] = ref[r], ![r] = <<>>]
    /\ UNCHANGED misuse

DequeNext ==
    \E d \in Deques :
      \/ \E v \in Values : push_back(d, v)
      \/ pop_back(d) \/ pop_front(d) \/ clear(d)
      \/ \E r \in Deques : CopyDeque(d, r) \/ MoveDeque(d, r)

DequeSpec == DequeInit /\ [][DequeNext]_dequeVars

-----------------------------------------------------------------------------
(***************************************************************************)
(* A deque holds what was pushed and not popped, in order, through growth, *)
(* wrapping around, copies and moves: what operator[] gives.               *)
(***************************************************************************)
Contents == \A d \in Deques :
    /\ size(deque[d]) = Len(ref[d])
    /\ \A i \in 0..(Len(ref[d]) - 1) : /\ Slot(deque[d], i) \in DOMAIN deque[d].arr
                                       /\ deque[d].arr[Slot(deque[d], i)] = ref[d][i + 1]

(***************************************************************************)
(* The elements that live are those between begin and end: none leaks, and *)
(* none is destroyed or constructed twice.                                 *)
(***************************************************************************)
Lifetimes ==
    /\ ~misuse
    /\ \A d \in Deques : \A s \in DOMAIN deque[d].arr : deque[d].arr[s] # Raw <=> s \in Occupied(deque[d])

(***************************************************************************)
(* A deque without an array has capacity 0 and is full, so that the next   *)
(* push allocates; otherwise begin is a slot and end at most one array     *)
(* further, so that no index ever wraps around the word.                   *)
(***************************************************************************)
IndexesInRange ==
    \A d \in Deques : \E q \in {deque[d]} :
      IF q.arr = NoSlots THEN capacity(q) = 0 /\ full(q)
      ELSE /\ DOMAIN q.arr = 0..q.mask /\ q.mask < max_size
           /\ q.begin <= q.mask /\ q.begin <= q.end /\ q.end <= q.begin + q.mask + 1

(***************************************************************************)
(* All of this at once.                                                    *)
(***************************************************************************)
DequeRight == Contents /\ Lifetimes /\ IndexesInRange
=============================================================================

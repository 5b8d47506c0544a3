------------------------------ MODULE LdMalloc ------------------------------
(***************************************************************************)
(* The loader's allocator (secpoline_loader/loader/ld_malloc.c): arenas    *)
(* from mmap, cut into chunks with a header before and a footer behind the *)
(* user's bytes, and a doubly linked list of the free chunks.  Every call  *)
(* holds ld_malloc_lock from beginning to end, so a call is one step.      *)
(*                                                                         *)
(* A valid canary is modelled by the domains of hdr and ftr: an address    *)
(* has a valid header exactly when it is in the domain of hdr with the     *)
(* current generation of canaries.  A chunk is named by the address of its *)
(* header; the links of a free chunk lie in its user bytes.                *)
(***************************************************************************)
EXTENDS Integers, Sequences, FiniteSets, TLC

CONSTANTS PageSize,       \* LD_MALLOC_PAGE_SIZE
          NPages,         \* pages the kernel has for arenas
          SizeMod,        \* 2^64: size_t is a number below it
          MallocSizes,    \* sizes asked of ld_malloc
          CallocSizes,    \* pairs <<nmemb, size>> asked of ld_calloc
          ReallocSizes,   \* sizes asked of ld_realloc
          MaxLive,        \* bound on the blocks in use
          MaxResets,      \* bound on the calls of ld_malloc_reset
          GrowIntoLast    \* may a block grow into the last chunk of its arena?

VARIABLES heap,       \* memory and the list, see EmptyHeap
          live,       \* blocks the callers hold: address -> size asked for
          retired,    \* blocks held when ld_malloc_reset was called
          initialized,
          resets

vars == <<heap, live, retired, initialized, resets>>

NULL == 0
Header == 32
Footer == 16
Overhead == Header + Footer

Align(n) == (((n + 15) % SizeMod) \div 16) * 16
PageAlign(n) == ((n + PageSize - 1) \div PageSize) * PageSize
SizeForUser(n) == Align(n) + Overhead

User(c) == c + Header
FooterOf(c, size) == c + Header + size
NextOf(f) == f + Footer
ChunkOf(p) == p - Header

EmptyHeap == [hdr |-> <<>>, ftr |-> <<>>, fl |-> <<>>, head |-> NULL, gen |-> 0,
              arenas |-> {}, why |-> "none"]

Abort(h, why) == IF h.why = "none" THEN [h EXCEPT !.why = why] ELSE h

OkHdr(h, c) == c \in DOMAIN h.hdr /\ h.hdr[c].gen = h.gen
OkFtr(h, f) == f \in DOMAIN h.ftr /\ h.ftr[f].gen = h.gen
Without(f, S) == [x \in DOMAIN f \ S |-> f[x]]

\* The size word goes to the header and to the footer that it leads to.
PutChunk(h, c, size, used, flags, arena) ==
    [h EXCEPT
       !.hdr = (c :> [size |-> size, used |-> used, flags |-> flags, arena |-> arena,
                      gen |-> h.gen]) @@ @,
       !.ftr = (FooterOf(c, size) :> [size |-> size, used |-> used, gen |-> h.gen]) @@ @]

\* Sizes and canaries of headers and footers that are no longer borders are zeroed.
Zeroed(h, headers, footers) ==
    [h EXCEPT !.hdr = Without(@, headers), !.ftr = Without(@, footers)]

CanSplit(h, c, n) == h.hdr[c].size > n /\ h.hdr[c].size - n >= SizeForUser(1)

(***************************************************************************)
(* The list of free chunks.                                                *)
(***************************************************************************)
ld_malloc_freelist_link(h, c) ==
    CASE h.why # "none" -> h
      [] h.hdr[c].used -> Abort(h, "link of an allocated chunk")
      [] h.head # NULL /\ ~OkHdr(h, h.head) -> Abort(h, "canary at start of freelist")
      [] OTHER -> [h EXCEPT
            !.fl = (c :> [next |-> h.head, last |-> NULL]) @@
                   [d \in DOMAIN h.fl |->
                      IF d = h.head THEN [h.fl[d] EXCEPT !.last = c] ELSE h.fl[d]],
            !.head = c]

\* Variant of ld_malloc_freelist_unlink: the back link of the next chunk stays.
UnlinkForwardOnly(h, c) ==
    IF h.why # "none" THEN h
    ELSE LET f == h.fl[c]
         IN [h EXCEPT
               !.head = IF f.last = NULL THEN f.next ELSE @,
               !.fl = [d \in DOMAIN h.fl \ {c} |->
                         IF d = f.last THEN [h.fl[d] EXCEPT !.next = f.next] ELSE h.fl[d]]]

ld_malloc_freelist_unlink(h, c) ==
    IF h.why # "none" THEN h
    ELSE LET f == h.fl[c]
         IN IF \E d \in {f.last, f.next} \ {NULL} : ~OkHdr(h, d)
            THEN Abort(h, "canary in freelist")
            ELSE [h EXCEPT
                    !.head = IF f.last = NULL THEN f.next ELSE @,
                    !.fl = [d \in DOMAIN h.fl \ {c} |->
                              [next |-> IF d = f.last THEN f.next ELSE h.fl[d].next,
                               last |-> IF d = f.next THEN f.last ELSE h.fl[d].last]]]

\* d takes the place of c in the list.
Relink(h, c, d) ==
    LET sub(x) == IF x = c THEN d ELSE x
    IN IF \E x \in {h.fl[c].next, h.fl[c].last} \ {NULL} : ~OkHdr(h, x)
       THEN Abort(h, "canary in freelist")
       ELSE [h EXCEPT !.head = sub(@),
                      !.fl = (d :> h.fl[c]) @@
                             [x \in DOMAIN h.fl \ {c} |-> [next |-> sub(h.fl[x].next),
                                                          last |-> sub(h.fl[x].last)]]]

\* Variant of ld_malloc_chunk_split: the first part keeps the arena's end.
SplitKeepsEnd(h, c, n) ==
    LET old == h.hdr[c]
        rest == old.size - SizeForUser(n)
        second == NextOf(FooterOf(c, n))
        cut == PutChunk(PutChunk(h, second, rest, FALSE, old.flags \ {"B"}, old.arena),
                        c, n, old.used, old.flags, old.arena)
    IN IF h.why # "none" THEN h ELSE IF old.used THEN cut ELSE Relink(cut, c, second)

\* A used chunk keeps its first part and the rest is not in the list yet; of a
\* free chunk the rest stays in the list.  The rest begins at SecondPart(c, n).
SecondPart(c, n) == NextOf(FooterOf(c, n))

ld_malloc_chunk_split(h, c, n) ==
    LET old == h.hdr[c]
        rest == old.size - SizeForUser(n)
        second == SecondPart(c, n)
        cut == PutChunk(PutChunk(h, second, rest, FALSE, old.flags \ {"B"}, old.arena),
                        c, n, old.used, old.flags \ {"E"}, old.arena)
    IN CASE h.why # "none" -> h
         [] ~OkHdr(h, c) \/ ~OkFtr(h, FooterOf(c, old.size)) ->
                Abort(h, "canary while splitting chunk")
         [] FooterOf(second, rest) # FooterOf(c, old.size) ->
                Abort(h, "chunk not split correctly")
         [] OTHER -> IF old.used THEN cut ELSE Relink(cut, c, second)

\* First fit.  The result is the heap and the chunk, NULL when none is large enough.
RECURSIVE FindFrom(_, _, _)
FindFrom(h, cur, size) ==
    CASE cur = NULL -> [h |-> h, c |-> NULL]
      [] cur # NULL /\ h.hdr[cur].size >= size ->
            [h |-> IF CanSplit(h, cur, size) THEN ld_malloc_chunk_split(h, cur, size)
                   ELSE ld_malloc_freelist_unlink(h, cur),
             c |-> cur]
      [] OTHER -> IF ~OkHdr(h, cur) \/ ~OkFtr(h, FooterOf(cur, h.hdr[cur].size))
                  THEN [h |-> Abort(h, "canary in freelist"), c |-> NULL]
                  ELSE FindFrom(h, h.fl[cur].next, size)

ld_malloc_find_freelist(h, size) == FindFrom(h, h.head, size)

(***************************************************************************)
(* malloc.  base is where mmap puts a new arena, NULL when it fails.       *)
(***************************************************************************)
MmapSize(n) == PageAlign(SizeForUser(Align(n)))

NewArena(h, size, base) ==
    LET msize == MmapSize(size)
        whole == PutChunk([h EXCEPT !.arenas = @ \cup {[base |-> base, size |-> msize,
                                                        gen |-> h.gen]}],
                          base, msize - Overhead, TRUE, {"B", "E"}, msize)
    IN IF CanSplit(whole, base, size)
       THEN ld_malloc_freelist_link(ld_malloc_chunk_split(whole, base, size),
                                    SecondPart(base, size))
       ELSE whole

\* Variant of MarkUsed: the footer still says that the chunk is free.
MarkHeaderUsed(h, c) == [h EXCEPT !.hdr[c].used = TRUE]

MarkUsed(h, c) == PutChunk(h, c, h.hdr[c].size, TRUE, h.hdr[c].flags, h.hdr[c].arena)

ld_malloc_unlocked(h, n, base) ==
    LET size == Align(n)
        found == ld_malloc_find_freelist(h, size)
    IN CASE n = 0 -> [h |-> h, p |-> NULL]
         [] found.h.why # "none" -> [h |-> found.h, p |-> NULL]
         [] found.c # NULL -> [h |-> MarkUsed(found.h, found.c), p |-> User(found.c)]
         [] base = NULL -> [h |-> h, p |-> NULL]
         [] OTHER -> [h |-> NewArena(h, size, base), p |-> User(base)]

(***************************************************************************)
(* free: merge with the free neighbours, give an empty arena back.         *)
(***************************************************************************)
Munmap(h, c, len) ==
    LET gone(x) == x >= c /\ x < c + len
    IN IF [base |-> c, size |-> len, gen |-> h.gen] \notin h.arenas
       THEN Abort(h, "munmap of something that is not an arena")
       ELSE [h EXCEPT !.arenas = @ \ {[base |-> c, size |-> len, gen |-> h.gen]},
                      !.hdr = Without(@, {x \in DOMAIN @ : gone(x)}),
                      !.ftr = Without(@, {x \in DOMAIN @ : gone(x)}),
                      !.fl = Without(@, {x \in DOMAIN @ : gone(x)})]

PrevFree(h, c) == LET f == c - Footer IN OkFtr(h, f) /\ ~h.ftr[f].used
PrevOf(h, c) == LET f == c - Footer IN ChunkOf(f - h.ftr[f].size)
NextFree(h, c) == LET n == NextOf(FooterOf(c, h.hdr[c].size)) IN OkHdr(h, n) /\ ~h.hdr[n].used

\* Variant of MergedFlags: the flags of the neighbours are forgotten.
FlagsOfFreedOnly(h, S, c) == h.hdr[c].flags

\* The arena flags of the freed chunk c and of the chunks S that are merged with it.
MergedFlags(h, S, c) == UNION {h.hdr[d].flags : d \in S \cup {c}}

\* Variant of ArenaEmpty: the first chunk is enough.
ArenaEmptyAtBegin(flags) == "B" \in flags

ArenaEmpty(flags) == {"B", "E"} \subseteq flags

ld_free_unlocked(h, p) ==
    LET c == ChunkOf(p)
        f == FooterOf(c, h.hdr[c].size)
        n == NextOf(f)
        prev == "B" \notin h.hdr[c].flags /\ PrevFree(h, c)
        first == IF prev THEN PrevOf(h, c) ELSE c
        next == "E" \notin MergedFlags(h, {first}, c) /\ NextFree(h, c)
        last == IF next THEN FooterOf(n, h.hdr[n].size) ELSE f
        flags == MergedFlags(h, {first} \cup (IF next THEN {n} ELSE {}), c)
        h1 == IF next THEN ld_malloc_freelist_unlink(h, n) ELSE h
        h2 == Zeroed(h1, (IF prev THEN {c} ELSE {}) \cup (IF next THEN {n} ELSE {}),
                         (IF prev THEN {c - Footer} ELSE {}) \cup (IF next THEN {f} ELSE {}))
        h3 == PutChunk(h2, first, last - User(first), FALSE, h.hdr[first].flags \cup flags,
                       h.hdr[first].arena)
    IN CASE ~OkHdr(h, c) -> Abort(h, "header canary in freed chunk")
         [] OkHdr(h, c) /\ ~h.hdr[c].used -> Abort(h, "free of a freed chunk")
         [] OkHdr(h, c) /\ ~OkFtr(h, f) -> Abort(h, "footer canary in freed chunk")
         [] OkHdr(h, c) /\ "B" \notin h.hdr[c].flags /\ ~OkFtr(h, c - Footer) ->
                Abort(h, "footer canary before freed chunk")
         [] prev /\ ~OkHdr(h, PrevOf(h, c)) -> Abort(h, "header canary before freed chunk")
         [] OkHdr(h, c) /\ "E" \notin h.hdr[c].flags /\ ~OkHdr(h, n) ->
                Abort(h, "header canary after freed chunk")
         [] next /\ ~OkFtr(h, FooterOf(n, h.hdr[n].size)) ->
                Abort(h, "footer canary after freed chunk")
         [] h1.why # "none" -> h1
         [] OTHER ->
                IF ArenaEmpty(flags)
                THEN Munmap(IF prev THEN ld_malloc_freelist_unlink(h3, first) ELSE h3,
                            first, h3.hdr[first].arena)
                ELSE IF prev THEN h3 ELSE ld_malloc_freelist_link(h3, first)

(***************************************************************************)
(* realloc: shrink in place, grow into the next chunk, into the previous   *)
(* one or into both, or move.  The flags of a chunk that is taken over are *)
(* not merged into the header of the grown block.                          *)
(***************************************************************************)
Shrink(h, c, n) ==
    IF CanSplit(h, c, n)
    THEN ld_malloc_freelist_link(ld_malloc_chunk_split(h, c, n), SecondPart(c, n))
    ELSE h

\* The block at c takes over the free chunks in S and becomes the chunk from
\* first to the footer at last.
Grow(h, c, S, first, last) ==
    LET unlinked == IF Cardinality(S) = 2
                    THEN ld_malloc_freelist_unlink(
                            ld_malloc_freelist_unlink(h, CHOOSE d \in S : d > c), first)
                    ELSE ld_malloc_freelist_unlink(h, CHOOSE d \in S : TRUE)
        inner == ({c} \cup S) \ {first}
    IN IF unlinked.why # "none" THEN unlinked
       ELSE PutChunk(Zeroed(unlinked, inner, {d - Footer : d \in inner}),
                     first, last - User(first), TRUE, h.hdr[first].flags, h.hdr[first].arena)

\* memcpy and memmove copy the size word, which is the size plus the flag bit.
Move(h, p, c, n, base) ==
    LET word == h.hdr[c].size + 1
        r == ld_malloc_unlocked(h, IF 2 * word > n THEN 2 * word ELSE n, base)
    IN CASE r.p = NULL -> r
         [] r.p # NULL /\ r.h.hdr[ChunkOf(r.p)].size < word ->
                [h |-> Abort(r.h, "copy past the end"), p |-> NULL]
         [] OTHER -> [h |-> ld_free_unlocked(r.h, p), p |-> r.p]

ld_realloc_unlocked(h, p, n, base) ==
    LET c == ChunkOf(p)
        f == FooterOf(c, h.hdr[c].size)
        next == NextOf(f)
        takeNext == "E" \notin h.hdr[c].flags /\ NextFree(h, c)
        last == IF takeNext THEN FooterOf(next, h.hdr[next].size) ELSE f
        takePrev == "B" \notin h.hdr[c].flags /\ PrevFree(h, c)
        first == IF takePrev THEN PrevOf(h, c) ELSE c
    IN CASE p = NULL -> ld_malloc_unlocked(h, n, base)
         [] p # NULL /\ n = 0 -> [h |-> ld_free_unlocked(h, p), p |-> NULL]
         [] p # NULL /\ n >= SizeMod \div 2 -> [h |-> h, p |-> NULL]
         [] p # NULL /\ (~OkHdr(h, c) \/ ~h.hdr[c].used \/ ~OkFtr(h, f)) ->
                [h |-> Abort(h, "reallocd chunk"), p |-> NULL]
         [] OTHER ->
                IF h.hdr[c].size >= n THEN [h |-> Shrink(h, c, n), p |-> p]
                ELSE IF "E" \notin h.hdr[c].flags /\ ~OkHdr(h, next)
                     THEN [h |-> Abort(h, "header canary after reallocd chunk"), p |-> NULL]
                ELSE IF takeNext /\ last - p >= n
                     THEN [h |-> Grow(h, c, {next}, c, last), p |-> p]
                ELSE IF "B" \notin h.hdr[c].flags /\ ~OkFtr(h, c - Footer)
                     THEN [h |-> Abort(h, "footer canary before reallocd chunk"), p |-> NULL]
                ELSE IF takePrev /\ last - User(first) >= n
                     THEN [h |-> Grow(h, c, {first} \cup (IF takeNext THEN {next} ELSE {}),
                                      first, last),
                           p |-> User(first)]
                ELSE Move(h, p, c, n, base)

(***************************************************************************)
(* The calls.                                                              *)
(***************************************************************************)
\* Variant of Ready: the list is kept.
ReadyKeepsList == IF initialized THEN heap ELSE [heap EXCEPT !.gen = @ + 1]

\* ld_malloc_init: new canaries, an empty list; what was mapped stays mapped.
Ready == IF initialized THEN heap
         ELSE [heap EXCEPT !.gen = @ + 1, !.head = NULL, !.fl = <<>>]

\* Where the kernel can put an arena of the given size.
Bases(size) ==
    {b \in {PageSize * i : i \in 1 .. NPages} :
        /\ b + size <= PageSize * (NPages + 1)
        /\ \A a \in heap.arenas : a.base + a.size <= b \/ b + size <= a.base}

BasesOrFail(n) == LET B == Bases(MmapSize(n)) IN IF B = {} THEN {NULL} ELSE B

Running == heap.why = "none"

\* What the callers hold after a call that asked for n bytes and returned p.
Hold(f, p, n) == IF p = NULL THEN f ELSE (p :> n) @@ f

ld_malloc(n) ==
    /\ Running
    /\ Cardinality(DOMAIN live) < MaxLive
    /\ \E base \in BasesOrFail(n) :
          LET r == ld_malloc_unlocked(Ready, n, base)
          IN heap' = r.h /\ live' = Hold(live, r.p, n)
    /\ initialized' = TRUE
    /\ UNCHANGED <<retired, resets>>

\* An overflow of the product returns NULL before anything is done.
ld_calloc(nmemb, size) ==
    IF nmemb * size >= SizeMod THEN UNCHANGED vars ELSE ld_malloc(nmemb * size)

ld_free(p) ==
    /\ Running
    /\ heap' = ld_free_unlocked(Ready, p)
    /\ live' = Without(live, {p})
    /\ initialized' = TRUE
    /\ UNCHANGED <<retired, resets>>

\* Would a growing block take over, or be, the last chunk of its arena?
TakesLast(p, n) ==
    /\ p # NULL
    /\ LET c == ChunkOf(p)
           f == FooterOf(c, heap.hdr[c].size)
           takeNext == "E" \notin heap.hdr[c].flags /\ NextFree(heap, c)
           takePrev == "B" \notin heap.hdr[c].flags /\ PrevFree(heap, c)
           first == IF takePrev THEN PrevOf(heap, c) ELSE c
           last == IF takeNext THEN FooterOf(NextOf(f), heap.hdr[NextOf(f)].size) ELSE f
       IN /\ n > heap.hdr[c].size
          /\ last - User(first) >= n
          /\ \/ takeNext /\ "E" \in heap.hdr[NextOf(f)].flags
             \/ takePrev /\ "E" \in heap.hdr[c].flags

ld_realloc(p, n) ==
    /\ Running
    /\ p = NULL => Cardinality(DOMAIN live) < MaxLive
    /\ GrowIntoLast \/ ~TakesLast(p, n)
    /\ \E base \in BasesOrFail(IF p = NULL THEN n
                               ELSE LET d == 2 * (heap.hdr[ChunkOf(p)].size + 1)
                                    IN IF d > n THEN d ELSE n) :
          LET r == ld_realloc_unlocked(Ready, p, n, base)
          IN /\ heap' = r.h
             /\ live' = IF r.p = NULL /\ n # 0 THEN live
                        ELSE Hold(Without(live, {p}), r.p, n)
    /\ initialized' = TRUE
    /\ UNCHANGED <<retired, resets>>

\* The loader does not free what it allocated before a reset.
ld_malloc_reset ==
    /\ Running
    /\ resets < MaxResets
    /\ resets' = resets + 1
    /\ initialized' = FALSE
    /\ retired' = live @@ retired
    /\ live' = <<>>
    /\ UNCHANGED heap

Init ==
    /\ heap = EmptyHeap
    /\ live = <<>>
    /\ retired = <<>>
    /\ initialized = FALSE
    /\ resets = 0

Next ==
    \/ \E n \in MallocSizes : ld_malloc(n)
    \/ \E q \in CallocSizes : ld_calloc(q[1], q[2])
    \/ \E p \in DOMAIN live : ld_free(p)
    \/ \E p \in DOMAIN live \cup {NULL}, n \in ReallocSizes : ld_realloc(p, n)
    \/ ld_malloc_reset

Spec == Init /\ [][Next]_vars

(***************************************************************************)
(* Properties.                                                             *)
(***************************************************************************)
End(c) == NextOf(FooterOf(c, heap.hdr[c].size))
ChunksOf(a) == {c \in DOMAIN heap.hdr : c >= a.base /\ c < a.base + a.size}
FreeChunks == {c \in DOMAIN heap.hdr : heap.hdr[c].gen = heap.gen /\ ~heap.hdr[c].used}

\* The chunks of an arena tile it: the first begins where it begins, each one
\* ends where the next begins or the arena ends, its footer repeats its header,
\* and there are no other footers.  Addresses and sizes are aligned.
Tiled ==
    /\ \A c \in DOMAIN heap.hdr : c % 16 = 0 /\ heap.hdr[c].size % 16 = 0
    /\ \A a \in heap.arenas :
          /\ a.base \in DOMAIN heap.hdr
          /\ \A c \in ChunksOf(a) : End(c) \in ChunksOf(a) \cup {a.base + a.size}
          /\ \A c, d \in ChunksOf(a) : c < d => End(c) <= d
    /\ DOMAIN heap.ftr = {FooterOf(c, heap.hdr[c].size) : c \in DOMAIN heap.hdr}
    /\ \A c \in DOMAIN heap.hdr :
          LET f == heap.ftr[FooterOf(c, heap.hdr[c].size)]
          IN f = [size |-> heap.hdr[c].size, used |-> heap.hdr[c].used, gen |-> heap.hdr[c].gen]

\* free relies on the arena flags to know where not to look for a neighbour.
EndsFlagged ==
    \A a \in heap.arenas : \A c \in ChunksOf(a) :
        /\ "B" \in heap.hdr[c].flags <=> c = a.base
        /\ "E" \in heap.hdr[c].flags <=> End(c) = a.base + a.size
        /\ heap.hdr[c].arena = a.size

\* The list holds the free chunks, each once: every link has its back link, and
\* following next from the head reaches all of them.
ListExact ==
    initialized =>
        /\ DOMAIN heap.fl = FreeChunks
        /\ \A c \in FreeChunks :
              /\ heap.fl[c].last = NULL <=> c = heap.head
              /\ heap.fl[c].last # NULL => /\ heap.fl[c].last \in FreeChunks
                                           /\ heap.fl[heap.fl[c].last].next = c
              /\ heap.fl[c].next # NULL => /\ heap.fl[c].next \in FreeChunks
                                           /\ heap.fl[heap.fl[c].next].last = c
        /\ LET reach[i \in 0 .. Cardinality(FreeChunks)] ==
                 IF i = 0 THEN heap.head
                 ELSE IF reach[i - 1] = NULL THEN NULL ELSE heap.fl[reach[i - 1]].next
           IN FreeChunks = {reach[i] : i \in 0 .. Cardinality(FreeChunks)} \ {NULL}

\* A block that a caller holds, from before a reset too, is a chunk in use that
\* is large enough; so no two of them overlap and none is given back to the kernel.
BlocksIntact ==
    \A p \in DOMAIN live \cup DOMAIN retired :
        LET c == ChunkOf(p)
        IN /\ c \in DOMAIN heap.hdr
           /\ heap.hdr[c].used
           /\ heap.hdr[c].size >= IF p \in DOMAIN live THEN live[p] ELSE retired[p]
           /\ \E a \in heap.arenas : c \in ChunksOf(a)

\* An arena that has become one free chunk is not kept.
NoFreeArena ==
    \A a \in heap.arenas : ChunksOf(a) = {a.base} => heap.hdr[a.base].used

\* No check of a canary, and no other ld_malloc_abort, fires.
NoAbort == heap.why = "none"

=============================================================================

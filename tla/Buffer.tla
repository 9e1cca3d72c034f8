------------------------------- MODULE Buffer -------------------------------
(***************************************************************************)
(* One transfer line's buffer (src/src/memory/buffer.h) over the paged     *)
(* memory pool (src/src/memory/memory_pager.h, src/src/memory/cache.h).    *)
(*                                                                         *)
(* A single writer (the holder of the line's writer slot) commits bytes    *)
(* into its current page; every lane sees each commit through lane_t::put  *)
(* and is drained by its own reader (the holder of that lane's slot).      *)
(* Pages are shared_ptr-owned by the writer cursor, by lane nodes and by   *)
(* each lane's last_page_ cache; a memory block goes back to the pager     *)
(* (cache_t::store, or is destroyed when the cache is full) exactly when   *)
(* its last owner drops it.                                                *)
(*                                                                         *)
(* Bytes are identified by their position in the writer's stream, so a    *)
(* block's memory holds stream indices (0 is never-written memory).        *)
(* Memory blocks are addresses: a destroyed block can be allocated again,  *)
(* as malloc may hand the same address back.                               *)
(***************************************************************************)
EXTENDS Naturals, Sequences, FiniteSets

CONSTANTS
  Lanes,      \* the buffer's lanes (lane 0 = sender, lane 1 = logger)
  Blocks,     \* the memory blocks the process can ever hold
  PageSize,   \* memory_pager_t::page_size_
  CacheSize,  \* cache_t::size_, the free-list capacity (prefilled)
  MaxBytes,   \* bound: bytes the writer's source delivers in a behaviour
  MaxChunk,   \* bound: bytes one get_f call returns
  Nil

ASSUME /\ Lanes # {}
       /\ PageSize \in Nat \ {0}
       /\ CacheSize \in 1..Cardinality(Blocks)
       /\ MaxBytes \in Nat /\ MaxChunk \in Nat \ {0}
       /\ Nil \notin Blocks

VARIABLES
  writerPage,  \* buffer_t::writer_page_
  writerPos,   \* buffer_t::writer_pos_
  toWrite,     \* write_operation: bytes of the last get_f result not yet copied
  received,    \* bytes get_f has returned so far
  lane,        \* lane_t::queue_ of every lane: nodes [page, pos, size]
  lastPage,    \* lane_t::last_page_
  lastPos,     \* lane_t::last_pos_
  memory,      \* memory[b][i]: the byte held at offset i of block b
  cache,       \* cache_t::cache_[0 .. cur_size_-1], a stack of free blocks
  allocated,   \* blocks that exist (owned by a page_t or by the cache)
  consumed     \* history: the bytes each lane's reader has taken, in order

vars == <<writerPage, writerPos, toWrite, received, lane, lastPage, lastPos,
          memory, cache, allocated, consumed>>

Offsets == 1..PageSize
Node == [page : Blocks, pos : 0..PageSize, size : 0..PageSize]

(* Mutant (see PROJECT.json): the copy length taken one past the space left. *)
MinimumPastEnd(a, b) == IF a < b THEN a ELSE b + 1

Minimum(a, b) == IF a < b THEN a ELSE b

(* Bytes the writer has committed (copied and made visible to the lanes). *)
committed == received - toWrite

(***************************************************************************)
(* Plausible faults of the code, each used to show that a property below  *)
(* can fail (the mutants of PROJECT.json):                                *)
(*  - lane_t::put resuming a re-used page at offset 0 instead of last_pos_;*)
(*  - lane_t::put updating a copy of queue_.back() instead of the node.    *)
(***************************************************************************)
PutResumeAtZero(l, p, size) ==
  LET q == lane[l] IN
  IF q # <<>> /\ q[Len(q)].page = p
    THEN [queue |-> [q EXCEPT ![Len(q)].size = size], last |-> lastPage[l]]
  ELSE IF lastPage[l] = p
    THEN [queue |-> Append(q, [page |-> p, pos |-> 0, size |-> size]),
          last  |-> Nil]
  ELSE [queue |-> Append(q, [page |-> p, pos |-> 0, size |-> size]),
        last  |-> lastPage[l]]

PutBackCopy(l, p, size) ==
  LET q == lane[l] IN
  IF q # <<>> /\ q[Len(q)].page = p
    THEN [queue |-> q, last |-> lastPage[l]]
  ELSE IF lastPage[l] = p
    THEN [queue |-> Append(q, [page |-> p, pos |-> lastPos[l], size |-> size]),
          last  |-> Nil]
  ELSE [queue |-> Append(q, [page |-> p, pos |-> 0, size |-> size]),
        last  |-> lastPage[l]]

(***************************************************************************)
(* Ownership: the blocks some shared_ptr<page_t> still refers to, in a     *)
(* state given by its writer page, lane queues and last pages.             *)
(***************************************************************************)
Owned(wp, q, lp) ==
  ({wp} \cup {lp[l] : l \in Lanes}
        \cup UNION {{q[l][i].page : i \in 1..Len(q[l])} : l \in Lanes}) \ {Nil}

(***************************************************************************)
(* memory_pager_t::get_page via cache_t::take: pop the top of the free     *)
(* list, or create a fresh block when the list is empty.  When no block    *)
(* can be created the allocation throws bad_alloc and the action cannot    *)
(* happen until memory comes back (exceptor_t::except waits and retries).  *)
(***************************************************************************)
GetPage(b) ==
  \/ /\ cache # <<>>
     /\ b = cache[Len(cache)]
     /\ cache' = SubSeq(cache, 1, Len(cache) - 1)
     /\ UNCHANGED allocated
  \/ /\ cache = <<>>
     /\ b \in Blocks \ allocated
     /\ allocated' = allocated \cup {b}
     /\ UNCHANGED cache

(* Mutant (see PROJECT.json): a block returned to a full cache is kept    *)
(* allocated instead of destroyed.                                        *)
FreeNoDestroy(b) ==
  IF Len(cache) < CacheSize
    THEN /\ cache' = Append(cache, b)
         /\ UNCHANGED allocated
    ELSE UNCHANGED <<cache, allocated>>

(***************************************************************************)
(* page_t::~page_t -> memory_pager_t::free -> cache_t::store: keep the     *)
(* block in the free list if there is room, else the block is destroyed.   *)
(***************************************************************************)
Free(b) ==
  IF Len(cache) < CacheSize
    THEN /\ cache' = Append(cache, b)
         /\ UNCHANGED allocated
    ELSE /\ allocated' = allocated \ {b}
         /\ UNCHANGED cache

(* Dropping one reference to b: free it when no owner is left. *)
Drop(b) ==
  IF b # Nil /\ b \notin Owned(writerPage', lane', lastPage')
    THEN Free(b)
    ELSE UNCHANGED <<cache, allocated>>

(***************************************************************************)
(* lane_t::put: the writer committed page p up to size.  Coalesce with the *)
(* back node when it is the same page, resume at last_pos_ when p is the   *)
(* page the lane last finished, else start a node at offset 0.  Returns    *)
(* the lane's new queue and last page.                                     *)
(***************************************************************************)
Put(l, p, size) ==
  LET q == lane[l] IN
  IF q # <<>> /\ q[Len(q)].page = p
    THEN [queue |-> [q EXCEPT ![Len(q)].size = size], last |-> lastPage[l]]
  ELSE IF lastPage[l] = p
    THEN [queue |-> Append(q, [page |-> p, pos |-> lastPos[l], size |-> size]),
          last  |-> Nil]
  ELSE [queue |-> Append(q, [page |-> p, pos |-> 0, size |-> size]),
        last  |-> lastPage[l]]

(***************************************************************************)
(* The byte source (receiver's recv into its stack buffer) hands the       *)
(* writer a chunk: get_f returns to_write > 0.                             *)
(***************************************************************************)
GetData ==
  /\ toWrite = 0
  /\ \E k \in 1..MaxChunk :
       /\ received + k <= MaxBytes
       /\ toWrite' = k
       /\ received' = received + k
  /\ UNCHANGED <<writerPage, writerPos, lane, lastPage, lastPos, memory,
                 cache, allocated, consumed>>

(***************************************************************************)
(* One pass of write_operation's inner loop: advance() (whose first call   *)
(* on a fresh buffer resets writer_pos_ from page_size to 0), page()       *)
(* taking a block when the writer has none, memcpy of min(to_write,        *)
(* available) bytes at writer_pos_, and the commit advance_writer(n) that  *)
(* puts the page into every lane and drops the writer's handle to a full   *)
(* page.  The page dropped here is still owned by every lane's queue.      *)
(***************************************************************************)
CopyCommit ==
  /\ toWrite > 0
  /\ LET pos0 == IF writerPos = PageSize THEN 0 ELSE writerPos
         n    == Minimum(toWrite, PageSize - pos0)
         end  == pos0 + n
     IN \E b \in Blocks :
          /\ IF writerPage = Nil
               THEN GetPage(b)
               ELSE /\ b = writerPage
                    /\ UNCHANGED <<cache, allocated>>
          /\ memory' = [memory EXCEPT ![b] =
                          [i \in Offsets |-> IF pos0 < i /\ i <= end
                                               THEN committed + (i - pos0)
                                               ELSE @[i]]]
          /\ lane' = [l \in Lanes |-> Put(l, b, end).queue]
          /\ lastPage' = [l \in Lanes |-> Put(l, b, end).last]
          /\ writerPos' = IF end = PageSize THEN 0 ELSE end
          /\ writerPage' = IF end = PageSize THEN Nil ELSE b
          /\ toWrite' = toWrite - n
  /\ UNCHANGED <<received, lastPos, consumed>>

(***************************************************************************)
(* One pass of read_operation on lane l: a page_wrapper_t over the front   *)
(* node's unread span is handed to take_f, which consumes n of its bytes;  *)
(* lane_t::advance(n) then moves the front node and, when the node is      *)
(* exhausted, pops it into last_page_/last_pos_, dropping the previous     *)
(* last page.                                                              *)
(***************************************************************************)
ReadLane(l, n) ==
  /\ lane[l] # <<>>
  /\ UNCHANGED <<writerPage, writerPos, toWrite, received, memory>>
  /\ LET f == Head(lane[l]) IN
     /\ n \in 1..(f.size - f.pos)
     /\ consumed' = [consumed EXCEPT ![l] =
                       @ \o [i \in 1..n |-> memory[f.page][f.pos + i]]]
     /\ IF f.pos + n = f.size
          THEN /\ lane' = [lane EXCEPT ![l] = Tail(@)]
               /\ lastPage' = [lastPage EXCEPT ![l] = f.page]
               /\ lastPos' = [lastPos EXCEPT ![l] = f.size]
               /\ Drop(lastPage[l])
          ELSE /\ lane' = [lane EXCEPT ![l][1].pos = f.pos + n]
               /\ UNCHANGED <<lastPage, lastPos, cache, allocated>>

(* The source is exhausted and every lane has drained: the line is idle. *)
Idle ==
  /\ received = MaxBytes /\ toWrite = 0
  /\ \A l \in Lanes : lane[l] = <<>>
  /\ UNCHANGED vars

Init ==
  /\ writerPage = Nil
  /\ writerPos = PageSize
  /\ toWrite = 0
  /\ received = 0
  /\ lane = [l \in Lanes |-> <<>>]
  /\ lastPage = [l \in Lanes |-> Nil]
  /\ lastPos = [l \in Lanes |-> 0]
  /\ memory = [b \in Blocks |-> [i \in Offsets |-> 0]]
  /\ cache \in {s \in [1..CacheSize -> Blocks] :
                  \A i, j \in 1..CacheSize : i # j => s[i] # s[j]}
  /\ allocated = {cache[i] : i \in 1..CacheSize}
  /\ consumed = [l \in Lanes |-> <<>>]

Next ==
  \/ GetData
  \/ CopyCommit
  \/ \E l \in Lanes, n \in 1..PageSize : ReadLane(l, n)
  \/ Idle

(***************************************************************************)
(* The writer keeps copying while it holds data, and every lane's reader   *)
(* keeps draining its lane (readers loop on their lane until advance()     *)
(* reports nothing left).                                                  *)
(***************************************************************************)
Fairness ==
  /\ WF_vars(CopyCommit)
  /\ \A l \in Lanes : WF_vars(\E n \in 1..PageSize : ReadLane(l, n))

Spec == Init /\ [][Next]_vars /\ Fairness

-----------------------------------------------------------------------------
TypeOK ==
  /\ writerPage \in Blocks \cup {Nil}
  /\ writerPos \in 0..PageSize
  /\ toWrite \in 0..MaxChunk
  /\ received \in 0..MaxBytes
  /\ lane \in [Lanes -> Seq(Node)]
  /\ lastPage \in [Lanes -> Blocks \cup {Nil}]
  /\ lastPos \in [Lanes -> 0..PageSize]
  /\ memory \in [Blocks -> [Offsets -> 0..MaxBytes]]
  /\ cache \in Seq(Blocks) /\ Len(cache) <= CacheSize
  /\ allocated \subseteq Blocks
  /\ consumed \in [Lanes -> Seq(1..MaxBytes)]

(***************************************************************************)
(* No leaked and no doubly cached block: the blocks that exist are exactly *)
(* those some page_t still refers to and those on the free list, each on   *)
(* it once.  cache_t::take creates a block when the list is empty and      *)
(* store destroys one when it is full, so this, not free + outstanding =   *)
(* cache_size, is what bounds the memory the pager holds.                  *)
(***************************************************************************)
BlocksAccounted ==
  LET free == {cache[i] : i \in 1..Len(cache)}
  IN /\ allocated = Owned(writerPage, lane, lastPage) \cup free
     /\ Len(cache) = Cardinality(free)

(***************************************************************************)
(* Byte-exact fan-out, as refinement: every lane's reader receives exactly *)
(* the writer's committed stream, in order, without loss or duplication,   *)
(* across page boundaries, block reuse and last-page coalescing.           *)
(***************************************************************************)
Abstract == INSTANCE FanOut WITH
  Values <- 1..MaxBytes,
  MaxChunk <- PageSize,
  stream <- [i \in 1..committed |-> i],
  got    <- consumed

FanOutRefinement == Abstract!Safety

(***************************************************************************)
(* Every byte the writer commits is eventually taken by every lane.        *)
(***************************************************************************)
AllCommittedDelivered ==
  \A l \in Lanes, i \in 1..MaxBytes :
     (committed >= i) ~> (Len(consumed[l]) >= i)
=============================================================================

--------------------------- MODULE MemoryManager ---------------------------
(***************************************************************************)
(* The memory manager (mm.c): every family of structures has its own pages *)
(* from the kernel; a page is a row of blocks, each with a header; free    *)
(* blocks are kept in a list, the biggest first (glthread_priority_insert).*)
(* A block is [off, size, free], named by its page index and offset.       *)
(* "live" is what the application holds, which the code does not keep.     *)
(***************************************************************************)
EXTENDS Naturals, SequencesExt, FiniteSets

CONSTANTS
  Families,  \* page families, the one of buffers of any size included
  Requests,  \* per family, the sizes requested: multiples of its structure
  PageSize,  \* SYSTEM_PAGE_SIZE
  PageHdr,   \* the offset of page_memory, the first block header included
  Hdr,       \* sizeof(block_meta_data_t)
  MaxLive    \* bound on what the application holds

VARIABLES
  pages,  \* per family, its list of pages: [index, units, blocks]
  free,   \* per family, free_block_priority_list_head: <<page index, offset>>
  live    \* [family, page, off, size]

vars == <<pages, free, live>>

Init ==
  /\ pages = [f \in Families |-> << >>] /\ free = [f \in Families |-> << >>]
  /\ live = {}

MaxMemory(units) == PageSize * units - PageHdr  \* MAX_PAGE_ALLOCATABLE_MEMORY

\* Where a page and a block stand in their lists
At(pgs, ix) == CHOOSE k \in DOMAIN pgs : pgs[k].index = ix
BlockAt(blocks, off) == CHOOSE k \in DOMAIN blocks : blocks[k].off = off
SizeOf(pgs, b) == LET bs == pgs[At(pgs, b[1])].blocks IN bs[BlockAt(bs, b[2])].size

\* mm_add_free_block_meta_data_to_free_block_list
Position(pgs, list, b) ==
  Min({k \in DOMAIN list : SizeOf(pgs, list[k]) < SizeOf(pgs, b)} \cup {Len(list) + 1})
AddFree(pgs, list, b) == InsertAt(list, Position(pgs, list, b), b)
RemoveFree(list, b) == SelectSeq(list, LAMBDA x : x # b)

------------------------------------------------------------------------------
(* Allocation: xcalloc, xcalloc_buff *)

\* mm_get_available_page_index: the pages before the first unused index
Row(pgs) == Max({k \in 0..Len(pgs) : \A j \in 1..k : pgs[j].index = j - 1})

\* allocate_vm_page
NewPage(pgs, units) ==
  InsertAt(pgs, Row(pgs) + 1,
           [index |-> Row(pgs), units |-> units,
            blocks |-> <<[off |-> PageHdr - Hdr, size |-> MaxMemory(units), free |-> TRUE]>>])

\* mm_split_free_data_block_for_allocation: what remains becomes a free block
\* if it has room for a header, and is lost to fragmentation if not.
Split(pgs, list, b, req) ==
  LET p    == At(pgs, b[1])
      bs   == pgs[p].blocks
      k    == BlockAt(bs, b[2])
      rest == bs[k].size - req
      used == [bs EXCEPT ![k].size = req, ![k].free = FALSE]
      new  == [off |-> b[2] + Hdr + req, size |-> rest - Hdr, free |-> TRUE]
      pgs1 == [pgs EXCEPT ![p].blocks = IF rest < Hdr THEN used ELSE InsertAt(used, k + 1, new)]
  IN [pages |-> pgs1,
      free  |-> IF rest < Hdr THEN RemoveFree(list, b)
                ELSE AddFree(pgs1, RemoveFree(list, b), <<b[1], new.off>>)]

\* mm_allocate_free_data_block: from the biggest free block, or else a new page
Alloc(f, req) ==
  /\ Cardinality(live) < MaxLive
  /\ LET fits == free[f] # << >> /\ SizeOf(pages[f], Head(free[f])) >= req
         pgs  == IF fits THEN pages[f] ELSE NewPage(pages[f], req \div MaxMemory(1) + 1)
         b    == IF fits THEN Head(free[f]) ELSE <<Row(pages[f]), PageHdr - Hdr>>
         r    == Split(pgs, IF fits THEN free[f] ELSE AddFree(pgs, free[f], b), b, req)
     IN /\ pages' = [pages EXCEPT ![f] = r.pages] /\ free' = [free EXCEPT ![f] = r.free]
        /\ live' = live \cup {[family |-> f, page |-> b[1], off |-> b[2], size |-> req]}

------------------------------------------------------------------------------
(* Release: xfree, mm_free_blocks *)

\* mm_get_hard_internal_memory_frag_size, at the end of a page to its boundary
Limit(page, k) ==
  IF k < Len(page.blocks) THEN page.blocks[k + 1].off ELSE PageSize * page.units

\* mm_union_free_blocks joins a block with a free neighbour: both leave the free
\* list, and the block keeps its size.
Joined_first(bs, k) == {k}  \* mutant: only the block itself leaves the list
Joined(bs, k) == {j \in {k - 1, k, k + 1} \cap DOMAIN bs : j = k \/ bs[j].free}

Free(x) ==
  LET f    == x.family
      p    == At(pages[f], x.page)
      page == pages[f][p]
      k    == BlockAt(page.blocks, x.off)
      freed == [page.blocks EXCEPT ![k].free = TRUE,
                                   ![k].size = Limit(page, k) - x.off - Hdr]
      js   == Joined(page.blocks, k)
      rest == SubSeq(freed, 1, Min(js)) \o SubSeq(freed, Max(js) + 1, Len(freed))
      list == SelectSeq(free[f], LAMBDA b : \A j \in js : b # <<x.page, freed[j].off>>)
      pgs  == [pages[f] EXCEPT ![p].blocks = rest]
  IN /\ live' = live \ {x}
     /\ IF Len(rest) = 1
        THEN /\ pages' = [pages EXCEPT ![f] = RemoveAt(@, p)]  \* mm_vm_page_delete_and_free
             /\ free' = [free EXCEPT ![f] = list]
        ELSE /\ pages' = [pages EXCEPT ![f] = pgs]
             /\ free' = [free EXCEPT ![f] = AddFree(pgs, list, <<x.page, freed[Min(js)].off>>)]

Next ==
  \/ \E f \in Families : \E req \in Requests[f] : Alloc(f, req)
  \/ \E x \in live : Free(x)

Spec == Init /\ [][Next]_vars

------------------------------------------------------------------------------
(* Properties *)

\* The blocks of a page follow each other with their headers and stay inside
\* it; no two free blocks are neighbours.
BlocksSound(page) ==
  LET bs == page.blocks
  IN /\ bs[1].off = PageHdr - Hdr
     /\ \A k \in DOMAIN bs : bs[k].off + Hdr + bs[k].size <= Limit(page, k)
     /\ \A k \in 1..(Len(bs) - 1) : ~(bs[k].free /\ bs[k + 1].free)

Blocks(f, isFree) ==
  {<<pages[f][p].index, pages[f][p].blocks[k].off>> :
     <<p, k>> \in {<<q, j>> \in (DOMAIN pages[f]) \X (1..(2 * MaxLive + 2)) :
                     j \in DOMAIN pages[f][q].blocks /\ pages[f][q].blocks[j].free = isFree}}

\* Whatever is allocated and freed in whatever order: memory handed out never
\* overlaps and is never part of a free block; the free list has every free
\* block once, the biggest first; a page is given back exactly when its last
\* block is freed; and the indices of the pages grow along the list.
HeapSound ==
  \A f \in Families :
    /\ \A p \in DOMAIN pages[f] : BlocksSound(pages[f][p])
    /\ Blocks(f, FALSE) = {<<x.page, x.off>> : x \in {y \in live : y.family = f}}
    /\ \A x \in live : x.family = f => SizeOf(pages[f], <<x.page, x.off>>) >= x.size
    /\ Range(free[f]) = Blocks(f, TRUE) /\ IsInjective(free[f])
    /\ \A j, k \in DOMAIN free[f] :
         j < k => SizeOf(pages[f], free[f][j]) >= SizeOf(pages[f], free[f][k])
    /\ \A p \in DOMAIN pages[f] : \E x \in live : x.family = f /\ x.page = pages[f][p].index
    /\ \A p, q \in DOMAIN pages[f] : p < q => pages[f][p].index < pages[f][q].index
=============================================================================

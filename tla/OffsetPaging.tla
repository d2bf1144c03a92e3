---------------------------- MODULE OffsetPaging ----------------------------
(***************************************************************************)
(* What an offset paginator promises a client (spec 4.6): over a ranked    *)
(* list of items, the page at a cursor lists the `Limit` items from its    *)
(* offset, has_more says whether items follow it, the next cursor moves    *)
(* forward by `Limit` and the previous one back by `Limit`, but not below  *)
(* zero.  A cursor is served once before the client may follow another.   *)
(* Every page is a fresh read: the list may change between reads (new      *)
(* events re-rank it), and a page is cut from the list as it is when the  *)
(* page is read.  Nothing is promised across pages of a changing list.     *)
(***************************************************************************)
EXTENDS Integers, Sequences

CONSTANT Limit

VARIABLES
    items,    \* the ranked list the pages are cut from
    offset,   \* offset of the current cursor
    page,     \* the items of the last page served
    hasMore,  \* has_more of the last page served
    pending   \* the current cursor has not been served yet

pagingVars == <<items, offset, page, hasMore, pending>>

Slice(s, off) ==
    [i \in 1..(IF off >= Len(s) THEN 0
               ELSE IF off + Limit < Len(s) THEN Limit ELSE Len(s) - off)
       |-> s[off + i]]

\* The list itself is whatever the implementation ranks.
Init ==
    /\ offset = 0
    /\ page = <<>>
    /\ hasMore = FALSE
    /\ pending = TRUE

\* The page of the current cursor is answered.
Serve ==
    /\ pending = TRUE
    /\ page' = Slice(items, offset)
    /\ hasMore' = (Len(items) > offset + Limit)
    /\ pending' = FALSE
    /\ UNCHANGED <<items, offset>>

\* The client follows the next cursor, offered while has_more.
FollowNext ==
    /\ ~pending
    /\ hasMore
    /\ offset' = offset + Limit
    /\ pending' = TRUE
    /\ UNCHANGED <<items, page, hasMore>>

\* The client follows the previous cursor, offered past the first page.
FollowPrev ==
    /\ ~pending
    /\ offset > 0
    /\ offset' = IF offset - Limit > 0 THEN offset - Limit ELSE 0
    /\ pending' = TRUE
    /\ UNCHANGED <<items, page, hasMore>>

\* The ranked list changes: events arrived.
Rerank ==
    /\ items' # items
    /\ UNCHANGED <<offset, page, hasMore, pending>>

Next == Serve \/ FollowNext \/ FollowPrev \/ Rerank

Spec == Init /\ [][Next]_pagingVars

=============================================================================

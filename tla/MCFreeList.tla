----------------------------- MODULE MCFreeList ------------------------------
(* A pool of two bucket sizes on four pages, with its links.               *)
EXTENDS FreeList

(* Nothing, either bucket, and two pages.                                  *)
MCRequests == {0, 8, 20, 40}
==============================================================================

---------------------------- MODULE MCBuddyPool ------------------------------
(* A pool of three bucket sizes on a few pages for TLC.                    *)
EXTENDS BuddyPool

(* Nothing, the smallest bucket, and two pages.                            *)
MCRequests == {0, 8, 70}
==============================================================================

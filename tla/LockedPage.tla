---------------------------- MODULE LockedPage ----------------------------
(***************************************************************************)
(* What the hierarchical lock promises the tree: lock_and_read_page and    *)
(* the unlocking calls behave as if a page had one owner at a time, the    *)
(* owner got the newest page, and a released modification were in place    *)
(* at once.  No tickets, no remote word, no hand-over, no posted writes.   *)
(***************************************************************************)
EXTENDS Naturals

CONSTANTS Thread, NoOne

VARIABLES
  owner,   \* the thread that holds the page, or NoOne
  value,   \* the page, as the number of modifications made to it
  got      \* the private copy each thread last worked on

vars == <<owner, value, got>>

Init ==
  /\ owner = NoOne
  /\ value = 0
  /\ got = [t \in Thread |-> 0]

\* lock_and_read_page: wait for the page to be free and take its newest value.
LockAndRead(t) ==
  /\ owner = NoOne
  /\ owner' = t
  /\ got' = [got EXCEPT ![t] = value]
  /\ UNCHANGED value

\* unlock_addr: give the page back as it was.
Unlock(t) ==
  /\ owner = t
  /\ owner' = NoOne
  /\ UNCHANGED <<value, got>>

\* write_page_and_unlock: the modified copy becomes the page.
WriteAndUnlock(t) ==
  /\ owner = t
  /\ owner' = NoOne
  /\ got' = [got EXCEPT ![t] = @ + 1]
  /\ value' = got[t] + 1

Next == \E t \in Thread : LockAndRead(t) \/ Unlock(t) \/ WriteAndUnlock(t)

Spec == Init /\ [][Next]_vars
=============================================================================

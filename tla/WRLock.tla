------------------------------- MODULE WRLock -------------------------------
(***************************************************************************)
(* The reader-writer spin lock of WRLock.h: one word of 16 bits that is 1  *)
(* while a writer is in and twice the number of readers otherwise.  Each   *)
(* operation loads the word and then tries to compare-and-swap it, so      *)
(* other threads run between the two.  free_lock of the index cache and    *)
(* DSM::getInstance use the write side.                                    *)
(***************************************************************************)
EXTENDS Integers, FiniteSets

CONSTANTS
  Thread,
  WordMod,   \* 2^16 in the code
  MaxCalls   \* bound: lock calls of a thread

ASSUME WRLockAssumption ==
  /\ IsFiniteSet(Thread)
  /\ WordMod \in Nat /\ MaxCalls \in Nat
  /\ 2 * Cardinality(Thread) < WordMod

UNLOCKED == 0
LOCKED == 1

Word == 0..WordMod-1

Waiting == {"wLock", "wCas", "try_wLock", "try_wCas",
            "rLock", "rCas", "try_rLock", "try_rCas", "rUnlock", "rUnCas"}

VARIABLES
  l,      \* the lock word
  pc,     \* where each thread is
  v,      \* the word as it last loaded it
  calls   \* lock calls it may still make

vars == <<l, pc, v, calls>>

Init ==
  /\ l = UNLOCKED
  /\ pc = [t \in Thread |-> "idle"]
  /\ v = [t \in Thread |-> UNLOCKED]
  /\ calls = [t \in Thread |-> MaxCalls]

Goto(t, from, to) == pc[t] = from /\ pc' = [pc EXCEPT ![t] = to]

Call(t, op) ==
  /\ calls[t] > 0
  /\ Goto(t, "idle", op)
  /\ calls' = [calls EXCEPT ![t] = @ - 1]
  /\ UNCHANGED <<l, v>>

-----------------------------------------------------------------------------
(* Writers.                                                                *)

\* wLock: the load loop leaves when the word is UNLOCKED.
WLoad(t) ==
  /\ l = UNLOCKED
  /\ Goto(t, "wLock", "wCas")
  /\ UNCHANGED <<l, v, calls>>

TryWLoad(t) ==
  /\ Goto(t, "try_wLock", IF l = UNLOCKED THEN "try_wCas" ELSE "idle")
  /\ UNCHANGED <<l, v, calls>>

\* Mutant: a plain store instead of the compare-and-swap.
StoreLocked(t, from, else) ==
  /\ Goto(t, from, "writing")
  /\ l' = LOCKED
  /\ UNCHANGED <<v, calls>>

\* compare_exchange_strong(UNLOCKED, LOCKED)
WCas(t, from, else) ==
  /\ \/ l = UNLOCKED /\ Goto(t, from, "writing") /\ l' = LOCKED
     \/ l # UNLOCKED /\ Goto(t, from, else) /\ UNCHANGED l
  /\ UNCHANGED <<v, calls>>

\* Mutant: the word stays locked.
StoreNothing == LOCKED

\* l.store(UNLOCKED)
StoreUnlocked == UNLOCKED

wUnlock(t) ==
  /\ Goto(t, "writing", "idle")
  /\ l' = StoreUnlocked
  /\ UNCHANGED <<v, calls>>

-----------------------------------------------------------------------------
(* Readers.                                                                *)

\* The word a reader may add itself to.
NoWriter == l # LOCKED

RLoad(t) ==
  /\ NoWriter
  /\ Goto(t, "rLock", "rCas")
  /\ v' = [v EXCEPT ![t] = l]
  /\ UNCHANGED <<l, calls>>

TryRLoad(t) ==
  /\ Goto(t, "try_rLock", IF NoWriter THEN "try_rCas" ELSE "idle")
  /\ v' = [v EXCEPT ![t] = l]
  /\ UNCHANGED <<l, calls>>

\* Mutant: a reader sets the word as the first one would.
FirstReader(w) == 2

OneMore(w) == (w + 2) % WordMod
OneLess(w) == (w - 2) % WordMod

\* compare_exchange_strong(v, new), after which the thread is at `to`, or
\* loads the word again.
Cas(t, from, new, to, else) ==
  /\ \/ l = v[t] /\ Goto(t, from, to) /\ l' = new
     \/ l # v[t] /\ Goto(t, from, else) /\ UNCHANGED l
  /\ UNCHANGED <<v, calls>>

RCas(t) == Cas(t, "rCas", OneMore(v[t]), "reading", "rLock")

\* try_rLock: "goto retry; // concurrent reader"
TryRCas(t) == Cas(t, "try_rCas", OneMore(v[t]), "reading", "try_rLock")

rUnlock(t) ==
  /\ Goto(t, "reading", "rUnlock")
  /\ UNCHANGED <<l, v, calls>>

RUnLoad(t) ==
  /\ Goto(t, "rUnlock", "rUnCas")
  /\ v' = [v EXCEPT ![t] = l]
  /\ UNCHANGED <<l, calls>>

RUnCas(t) == Cas(t, "rUnCas", OneLess(v[t]), "idle", "rUnlock")

\* The load loops of wLock and rLock go round.
Spin(t) ==
  /\ \/ pc[t] = "wLock" /\ l # UNLOCKED
     \/ pc[t] = "rLock" /\ ~NoWriter
  /\ UNCHANGED vars

-----------------------------------------------------------------------------
\* What a thread does by itself once it has called.
Step(t) ==
  \/ WLoad(t) \/ TryWLoad(t)
  \/ WCas(t, "wCas", "wLock") \/ WCas(t, "try_wCas", "idle")
  \/ wUnlock(t)
  \/ RLoad(t) \/ TryRLoad(t) \/ RCas(t) \/ TryRCas(t)
  \/ rUnlock(t) \/ RUnLoad(t) \/ RUnCas(t)
  \/ Spin(t)

Finished ==
  /\ \A t \in Thread : pc[t] = "idle" /\ calls[t] = 0
  /\ UNCHANGED vars

Next ==
  \/ \E t \in Thread :
       \/ \E op \in {"wLock", "try_wLock", "rLock", "try_rLock"} : Call(t, op)
       \/ Step(t)
  \/ Finished

Spec == Init /\ [][Next]_vars

\* Threads spin on cores of their own, and a holder leaves.
FairSpec == Spec /\ \A t \in Thread : WF_vars(Step(t))

-----------------------------------------------------------------------------
Writers == {t \in Thread : pc[t] = "writing"}
Readers == {t \in Thread : pc[t] \in {"reading", "rUnlock", "rUnCas"}}

\* A reader never carries the word of a writer into its compare-and-swap.
TypeOK ==
  /\ l \in Word
  /\ pc \in [Thread -> Waiting \cup {"idle", "writing", "reading"}]
  /\ v \in [Thread -> Word]
  /\ calls \in [Thread -> 0..MaxCalls]
  /\ \A t \in Thread : pc[t] \in {"rCas", "try_rCas"} => v[t] # LOCKED

\* A writer is alone: no other writer, and no reader, although each thread
\* decided on a word it had loaded earlier.
Exclusion ==
  \A t \in Writers : Writers = {t} /\ Readers = {}

\* The word says who is in: LOCKED for a writer, else two for each reader.  It
\* is UNLOCKED again when everybody has left, whatever calls failed or retried.
WordCounts == l = IF Writers # {} THEN LOCKED ELSE 2 * Cardinality(Readers)

\* Every call comes to its end, and so does every unlock: a failed
\* compare-and-swap is tried again and no unlock is lost.
CallsReturn ==
  \A t \in Thread :
    pc[t] \in Waiting ~> pc[t] \in {"idle", "writing", "reading"}
=============================================================================

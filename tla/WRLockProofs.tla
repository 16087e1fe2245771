---------------------------- MODULE WRLockProofs ----------------------------
(***************************************************************************)
(* WRLock excludes for any number of threads that the word can count.      *)
(***************************************************************************)
EXTENDS WRLock, FiniteSetTheorems, TLAPS

WRInv == TypeOK /\ WordCounts /\ Exclusion

USE DEF UNLOCKED, LOCKED

\* The readers are finitely many and fit into the word.
LEMMA ReadersFit ==
  /\ IsFiniteSet(Readers)
  /\ Cardinality(Readers) \in Nat
  /\ 2 * Cardinality(Readers) < WordMod
  /\ Cardinality(Readers) = 0 <=> Readers = {}
  /\ 2 < WordMod \/ Thread = {}
<1>1. Readers \subseteq Thread
  BY DEF Readers
<1>2. /\ IsFiniteSet(Readers)
      /\ Cardinality(Readers) <= Cardinality(Thread)
  BY <1>1, FS_Subset, WRLockAssumption
<1>3. Cardinality(Readers) \in Nat /\ Cardinality(Thread) \in Nat
  BY <1>2, FS_CardinalityType, WRLockAssumption
<1>4. Cardinality(Readers) = 0 <=> Readers = {}
  BY <1>2, FS_EmptySet
<1>5. Cardinality(Thread) = 0 <=> Thread = {}
  BY FS_EmptySet, WRLockAssumption
<1> QED
  BY <1>2, <1>3, <1>4, <1>5, WRLockAssumption

\* The same of the readers after a step.
LEMMA ReadersFitNext ==
  /\ IsFiniteSet(Readers')
  /\ Cardinality(Readers') \in Nat
  /\ 2 * Cardinality(Readers') < WordMod
<1>1. Readers' \subseteq Thread
  BY DEF Readers
<1>2. /\ IsFiniteSet(Readers')
      /\ Cardinality(Readers') <= Cardinality(Thread)
  BY <1>1, FS_Subset, WRLockAssumption
<1> QED
  BY <1>2, FS_CardinalityType, WRLockAssumption

\* Nobody enters or leaves.
LEMMA SameHolders ==
  ASSUME WRInv, UNCHANGED <<l, Readers, Writers>>
  PROVE  WordCounts' /\ Exclusion'
BY DEF WRInv, WordCounts, Exclusion

\* A compare-and-swap that finds the word UNLOCKED lets a writer in alone.
LEMMA WriterEnters ==
  ASSUME WRInv, NEW t \in Thread, l = UNLOCKED, l' = LOCKED,
         pc' = [pc EXCEPT ![t] = "writing"]
  PROVE  WordCounts' /\ Exclusion'
<1>1. Writers = {} /\ Readers = {}
  BY ReadersFit DEF WRInv, WordCounts
<1>2. Writers' = {t} /\ Readers' = {}
  BY <1>1 DEF WRInv, TypeOK, Writers, Readers
<1> QED
  BY <1>2 DEF WordCounts, Exclusion

\* wUnlock leaves an unlocked word.
LEMMA WriterLeaves ==
  ASSUME WRInv, NEW t \in Thread, wUnlock(t)
  PROVE  WordCounts' /\ Exclusion'
<1>1. Writers = {t} /\ Readers = {}
  BY DEF wUnlock, Goto, Writers, WRInv, Exclusion
<1>2. Writers' = {} /\ Readers' = {}
  BY <1>1 DEF WRInv, TypeOK, wUnlock, Goto, Writers, Readers
<1>3. Cardinality({}) = 0
  BY FS_EmptySet
<1> QED
  BY <1>2, <1>3 DEF WordCounts, Exclusion, wUnlock, StoreUnlocked

\* The reader's word is not a writer's, so no writer is in and it counts one
\* reader more.
LEMMA ReaderEnters ==
  ASSUME WRInv, NEW t \in Thread, pc[t] \in {"rCas", "try_rCas"},
         l = v[t], l' = OneMore(v[t]), pc' = [pc EXCEPT ![t] = "reading"]
  PROVE  WordCounts' /\ Exclusion'
<1>1. l # LOCKED
  BY DEF WRInv, TypeOK
<1>2. Writers = {} /\ l = 2 * Cardinality(Readers)
  BY <1>1 DEF WRInv, WordCounts
<1>3. Writers' = {} /\ Readers' = Readers \cup {t} /\ t \notin Readers
  BY <1>2 DEF WRInv, TypeOK, Writers, Readers
<1>4. Cardinality(Readers') = Cardinality(Readers) + 1
  BY <1>3, ReadersFit, FS_AddElement
<1>5. l' = 2 * Cardinality(Readers')
  <2> DEFINE n == Cardinality(Readers)
  <2>1. n \in Nat /\ 2 * (n + 1) < WordMod /\ WordMod \in Nat
    BY <1>4, ReadersFit, ReadersFitNext, WRLockAssumption
  <2>2. l' = (2 * n + 2) % WordMod
    BY <1>2 DEF OneMore
  <2> HIDE DEF n
  <2>3. (2 * n + 2) % WordMod = 2 * n + 2
    BY <2>1
  <2> QED
    BY <2>1, <2>2, <2>3, <1>4 DEF n
<1> QED
  BY <1>3, <1>5 DEF WordCounts, Exclusion

\* rUnlock takes its own reader off the word.
LEMMA ReaderLeaves ==
  ASSUME WRInv, NEW t \in Thread, pc[t] = "rUnCas",
         l = v[t], l' = OneLess(v[t]), pc' = [pc EXCEPT ![t] = "idle"]
  PROVE  WordCounts' /\ Exclusion'
<1>1. t \in Readers
  BY DEF Readers
<1>2. Writers = {} /\ l = 2 * Cardinality(Readers)
  BY <1>1 DEF WRInv, WordCounts, Exclusion
<1>3. Writers' = {} /\ Readers' = Readers \ {t}
  BY <1>2 DEF WRInv, TypeOK, Writers, Readers
<1>4. Cardinality(Readers') = Cardinality(Readers) - 1
  BY <1>1, <1>3, ReadersFit, FS_RemoveElement
<1>5. l' = 2 * Cardinality(Readers')
  <2> DEFINE n == Cardinality(Readers')
  <2>1. n \in Nat /\ 2 * n < WordMod /\ WordMod \in Nat
    BY ReadersFitNext, WRLockAssumption
  <2>2. l' = (2 * (n + 1) - 2) % WordMod
    BY <1>2, <1>4, ReadersFit DEF OneLess
  <2> HIDE DEF n
  <2>3. (2 * (n + 1) - 2) % WordMod = 2 * n
    BY <2>1
  <2> QED
    BY <2>2, <2>3 DEF n
<1> QED
  BY <1>3, <1>5 DEF WordCounts, Exclusion

\* The word stays in its range and a reader's loaded word is not a writer's.
LEMMA TypeStep ==
  ASSUME WRInv, Next
  PROVE  TypeOK'
<1>0. 0 \in Word /\ (Thread # {} => 1 \in Word)
  BY ReadersFit, WRLockAssumption DEF Word
<1>m. \A n \in Int : n % WordMod \in Word \/ Thread = {}
  <2>1. WordMod \in Nat /\ (WordMod > 0 \/ Thread = {})
    BY ReadersFit, WRLockAssumption
  <2> QED
    BY <2>1 DEF Word
<1>1. ASSUME NEW t \in Thread, NEW op \in {"wLock", "try_wLock", "rLock",
             "try_rLock"}, Call(t, op)
      PROVE  TypeOK'
  BY <1>1, WRLockAssumption DEF WRInv, TypeOK, Call, Goto, Waiting
<1>2. ASSUME NEW t \in Thread, Step(t)
      PROVE  TypeOK'
  <2> USE DEF WRInv, TypeOK, Goto, Waiting
  <2>1. CASE WLoad(t) \/ TryWLoad(t)
    BY <2>1 DEF WLoad, TryWLoad
  <2>2. CASE WCas(t, "wCas", "wLock") \/ WCas(t, "try_wCas", "idle")
    BY <2>2, <1>0 DEF WCas
  <2>3. CASE wUnlock(t)
    BY <2>3, <1>0 DEF wUnlock, StoreUnlocked
  <2>4. CASE RLoad(t) \/ TryRLoad(t)
    BY <2>4 DEF RLoad, TryRLoad, NoWriter
  <2>5. CASE rUnlock(t) \/ RUnLoad(t)
    BY <2>5 DEF rUnlock, RUnLoad
  <2>6. CASE RCas(t) \/ TryRCas(t) \/ RUnCas(t)
    <3>1. OneMore(v[t]) \in Word /\ OneLess(v[t]) \in Word
      <4>1. v[t] + 2 \in Int /\ v[t] - 2 \in Int
        BY DEF Word
      <4> QED
        BY <4>1, <1>m DEF OneMore, OneLess
    <3> QED
      BY <2>6, <3>1 DEF RCas, TryRCas, RUnCas, Cas
  <2>7. CASE Spin(t)
    BY <2>7 DEF Spin, vars
  <2> QED
    BY <1>2, <2>1, <2>2, <2>3, <2>4, <2>5, <2>6, <2>7 DEF Step
<1>3. CASE Finished
  BY <1>3 DEF Finished, vars, WRInv, TypeOK
<1> QED
  BY <1>1, <1>2, <1>3 DEF Next

\* What a step does to the holders and to the word.
LEMMA HolderStep ==
  ASSUME WRInv, Next
  PROVE  WordCounts' /\ Exclusion'
<1>1. ASSUME NEW t \in Thread, NEW op \in {"wLock", "try_wLock", "rLock",
             "try_rLock"}, Call(t, op)
      PROVE  WordCounts' /\ Exclusion'
  <2>1. UNCHANGED <<l, Readers, Writers>>
    BY <1>1 DEF Call, Goto, Readers, Writers, WRInv, TypeOK
  <2> QED
    BY <2>1, SameHolders
<1>2. ASSUME NEW t \in Thread, Step(t)
      PROVE  WordCounts' /\ Exclusion'
  <2>1. CASE WLoad(t) \/ TryWLoad(t)
    <3>1. UNCHANGED <<l, Readers, Writers>>
      BY <2>1 DEF WLoad, TryWLoad, Goto, Readers, Writers, WRInv, TypeOK
    <3> QED
      BY <3>1, SameHolders
  <2>2. ASSUME NEW from \in {"wCas", "try_wCas"},
               NEW else \in {"wLock", "idle"}, WCas(t, from, else)
        PROVE  WordCounts' /\ Exclusion'
    <3>1. CASE l = UNLOCKED
      BY <2>2, <3>1, WriterEnters DEF WCas, Goto
    <3>2. CASE l # UNLOCKED
      <4>1. UNCHANGED <<l, Readers, Writers>>
        BY <2>2, <3>2 DEF WCas, Goto, Readers, Writers, WRInv, TypeOK
      <4> QED
        BY <4>1, SameHolders
    <3> QED
      BY <3>1, <3>2
  <2>3. CASE wUnlock(t)
    BY <2>3, WriterLeaves
  <2>4. CASE RLoad(t) \/ TryRLoad(t) \/ rUnlock(t) \/ RUnLoad(t)
    <3>1. UNCHANGED <<l, Readers, Writers>>
      BY <2>4 DEF RLoad, TryRLoad, rUnlock, RUnLoad, Goto, Readers, Writers,
                  WRInv, TypeOK
    <3> QED
      BY <3>1, SameHolders
  <2>5. CASE (RCas(t) \/ TryRCas(t)) /\ l = v[t]
    BY <2>5, ReaderEnters DEF RCas, TryRCas, Cas, Goto
  <2>6. CASE RUnCas(t) /\ l = v[t]
    BY <2>6, ReaderLeaves DEF RUnCas, Cas, Goto
  <2>7. CASE (RCas(t) \/ TryRCas(t) \/ RUnCas(t)) /\ l # v[t]
    <3>1. UNCHANGED <<l, Readers, Writers>>
      BY <2>7 DEF RCas, TryRCas, RUnCas, Cas, Goto, Readers, Writers, WRInv,
                  TypeOK
    <3> QED
      BY <3>1, SameHolders
  <2>8. CASE Spin(t)
    <3>1. UNCHANGED <<l, Readers, Writers>>
      BY <2>8 DEF Spin, vars, Readers, Writers
    <3> QED
      BY <3>1, SameHolders
  <2> QED
    BY <1>2, <2>1, <2>2, <2>3, <2>4, <2>5, <2>6, <2>7, <2>8 DEF Step
<1>3. CASE Finished
  <2>1. UNCHANGED <<l, Readers, Writers>>
    BY <1>3 DEF Finished, vars, Readers, Writers
  <2> QED
    BY <2>1, SameHolders
<1> QED
  BY <1>1, <1>2, <1>3 DEF Next

\* WRLock.h: types, exclusion and the meaning of the word, for any threads.
THEOREM WRInvariance == Spec => []WRInv
<1>1. Init => WRInv
  <2> SUFFICES ASSUME Init PROVE WRInv
    OBVIOUS
  <2>1. Writers = {} /\ Readers = {}
    BY DEF Init, Writers, Readers
  <2>2. WordCounts /\ Exclusion
    BY <2>1, FS_EmptySet DEF Init, WordCounts, Exclusion
  <2>3. TypeOK
    <3>1. 0 < WordMod /\ 0 \in Word
      BY ReadersFit, WRLockAssumption DEF Word
    <3> QED
      BY <3>1, WRLockAssumption DEF Init, TypeOK, Waiting
  <2> QED
    BY <2>2, <2>3 DEF WRInv
<1>2. WRInv /\ [Next]_vars => WRInv'
  <2> SUFFICES ASSUME WRInv, [Next]_vars PROVE WRInv'
    OBVIOUS
  <2>1. CASE Next
    BY <2>1, TypeStep, HolderStep DEF WRInv
  <2>2. CASE UNCHANGED vars
    BY <2>2 DEF vars, WRInv, TypeOK, WordCounts, Exclusion, Readers, Writers
  <2> QED
    BY <2>1, <2>2
<1> QED
  BY <1>1, <1>2, PTL DEF Spec

\* A writer is alone (wLock, try_wLock, rLock and try_rLock exclude).
THEOREM WriterAlone == Spec => []Exclusion
<1>1. WRInv => Exclusion
  BY DEF WRInv
<1> QED
  BY <1>1, WRInvariance, PTL

\* The word always tells who is in, so it is UNLOCKED when nobody is.
THEOREM WordTellsHolders == Spec => []WordCounts
<1>1. WRInv => WordCounts
  BY DEF WRInv
<1> QED
  BY <1>1, WRInvariance, PTL
=============================================================================

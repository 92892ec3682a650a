---------------------------- MODULE AgreementProofs ----------------------------
(***************************************************************************)
(* Proofs about RegistryAgreement, for any CIDs and metadata hashes and    *)
(* instructions of any length: the guest program and RegistryState anchor  *)
(* the same CIDs by the same instructions, and the outcome of a batch is   *)
(* what its loop says it is.                                               *)
(***************************************************************************)
EXTENDS RegistryAgreement, RegistryProgramProofs, SetInduction, FiniteSetTheorems

-------------------------------------------------------------------------------
(* One round of anchor_batch.                                              *)

\* What the loop of anchor_batch carries from one round to the next.
Loop == [state : [Cid -> Data], entries : Seq(Data),
         inserted : Nat, skipped_existing : Nat]

Round(acc, e) == Core!CountOne(acc, e, Core!AnchorOne(acc.state, e))

\* A round leaves every other CID alone, keeps an entry that is there, and
\* returns what the CID has afterwards.
LEMMA RoundEffect ==
    ASSUME NEW acc \in Loop, NEW e \in AnchorEntry
    PROVE  LET now == Round(acc, e) IN
           /\ now \in Loop
           /\ now.entries = Append(acc.entries, now.state[e.cid])
           /\ \A c \in Cid : c # e.cid => now.state[c] = acc.state[c]
           /\ now.state[e.cid] = IF acc.state[e.cid] = NoEntry THEN e ELSE acc.state[e.cid]
           /\ now.inserted = acc.inserted + IF acc.state[e.cid] = NoEntry THEN 1 ELSE 0
           /\ now.inserted + now.skipped_existing = acc.inserted + acc.skipped_existing + 1
<1> DEFINE now == Round(acc, e)
<1>1. /\ acc.state \in [Cid -> Data] /\ acc.entries \in Seq(Data)
      /\ acc.inserted \in Nat /\ acc.skipped_existing \in Nat
      /\ e.cid \in Cid /\ e \in Data
  BY DEF Loop, AnchorEntry, Data
<1>2. CASE acc.state[e.cid] = NoEntry
  <2>1. now = [state |-> [acc.state EXCEPT ![e.cid] = e],
               entries |-> Append(acc.entries, e),
               inserted |-> acc.inserted + 1,
               skipped_existing |-> acc.skipped_existing + 0]
    BY <1>2 DEF Round, Core!CountOne, Core!AnchorOne, Core!Query
  <2>2. [acc.state EXCEPT ![e.cid] = e] \in [Cid -> Data]
    BY <1>1
  <2> HIDE DEF now
  <2>3. now \in Loop
    BY <1>1, <2>1, <2>2 DEF Loop
  <2>4. /\ now.entries = Append(acc.entries, now.state[e.cid])
        /\ \A c \in Cid : c # e.cid => now.state[c] = acc.state[c]
        /\ now.state[e.cid] = e
    BY <1>1, <2>1
  <2>5. /\ now.inserted = acc.inserted + 1
        /\ now.inserted + now.skipped_existing = acc.inserted + acc.skipped_existing + 1
    BY <1>1, <2>1
  <2> QED
    BY <1>2, <2>3, <2>4, <2>5 DEF now
<1>3. CASE acc.state[e.cid] # NoEntry
  <2>1. now = [state |-> acc.state,
               entries |-> Append(acc.entries, acc.state[e.cid]),
               inserted |-> acc.inserted + 0,
               skipped_existing |-> acc.skipped_existing + 1]
    BY <1>3 DEF Round, Core!CountOne, Core!AnchorOne, Core!Query
  <2> HIDE DEF now
  <2>2. now \in Loop
    BY <1>1, <2>1 DEF Loop
  <2>3. /\ now.state = acc.state /\ now.entries = Append(acc.entries, acc.state[e.cid])
        /\ now.inserted = acc.inserted
        /\ now.skipped_existing = acc.skipped_existing + 1
    BY <1>1, <2>1
  <2> QED
    BY <1>1, <1>3, <2>2, <2>3 DEF now
<1> QED
  BY <1>2, <1>3

\* A round that inserts adds its CID to the anchored ones; another adds none.
LEMMA RoundCounts ==
    ASSUME NEW acc \in Loop, NEW e \in AnchorEntry, IsFiniteSet(Anchored(acc.state))
    PROVE  LET now == Round(acc, e) IN
           /\ IsFiniteSet(Anchored(now.state))
           /\ Cardinality(Anchored(now.state)) - now.inserted
                = Cardinality(Anchored(acc.state)) - acc.inserted
<1> DEFINE now == Round(acc, e)
           A == Anchored(acc.state)
           B == Anchored(now.state)
<1> HIDE DEF now
<1>1. /\ \A c \in Cid : c # e.cid => now.state[c] = acc.state[c]
      /\ now.state[e.cid] = IF acc.state[e.cid] = NoEntry THEN e ELSE acc.state[e.cid]
      /\ now.inserted = acc.inserted + IF acc.state[e.cid] = NoEntry THEN 1 ELSE 0
  BY RoundEffect DEF now
<1>2. e.cid \in Cid /\ e # NoEntry /\ acc.inserted \in Nat
  BY NoEntryAssumption DEF AnchorEntry, Loop
<1>3. B = A \cup {e.cid}
  BY <1>1, <1>2 DEF Anchored
<1>4. e.cid \in A <=> acc.state[e.cid] # NoEntry
  BY <1>2 DEF Anchored
<1> HIDE DEF A, B
<1>5. IsFiniteSet(A)
  BY DEF A
<1>6. /\ IsFiniteSet(B) /\ Cardinality(A) \in Nat
      /\ Cardinality(B) = IF e.cid \in A THEN Cardinality(A) ELSE Cardinality(A) + 1
  BY <1>3, <1>5, FS_AddElement, FS_CardinalityType
<1>7. Cardinality(B) - now.inserted = Cardinality(A) - acc.inserted
  BY <1>1, <1>2, <1>4, <1>6
<1> QED
  BY <1>6, <1>7 DEF A, B, now

-------------------------------------------------------------------------------
(* The loop.                                                               *)

Start(state) == [state |-> state, entries |-> << >>,
                 inserted |-> 0, skipped_existing |-> 0]

\* The loop is the function that its equation says.
LEMMA RoundsUnfold ==
    ASSUME NEW state \in [Cid -> Data], NEW es \in Seq(AnchorEntry)
    PROVE  LET r == Core!Rounds(state, es) IN
           /\ r[0] = Start(state)
           /\ \A n \in 0..(Len(es) - 1) : r[n + 1] = Round(r[n], es[n + 1])
<1> DEFINE first == Start(state)
           body == [n \in Nat |-> [acc \in Loop |->
                      IF n < Len(es) THEN Round(acc, es[n + 1]) ELSE acc]]
           Is(g) == g = [n \in 0..Len(es) |->
                           IF n = 0 THEN first ELSE Round(g[n - 1], es[n])]
           r == Core!Rounds(state, es)
<1>1. first \in Loop
  BY DEF Start, Loop
<1>2. Len(es) \in Nat /\ \A n \in 1..Len(es) : es[n] \in AnchorEntry
  OBVIOUS
<1>3. \A n \in Nat, acc \in Loop : n < Len(es) => Round(acc, es[n + 1]) \in Loop
  <2>1. \A n \in Nat : n < Len(es) => es[n + 1] \in AnchorEntry
    BY <1>2
  <2> QED
    BY <2>1, RoundEffect
<1>4. body \in StepsOn(Loop)
  BY <1>3 DEF StepsOn
<1>5. \A n \in Nat, acc \in Loop : n < Len(es) => body[n][acc] = Round(acc, es[n + 1])
  OBVIOUS
<1> HIDE DEF first, body
<1>6. PICK f : Iterates(f, Loop, first, body)
  BY <1>1, <1>4, Recursion
<1>7. /\ f \in [Nat -> Loop] /\ f[0] = first
      /\ \A n \in Nat : f[n + 1] = body[n][f[n]]
  BY <1>6 DEF Iterates
<1> DEFINE g == [n \in 0..Len(es) |-> f[n]]
<1>8. Is(g)
  <2>1. ASSUME NEW n \in 1..Len(es) PROVE f[n] = Round(f[n - 1], es[n])
    <3>1. n - 1 \in Nat /\ n - 1 < Len(es) /\ (n - 1) + 1 = n
      BY <1>2
    <3>2. f[n] = body[n - 1][f[n - 1]]
      BY <1>7, <3>1
    <3>3. f[n - 1] \in Loop
      BY <1>7, <3>1
    <3> QED
      BY <1>5, <3>1, <3>2, <3>3
  <2>2. \A n \in 1..Len(es) : n - 1 \in 0..Len(es)
    BY <1>2
  <2>3. \A n \in 0..Len(es) : n # 0 => n \in 1..Len(es)
    BY <1>2
  <2>4. \A n \in 0..Len(es) :
           f[n] = IF n = 0 THEN first ELSE Round(g[n - 1], es[n])
    BY <1>7, <2>1, <2>2, <2>3
  <2> QED
    BY <2>4
<1> HIDE DEF g
<1>9. r = CHOOSE h : Is(h)
  BY DEF Core!Rounds, first, Start, Round
<1>10. Is(r)
  <2> HIDE DEF Is, r
  <2> QED
    BY <1>8, <1>9
<1> HIDE DEF r
<1>11. r[0] = first
  BY <1>2, <1>10
<1>12. ASSUME NEW n \in 0..(Len(es) - 1) PROVE r[n + 1] = Round(r[n], es[n + 1])
  <2>1. n + 1 \in 0..Len(es) /\ n + 1 # 0 /\ (n + 1) - 1 = n
    BY <1>2
  <2> QED
    BY <1>10, <2>1
<1> QED
  BY <1>11, <1>12 DEF r, first

\* What the loop has after n rounds, said of the batch as a whole: an entry
\* that was there stays; a CID that the n entries name gets the first one that
\* names it; what was returned is what is there now; and the counters tell
\* how many CIDs are new.
After(state, es, n, acc) ==
    /\ acc \in Loop
    /\ Len(acc.entries) = n
    /\ \A i \in 1..n : acc.entries[i] = acc.state[es[i].cid]
    /\ \A i \in 1..n : acc.state[es[i].cid] # NoEntry
    /\ \A c \in Cid : state[c] # NoEntry => acc.state[c] = state[c]
    /\ \A c \in Cid : state[c] = NoEntry /\ acc.state[c] # NoEntry =>
          \E i \in 1..n : /\ es[i].cid = c
                          /\ acc.state[c] = es[i]
                          /\ \A j \in 1..(i - 1) : es[j].cid # c
    /\ acc.inserted + acc.skipped_existing = n
    /\ IsFiniteSet(Anchored(acc.state))
    /\ acc.inserted = Cardinality(Anchored(acc.state)) - Cardinality(Anchored(state))

LEMMA AfterNone ==
    ASSUME NEW state \in [Cid -> Data], NEW es, IsFiniteSet(Anchored(state))
    PROVE  After(state, es, 0, Start(state))
<1>1. Cardinality(Anchored(state)) \in Nat
  BY FS_CardinalityType
<1>2. Start(state) \in Loop
  BY DEF Start, Loop
<1> QED
  BY <1>1, <1>2 DEF After, Start

LEMMA AfterOneMore ==
    ASSUME NEW state \in [Cid -> Data], NEW es \in Seq(AnchorEntry),
           IsFiniteSet(Anchored(state)),
           NEW n \in 0..(Len(es) - 1), NEW acc, After(state, es, n, acc)
    PROVE  After(state, es, n + 1, Round(acc, es[n + 1]))
<1> DEFINE e == es[n + 1]
           now == Round(acc, e)
<1>1. /\ n \in Nat /\ Len(es) \in Nat
      /\ \A i \in 1..Len(es) : es[i] \in AnchorEntry
      /\ 1..(n + 1) \subseteq 1..Len(es) /\ 1..(n + 1) = (1..n) \cup {n + 1}
  OBVIOUS
<1>2. /\ e \in AnchorEntry /\ e # NoEntry /\ e.cid \in Cid
      /\ \A i \in 1..n : es[i].cid \in Cid
  BY <1>1, NoEntryAssumption DEF AnchorEntry
<1>3. /\ acc \in Loop /\ acc.entries \in Seq(Data)
      /\ acc.inserted \in Nat /\ acc.skipped_existing \in Nat
  BY DEF After, Loop
<1>4. /\ now \in Loop
      /\ now.entries = Append(acc.entries, now.state[e.cid])
      /\ \A c \in Cid : c # e.cid => now.state[c] = acc.state[c]
      /\ now.state[e.cid] = IF acc.state[e.cid] = NoEntry THEN e ELSE acc.state[e.cid]
      /\ now.inserted + now.skipped_existing = acc.inserted + acc.skipped_existing + 1
  BY <1>2, <1>3, RoundEffect
<1>5. /\ IsFiniteSet(Anchored(now.state))
      /\ Cardinality(Anchored(now.state)) - now.inserted
           = Cardinality(Anchored(acc.state)) - acc.inserted
  BY <1>2, <1>3, RoundCounts DEF After
<1> HIDE DEF now
<1>6. \A c \in Cid : acc.state[c] # NoEntry => now.state[c] = acc.state[c]
  BY <1>4
<1>7. now.state[e.cid] # NoEntry
  BY <1>2, <1>4
<1>8. /\ Len(now.entries) = n + 1
      /\ \A i \in 1..n : now.entries[i] = acc.entries[i]
      /\ now.entries[n + 1] = now.state[e.cid]
  BY <1>1, <1>3, <1>4 DEF After
<1>9. \A i \in 1..n : now.state[es[i].cid] = acc.state[es[i].cid]
                      /\ now.state[es[i].cid] # NoEntry
  BY <1>2, <1>6 DEF After
<1>10. \A i \in 1..(n + 1) : /\ now.entries[i] = now.state[es[i].cid]
                             /\ now.state[es[i].cid] # NoEntry
  BY <1>1, <1>7, <1>8, <1>9 DEF After
<1>11. \A c \in Cid : state[c] # NoEntry => now.state[c] = state[c]
  BY <1>6 DEF After
<1>12. ASSUME NEW c \in Cid, state[c] = NoEntry, now.state[c] # NoEntry
       PROVE  \E i \in 1..(n + 1) : /\ es[i].cid = c
                                    /\ now.state[c] = es[i]
                                    /\ \A j \in 1..(i - 1) : es[j].cid # c
  <2>1. CASE acc.state[c] # NoEntry
    <3>1. PICK i \in 1..n : /\ es[i].cid = c
                            /\ acc.state[c] = es[i]
                            /\ \A j \in 1..(i - 1) : es[j].cid # c
      BY <1>12, <2>1 DEF After
    <3> QED
      BY <1>1, <1>6, <2>1, <3>1
  <2>2. CASE acc.state[c] = NoEntry
    <3>1. c = e.cid /\ now.state[c] = es[n + 1]
      BY <1>4, <1>12, <2>2
    <3>2. \A j \in 1..n : es[j].cid # c
      BY <2>2 DEF After
    <3>3. (n + 1) - 1 = n /\ n + 1 \in 1..(n + 1)
      BY <1>1
    <3> QED
      BY <3>1, <3>2, <3>3
  <2> QED
    BY <2>1, <2>2
<1>13. now.inserted + now.skipped_existing = n + 1
  BY <1>4 DEF After
<1>14. now.inserted = Cardinality(Anchored(now.state)) - Cardinality(Anchored(state))
  <2>1. /\ Cardinality(Anchored(now.state)) \in Nat /\ Cardinality(Anchored(state)) \in Nat
        /\ Cardinality(Anchored(acc.state)) \in Nat
        /\ now.inserted \in Nat
    BY <1>4, <1>5, FS_CardinalityType DEF After, Loop
  <2>2. acc.inserted = Cardinality(Anchored(acc.state)) - Cardinality(Anchored(state))
    BY DEF After
  <2> QED
    BY <1>3, <1>5, <2>1, <2>2
<1>15. After(state, es, n + 1, now)
  BY <1>4, <1>5, <1>8, <1>10, <1>11, <1>12, <1>13, <1>14 DEF After
<1> QED
  BY <1>15 DEF now

\* So for the whole batch, whatever its length.
LEMMA BatchEffect ==
    ASSUME NEW state \in [Cid -> Data], NEW es \in Seq(AnchorEntry),
           IsFiniteSet(Anchored(state))
    PROVE  After(state, es, Len(es), Core!AnchorBatch(state, es))
<1> DEFINE r == Core!Rounds(state, es)
           Good == {n \in 0..Len(es) : After(state, es, n, r[n])}
<1>1. /\ r[0] = Start(state)
      /\ \A n \in 0..(Len(es) - 1) : r[n + 1] = Round(r[n], es[n + 1])
  BY RoundsUnfold
<1> HIDE DEF r
<1>2. Len(es) \in Nat
  OBVIOUS
<1>3. 0 \in Good
  BY <1>1, <1>2, AfterNone
<1>4. \A n \in 0..(Len(es) - 1) : n \in Good => n + 1 \in Good
  <2> SUFFICES ASSUME NEW n \in 0..(Len(es) - 1), After(state, es, n, r[n])
               PROVE  n + 1 \in 0..Len(es) /\ After(state, es, n + 1, r[n + 1])
    OBVIOUS
  <2>1. r[n + 1] = Round(r[n], es[n + 1]) /\ n + 1 \in 0..Len(es)
    BY <1>1, <1>2
  <2>2. After(state, es, n + 1, Round(r[n], es[n + 1]))
    BY AfterOneMore
  <2> QED
    BY <2>1, <2>2
<1>5. 0..Len(es) \subseteq Good
  <2> HIDE DEF Good
  <2> QED
    BY <1>2, <1>3, <1>4, AllUpTo
<1>6. After(state, es, Len(es), r[Len(es)])
  BY <1>2, <1>5
<1> QED
  BY <1>6 DEF r, Core!AnchorBatch

\* Idempotence of RegistryState, whatever the batch: given again, also with
\* another timestamp or other metadata, the CIDs of a batch change nothing, are
\* all counted as skipped, and return what the first time returned.
THEOREM ReplayChangesNothing ==
    ASSUME NEW state \in [Cid -> Data], IsFiniteSet(Anchored(state)),
           NEW es \in Seq(AnchorEntry), NEW again \in Seq(AnchorEntry),
           Len(again) = Len(es), \A i \in 1..Len(es) : again[i].cid = es[i].cid
    PROVE  LET once == Core!AnchorBatch(state, es)
               twice == Core!AnchorBatch(once.state, again) IN
           /\ twice.state = once.state
           /\ twice.entries = once.entries
           /\ twice.inserted = 0
           /\ twice.skipped_existing = Len(es)
<1> DEFINE once == Core!AnchorBatch(state, es)
           twice == Core!AnchorBatch(once.state, again)
<1>1. After(state, es, Len(es), once)
  BY BatchEffect
<1> HIDE DEF once
<1>2. once.state \in [Cid -> Data] /\ IsFiniteSet(Anchored(once.state)) /\ once \in Loop
  BY <1>1 DEF After, Loop
<1>3. After(once.state, again, Len(again), twice)
  BY <1>2, BatchEffect
<1> HIDE DEF twice
<1>4. twice \in Loop /\ twice.state \in [Cid -> Data]
  BY <1>3 DEF After, Loop
<1>5. \A c \in Cid : twice.state[c] = once.state[c]
  <2> SUFFICES ASSUME NEW c \in Cid, once.state[c] = NoEntry, twice.state[c] # NoEntry
               PROVE  FALSE
    BY <1>3 DEF After
  <2>1. PICK i \in 1..Len(es) : es[i].cid = c
    BY <1>3 DEF After
  <2> QED
    BY <1>1, <2>1 DEF After
<1>6. twice.state = once.state
  BY <1>2, <1>4, <1>5
<1>7. twice.entries = once.entries
  <2>1. /\ once.entries \in Seq(Data) /\ twice.entries \in Seq(Data)
        /\ Len(once.entries) = Len(es) /\ Len(twice.entries) = Len(es)
    BY <1>1, <1>2, <1>3, <1>4 DEF After, Loop
  <2>2. \A i \in 1..Len(es) : twice.entries[i] = once.entries[i]
    BY <1>1, <1>3, <1>6 DEF After
  <2> QED
    BY <2>1, <2>2, SeqEqual
<1>8. twice.inserted = 0 /\ twice.skipped_existing = Len(es)
  <2>1. Cardinality(Anchored(once.state)) \in Nat
    BY <1>2, FS_CardinalityType
  <2>2. twice.inserted \in Nat /\ twice.skipped_existing \in Nat
    BY <1>4 DEF Loop
  <2> QED
    BY <1>3, <1>6, <2>1, <2>2 DEF After
<1> QED
  BY <1>6, <1>7, <1>8 DEF once, twice

\* Where a stream of entries is cut into batches does not matter to what is in
\* RegistryState in the end: the entries of two batches one after the other are
\* those of one batch.
THEOREM CutsDoNotMatter ==
    ASSUME NEW state \in [Cid -> Data], IsFiniteSet(Anchored(state)),
           NEW first \in Seq(AnchorEntry), NEW second \in Seq(AnchorEntry)
    PROVE  Core!AnchorBatch(Core!AnchorBatch(state, first).state, second).state
             = Core!AnchorBatch(state, first \o second).state
<1> DEFINE one == Core!AnchorBatch(state, first)
           two == Core!AnchorBatch(one.state, second)
           both == first \o second
           all == Core!AnchorBatch(state, both)
           m == Len(first)
<1>1. After(state, first, m, one)
  BY BatchEffect
<1> HIDE DEF one
<1>2. one.state \in [Cid -> Data] /\ IsFiniteSet(Anchored(one.state))
  BY <1>1 DEF After, Loop
<1>3. After(one.state, second, Len(second), two)
  BY <1>2, BatchEffect
<1> HIDE DEF two
<1>4. /\ both \in Seq(AnchorEntry) /\ Len(both) = m + Len(second)
      /\ m \in Nat /\ Len(second) \in Nat
      /\ \A i \in 1..m : both[i] = first[i]
      /\ \A i \in 1..Len(second) : both[m + i] = second[i]
      /\ \A i \in 1..Len(both) : i \in 1..m \/ (i - m \in 1..Len(second) /\ i = m + (i - m))
  BY ConcatProperties
<1> HIDE DEF both
<1>5. After(state, both, Len(both), all)
  BY <1>4, BatchEffect
<1> HIDE DEF all, m
<1>6. all.state \in [Cid -> Data] /\ two.state \in [Cid -> Data]
  BY <1>3, <1>5 DEF After, Loop
<1>7. ASSUME NEW c \in Cid PROVE two.state[c] = all.state[c]
  <2>1. CASE state[c] # NoEntry
    BY <1>1, <1>3, <1>5, <2>1 DEF After
  <2>2. CASE state[c] = NoEntry /\ \A i \in 1..Len(both) : both[i].cid # c
    <3>1. all.state[c] = NoEntry
      BY <1>5, <2>2 DEF After
    <3>2. one.state[c] = NoEntry
      <4>1. \A i \in 1..m : first[i].cid # c
        BY <1>4, <2>2
      <4> QED
        BY <1>1, <2>2, <4>1 DEF After
    <3>3. \A i \in 1..Len(second) : second[i].cid # c
      <4> SUFFICES ASSUME NEW i \in 1..Len(second) PROVE second[i].cid # c
        OBVIOUS
      <4>1. m + i \in 1..Len(both) /\ both[m + i] = second[i]
        BY <1>4
      <4> QED
        BY <2>2, <4>1
    <3>4. two.state[c] = NoEntry
      BY <1>3, <3>2, <3>3 DEF After
    <3> QED
      BY <3>1, <3>4
  <2>3. CASE state[c] = NoEntry /\ \E i \in 1..Len(both) : both[i].cid = c
    <3>1. all.state[c] # NoEntry
      BY <1>5, <2>3 DEF After
    <3>2. PICK i \in 1..Len(both) : /\ both[i].cid = c /\ all.state[c] = both[i]
                                    /\ \A j \in 1..(i - 1) : both[j].cid # c
      BY <1>5, <2>3, <3>1 DEF After
    <3>3. CASE one.state[c] # NoEntry
      <4>1. PICK k \in 1..m : /\ first[k].cid = c /\ one.state[c] = first[k]
                              /\ \A j \in 1..(k - 1) : first[j].cid # c
        BY <1>1, <2>3, <3>3 DEF After
      <4>2. k \in 1..Len(both) /\ both[k] = first[k]
        BY <1>4, <4>1
      <4>3. ~(k < i)
        BY <3>2, <4>1, <4>2
      <4>4. ~(i < k)
        <5> SUFFICES ASSUME i < k PROVE FALSE
          OBVIOUS
        <5>1. i \in 1..(k - 1) /\ i \in 1..m
          BY <1>4
        <5> QED
          BY <1>4, <3>2, <4>1, <5>1
      <4>5. i = k
        BY <1>4, <4>3, <4>4
      <4>6. two.state[c] = one.state[c]
        BY <1>3, <3>3 DEF After
      <4> QED
        BY <3>2, <4>1, <4>2, <4>5, <4>6
    <3>4. CASE one.state[c] = NoEntry
      <4>1. \A j \in 1..m : first[j].cid # c
        BY <1>1, <3>4 DEF After
      <4>2. i - m \in 1..Len(second) /\ both[i] = second[i - m]
        BY <1>4, <3>2, <4>1
      <4>3. two.state[c] # NoEntry
        BY <1>3, <3>2, <4>2 DEF After
      <4>4. PICK k \in 1..Len(second) : /\ second[k].cid = c /\ two.state[c] = second[k]
                                        /\ \A j \in 1..(k - 1) : second[j].cid # c
        BY <1>3, <3>4, <4>3 DEF After
      <4>5. both[m + k] = second[k] /\ m + k \in 1..Len(both)
        BY <1>4, <4>4
      <4>6. ~(m + k < i)
        <5> SUFFICES ASSUME m + k < i PROVE FALSE
          OBVIOUS
        <5>1. m + k \in 1..(i - 1)
          BY <1>4
        <5> QED
          BY <3>2, <4>4, <4>5, <5>1
      <4>7. ~(i - m < k)
        <5> SUFFICES ASSUME i - m < k PROVE FALSE
          OBVIOUS
        <5>1. i - m \in 1..(k - 1)
          BY <1>4, <4>2
        <5> QED
          BY <3>2, <4>2, <4>4, <5>1
      <4>8. i = m + k
        BY <1>4, <4>6, <4>7
      <4> QED
        BY <3>2, <4>4, <4>5, <4>8
    <3> QED
      BY <3>3, <3>4
  <2> QED
    BY <2>1, <2>2, <2>3
<1>8. two.state = all.state
  BY <1>6, <1>7
<1> QED
  BY <1>8 DEF one, two, both, all

-------------------------------------------------------------------------------
(* The two together.                                                       *)

LEMMA AgreementSteps == [AgreementNext]_agreementVars => [Next]_vars
  BY DEF AgreementNext, agreementVars, CommitBoth, GuestOnly, Next

\* Only a commit reaches RegistryState.
LEMMA OnlyCommitBoth ==
    [AgreementNext]_agreementVars =>
       CommitBoth \/ UNCHANGED <<account, accepted, entries>>
  BY DEF AgreementNext, agreementVars, vars, GuestOnly, Begin, Panic, ProcessEntry, Discard

\* What RegistryState is given is a sequence of entries.
LEMMA InstructionEntries ==
    ASSUME NEW t \in Transaction
    PROVE  /\ Instruction(t) \in Seq(AnchorEntry)
           /\ Len(Instruction(t)) = Len(t.entries)
           /\ DOMAIN t.entries = 1..Len(t.entries)
           /\ \A i \in 1..Len(t.entries) :
                 Instruction(t)[i] = NewEntry(t, i) /\ NewEntry(t, i).cid = t.entries[i].cid
<1>1. /\ DOMAIN t.entries = 1..Len(t.entries) /\ Len(t.entries) \in Nat
      /\ \A i \in DOMAIN t.entries : NewEntry(t, i) \in AnchorEntry
  BY TransactionFacts
<1>2. Instruction(t) \in [1..Len(t.entries) -> AnchorEntry]
  BY <1>1 DEF Instruction
<1>3. Instruction(t) \in Seq(AnchorEntry)
  BY <1>1, <1>2, SeqDef
<1>4. Len(Instruction(t)) = Len(t.entries)
  BY <1>1, <1>2, <1>3, LenProperties
<1> QED
  BY <1>1, <1>3, <1>4 DEF Instruction, NewEntry

\* What a commit does to RegistryState.
LEMMA CommitBothEffect ==
    ASSUME AgreementInv, CommitBoth
    PROVE  /\ tx \in Transaction
           /\ entries' \in [Cid -> Data]
           /\ IsFiniteSet(Anchored(entries'))
           /\ \A c \in Cid : entries[c] # NoEntry => entries'[c] = entries[c]
           /\ \A c \in Cid : entries[c] = NoEntry /\ entries'[c] # NoEntry =>
                 /\ entries'[c].cid = c
                 /\ Offers(tx, entries'[c])
                 /\ entries'[c].anchor_timestamp = tx.anchor_timestamp
           /\ \A c \in Cid : Mentions(tx, c) => entries'[c] # NoEntry
           /\ Len(outcome'.entries) = Len(tx.entries)
           /\ \A i \in DOMAIN tx.entries :
                 outcome'.entries[i] = entries'[tx.entries[i].cid]
           /\ outcome'.inserted
                = Cardinality(Anchored(entries')) - Cardinality(Anchored(entries))
           /\ outcome'.inserted + outcome'.skipped_existing = Len(tx.entries)
<1> DEFINE es == Instruction(tx)
           acc == Core!AnchorBatch(entries, es)
<1>1. tx \in Transaction
  BY DEF CommitBoth, AgreementInv, IInv, TypeOK, Commit, Processed
<1>2. /\ es \in Seq(AnchorEntry) /\ Len(es) = Len(tx.entries)
      /\ DOMAIN tx.entries = 1..Len(tx.entries)
      /\ \A i \in 1..Len(tx.entries) :
            es[i] = NewEntry(tx, i) /\ es[i].cid = tx.entries[i].cid
  BY <1>1, InstructionEntries
<1> HIDE DEF es
<1>3. After(entries, es, Len(es), acc)
  BY <1>2, BatchEffect DEF AgreementInv
<1>4. /\ entries' = acc.state
      /\ outcome'.entries = acc.entries
      /\ outcome'.inserted = acc.inserted
      /\ outcome'.skipped_existing = acc.skipped_existing
  BY DEF CommitBoth, Core!Apply, es
<1> HIDE DEF acc
<1>5. entries' \in [Cid -> Data] /\ IsFiniteSet(Anchored(entries'))
  BY <1>3, <1>4 DEF After, Loop
<1>6. \A c \in Cid : entries[c] # NoEntry => entries'[c] = entries[c]
  BY <1>3, <1>4 DEF After
<1>7. ASSUME NEW c \in Cid, entries[c] = NoEntry, entries'[c] # NoEntry
      PROVE  /\ entries'[c].cid = c
             /\ Offers(tx, entries'[c])
             /\ entries'[c].anchor_timestamp = tx.anchor_timestamp
  <2>1. PICK i \in 1..Len(es) : es[i].cid = c /\ entries'[c] = es[i]
    BY <1>3, <1>4, <1>7 DEF After
  <2>2. i \in DOMAIN tx.entries /\ entries'[c] = NewEntry(tx, i)
    BY <1>2, <2>1
  <2> QED
    BY <2>1, <2>2 DEF Offers, NewEntry
<1>8. ASSUME NEW c \in Cid, Mentions(tx, c) PROVE entries'[c] # NoEntry
  <2>1. PICK i \in DOMAIN tx.entries : tx.entries[i].cid = c
    BY <1>8 DEF Mentions
  <2>2. i \in 1..Len(es) /\ es[i].cid = c
    BY <1>2, <2>1
  <2> QED
    BY <1>3, <1>4, <2>2 DEF After
<1>9. /\ Len(outcome'.entries) = Len(tx.entries)
      /\ \A i \in DOMAIN tx.entries :
            outcome'.entries[i] = entries'[tx.entries[i].cid]
  BY <1>2, <1>3, <1>4 DEF After
<1>10. /\ outcome'.inserted
            = Cardinality(Anchored(entries')) - Cardinality(Anchored(entries))
       /\ outcome'.inserted + outcome'.skipped_existing = Len(tx.entries)
  BY <1>2, <1>3, <1>4 DEF After
<1> QED
  BY <1>1, <1>5, <1>6, <1>7, <1>8, <1>9, <1>10

LEMMA CoreFirstAcceptedStep ==
    ASSUME AgreementInv, CommitBoth
    PROVE  CoreFirstAccepted'
<1>1. /\ accepted \in Seq(Transaction) /\ accepted' = Append(accepted, tx)
  BY DEF CommitBoth, AgreementInv, IInv, TypeOK, Commit
<1> DEFINE n == Len(accepted) + 1
<1>2. /\ Len(accepted) \in Nat /\ n - 1 = Len(accepted)
      /\ DOMAIN accepted = 1..Len(accepted)
      /\ DOMAIN accepted' = 1..n /\ n \in DOMAIN accepted'
      /\ \A k \in DOMAIN accepted : k \in DOMAIN accepted' /\ accepted'[k] = accepted[k]
      /\ \A k \in DOMAIN accepted' : k = n \/ k \in DOMAIN accepted
      /\ accepted'[n] = tx
  BY <1>1, CommitBothEffect
<1>3. SUFFICES ASSUME NEW c \in Cid
               PROVE  IF entries'[c] = NoEntry
                      THEN \A k \in DOMAIN accepted' : ~Mentions(accepted'[k], c)
                      ELSE \E k \in DOMAIN accepted' :
                             /\ entries'[c].cid = c
                             /\ Offers(accepted'[k], entries'[c])
                             /\ \A j \in 1..(k - 1) : ~Mentions(accepted'[j], c)
  BY DEF CoreFirstAccepted, Mentions, Offers, NewEntry
<1> HIDE DEF n
<1>4. CASE entries[c] # NoEntry
  <2>1. entries'[c] = entries[c]
    BY <1>4, CommitBothEffect
  <2>2. PICK k \in DOMAIN accepted :
          /\ entries[c].cid = c
          /\ Offers(accepted[k], entries[c])
          /\ \A j \in 1..(k - 1) : ~Mentions(accepted[j], c)
    BY <1>4 DEF AgreementInv, CoreFirstAccepted
  <2>3. \A j \in 1..(k - 1) : j \in DOMAIN accepted
    BY <1>2
  <2> QED
    BY <1>2, <1>4, <2>1, <2>2, <2>3
<1>5. CASE entries[c] = NoEntry
  <2>1. \A k \in DOMAIN accepted : ~Mentions(accepted[k], c)
    BY <1>5 DEF AgreementInv, CoreFirstAccepted
  <2>2. CASE entries'[c] = NoEntry
    <3>1. ~Mentions(tx, c)
      BY <2>2, CommitBothEffect
    <3> QED
      BY <1>2, <2>1, <2>2, <3>1
  <2>3. CASE entries'[c] # NoEntry
    <3>1. entries'[c].cid = c /\ Offers(tx, entries'[c])
      BY <1>5, <2>3, CommitBothEffect
    <3>2. \A j \in 1..(n - 1) : ~Mentions(accepted'[j], c)
      BY <1>2, <2>1
    <3> QED
      BY <1>2, <2>3, <3>1, <3>2
  <2> QED
    BY <2>2, <2>3
<1> QED
  BY <1>4, <1>5

LEMMA AgreementStep ==
    ASSUME AgreementInv, [AgreementNext]_agreementVars
    PROVE  AgreementInv'
<1>1. IInv'
  BY AgreementSteps, TypeStep, RunningStep, FirstAcceptedStep, EntryAtItsPdaStep
     DEF AgreementInv, IInv
<1>2. CASE CommitBoth
  BY <1>1, <1>2, CommitBothEffect, CoreFirstAcceptedStep DEF AgreementInv, Anchored
<1>3. CASE UNCHANGED <<account, accepted, entries>>
  BY <1>1, <1>3 DEF AgreementInv, Anchored, CoreFirstAccepted, Mentions, Offers, NewEntry
<1> QED
  BY <1>2, <1>3, OnlyCommitBoth

LEMMA AgreementInitially == AgreementInit => AgreementInv
<1> SUFFICES ASSUME AgreementInit PROVE AgreementInv
  OBVIOUS
<1>1. IInv /\ accepted = << >>
  BY InitIInv DEF AgreementInit, Init
<1>2. entries = [c \in Cid |-> NoEntry]
  BY DEF AgreementInit, Core!Init
<1>3. Anchored(entries) = {}
  BY <1>2 DEF Anchored
<1>4. CoreFirstAccepted
  <2>1. DOMAIN accepted = {} /\ \A c \in Cid : entries[c] = NoEntry
    BY <1>1, <1>2
  <2> QED
    BY <2>1 DEF CoreFirstAccepted
<1>5. IsFiniteSet(Anchored(entries))
  BY <1>3, FS_EmptySet
<1>6. entries \in [Cid -> Data]
  BY <1>2 DEF Data
<1> QED
  BY <1>1, <1>4, <1>5, <1>6 DEF AgreementInv

\* Every state that the two reach together satisfies the invariant.
THEOREM AgreementInvariance == AgreementSpec => []AgreementInv
<1>1. AgreementInv /\ [AgreementNext]_agreementVars => AgreementInv'
  BY AgreementStep
<1> QED
  BY <1>1, AgreementInitially, PTL DEF AgreementSpec

\* Stepping together does not restrict the guest: what RegistryProgramProofs
\* shows of it holds here.
THEOREM AgreementIsProgram == AgreementSpec => Spec
<1>1. AgreementInit => Init
  BY DEF AgreementInit
<1> QED
  BY <1>1, AgreementSteps, PTL DEF AgreementSpec, Spec

\* RegistryState, too, keeps the entry that the first instruction offered.
THEOREM CoreKeepsFirst == AgreementSpec => []CoreFirstAccepted
  BY AgreementInvariance, PTL DEF AgreementInv

\* There is only one instruction that is the first to name a CID.
LEMMA FirstForIs ==
    ASSUME NEW c, NEW k \in DOMAIN accepted, accepted \in Seq(Transaction),
           Mentions(accepted[k], c), \A j \in 1..(k - 1) : ~Mentions(accepted[j], c)
    PROVE  FirstFor(c) = k
<1> DEFINE First(f) == /\ Mentions(accepted[f], c)
                       /\ \A j \in 1..(f - 1) : ~Mentions(accepted[j], c)
<1>1. DOMAIN accepted = 1..Len(accepted) /\ Len(accepted) \in Nat
  OBVIOUS
<1>2. ASSUME NEW f \in DOMAIN accepted, First(f) PROVE f = k
  <2>1. f \in Nat /\ k \in Nat /\ f >= 1 /\ k >= 1
    BY <1>1
  <2>2. ~(f < k) /\ ~(k < f)
    BY <1>2, <2>1
  <2> QED
    BY <2>1, <2>2
<1>3. FirstFor(c) = CHOOSE f \in DOMAIN accepted : First(f)
  BY DEF FirstFor
<1>4. First(k)
  OBVIOUS
<1> HIDE DEF First
<1> QED
  BY <1>2, <1>3, <1>4

\* The guest and RegistryState anchor the same CIDs by the same instructions,
\* with the same timestamps, and store the same entry but for a CID that its
\* instruction names more than once.
THEOREM Agreement == AgreementSpec => []GuestAgreesWithCore
<1>1. ASSUME AgreementInv, NEW c \in Cid
      PROVE  LET g == View[c]
                 m == Core!Query(entries, c) IN
             /\ g = NoEntry <=> m = NoEntry
             /\ g # NoEntry =>
                  /\ g.anchor_timestamp = m.anchor_timestamp
                  /\ NamedOnce(accepted[FirstFor(c)], c) => g = m
  <2> DEFINE g == View[c]
             m == Core!Query(entries, c)
  <2>1. g = account[PdaOf[c]] /\ m = entries[c]
    BY DEF View, Core!Query
  <2> HIDE DEF g, m
  <2>2. accepted \in Seq(Transaction)
    BY <1>1 DEF AgreementInv, IInv, TypeOK
  <2>3. \A t, e : Offers(t, e) /\ e.cid = c => Mentions(t, c)
    BY DEF Offers, Mentions, NewEntry
  <2>4. CASE g = NoEntry
    <3>1. \A k \in DOMAIN accepted : ~Mentions(accepted[k], c)
      BY <1>1, <2>1, <2>4 DEF AgreementInv, IInv, FirstAcceptedWins
    <3>2. m = NoEntry
      BY <1>1, <2>1, <2>3, <3>1 DEF AgreementInv, CoreFirstAccepted
    <3> QED
      BY <2>4, <3>2 DEF g, m
  <2>5. CASE g # NoEntry
    <3>1. PICK k \in DOMAIN accepted :
            /\ g.cid = c /\ Offers(accepted[k], g)
            /\ \A j \in 1..(k - 1) : ~Mentions(accepted[j], c)
      BY <1>1, <2>1, <2>5 DEF AgreementInv, IInv, FirstAcceptedWins
    <3>2. Mentions(accepted[k], c) /\ FirstFor(c) = k
      BY <2>2, <2>3, <3>1, FirstForIs
    <3>3. m # NoEntry
      BY <1>1, <2>1, <3>2 DEF AgreementInv, CoreFirstAccepted
    <3>4. PICK l \in DOMAIN accepted :
            /\ m.cid = c /\ Offers(accepted[l], m)
            /\ \A j \in 1..(l - 1) : ~Mentions(accepted[j], c)
      BY <1>1, <2>1, <3>3 DEF AgreementInv, CoreFirstAccepted
    <3>5. l = k
      BY <2>2, <2>3, <3>2, <3>4, FirstForIs
    <3>6. PICK i \in DOMAIN accepted[k].entries : NewEntry(accepted[k], i) = g
      BY <3>1 DEF Offers
    <3>7. PICK j \in DOMAIN accepted[k].entries : NewEntry(accepted[k], j) = m
      BY <3>4, <3>5 DEF Offers
    <3>8. g.anchor_timestamp = m.anchor_timestamp
      BY <3>6, <3>7 DEF NewEntry
    <3>9. accepted[k].entries[i].cid = c /\ accepted[k].entries[j].cid = c
      BY <3>1, <3>4, <3>6, <3>7 DEF NewEntry
    <3>10. NamedOnce(accepted[k], c) => g = m
      BY <3>6, <3>7, <3>9 DEF NamedOnce
    <3> QED
      BY <2>5, <3>2, <3>3, <3>8, <3>10 DEF g, m
  <2> QED
    BY <2>4, <2>5
<1>2. AgreementInv => GuestAgreesWithCore
  BY <1>1 DEF GuestAgreesWithCore
<1> QED
  BY <1>2, AgreementInvariance, PTL

\* Each returned entry is what a query then finds, and the counters of the
\* outcome are the number of CIDs that became anchored and of the entries
\* that were skipped, for a batch of any length.
THEOREM OutcomesAreTruthful == AgreementSpec => OutcomeIsTruthful
<1>1. AgreementInv =>
        (CommitBoth =>
           /\ Len(outcome'.entries) = Len(tx.entries)
           /\ \A i \in DOMAIN tx.entries :
                outcome'.entries[i] = entries'[tx.entries[i].cid]
           /\ outcome'.inserted
                = Cardinality(Anchored(entries')) - Cardinality(Anchored(entries))
           /\ outcome'.inserted + outcome'.skipped_existing = Len(tx.entries))
  BY CommitBothEffect
<1> QED
  BY <1>1, AgreementInvariance, PTL DEF OutcomeIsTruthful

\* RegistryState alone is a write-once registry: a batch adds entries under
\* their own CIDs, with one timestamp, and changes none.
THEOREM CoreImplements == AgreementSpec => CoreImplementsRegistry
<1>1. AgreementInit => CoreMap!Init
  BY DEF AgreementInit, Core!Init, CoreMap!Init
<1>2. ASSUME AgreementInv, [AgreementNext]_agreementVars
      PROVE  [CoreMap!Next]_entries
  <2>1. CASE CommitBoth
    <3>1. entries' \in [Cid -> CoreMap!AnchorEntry \cup {NoEntry}]
      BY <1>2, <2>1, CommitBothEffect DEF Data, AnchorEntry, CoreMap!AnchorEntry
    <3>2. \A c \in Cid : CoreMap!Fresh(c) =>
             entries'[c].cid = c /\ entries'[c].anchor_timestamp = tx.anchor_timestamp
      BY <1>2, <2>1, CommitBothEffect DEF CoreMap!Fresh
    <3> QED
      BY <1>2, <2>1, <3>1, <3>2, CommitBothEffect DEF CoreMap!Next, CoreMap!Anchor
  <2> QED
    BY <1>2, <2>1, OnlyCommitBoth
<1>3. AgreementInv /\ [AgreementNext]_agreementVars => [CoreMap!Next]_entries
  BY <1>2
<1> QED
  BY <1>1, <1>3, AgreementInvariance, PTL DEF AgreementSpec, CoreImplementsRegistry, CoreMap!Spec

===============================================================================

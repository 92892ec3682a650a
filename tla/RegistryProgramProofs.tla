------------------------- MODULE RegistryProgramProofs -------------------------
(***************************************************************************)
(* Proofs about RegistryProgram for every set of CIDs, metadata hashes,    *)
(* timestamps and accounts, and transactions of any length.                *)
(***************************************************************************)
EXTENDS RegistryProgram, SequenceTheorems, TLAPS

LEMMA UpToSeq ==
    ASSUME NEW S, NEW n \in Nat
    PROVE  UpTo(S, n) \subseteq Seq(S)
<1>1. SUFFICES ASSUME NEW m \in 0..n, NEW s \in [1..m -> S]
               PROVE  s \in Seq(S)
  BY DEF UpTo
<1> QED
  BY SeqDef

LEMMA TransactionFacts ==
    ASSUME NEW t \in Transaction
    PROVE  /\ t.entries \in Seq([cid : Cid, metadata_hash : Metadata])
           /\ t.accounts \in Seq(AccountId)
           /\ t.anchor_timestamp \in Time
           /\ WellFormed(t) => Len(t.entries) = Len(t.accounts)
           /\ \A i \in DOMAIN t.entries : NewEntry(t, i) \in AnchorEntry
           /\ \A i \in DOMAIN t.entries : t.entries[i].cid \in Cid
<1>1. /\ t.entries \in UpTo([cid : Cid, metadata_hash : Metadata], MaxEntries)
      /\ t.accounts \in UpTo(AccountId, MaxEntries)
      /\ t.anchor_timestamp \in Time
  BY DEF Transaction
<1>2. /\ t.entries \in Seq([cid : Cid, metadata_hash : Metadata])
      /\ t.accounts \in Seq(AccountId)
  BY <1>1, UpToSeq, BoundAssumption
<1>3. WellFormed(t) => Len(t.entries) = Len(t.accounts)
  BY DEF WellFormed
<1>4. ASSUME NEW i \in DOMAIN t.entries
      PROVE  t.entries[i] \in [cid : Cid, metadata_hash : Metadata]
  <2>1. i \in 1..Len(t.entries)
    BY <1>2
  <2> QED
    BY <1>2, <2>1, ElementOfSeq
<1>5. \A i \in DOMAIN t.entries : NewEntry(t, i) \in AnchorEntry
  BY <1>1, <1>4 DEF NewEntry, AnchorEntry
<1> QED
  BY <1>1, <1>2, <1>3, <1>4, <1>5

-------------------------------------------------------------------------------
(* The invariant holds initially.                                          *)

LEMMA InitIInv == Init => IInv
<1> SUFFICES ASSUME Init PROVE IInv
  OBVIOUS
<1> USE DEF Init
<1>1. TypeOK
  BY DEF TypeOK, Data
<1>2. Running
  BY DEF Running
<1>3. FirstAcceptedWins
  <2>1. \A c \in Cid : account[PdaOf[c]] = NoEntry
    BY PdaAssumption
  <2>2. DOMAIN accepted = {}
    OBVIOUS
  <2> QED
    BY <2>1, <2>2 DEF FirstAcceptedWins
<1>4. EntryAtItsPda
  BY DEF EntryAtItsPda
<1> QED
  BY <1>1, <1>2, <1>3, <1>4 DEF IInv

-------------------------------------------------------------------------------
(* What one Commit does to the accounts.                                   *)

\* A commit keeps every entry there is, and gives a fresh account an entry
\* exactly when the transaction names it: one that the transaction offers,
\* for the CID whose address the account is.
LEMMA CommitEffect ==
    ASSUME IInv, Commit
    PROVE  /\ tx \in Transaction
           /\ account' \in [AccountId -> Data]
           /\ \A a \in AccountId : account[a] # NoEntry => account'[a] = account[a]
           /\ \A a \in AccountId :
                account[a] = NoEntry /\ a \in Touched(tx)
                   => /\ account'[a] \in AnchorEntry
                      /\ a = PdaOf[account'[a].cid]
                      /\ Offers(tx, account'[a])
                      /\ account'[a].anchor_timestamp = tx.anchor_timestamp
           /\ \A a \in AccountId :
                account[a] = NoEntry /\ a \notin Touched(tx) => account'[a] = NoEntry
           /\ \A c \in Cid : Mentions(tx, c) <=> PdaOf[c] \in Touched(tx)
<1> USE DEF IInv
<1>1. tx \in Transaction /\ WellFormed(tx)
  BY DEF Commit, Processed, TypeOK
<1>2. /\ tx.entries \in Seq([cid : Cid, metadata_hash : Metadata])
      /\ tx.accounts \in Seq(AccountId)
      /\ tx.anchor_timestamp \in Time
      /\ Len(tx.entries) = Len(tx.accounts)
      /\ \A i \in DOMAIN tx.entries : NewEntry(tx, i) \in AnchorEntry
      /\ \A i \in DOMAIN tx.entries : tx.entries[i].cid \in Cid
  BY <1>1, TransactionFacts
<1>3. post \in Seq(Data) /\ Len(post) = Len(tx.entries)
  BY <1>1, <1>2 DEF Commit, Processed, Pending, Index, Running, TypeOK
<1>4. /\ DOMAIN post = DOMAIN tx.accounts
      /\ DOMAIN post = DOMAIN tx.entries
  BY <1>2, <1>3
<1>5. \A i \in DOMAIN post :
         /\ tx.accounts[i] = PdaOf[tx.entries[i].cid]
         /\ post[i] = PostState(tx, i, account[tx.accounts[i]])
  BY DEF Commit, Processed, Running
<1>6. PICK win \in [Touched(tx) -> DOMAIN tx.accounts] :
         /\ \A a \in Touched(tx) : tx.accounts[win[a]] = a
         /\ account' = [a \in AccountId |->
                          IF a \in Touched(tx) THEN post[win[a]] ELSE account[a]]
  BY DEF Commit
<1>7. ASSUME NEW a \in Touched(tx)
      PROVE  /\ win[a] \in DOMAIN tx.entries
             /\ a = PdaOf[tx.entries[win[a]].cid]
             /\ account'[a] = PostState(tx, win[a], account[a])
  <2>1. win[a] \in DOMAIN tx.accounts /\ tx.accounts[win[a]] = a
    BY <1>6
  <2>2. a \in AccountId
    BY <1>2 DEF Touched
  <2> QED
    BY <2>1, <2>2, <1>4, <1>5, <1>6
<1>8. account \in [AccountId -> Data]
  BY DEF TypeOK
<1>9. \A a \in AccountId : account[a] # NoEntry => account'[a] = account[a]
  BY <1>6, <1>7, <1>8 DEF PostState
<1>10. ASSUME NEW a \in AccountId, account[a] = NoEntry, a \in Touched(tx)
       PROVE  /\ account'[a] \in AnchorEntry
              /\ a = PdaOf[account'[a].cid]
              /\ Offers(tx, account'[a])
              /\ account'[a].anchor_timestamp = tx.anchor_timestamp
  <2>1. account'[a] = NewEntry(tx, win[a])
    BY <1>7, <1>10 DEF PostState
  <2>2. /\ account'[a].cid = tx.entries[win[a]].cid
        /\ account'[a].anchor_timestamp = tx.anchor_timestamp
    BY <2>1 DEF NewEntry
  <2> QED
    BY <2>1, <2>2, <1>2, <1>7, <1>10 DEF Offers
<1>11. \A a \in AccountId :
          account[a] = NoEntry /\ a \notin Touched(tx) => account'[a] = NoEntry
  BY <1>6, <1>8
<1>12. account' \in [AccountId -> Data]
  <2>1. \A a \in AccountId : account'[a] \in Data
    BY <1>8, <1>9, <1>10, <1>11 DEF Data
  <2>2. DOMAIN account' = AccountId /\ account' = [a \in AccountId |-> account'[a]]
    BY <1>6
  <2> QED
    BY <2>1, <2>2
<1>13. \A c \in Cid : Mentions(tx, c) <=> PdaOf[c] \in Touched(tx)
  <2>1. \A c \in Cid : Mentions(tx, c) => PdaOf[c] \in Touched(tx)
    BY <1>4, <1>5 DEF Mentions, Touched
  <2>2. ASSUME NEW c \in Cid, PdaOf[c] \in Touched(tx)
        PROVE  Mentions(tx, c)
    <3>1. PICK i \in DOMAIN tx.accounts : PdaOf[c] = tx.accounts[i]
      BY <2>2 DEF Touched
    <3>2. PdaOf[c] = PdaOf[tx.entries[i].cid]
      BY <3>1, <1>4, <1>5
    <3>3. tx.entries[i].cid = c
      BY <3>2, <1>2, <1>4, PdaAssumption
    <3> QED
      BY <3>3, <1>4 DEF Mentions
  <2> QED
    BY <2>1, <2>2
<1> QED
  BY <1>1, <1>9, <1>10, <1>11, <1>12, <1>13

-------------------------------------------------------------------------------
(* Every step preserves the invariant.                                     *)

LEMMA TypeStep == IInv /\ [Next]_vars => TypeOK'
<1> SUFFICES ASSUME IInv, [Next]_vars PROVE TypeOK'
  OBVIOUS
<1> USE DEF IInv
<1>1. ASSUME NEW t \in Transaction, Begin(t) PROVE TypeOK'
  <2>1. t.accounts \in Seq(AccountId)
    BY TransactionFacts
  <2>2. pre' \in Seq(Data)
    <3>1. DOMAIN t.accounts = 1..Len(t.accounts) /\ Len(t.accounts) \in Nat
      BY <2>1
    <3>2. \A i \in 1..Len(t.accounts) : account[t.accounts[i]] \in Data
      BY <2>1, ElementOfSeq DEF TypeOK
    <3>3. pre' \in [1..Len(t.accounts) -> Data]
      BY <1>1, <3>1, <3>2 DEF Begin
    <3> QED
      BY <3>1, <3>3, SeqDef
  <2> QED
    BY <1>1, <2>2 DEF Begin, TypeOK
<1>2. CASE Panic
  BY <1>2 DEF Panic, Idle, TypeOK
<1>3. CASE ProcessEntry
  <2>1. tx \in Transaction /\ Index \in DOMAIN tx.entries
    <3>1. tx \in Transaction /\ post \in Seq(Data)
      BY <1>3 DEF ProcessEntry, TypeOK
    <3>2. tx.entries \in Seq([cid : Cid, metadata_hash : Metadata])
      BY <3>1, TransactionFacts
    <3> QED
      BY <1>3, <3>1, <3>2 DEF ProcessEntry, Pending, Index
  <2>2. NewEntry(tx, Index) \in AnchorEntry
    BY <2>1, TransactionFacts
  <2>3. pre[Index] \in Data
    <3>1. tx.entries \in Seq([cid : Cid, metadata_hash : Metadata])
          /\ tx.accounts \in Seq(AccountId) /\ Len(tx.entries) = Len(tx.accounts)
      BY <1>3, <2>1, TransactionFacts DEF ProcessEntry
    <3>2. Index \in 1..Len(tx.accounts)
      BY <2>1, <3>1
    <3>3. tx.accounts[Index] \in AccountId
      BY <3>1, <3>2, ElementOfSeq
    <3> QED
      BY <1>3, <3>1, <3>2, <3>3 DEF ProcessEntry, Running, TypeOK
  <2>4. PostState(tx, Index, pre[Index]) \in Data
    BY <2>2, <2>3 DEF PostState, Data
  <2> QED
    BY <1>3, <2>4 DEF ProcessEntry, TypeOK
<1>4. CASE Commit
  <2>1. account' \in [AccountId -> Data] /\ tx \in Transaction
    BY <1>4, CommitEffect
  <2> QED
    BY <1>4, <2>1 DEF Commit, Idle, TypeOK
<1>5. CASE Discard
  BY <1>5 DEF Discard, Idle, TypeOK
<1>6. CASE UNCHANGED vars
  BY <1>6 DEF vars, TypeOK
<1> QED
  BY <1>1, <1>2, <1>3, <1>4, <1>5, <1>6 DEF Next

LEMMA RunningStep == IInv /\ [Next]_vars => Running'
<1> SUFFICES ASSUME IInv, [Next]_vars PROVE Running'
  OBVIOUS
<1> USE DEF IInv
<1>1. ASSUME NEW t \in Transaction, Begin(t) PROVE Running'
  <2>1. t.entries \in Seq([cid : Cid, metadata_hash : Metadata])
    BY TransactionFacts
  <2> QED
    BY <1>1, <2>1 DEF Begin, Running
<1>2. CASE Panic
  BY <1>2 DEF Panic, Idle, Running
<1>3. CASE ProcessEntry
  <2>1. tx \in Transaction /\ post \in Seq(Data)
    BY <1>3 DEF ProcessEntry, TypeOK
  <2>2. /\ tx.entries \in Seq([cid : Cid, metadata_hash : Metadata])
        /\ tx.accounts \in Seq(AccountId) /\ Len(tx.entries) = Len(tx.accounts)
    BY <1>3, <2>1, TransactionFacts DEF ProcessEntry
  <2>3. Index \in DOMAIN tx.accounts /\ Len(post) + 1 <= Len(tx.entries)
    BY <1>3, <2>1, <2>2 DEF ProcessEntry, Pending, Index
  <2>4. /\ post' = Append(post, PostState(tx, Index, account[tx.accounts[Index]]))
        /\ tx' = tx /\ account' = account /\ pre' = pre
    BY <1>3, <2>3 DEF ProcessEntry, Running
  <2>5. Len(post') = Len(post) + 1 /\ DOMAIN post' = 1..(Len(post) + 1)
    BY <2>1, <2>4
  <2>6. ASSUME NEW i \in DOMAIN post'
        PROVE  /\ tx.accounts[i] = PdaOf[tx.entries[i].cid]
               /\ post'[i] = PostState(tx, i, account[tx.accounts[i]])
    <3>1. CASE i \in DOMAIN post
      <4>1. post'[i] = post[i]
        BY <2>1, <2>4, <3>1
      <4> QED
        BY <1>3, <3>1, <4>1 DEF ProcessEntry, Running
    <3>2. CASE i = Index
      BY <1>3, <2>1, <2>4, <3>2 DEF ProcessEntry, AtItsPda, Index
    <3> QED
      BY <2>1, <2>5, <3>1, <3>2 DEF Index
  <2>7. WellFormed(tx)' /\ (tx # NoTx)
    BY <1>3, <2>4 DEF ProcessEntry, WellFormed
  <2>8. \A i \in DOMAIN post' :
          /\ tx'.accounts[i] = PdaOf[tx'.entries[i].cid]
          /\ post'[i] = PostState(tx', i, account'[tx'.accounts[i]])
    BY <2>4, <2>6
  <2>9. pre' = [i \in DOMAIN tx'.accounts |-> account'[tx'.accounts[i]]]
    BY <1>3, <2>4 DEF ProcessEntry, Running
  <2>10. Len(post') <= Len(tx'.entries)
    BY <2>3, <2>4, <2>5
  <2> QED
    BY <2>7, <2>8, <2>9, <2>10 DEF Running
<1>4. CASE Commit
  BY <1>4 DEF Commit, Idle, Running
<1>5. CASE Discard
  BY <1>5 DEF Discard, Idle, Running
<1>6. CASE UNCHANGED vars
  BY <1>6 DEF vars, Running, PostState, NewEntry, WellFormed
<1> QED
  BY <1>1, <1>2, <1>3, <1>4, <1>5, <1>6 DEF Next

\* Only Commit changes the accounts or the history.
LEMMA OnlyCommit ==
    [Next]_vars => Commit \/ UNCHANGED <<account, accepted>>
BY DEF Next, vars, Begin, Panic, ProcessEntry, Discard

LEMMA FirstAcceptedStep == IInv /\ [Next]_vars => FirstAcceptedWins'
<1> SUFFICES ASSUME IInv, [Next]_vars PROVE FirstAcceptedWins'
  OBVIOUS
<1> USE DEF IInv
<1>1. CASE UNCHANGED <<account, accepted>>
  BY <1>1 DEF FirstAcceptedWins, Mentions, Offers, NewEntry
<1>2. CASE Commit
  <2>1. /\ accepted \in Seq(Transaction) /\ tx \in Transaction
        /\ accepted' = Append(accepted, tx)
    BY <1>2, CommitEffect DEF Commit, TypeOK
  <2>2. /\ Len(accepted) \in Nat
        /\ DOMAIN accepted = 1..Len(accepted)
        /\ DOMAIN accepted' = 1..(Len(accepted) + 1)
        /\ \A k \in DOMAIN accepted : accepted'[k] = accepted[k]
        /\ accepted'[Len(accepted) + 1] = tx
    BY <2>1
  <2>3. SUFFICES
          ASSUME NEW c \in Cid
          PROVE  LET e == account'[PdaOf[c]] IN
                 IF e = NoEntry
                 THEN \A k \in DOMAIN accepted' : ~Mentions(accepted'[k], c)
                 ELSE \E k \in DOMAIN accepted' :
                        /\ e.cid = c
                        /\ Offers(accepted'[k], e)
                        /\ \A j \in 1..(k - 1) : ~Mentions(accepted'[j], c)
    BY DEF FirstAcceptedWins, Mentions, Offers, NewEntry
  <2> DEFINE a == PdaOf[c]
             n == Len(accepted) + 1
  <2>4. a \in AccountId
    BY PdaAssumption
  <2>5. CASE account[a] # NoEntry
    <3>1. account'[a] = account[a]
      BY <1>2, <2>4, <2>5, CommitEffect
    <3>2. PICK k \in DOMAIN accepted :
            /\ account[a].cid = c
            /\ Offers(accepted[k], account[a])
            /\ \A j \in 1..(k - 1) : ~Mentions(accepted[j], c)
      BY <2>5 DEF FirstAcceptedWins
    <3>3. k \in DOMAIN accepted' /\ accepted'[k] = accepted[k]
      BY <2>2
    <3>4. \A j \in 1..(k - 1) : accepted'[j] = accepted[j]
      BY <2>2
    <3> QED
      BY <2>5, <3>1, <3>2, <3>3, <3>4
  <2>6. CASE account[a] = NoEntry /\ a \in Touched(tx)
    <3>1. /\ account'[a] \in AnchorEntry
          /\ a = PdaOf[account'[a].cid]
          /\ Offers(tx, account'[a])
      BY <1>2, <2>4, <2>6, CommitEffect
    <3>2. account'[a].cid = c
      <4>1. account'[a].cid \in Cid
        BY <3>1 DEF AnchorEntry
      <4> QED
        BY <3>1, <4>1, PdaAssumption
    <3>3. account'[a] # NoEntry
      BY <3>1, NoEntryAssumption
    <3>4. \A j \in DOMAIN accepted : ~Mentions(accepted[j], c)
      BY <2>6 DEF FirstAcceptedWins
    <3>5. \A j \in 1..(n - 1) : ~Mentions(accepted'[j], c)
      BY <2>2, <3>4
    <3>6. n \in DOMAIN accepted' /\ Offers(accepted'[n], account'[a])
      BY <2>2, <3>1
    <3> QED
      BY <3>2, <3>3, <3>5, <3>6
  <2>7. CASE account[a] = NoEntry /\ a \notin Touched(tx)
    <3>1. account'[a] = NoEntry
      BY <1>2, <2>4, <2>7, CommitEffect
    <3>2. \A j \in DOMAIN accepted : ~Mentions(accepted[j], c)
      BY <2>7 DEF FirstAcceptedWins
    <3>3. ~Mentions(tx, c)
      BY <1>2, <2>7, CommitEffect
    <3>4. \A k \in DOMAIN accepted' : ~Mentions(accepted'[k], c)
      BY <2>2, <3>2, <3>3
    <3> QED
      BY <3>1, <3>4
  <2> QED
    BY <2>5, <2>6, <2>7
<1> QED
  BY <1>1, <1>2, OnlyCommit

LEMMA EntryAtItsPdaStep == IInv /\ [Next]_vars => EntryAtItsPda'
<1> SUFFICES ASSUME IInv, [Next]_vars PROVE EntryAtItsPda'
  OBVIOUS
<1> USE DEF IInv
<1>1. CASE UNCHANGED <<account, accepted>>
  BY <1>1 DEF EntryAtItsPda
<1>2. CASE Commit
  <2>1. SUFFICES ASSUME NEW a \in AccountId, account'[a] # NoEntry
                 PROVE  a = PdaOf[account'[a].cid]
    BY DEF EntryAtItsPda
  <2>2. CASE account[a] # NoEntry
    BY <1>2, <2>2, CommitEffect DEF EntryAtItsPda
  <2>3. CASE account[a] = NoEntry
    BY <1>2, <2>1, <2>3, CommitEffect
  <2> QED
    BY <2>2, <2>3
<1> QED
  BY <1>1, <1>2, OnlyCommit

\* The invariant that the other theorems are read off.
THEOREM Invariance == Spec => []IInv
<1>1. IInv /\ [Next]_vars => IInv'
  BY TypeStep, RunningStep, FirstAcceptedStep, EntryAtItsPdaStep DEF IInv
<1> QED
  BY InitIInv, <1>1, PTL DEF Spec

\* Type correctness of the registry program.
THEOREM TypeCorrect == Spec => []TypeOK
<1>1. IInv => TypeOK
  BY DEF IInv
<1> QED
  BY Invariance, <1>1, PTL

\* Whatever transactions are executed, in whatever order, the entry of a CID
\* is the one that the first applied transaction naming it offered, and an
\* applied transaction anchors every CID it names.
THEOREM FirstAccepted == Spec => []FirstAcceptedWins
<1>1. IInv => FirstAcceptedWins
  BY DEF IInv
<1> QED
  BY Invariance, <1>1, PTL

\* The program only writes the accounts derived from the CIDs it stores,
\* whatever account lists the hosts send.
THEOREM PdaIntegrity == Spec => []EntryAtItsPda
<1>1. IInv => EntryAtItsPda
  BY DEF IInv
<1> QED
  BY Invariance, <1>1, PTL

-------------------------------------------------------------------------------
(* Refinement.                                                             *)

LEMMA InitView == Init => R!Init
BY PdaAssumption DEF Init, View, R!Init

LEMMA StepView == IInv /\ IInv' /\ [Next]_vars => [R!Next]_View
<1> SUFFICES ASSUME IInv, IInv', [Next]_vars, View' # View
             PROVE  R!Anchor
  BY DEF R!Next
<1>1. Commit
  BY OnlyCommit DEF View
<1>2. \A c \in Cid : PdaOf[c] \in AccountId
  BY PdaAssumption
<1>3. \A c \in Cid : View[c] = account[PdaOf[c]] /\ View'[c] = account'[PdaOf[c]]
  BY DEF View
<1>4. View' \in [Cid -> R!AnchorEntry \cup {NoEntry}]
  <2>1. account' \in [AccountId -> Data]
    BY <1>1, CommitEffect
  <2> QED
    BY <1>2, <2>1 DEF View, Data, AnchorEntry, R!AnchorEntry
<1>5. \A c \in Cid : View[c] # NoEntry => View'[c] = View[c]
  BY <1>1, <1>2, <1>3, CommitEffect
<1>6. ASSUME NEW c \in Cid, R!Fresh(c)
      PROVE  /\ View'[c].cid = c
             /\ View'[c].anchor_timestamp = tx.anchor_timestamp
  <2>1. account[PdaOf[c]] = NoEntry /\ account'[PdaOf[c]] # NoEntry
    BY <1>3, <1>6 DEF R!Fresh
  <2>2. /\ account'[PdaOf[c]] \in AnchorEntry
        /\ PdaOf[c] = PdaOf[account'[PdaOf[c]].cid]
        /\ account'[PdaOf[c]].anchor_timestamp = tx.anchor_timestamp
    BY <1>1, <1>2, <2>1, CommitEffect
  <2>3. account'[PdaOf[c]].cid = c
    BY <2>2, PdaAssumption DEF AnchorEntry
  <2> QED
    BY <1>3, <2>2, <2>3
<1> QED
  BY <1>4, <1>5, <1>6 DEF R!Anchor

\* The program, executed by the runtime, implements the write-once registry:
\* no entry is ever replaced or removed, for any transactions whatsoever.
THEOREM Implements == Spec => ImplementsRegistry
<1>1. IInv /\ IInv' /\ [Next]_vars => [R!Next]_View
  BY StepView
<1> QED
  BY InitView, <1>1, Invariance, PTL DEF Spec, ImplementsRegistry, R!Spec

-------------------------------------------------------------------------------
(* A transaction is one step of the chain.                                 *)

LEMMA CommitLands ==
    ASSUME IInv, Commit
    PROVE  LandsAtOnce(tx)
<1>1. tx \in Transaction /\ WellFormed(tx) /\ account \in [AccountId -> Data]
  BY DEF Commit, Processed, IInv, TypeOK
<1>2. /\ tx.entries \in Seq([cid : Cid, metadata_hash : Metadata])
      /\ tx.accounts \in Seq(AccountId)
      /\ Len(tx.entries) = Len(tx.accounts)
      /\ \A i \in DOMAIN tx.entries : tx.entries[i].cid \in Cid
  BY <1>1, TransactionFacts
<1>3. post \in Seq(Data) /\ Len(post) = Len(tx.entries)
  BY <1>1, <1>2 DEF Commit, Processed, Pending, Index, Running, IInv, TypeOK
<1>4. /\ DOMAIN post = DOMAIN tx.accounts
      /\ DOMAIN post = DOMAIN tx.entries
  BY <1>2, <1>3
<1>5. \A i \in DOMAIN post :
         /\ tx.accounts[i] = PdaOf[tx.entries[i].cid]
         /\ post[i] = PostState(tx, i, account[tx.accounts[i]])
  BY DEF Commit, Processed, Running, IInv
<1>6. PICK win \in [Touched(tx) -> DOMAIN tx.accounts] :
         /\ \A a \in Touched(tx) : tx.accounts[win[a]] = a
         /\ account' = [a \in AccountId |->
                          IF a \in Touched(tx) THEN post[win[a]] ELSE account[a]]
  BY DEF Commit
<1>7. \A c \in Cid : c \in CidsOf(tx) <=> PdaOf[c] \in Touched(tx)
  BY CommitEffect DEF Mentions, CidsOf
<1> DEFINE winner == [c \in CidsOf(tx) |-> win[PdaOf[c]]]
<1>8. CidsOf(tx) \subseteq Cid
  BY <1>2 DEF CidsOf
<1>9. winner \in [CidsOf(tx) -> DOMAIN tx.entries]
  BY <1>4, <1>6, <1>7, <1>8
<1>10. ASSUME NEW c \in CidsOf(tx)
       PROVE  /\ tx.entries[winner[c]].cid = c
              /\ account'[PdaOf[c]] = PostState(tx, winner[c], account[PdaOf[c]])
  <2> DEFINE a == PdaOf[c]
             i == win[a]
  <2>1. a \in Touched(tx) /\ a \in AccountId /\ c \in Cid
    BY <1>7, <1>8, PdaAssumption
  <2>2. i \in DOMAIN post /\ i \in DOMAIN tx.entries /\ tx.accounts[i] = a
    BY <1>4, <1>6, <2>1
  <2>3. account'[a] = post[i]
    BY <1>6, <2>1
  <2>4. a = PdaOf[tx.entries[i].cid] /\ post[i] = PostState(tx, i, account[a])
    BY <1>5, <2>2
  <2>5. tx.entries[i].cid = c
    BY <1>2, <2>1, <2>2, <2>4, PdaAssumption
  <2> QED
    BY <2>3, <2>4, <2>5
<1> HIDE DEF winner
<1>11. ASSUME NEW c \in Cid
       PROVE  View'[c] = IF c \in CidsOf(tx) /\ View[c] = NoEntry
                         THEN NewEntry(tx, winner[c])
                         ELSE View[c]
  <2>1. View[c] = account[PdaOf[c]] /\ View'[c] = account'[PdaOf[c]]
        /\ PdaOf[c] \in AccountId
    BY PdaAssumption DEF View
  <2>2. CASE c \in CidsOf(tx)
    BY <1>10, <2>1, <2>2 DEF PostState
  <2>3. CASE c \notin CidsOf(tx)
    BY <1>6, <1>7, <2>1, <2>3
  <2> QED
    BY <2>2, <2>3
<1>12. View' = [c \in Cid |-> IF c \in CidsOf(tx) /\ View[c] = NoEntry
                              THEN NewEntry(tx, winner[c])
                              ELSE View[c]]
  BY <1>11 DEF View
<1> QED
  BY <1>9, <1>10, <1>12 DEF LandsAtOnce

\* What a reader of the chain sees change is one accepted transaction landing
\* in one step, with all its entries.
THEOREM LandingIsOneStep == Spec => TransactionsLandAtOnce
<1>1. ASSUME IInv, [Next]_vars, View' # View
      PROVE  Commit /\ LandsAtOnce(tx)
  <2>1. Commit
    BY <1>1, OnlyCommit DEF View
  <2> QED
    BY <1>1, <2>1, CommitLands
<1>2. IInv /\ [Next]_vars => (View' # View => Commit /\ LandsAtOnce(tx))
  BY <1>1
<1> QED
  BY <1>2, Invariance, PTL DEF Spec, TransactionsLandAtOnce

===============================================================================

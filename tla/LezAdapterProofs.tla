---------------------------- MODULE LezAdapterProofs ----------------------------
(***************************************************************************)
(* Proofs about LezAdapter, for any callers, requests, retries and polls:  *)
(* the typing invariant, the finality of what an anchor call returns, the  *)
(* bound of its work, and the client that each caller sees.                *)
(***************************************************************************)
EXTENDS LezAdapter, TLAPS

\* What with_retry does to a call is the same for every way of failing.
LEMMA FailureKeepsInvariant ==
    ASSUME IInv, NEW p \in Client, pc[p] \in {"send", "read"},
           AttemptFails(p), entry' = entry, mempool' \subseteq Transaction
    PROVE  IInv'
<1> USE AdapterAssumption, RequestAssumption
<1>1. /\ out' = [out EXCEPT ![p] = << >>]
      /\ polls' = [polls EXCEPT ![p] = 0]
      /\ call' = call
  BY DEF AttemptFails
<1>2. /\ pc' \in [Client -> {"idle", "send", "confirm", "read", "ok", "err"}]
      /\ pc'[p] \in {"send", "err"}
      /\ \A q \in Client : q # p => pc'[q] = pc[q]
  BY DEF AttemptFails, IInv, TypeOK
<1>3. TypeOK'
  <2>1. /\ attempt' \in [Client -> Nat]
        /\ \A q \in Client : attempt'[q] <= MaxAttempts[q]
    <3>1. /\ attempt \in [Client -> Nat] /\ attempt[p] \in Nat
          /\ MaxAttempts[p] \in Nat
          /\ \A q \in Client : attempt[q] <= MaxAttempts[q]
      BY DEF IInv, TypeOK
    <3>2. CASE MayRetry(p)
      BY <3>1, <3>2 DEF AttemptFails, MayRetry
    <3>3. CASE ~MayRetry(p)
      BY <3>1, <3>3 DEF AttemptFails
    <3> QED
      BY <3>2, <3>3
  <2>2. polls' \in [Client -> 0..(MaxPolls - 1)]
    BY <1>1 DEF IInv, TypeOK
  <2>3. out' \in [Client -> Seq(AnchorEntry)]
    BY <1>1 DEF IInv, TypeOK
  <2> QED
    BY <1>1, <1>2, <2>1, <2>2, <2>3 DEF IInv, TypeOK
<1>4. /\ out'[p] = << >>
      /\ \A q \in Client : q # p => out'[q] = out[q]
  BY <1>1 DEF IInv, TypeOK
<1>5. ReturnedIsFinal'
  BY <1>1, <1>2, <1>4 DEF IInv, ReturnedIsFinal
<1>6. Progress'
  BY <1>1, <1>2, <1>4 DEF IInv, Progress, TypeOK
<1> QED
  BY <1>3, <1>5, <1>6 DEF IInv

\* Entries that a transaction finds on the chain stay as they are, and what it
\* adds are entries under their own CIDs with the transaction's timestamp.
LEMMA LandingIsAnchoring ==
    ASSUME IInv, NEW t \in mempool, Lands(t)
    PROVE  /\ entry' \in [Cid -> AnchorEntry \cup {NoEntry}]
           /\ \A c \in Cid : entry[c] # NoEntry => entry'[c] = entry[c]
           /\ \A c \in Cid : entry'[c] # entry[c] =>
                /\ entry'[c].cid = c
                /\ entry'[c].anchor_timestamp = t.anchor_timestamp
<1> USE AdapterAssumption, RequestAssumption
<1>1. t \in Transaction
  BY DEF IInv, TypeOK
<1>2. /\ t.anchor_timestamp \in Time
      /\ \A i \in DOMAIN t.entries : /\ t.entries[i].cid \in Cid
                                     /\ t.entries[i].metadata_hash \in Metadata
  <2>1. t.entries \in Seq(Entry) /\ t.anchor_timestamp \in Time
    BY <1>1 DEF Transaction
  <2>2. \A i \in DOMAIN t.entries : t.entries[i] \in Entry
    BY <2>1
  <2> QED
    BY <2>1, <2>2 DEF Entry
<1>3. PICK win \in [CidsOf(t) -> DOMAIN t.entries] :
         entry' = [c \in Cid |-> IF c \in CidsOf(t) THEN PostState(t, win[c], c)
                                                    ELSE entry[c]]
  BY DEF Lands
<1>4. ASSUME NEW c \in Cid
      PROVE  /\ entry'[c] \in AnchorEntry \cup {NoEntry}
             /\ entry[c] # NoEntry => entry'[c] = entry[c]
             /\ entry'[c] # entry[c] => /\ entry'[c].cid = c
                                        /\ entry'[c].anchor_timestamp = t.anchor_timestamp
  <2>1. entry[c] \in AnchorEntry \cup {NoEntry}
    BY DEF IInv, TypeOK
  <2>2. CASE c \in CidsOf(t)
    <3>1. win[c] \in DOMAIN t.entries /\ entry'[c] = PostState(t, win[c], c)
      BY <1>3, <2>2
    <3> QED
      BY <1>2, <2>1, <3>1 DEF PostState, AnchorEntry
  <2>3. CASE c \notin CidsOf(t)
    BY <1>3, <2>1, <2>3
  <2> QED
    BY <2>2, <2>3
<1>5. entry' = [c \in Cid |-> entry'[c]]
  BY <1>3
<1> QED
  BY <1>4, <1>5

LEMMA Initially == Init => IInv
  BY AdapterAssumption DEF Init, IInv, TypeOK, Progress, ReturnedIsFinal

\* The steps, one by one.
LEMMA CallKeeps ==
    ASSUME IInv, NEW p \in Client, NEW es \in Request, Call(p, es)
    PROVE  IInv'
<1> USE AdapterAssumption, RequestAssumption
<1>1. TypeOK'
  <2>1. /\ attempt' \in [Client -> Nat]
        /\ \A q \in Client : attempt'[q] <= MaxAttempts[q]
    <3>1. MaxAttempts[p] \in Nat /\ 1 <= MaxAttempts[p]
      OBVIOUS
    <3> QED
      BY <3>1 DEF Call, IInv, TypeOK
  <2>2. /\ pc' \in [Client -> {"idle", "send", "confirm", "read", "ok", "err"}]
        /\ call' \in [Client -> Request \cup {<< >>}]
        /\ out' \in [Client -> Seq(AnchorEntry)]
    BY DEF Call, IInv, TypeOK
  <2> QED
    BY <2>1, <2>2 DEF Call, IInv, TypeOK, chainVars
<1>2. /\ out'[p] = << >> /\ call'[p] = es /\ es # << >> /\ es \in Seq(Entry)
      /\ pc'[p] = "send"
      /\ \A q \in Client : q # p => /\ out'[q] = out[q] /\ call'[q] = call[q]
                                     /\ pc'[q] = pc[q]
      /\ entry' = entry
  BY DEF Call, IInv, TypeOK, chainVars
<1>3. ReturnedIsFinal'
  BY <1>2 DEF IInv, ReturnedIsFinal
<1>4. Progress'
  BY <1>2 DEF IInv, Progress
<1> QED
  BY <1>1, <1>3, <1>4 DEF IInv

LEMMA SentIsTransaction ==
    ASSUME IInv, NEW p \in Client, NEW now \in Time, pc[p] = "send"
    PROVE  Sent(p, now) \in Transaction
  BY DEF IInv, TypeOK, Progress, Sent, Transaction

LEMMA SendKeeps ==
    ASSUME IInv, NEW p \in Client, Send(p)
    PROVE  IInv'
<1>1. mempool' \subseteq Transaction
  BY SentIsTransaction DEF Send, IInv, TypeOK
<1>2. TypeOK'
  BY <1>1 DEF Send, IInv, TypeOK
<1>3. ReturnedIsFinal' /\ Progress'
  BY DEF Send, IInv, TypeOK, ReturnedIsFinal, Progress
<1> QED
  BY <1>2, <1>3 DEF IInv

LEMMA SendFailsKeeps ==
    ASSUME IInv, NEW p \in Client, SendFails(p)
    PROVE  IInv'
<1>1. mempool' \subseteq Transaction
  BY SentIsTransaction DEF SendFails, IInv, TypeOK
<1> QED
  BY <1>1, FailureKeepsInvariant DEF SendFails

LEMMA ConfirmKeeps ==
    ASSUME IInv, NEW p \in Client, Confirm(p)
    PROVE  IInv'
<1>1. TypeOK'
  BY DEF Confirm, IInv, TypeOK, chainVars
<1>2. ReturnedIsFinal'
  BY DEF Confirm, IInv, TypeOK, ReturnedIsFinal, chainVars
<1>3. Progress'
  <2>1. call[p] # << >> /\ out[p] = << >> /\ call[p] \in Seq(Entry)
    BY RequestAssumption DEF Confirm, IInv, TypeOK, Progress
  <2>2. Len(out[p]) < Len(call[p])
    BY <2>1
  <2> QED
    BY <2>1, <2>2 DEF Confirm, IInv, TypeOK, Progress, chainVars
<1> QED
  BY <1>1, <1>2, <1>3 DEF IInv

LEMMA ReadEntryKeeps ==
    ASSUME IInv, NEW p \in Client, ReadEntry(p)
    PROVE  IInv'
<1> USE AdapterAssumption, RequestAssumption
<1> DEFINE n == Len(out[p]) + 1
<1>1. /\ call[p] \in Seq(Entry) /\ out[p] \in Seq(AnchorEntry)
      /\ n \in 1..Len(call[p])
  BY DEF ReadEntry, IInv, TypeOK, Progress
<1>2. call[p][n].cid \in Cid
  <2>1. call[p][n] \in Entry
    BY <1>1
  <2> QED
    BY <2>1 DEF Entry
<1>3. entry[call[p][n].cid] \in AnchorEntry
  BY <1>2 DEF ReadEntry, Awaited, IInv, TypeOK
<1>4. /\ out'[p] = Append(out[p], entry[call[p][n].cid])
      /\ pc'[p] = IF n = Len(call[p]) THEN "ok" ELSE "read"
      /\ \A q \in Client : q # p => out'[q] = out[q] /\ pc'[q] = pc[q]
      /\ call' = call /\ entry' = entry
  BY DEF ReadEntry, Awaited, AllRead, IInv, TypeOK, chainVars
<1>5. /\ out'[p] \in Seq(AnchorEntry) /\ Len(out'[p]) = n
      /\ \A i \in 1..(n - 1) : out'[p][i] = out[p][i]
      /\ out'[p][n] = entry[call[p][n].cid]
  BY <1>1, <1>3, <1>4
<1>6. TypeOK'
  <2>1. /\ attempt' \in [Client -> Nat]
        /\ \A q \in Client : attempt'[q] <= attempt[q]
    BY DEF ReadEntry, IInv, TypeOK
  <2>2. /\ pc' \in [Client -> {"idle", "send", "confirm", "read", "ok", "err"}]
        /\ out' \in [Client -> Seq(AnchorEntry)]
        /\ polls' \in [Client -> 0..(MaxPolls - 1)]
    BY <1>3, <1>5 DEF ReadEntry, Awaited, IInv, TypeOK
  <2>3. \A q \in Client : attempt'[q] <= MaxAttempts[q]
    BY <2>1 DEF IInv, TypeOK
  <2> QED
    BY <2>1, <2>2, <2>3 DEF ReadEntry, IInv, TypeOK, chainVars
<1>7. ReturnedIsFinal'
  <2>1. \A i \in DOMAIN out'[p] : out'[p][i] = entry[call[p][i].cid]
    <3>1. DOMAIN out[p] = 1..(n - 1) /\ DOMAIN out'[p] = 1..n
      BY <1>1, <1>5
    <3>2. \A i \in 1..(n - 1) : out[p][i] = entry[call[p][i].cid]
      BY <3>1 DEF IInv, ReturnedIsFinal
    <3>3. \A i \in 1..n : i \in 1..(n - 1) \/ i = n
      BY <1>1
    <3> HIDE DEF n
    <3> QED
      BY <1>5, <3>1, <3>2, <3>3
  <2>2. pc'[p] = "ok" => Len(out'[p]) = Len(call[p])
    BY <1>4, <1>5
  <2>3. ASSUME NEW q \in Client, q # p
        PROVE  /\ \A i \in DOMAIN out'[q] : out'[q][i] = entry[call[q][i].cid]
               /\ pc'[q] = "ok" => Len(out'[q]) = Len(call[q])
    <3>1. out'[q] = out[q] /\ pc'[q] = pc[q]
      BY <1>4, <2>3
    <3> QED
      BY <3>1 DEF IInv, ReturnedIsFinal
  <2>4. call' = call /\ entry' = entry
    BY <1>4
  <2> HIDE DEF n
  <2> QED
    BY <2>1, <2>2, <2>3, <2>4 DEF ReturnedIsFinal
<1>8. Progress'
  <2>1. /\ call[p] # << >>
        /\ pc'[p] \in {"read", "ok"}
        /\ pc'[p] = "read" => Len(out'[p]) < Len(call[p])
        /\ Len(out'[p]) <= Len(call[p])
    BY <1>1, <1>4, <1>5
  <2> QED
    BY <2>1, <1>4 DEF IInv, Progress
<1> QED
  BY <1>6, <1>7, <1>8 DEF IInv

LEMMA ReadEmptyKeeps ==
    ASSUME IInv, NEW p \in Client, ReadEmpty(p)
    PROVE  IInv'
<1>1. CASE PollsLeft(p) /\ polls' = [polls EXCEPT ![p] = @ + 1]
           /\ UNCHANGED <<pc, call, attempt, out, chainVars>>
  <2>1. TypeOK'
    BY <1>1, AdapterAssumption DEF PollsLeft, IInv, TypeOK, chainVars
  <2>2. ReturnedIsFinal' /\ Progress'
    BY <1>1 DEF IInv, ReturnedIsFinal, Progress, chainVars
  <2> QED
    BY <2>1, <2>2 DEF IInv
<1>2. CASE AttemptFails(p) /\ UNCHANGED chainVars
  BY <1>2, FailureKeepsInvariant DEF ReadEmpty, IInv, TypeOK, chainVars
<1> QED
  BY <1>1, <1>2 DEF ReadEmpty, chainVars

LEMMA ReadFailsKeeps ==
    ASSUME IInv, NEW p \in Client, ReadFails(p)
    PROVE  IInv'
  BY FailureKeepsInvariant DEF ReadFails, IInv, TypeOK, chainVars

LEMMA EndsKeeps ==
    ASSUME IInv, NEW p \in Client, Ends(p)
    PROVE  IInv'
<1> USE AdapterAssumption
<1>1. TypeOK'
  <2>1. /\ entry' \in [Cid -> AnchorEntry \cup {NoEntry}]
        /\ mempool' \subseteq Transaction
    BY DEF Ends, IInv, TypeOK, chainVars
  <2>2. /\ pc' \in [Client -> {"idle", "send", "confirm", "read", "ok", "err"}]
        /\ call' \in [Client -> Request \cup {<< >>}]
    BY DEF Ends, IInv, TypeOK
  <2>3. /\ attempt' \in [Client -> Nat]
        /\ \A q \in Client : attempt'[q] <= MaxAttempts[q]
    <3>1. /\ attempt \in [Client -> Nat]
          /\ \A q \in Client : attempt[q] <= MaxAttempts[q]
      BY DEF IInv, TypeOK
    <3>2. attempt' = [attempt EXCEPT ![p] = 0]
      BY DEF Ends
    <3>3. MaxAttempts[p] \in Nat
      OBVIOUS
    <3> QED
      BY ONLY <3>1, <3>2, <3>3
  <2>4. polls' \in [Client -> 0..(MaxPolls - 1)]
    <3>1. 0 \in 0..(MaxPolls - 1)
      OBVIOUS
    <3> QED
      BY <3>1 DEF Ends, IInv, TypeOK
  <2>5. out' \in [Client -> Seq(AnchorEntry)]
    <3>1. << >> \in Seq(AnchorEntry)
      OBVIOUS
    <3> QED
      BY <3>1 DEF Ends, IInv, TypeOK
  <2> QED
    BY <2>1, <2>2, <2>3, <2>4, <2>5 DEF TypeOK
<1>2. /\ pc'[p] = "idle" /\ out'[p] = << >>
      /\ \A q \in Client : q # p => /\ pc'[q] = pc[q] /\ out'[q] = out[q]
                                     /\ call'[q] = call[q]
      /\ call'[p] = << >> /\ entry' = entry
  BY DEF Ends, IInv, TypeOK, chainVars
<1>3. ReturnedIsFinal'
  BY <1>2 DEF IInv, ReturnedIsFinal
<1>4. Progress'
  BY <1>2 DEF IInv, Progress
<1> QED
  BY <1>1, <1>3, <1>4 DEF IInv

\* A landing disturbs no answer: it would have to change an entry that was
\* already read, and those are on the chain for good.
LEMMA LandsKeeps ==
    ASSUME IInv, NEW t \in mempool, Lands(t)
    PROVE  IInv'
<1> USE AdapterAssumption
<1>1. TypeOK'
  BY LandingIsAnchoring DEF Lands, IInv, TypeOK, callVars
<1>2. ReturnedIsFinal'
  <2>1. ASSUME NEW p \in Client, NEW i \in DOMAIN out[p]
        PROVE  out[p][i] = entry'[call[p][i].cid]
    <3>1. out[p][i] = entry[call[p][i].cid]
      BY DEF IInv, ReturnedIsFinal
    <3>2. out[p] \in Seq(AnchorEntry) /\ call[p] \in Seq(Entry)
          /\ Len(out[p]) <= Len(call[p])
      BY RequestAssumption DEF IInv, TypeOK, Progress
    <3>3. call[p][i].cid \in Cid /\ out[p][i] \in AnchorEntry
      <4>1. call[p][i] \in Entry /\ out[p][i] \in AnchorEntry
        BY <3>2
      <4> QED
        BY <4>1 DEF Entry
    <3>4. entry[call[p][i].cid] # NoEntry
      BY <3>1, <3>3
    <3> QED
      BY <3>1, <3>3, <3>4, LandingIsAnchoring
  <2> QED
    BY <2>1 DEF Lands, callVars, IInv, ReturnedIsFinal
<1>3. Progress'
  BY DEF Lands, callVars, IInv, Progress
<1> QED
  BY <1>1, <1>2, <1>3 DEF IInv

LEMMA IsLostKeeps ==
    ASSUME IInv, NEW t \in mempool, IsLost(t)
    PROVE  IInv'
  BY DEF IsLost, callVars, IInv, TypeOK, ReturnedIsFinal, Progress

LEMMA StepKeeps ==
    ASSUME IInv, [Next]_vars
    PROVE  IInv'
<1>1. ASSUME NEW p \in Client, NEW es \in Request, Call(p, es) PROVE IInv'
  BY <1>1, CallKeeps
<1>2. ASSUME NEW p \in Client, Step(p) PROVE IInv'
  BY <1>2, SendKeeps, SendFailsKeeps, ConfirmKeeps, ReadEntryKeeps,
     ReadEmptyKeeps, ReadFailsKeeps DEF Step
<1>3. ASSUME NEW t \in mempool, Lands(t) PROVE IInv'
  BY <1>3, LandsKeeps
<1>4. ASSUME NEW t \in mempool, IsLost(t) PROVE IInv'
  BY <1>4, IsLostKeeps
<1>5. ASSUME NEW p \in Client, Ends(p) PROVE IInv'
  BY <1>5, EndsKeeps
<1>6. CASE UNCHANGED vars
  BY <1>6 DEF vars, chainVars, callVars, IInv, TypeOK, ReturnedIsFinal, Progress
<1> QED
  BY <1>1, <1>2, <1>3, <1>4, <1>5, <1>6 DEF Next

\* Every state satisfies the inductive invariant.
THEOREM Invariance == Spec => []IInv
<1>1. Init => IInv
  BY Initially
<1>2. IInv /\ [Next]_vars => IInv'
  BY StepKeeps
<1> QED
  BY <1>1, <1>2, PTL DEF Spec

\* The variables of the chain and of the calls keep their types: the retries
\* and polls of a call stay within their limits.
THEOREM TypeCorrect == Spec => []TypeOK
  BY Invariance, PTL DEF IInv

\* Whatever lands late, and whoever sent it, an anchor call returns the entries
\* that are on the chain from then on.
THEOREM AnswersAreFinal == Spec => []ReturnedIsFinal
  BY Invariance, PTL DEF IInv

-------------------------------------------------------------------------------
(* The work of a call.                                                     *)

\* What is left of a length when a shorter one is taken off it.
LEMMA PositiveDifference ==
    ASSUME NEW l \in Nat, NEW o \in Nat, o < l
    PROVE  l - o \in Nat \ {0} /\ l - o <= l
  OBVIOUS

\* One row of a product set apart.
LEMMA OneRowLess ==
    ASSUME NEW d \in Nat \ {0}, NEW m \in Nat
    PROVE  d - 1 \in Nat /\ (d - 1) * m \in Nat /\ d * m \in Nat /\ d * m = (d - 1) * m + m
<1>1. d - 1 \in Nat /\ (d - 1) * m \in Nat /\ d * m \in Nat
  OBVIOUS
<1>2. d * m = (d - 1) * m + m
  OBVIOUS
<1> QED
  BY <1>1, <1>2

\* The numbers that WorkLeft is made of.
LEMMA WorkFacts ==
    ASSUME IInv, NEW p \in Client, ~Returned(p)
    PROVE  /\ pc[p] \in {"send", "confirm", "read"}
           /\ Len(call[p]) \in Nat \ {0} /\ MaxPolls \in Nat \ {0}
           /\ Len(call[p]) * MaxPolls \in Nat
           /\ Share(p) \in Nat /\ Share(p) = Len(call[p]) * MaxPolls + 2
           /\ MaxAttempts[p] - attempt[p] \in Nat
           /\ (MaxAttempts[p] - attempt[p]) * Share(p) \in Nat
           /\ polls[p] \in 0..(MaxPolls - 1)
           /\ Len(out[p]) \in Nat
           /\ pc[p] = "read" => Len(out[p]) < Len(call[p])
<1> USE AdapterAssumption
<1>1. pc[p] \in {"send", "confirm", "read"}
  BY DEF IInv, TypeOK, Returned
<1>2. call[p] # << >> /\ call[p] \in Seq(Entry) /\ out[p] \in Seq(AnchorEntry)
  BY <1>1, RequestAssumption DEF IInv, TypeOK, Progress
<1>3. Len(call[p]) \in Nat \ {0} /\ Len(out[p]) \in Nat
  BY <1>2
<1>4. /\ MaxPolls \in Nat \ {0} /\ polls[p] \in 0..(MaxPolls - 1)
      /\ MaxAttempts[p] - attempt[p] \in Nat
  BY DEF IInv, TypeOK
<1>5. Len(call[p]) * MaxPolls \in Nat
  BY <1>3, <1>4
<1>6. Share(p) = Len(call[p]) * MaxPolls + 2 /\ Share(p) \in Nat
  BY <1>5 DEF Share
<1>7. (MaxAttempts[p] - attempt[p]) * Share(p) \in Nat
  BY <1>4, <1>6
<1>8. pc[p] = "read" => Len(out[p]) < Len(call[p])
  BY DEF IInv, Progress
<1> QED
  BY <1>1, <1>3, <1>4, <1>5, <1>6, <1>7, <1>8

\* An open call has at least one step left in its attempt.
LEMMA WorkIsNumber ==
    ASSUME IInv, NEW p \in Client
    PROVE  /\ WorkLeft(p) \in Nat
           /\ ~Returned(p) =>
                /\ LeftOfAttempt(p) \in Nat \ {0}
                /\ LeftOfAttempt(p) <= Share(p)
                /\ WorkLeft(p) = (MaxAttempts[p] - attempt[p]) * Share(p) + LeftOfAttempt(p)
<1>1. CASE Returned(p)
  BY <1>1 DEF WorkLeft
<1>2. CASE ~Returned(p)
  <2>1. LeftOfAttempt(p) \in Nat \ {0} /\ LeftOfAttempt(p) <= Share(p)
    <3>1. CASE pc[p] = "send"
      BY <1>2, <3>1, WorkFacts DEF LeftOfAttempt
    <3>2. CASE pc[p] = "confirm"
      <4> DEFINE k == Len(call[p]) * MaxPolls
      <4>1. LeftOfAttempt(p) = Share(p) - 1
        BY <3>2 DEF LeftOfAttempt
      <4>2. k \in Nat /\ Share(p) = k + 2
        BY <1>2, WorkFacts
      <4> HIDE DEF k
      <4> QED
        BY <4>1, <4>2
    <3>3. CASE pc[p] = "read"
      <4> DEFINE d == Len(call[p]) - Len(out[p])
                 l == Len(call[p])
      <4>0. l \in Nat /\ Len(out[p]) \in Nat /\ Len(out[p]) < l /\ MaxPolls \in Nat \ {0}
        BY <1>2, <3>3, WorkFacts
      <4>1. d \in Nat \ {0} /\ d <= l /\ l \in Nat /\ MaxPolls \in Nat \ {0}
        <5>1. d \in Nat \ {0} /\ d <= l
          BY <4>0, PositiveDifference
        <5> QED
          BY <4>0, <5>1
      <4>2. LeftOfAttempt(p) = d * MaxPolls - polls[p]
        BY <3>3 DEF LeftOfAttempt
      <4>3. Share(p) = l * MaxPolls + 2 /\ polls[p] \in 0..(MaxPolls - 1)
        BY <1>2, WorkFacts
      <4> HIDE DEF d, l
      <4>4. d * MaxPolls <= l * MaxPolls /\ MaxPolls <= d * MaxPolls
            /\ d * MaxPolls \in Nat /\ l * MaxPolls \in Nat
        <5>1. PICK e \in Nat : l = d + e
          <6>1. l - d \in Nat /\ l = d + (l - d)
            BY <4>1
          <6> QED
            BY <6>1
        <5>2. l * MaxPolls = d * MaxPolls + e * MaxPolls /\ e * MaxPolls \in Nat
              /\ d * MaxPolls \in Nat
          BY <4>1, <5>1
        <5>3. d - 1 \in Nat /\ d * MaxPolls = (d - 1) * MaxPolls + MaxPolls
              /\ (d - 1) * MaxPolls \in Nat
          BY <4>1, OneRowLess
        <5> QED
          BY <4>1, <5>2, <5>3
      <4> QED
        BY <4>1, <4>2, <4>3, <4>4
    <3> QED
      BY <1>2, <3>1, <3>2, <3>3, WorkFacts
  <2>2. WorkLeft(p) = (MaxAttempts[p] - attempt[p]) * Share(p) + LeftOfAttempt(p)
    BY <1>2 DEF WorkLeft
  <2> QED
    BY <1>2, <2>1, <2>2, WorkFacts
<1> QED
  BY <1>1, <1>2

\* The same one step later.
LEMMA WorkIsNumberNext ==
    ASSUME NEW p \in Client
    PROVE  (IInv => /\ WorkLeft(p) \in Nat
                    /\ ~Returned(p) => LeftOfAttempt(p) \in Nat)'
<1>1. IInv => /\ WorkLeft(p) \in Nat
              /\ ~Returned(p) => LeftOfAttempt(p) \in Nat
  BY WorkIsNumber
<1> QED
  BY <1>1, PTL

\* A failure ends the call, or costs one attempt.
LEMMA FailureUsesWork ==
    ASSUME IInv, IInv', NEW p \in Client, pc[p] \in {"send", "read"}, AttemptFails(p)
    PROVE  WorkLeft(p)' < WorkLeft(p)
<1>1. ~Returned(p) /\ call' = call /\ p \in DOMAIN pc /\ p \in DOMAIN attempt
  BY DEF AttemptFails, Returned, IInv, TypeOK
<1> DEFINE a == MaxAttempts[p] - attempt[p]
           s == Share(p)
<1>2. /\ a \in Nat /\ s \in Nat /\ a * s \in Nat
      /\ LeftOfAttempt(p) \in Nat \ {0}
      /\ WorkLeft(p) = a * s + LeftOfAttempt(p)
  BY <1>1, WorkFacts, WorkIsNumber
<1>3. CASE ~MayRetry(p)
  <2>1. pc'[p] = "err"
    BY <1>1, <1>3 DEF AttemptFails
  <2>2. WorkLeft(p)' = 0
    BY <2>1 DEF WorkLeft, Returned
  <2> HIDE DEF a, s
  <2> QED
    BY <1>2, <2>2
<1>4. CASE MayRetry(p)
  <2>1. pc'[p] = "send" /\ attempt'[p] = attempt[p] + 1
    BY <1>1, <1>4 DEF AttemptFails
  <2>2. Share(p)' = s /\ MaxAttempts[p] - attempt'[p] = a - 1 /\ attempt[p] < MaxAttempts[p]
    BY <1>1, <1>4, <2>1, AdapterAssumption DEF Share, MayRetry, IInv, TypeOK
  <2>3. a - 1 \in Nat
    BY <2>2, AdapterAssumption DEF IInv, TypeOK
  <2>4. WorkLeft(p)' = (a - 1) * s + s
    <3>1. ~Returned(p)' /\ LeftOfAttempt(p)' = Share(p)'
      BY <2>1 DEF Returned, LeftOfAttempt
    <3>2. WorkLeft(p)' = (MaxAttempts[p] - attempt'[p]) * Share(p)' + Share(p)'
      BY <3>1 DEF WorkLeft
    <3> QED
      BY <2>2, <3>2
  <2> HIDE DEF a, s
  <2>5. (a - 1) * s + s = a * s
    BY <1>2, <2>3
  <2> QED
    BY <1>2, <2>4, <2>5
<1> QED
  BY <1>3, <1>4

LEMMA StepUsesWork ==
    ASSUME IInv, IInv', NEW p \in Client, Step(p)
    PROVE  WorkLeft(p)' < WorkLeft(p)
<1>0. p \in DOMAIN pc /\ p \in DOMAIN out /\ p \in DOMAIN polls /\ p \in DOMAIN attempt
  BY DEF IInv, TypeOK
<1> DEFINE w == (MaxAttempts[p] - attempt[p]) * Share(p)
\* Within one attempt, it is enough that less of the attempt is left.
<1>1. ASSUME ~Returned(p), ~Returned(p)', attempt'[p] = attempt[p], call'[p] = call[p],
             LeftOfAttempt(p)' < LeftOfAttempt(p)
      PROVE  WorkLeft(p)' < WorkLeft(p)
  <2>1. w \in Nat /\ WorkLeft(p) = w + LeftOfAttempt(p) /\ LeftOfAttempt(p) \in Nat
    BY <1>1, WorkFacts, WorkIsNumber
  <2>2. WorkLeft(p)' = w + LeftOfAttempt(p)'
    BY <1>1 DEF WorkLeft, Share
  <2>3. LeftOfAttempt(p)' \in Nat
    BY <1>1, WorkIsNumberNext
  <2> HIDE DEF w
  <2> QED
    BY <1>1, <2>1, <2>2, <2>3
<1>2. CASE Send(p)
  <2>1. pc[p] = "send" /\ pc'[p] = "confirm" /\ attempt' = attempt /\ call' = call
    BY <1>0, <1>2 DEF Send
  <2>2. ~Returned(p) /\ ~Returned(p)'
    BY <2>1 DEF Returned
  <2>3. LeftOfAttempt(p) = Share(p) /\ LeftOfAttempt(p)' = Share(p) - 1
    BY <2>1 DEF LeftOfAttempt, Share
  <2>4. LeftOfAttempt(p)' < LeftOfAttempt(p)
    BY <2>2, <2>3, WorkFacts
  <2> QED
    BY <1>1, <2>1, <2>2, <2>4
<1>3. CASE Confirm(p)
  <2>1. /\ pc[p] = "confirm" /\ pc'[p] = "read" /\ attempt' = attempt /\ call' = call
        /\ out' = out /\ polls' = polls
    BY <1>0, <1>3 DEF Confirm
  <2>2. ~Returned(p) /\ ~Returned(p)' /\ out[p] = << >>
    BY <2>1 DEF Returned, IInv, Progress
  <2>3. /\ LeftOfAttempt(p) = Len(call[p]) * MaxPolls + 1
        /\ LeftOfAttempt(p)' = (Len(call[p]) - 0) * MaxPolls - polls[p]
    <3>1. LeftOfAttempt(p) = Share(p) - 1
      BY <2>1 DEF LeftOfAttempt
    <3>2. LeftOfAttempt(p)' = (Len(call[p]) - Len(out[p])) * MaxPolls - polls[p]
      BY <2>1 DEF LeftOfAttempt
    <3> QED
      BY <2>2, <3>1, <3>2, WorkFacts
  <2>4. LeftOfAttempt(p)' < LeftOfAttempt(p)
    BY <2>2, <2>3, WorkFacts
  <2> QED
    BY <1>1, <2>1, <2>2, <2>4
<1>4. CASE ReadEntry(p)
  <2>1. /\ pc[p] = "read" /\ ~Returned(p)
        /\ pc'[p] = IF AllRead(p) THEN "ok" ELSE "read"
        /\ attempt'[p] = IF AllRead(p) THEN 0 ELSE attempt[p]
        /\ polls'[p] = 0 /\ out'[p] = Append(out[p], entry[Awaited(p)]) /\ call' = call
    BY <1>0, <1>4 DEF ReadEntry, Returned
  <2>2. CASE AllRead(p)
    <3>1. WorkLeft(p)' = 0
      BY <2>1, <2>2 DEF WorkLeft, Returned
    <3> QED
      BY <2>1, <3>1, WorkIsNumber, WorkFacts
  <2>3. CASE ~AllRead(p)
    <3>1. ~Returned(p)' /\ pc'[p] = "read"
      BY <2>1, <2>3 DEF Returned
    <3>2. Len(out'[p]) = Len(out[p]) + 1
      BY <2>1 DEF IInv, TypeOK
    <3> DEFINE d == Len(call[p]) - Len(out[p])
    <3>3. /\ LeftOfAttempt(p) = d * MaxPolls - polls[p]
          /\ LeftOfAttempt(p)' = (d - 1) * MaxPolls - 0
      <4>1. LeftOfAttempt(p)' = (Len(call[p]) - Len(out'[p])) * MaxPolls - polls'[p]
        BY <2>1, <3>1 DEF LeftOfAttempt
      <4>2. Len(call[p]) - Len(out'[p]) = d - 1
        BY <2>1, <3>2, WorkFacts
      <4> QED
        BY <2>1, <4>1, <4>2 DEF LeftOfAttempt
    <3>4. d \in Nat \ {0} /\ MaxPolls \in Nat \ {0} /\ polls[p] \in 0..(MaxPolls - 1)
      <4>1. Len(call[p]) \in Nat /\ Len(out[p]) \in Nat /\ Len(out[p]) < Len(call[p])
        BY <2>1, WorkFacts
      <4>2. d \in Nat \ {0}
        BY <4>1, PositiveDifference
      <4> QED
        BY <2>1, <4>2, WorkFacts
    <3> HIDE DEF d
    <3>5. d * MaxPolls = (d - 1) * MaxPolls + MaxPolls /\ (d - 1) * MaxPolls \in Nat
      BY <3>4, OneRowLess
    <3>6. LeftOfAttempt(p)' < LeftOfAttempt(p)
      BY <3>3, <3>4, <3>5
    <3> QED
      BY <1>1, <2>1, <2>3, <3>1, <3>6
  <2> QED
    BY <2>2, <2>3
<1>5. CASE ReadEmpty(p)
  <2>1. CASE polls' = [polls EXCEPT ![p] = @ + 1] /\ UNCHANGED <<pc, call, attempt, out>>
    <3>1. pc[p] = "read" /\ pc' = pc /\ polls'[p] = polls[p] + 1
      BY <1>0, <1>5, <2>1 DEF ReadEmpty
    <3>2. ~Returned(p) /\ ~Returned(p)'
      BY <3>1 DEF Returned
    <3> DEFINE x == (Len(call[p]) - Len(out[p])) * MaxPolls
    <3>3. LeftOfAttempt(p) = x - polls[p] /\ LeftOfAttempt(p)' = x - (polls[p] + 1)
      BY <2>1, <3>1 DEF LeftOfAttempt
    <3>4. x \in Nat /\ polls[p] \in Nat
      <4>1. Len(call[p]) \in Nat /\ Len(out[p]) \in Nat /\ Len(out[p]) < Len(call[p])
        BY <3>1, <3>2, WorkFacts
      <4>2. MaxPolls \in Nat /\ polls[p] \in Nat
        BY <3>2, WorkFacts
      <4>3. Len(call[p]) - Len(out[p]) \in Nat \ {0}
        BY <4>1, PositiveDifference
      <4> QED
        BY <4>2, <4>3, OneRowLess
    <3> HIDE DEF x
    <3>5. LeftOfAttempt(p)' < LeftOfAttempt(p)
      BY <3>3, <3>4
    <3> QED
      BY <1>1, <2>1, <3>2, <3>5
  <2>2. CASE AttemptFails(p)
    BY <1>5, <2>2, FailureUsesWork DEF ReadEmpty
  <2> QED
    BY <1>5, <2>1, <2>2 DEF ReadEmpty
<1>6. CASE SendFails(p)
  BY <1>6, FailureUsesWork DEF SendFails
<1>7. CASE ReadFails(p)
  BY <1>7, FailureUsesWork DEF ReadFails
<1> QED
  BY <1>2, <1>3, <1>4, <1>5, <1>6, <1>7 DEF Step

\* What others do does not touch a call.
LEMMA OthersKeepWork ==
    ASSUME NEW p \in Client, IInv, [Next]_vars, ~Step(p), ~Ends(p),
           ~\E es \in Request : Call(p, es)
    PROVE  WorkLeft(p)' = WorkLeft(p)
<1>1. /\ pc'[p] = pc[p] /\ call'[p] = call[p] /\ attempt'[p] = attempt[p]
      /\ out'[p] = out[p] /\ polls'[p] = polls[p]
  <2>1. ASSUME NEW q \in Client, q # p,
               Step(q) \/ Ends(q) \/ \E es \in Request : Call(q, es)
        PROVE  /\ pc'[p] = pc[p] /\ call'[p] = call[p] /\ attempt'[p] = attempt[p]
               /\ out'[p] = out[p] /\ polls'[p] = polls[p]
    BY <2>1 DEF Step, Send, SendFails, Confirm, ReadEntry, ReadEmpty, ReadFails,
       AttemptFails, Ends, Call, IInv, TypeOK
  <2> QED
    BY <2>1 DEF Next, Lands, IsLost, vars, callVars
<1> QED
  BY <1>1 DEF WorkLeft, Share, LeftOfAttempt, Returned

LEMMA DeadHasNoWork ==
    ASSUME NEW p \in Client, IInv, Ends(p)
    PROVE  WorkLeft(p)' = 0
<1>1. pc'[p] = "idle"
  BY DEF Ends, IInv, TypeOK
<1> QED
  BY <1>1 DEF WorkLeft, Returned

\* Every step of a call uses up some of a number that only a new call raises,
\* so an anchor call takes at most as many steps as its attempts and polls.
THEOREM BoundedCalls == Spec => CallsAreBounded
<1>1. ASSUME IInv, IInv', [Next]_vars, NEW p \in Client
      PROVE  /\ WorkLeft(p) \in Nat
             /\ Step(p) => WorkLeft(p)' < WorkLeft(p)
             /\ WorkLeft(p)' > WorkLeft(p) => \E es \in Request : Call(p, es)
  <2>1. WorkLeft(p) \in Nat /\ WorkLeft(p)' \in Nat
    BY <1>1, WorkIsNumber, WorkIsNumberNext
  <2>2. Step(p) => WorkLeft(p)' < WorkLeft(p)
    BY <1>1, StepUsesWork
  <2>3. ~Step(p) /\ ~Ends(p) /\ ~(\E es \in Request : Call(p, es))
            => WorkLeft(p)' = WorkLeft(p)
    BY <1>1, OthersKeepWork
  <2>4. Ends(p) => WorkLeft(p)' <= WorkLeft(p)
    BY <1>1, <2>1, DeadHasNoWork
  <2> QED
    BY <2>1, <2>2, <2>3, <2>4
<1>2. IInv /\ IInv' /\ [Next]_vars =>
        \A p \in Client :
          /\ WorkLeft(p) \in Nat
          /\ Step(p) => WorkLeft(p)' < WorkLeft(p)
          /\ WorkLeft(p)' > WorkLeft(p) => \E es \in Request : Call(p, es)
  BY <1>1
<1> QED
  BY <1>2, Invariance, PTL DEF Spec, CallsAreBounded

-------------------------------------------------------------------------------
(* The client that a caller sees.                                          *)

\* Who has the same call and the same phase sees no change of its own.
LEMMA SameCall ==
    ASSUME NEW p \in Client, pc'[p] = pc[p], call'[p] = call[p], attempt'[p] = attempt[p]
    PROVE  /\ Phase(p)' = Phase(p) /\ AskedNow(p)' = AskedNow(p)
           /\ attempt'[p] = attempt[p] /\ Answered(p)' = Answered(p)
  BY DEF Phase, AskedNow, Asked, Answered, Returned

LEMMA AskedFacts ==
    ASSUME NEW p \in Client, IInv, call[p] # << >>
    PROVE  Asked(p) # {} /\ Asked(p) \subseteq Cid
<1>1. call[p] \in Seq(Entry) /\ call[p] # << >>
  BY RequestAssumption DEF IInv, TypeOK
<1>2. 1 \in DOMAIN call[p] /\ \A i \in DOMAIN call[p] : call[p][i] \in Entry
  BY <1>1
<1> QED
  BY <1>2 DEF Asked, Entry

LEMMA UnderWayGrows ==
    ASSUME NEW t, mempool' = mempool \cup {t}
    PROVE  UnderWay' = UnderWay \cup {CidsOf(t)}
  BY DEF UnderWay

LEMMA UnderWayShrinks ==
    ASSUME NEW t \in mempool, mempool' = mempool \ {t}
    PROVE  CidsOf(t) \in UnderWay /\ UnderWay' \in {UnderWay, UnderWay \ {CidsOf(t)}}
<1>1. CidsOf(t) \in UnderWay
  BY DEF UnderWay
<1>2. CASE \E u \in mempool \ {t} : CidsOf(u) = CidsOf(t)
  BY <1>1, <1>2 DEF UnderWay
<1>3. CASE ~\E u \in mempool \ {t} : CidsOf(u) = CidsOf(t)
  BY <1>1, <1>3 DEF UnderWay
<1> QED
  BY <1>1, <1>2, <1>3

LEMMA SentCids ==
    ASSUME NEW p \in Client, NEW now
    PROVE  CidsOf(Sent(p, now)) = Asked(p)
  BY DEF CidsOf, Sent, Asked

LEMMA CidsAreCids ==
    ASSUME IInv, NEW t \in mempool
    PROVE  CidsOf(t) \subseteq Cid
<1>1. t.entries \in Seq(Entry)
  BY RequestAssumption DEF IInv, TypeOK, Transaction
<1>2. \A i \in DOMAIN t.entries : t.entries[i] \in Entry
  BY <1>1
<1> QED
  BY <1>2 DEF CidsOf, Entry

\* A transaction that lands gives all its CIDs an entry, and no other.
LEMMA WithEntryGrows ==
    ASSUME IInv, NEW t \in mempool, Lands(t)
    PROVE  WithEntry' = WithEntry \cup CidsOf(t)
<1> USE AdapterAssumption
<1>1. PICK win \in [CidsOf(t) -> DOMAIN t.entries] :
         entry' = [c \in Cid |-> IF c \in CidsOf(t) THEN PostState(t, win[c], c)
                                                    ELSE entry[c]]
  BY DEF Lands
<1>2. ASSUME NEW c \in Cid
      PROVE  entry'[c] # NoEntry <=> entry[c] # NoEntry \/ c \in CidsOf(t)
  <2>1. CASE c \in CidsOf(t)
    <3>1. win[c] \in DOMAIN t.entries /\ entry'[c] = PostState(t, win[c], c)
      BY <1>1, <2>1
    <3>2. t.entries[win[c]].metadata_hash \in Metadata /\ t.anchor_timestamp \in Time
      <4>1. t.entries \in Seq(Entry) /\ t.anchor_timestamp \in Time
        BY RequestAssumption DEF IInv, TypeOK, Transaction
      <4>2. t.entries[win[c]] \in Entry
        BY <3>1, <4>1
      <4> QED
        BY <4>1, <4>2 DEF Entry
    <3>3. [cid |-> c, metadata_hash |-> t.entries[win[c]].metadata_hash,
           anchor_timestamp |-> t.anchor_timestamp] \in AnchorEntry
      BY <3>2 DEF AnchorEntry
    <3> QED
      BY <2>1, <3>1, <3>3 DEF PostState
  <2>2. CASE c \notin CidsOf(t)
    BY <1>1, <2>2
  <2> QED
    BY <2>1, <2>2
<1> QED
  BY <1>2, CidsAreCids DEF WithEntry

\* The failure of an attempt, as its own caller sees it.
LEMMA FailureIsRetryOrGiveUp ==
    ASSUME IInv, NEW p \in Client, pc[p] \in {"send", "read"}, AttemptFails(p), entry' = entry,
           \/ UnderWay' = UnderWay
           \/ pc[p] = "send" /\ UnderWay' = UnderWay \cup {Asked(p)}
    PROVE  C(p)!Retry \/ C(p)!GiveUp
<1>1. /\ Phase(p) = IF pc[p] = "send" THEN "submit" ELSE "await"
      /\ AskedNow(p) = Asked(p) /\ Answered(p) = {}
  BY DEF Phase, AskedNow, Answered, Returned
<1>2. C(p)!MaybeSubmitted
  BY <1>1 DEF C!MaybeSubmitted, WithEntry
<1>3. call' = call /\ p \in DOMAIN pc /\ p \in DOMAIN attempt
  BY DEF AttemptFails, IInv, TypeOK
<1>4. CASE MayRetry(p)
  <2>1. pc'[p] = "send" /\ attempt'[p] = attempt[p] + 1 /\ attempt[p] < MaxAttempts[p]
    BY <1>3, <1>4 DEF AttemptFails, MayRetry
  <2>2. Phase(p)' = "submit" /\ AskedNow(p)' = Asked(p) /\ Answered(p)' = {}
    BY <1>3, <2>1 DEF Phase, AskedNow, Asked, Answered, Returned
  <2>3. C(p)!Retry
    BY <1>1, <1>2, <2>1, <2>2 DEF C!Retry, C!Open
  <2> QED
    BY <2>3
<1>5. CASE ~MayRetry(p)
  <2>1. pc'[p] = "err" /\ attempt'[p] = 0
    BY <1>3, <1>5 DEF AttemptFails
  <2>2. Phase(p)' = "closed" /\ AskedNow(p)' = {} /\ Answered(p)' = {}
    BY <2>1 DEF Phase, AskedNow, Answered, Returned
  <2>3. C(p)!GiveUp
    BY <1>1, <1>2, <2>1, <2>2 DEF C!GiveUp
  <2> QED
    BY <2>3
<1> QED
  BY <1>4, <1>5

\* A step of the caller's own call.
LEMMA OwnStep ==
    ASSUME IInv, NEW p \in Client, Step(p)
    PROVE  [C(p)!Next]_(C(p)!vars)
<1>0. p \in DOMAIN pc /\ p \in DOMAIN out /\ p \in DOMAIN polls /\ p \in DOMAIN attempt
  BY DEF IInv, TypeOK
<1>1. ASSUME entry' = entry, mempool' = mempool, pc'[p] = pc[p], call'[p] = call[p],
             attempt'[p] = attempt[p]
      PROVE  UNCHANGED C(p)!vars
  BY <1>1, SameCall DEF C!vars, C!callVars, C!chainVars, UnderWay, WithEntry
<1>2. CASE Send(p)
  <2>1. PICK now \in Time : mempool' = mempool \cup {Sent(p, now)}
    BY <1>2 DEF Send
  <2>2. UnderWay' = UnderWay \cup {Asked(p)}
    BY <2>1, UnderWayGrows, SentCids
  <2>3. pc[p] = "send" /\ pc'[p] = "confirm" /\ UNCHANGED <<entry, call, attempt>>
    BY <1>0, <1>2 DEF Send
  <2>4. /\ Phase(p) = "submit" /\ Phase(p)' = "await"
        /\ AskedNow(p) = Asked(p) /\ AskedNow(p)' = Asked(p)
        /\ Answered(p) = {} /\ Answered(p)' = {} /\ WithEntry' = WithEntry
    BY <2>3 DEF Phase, AskedNow, Asked, Answered, Returned, WithEntry
  <2>5. C(p)!Submit
    BY <2>2, <2>3, <2>4 DEF C!Submit
  <2> QED
    BY <2>5 DEF C!Next
<1>3. CASE SendFails(p)
  <2>1. UnderWay' = UnderWay \/ UnderWay' = UnderWay \cup {Asked(p)}
    <3>1. CASE mempool' = mempool
      BY <3>1 DEF UnderWay
    <3>2. CASE \E now \in Time : mempool' = mempool \cup {Sent(p, now)}
      BY <3>2, UnderWayGrows, SentCids
    <3> QED
      BY <1>3, <3>1, <3>2 DEF SendFails
  <2>2. C(p)!Retry \/ C(p)!GiveUp
    BY <1>3, <2>1, FailureIsRetryOrGiveUp DEF SendFails
  <2> QED
    BY <2>2 DEF C!Next
<1>4. CASE Confirm(p)
  <2>1. /\ pc[p] = "confirm" /\ pc'[p] = "read"
        /\ UNCHANGED <<entry, mempool, call, attempt>>
    BY <1>0, <1>4 DEF Confirm, chainVars
  <2> QED
    BY <2>1 DEF C!vars, C!callVars, C!chainVars, UnderWay, WithEntry, Phase, AskedNow,
                Asked, Answered, Returned
<1>5. CASE ReadEntry(p)
  <2>1. /\ pc[p] = "read" /\ UNCHANGED <<entry, mempool, call>>
        /\ pc'[p] = IF AllRead(p) THEN "ok" ELSE "read"
        /\ attempt'[p] = IF AllRead(p) THEN 0 ELSE attempt[p]
        /\ entry[Awaited(p)] # NoEntry
    BY <1>0, <1>5 DEF ReadEntry, chainVars
  <2>2. CASE ~AllRead(p)
    BY <1>1, <2>1, <2>2
  <2>3. CASE AllRead(p)
    <3>1. /\ Phase(p) = "await" /\ Phase(p)' = "closed"
          /\ AskedNow(p) = Asked(p) /\ AskedNow(p)' = {}
          /\ Answered(p) = {} /\ Answered(p)' = Asked(p)
          /\ UnderWay' = UnderWay /\ WithEntry' = WithEntry
      BY <2>1, <2>3 DEF Phase, AskedNow, Asked, Answered, Returned, UnderWay, WithEntry
    <3>2. Asked(p) \subseteq WithEntry
      <4>1. /\ call[p] # << >> /\ call[p] \in Seq(Entry) /\ out[p] \in Seq(AnchorEntry)
            /\ Len(out[p]) + 1 = Len(call[p])
        BY <2>1, <2>3, RequestAssumption DEF IInv, TypeOK, Progress, AllRead
      <4>2. ASSUME NEW i \in DOMAIN call[p]
            PROVE  entry[call[p][i].cid] # NoEntry
        <5>1. CASE i = Len(out[p]) + 1
          BY <2>1, <5>1 DEF Awaited
        <5>2. CASE i # Len(out[p]) + 1
          <6>1. i \in DOMAIN out[p]
            BY <4>1, <5>2
          <6>2. out[p][i] = entry[call[p][i].cid] /\ out[p][i] \in AnchorEntry
            BY <4>1, <6>1 DEF IInv, ReturnedIsFinal
          <6> QED
            BY <6>2, AdapterAssumption
        <5> QED
          BY <5>1, <5>2
      <4> QED
        BY <4>1, <4>2, AskedFacts DEF Asked, WithEntry
    <3>3. C(p)!Succeed
      BY <2>1, <2>3, <3>1, <3>2 DEF C!Succeed, C!chainVars
    <3> QED
      BY <3>3 DEF C!Next
  <2> QED
    BY <2>2, <2>3
<1>6. ASSUME pc[p] = "read", AttemptFails(p), UNCHANGED chainVars
      PROVE  C(p)!Next
  <2>1. UnderWay' = UnderWay /\ entry' = entry
    BY <1>6 DEF chainVars, UnderWay
  <2>2. C(p)!Retry \/ C(p)!GiveUp
    BY <1>6, <2>1, FailureIsRetryOrGiveUp
  <2> QED
    BY <2>2 DEF C!Next
<1>7. CASE ReadEmpty(p)
  <2>1. CASE UNCHANGED <<pc, call, attempt, out>>
    BY <1>1, <1>7, <2>1 DEF ReadEmpty, chainVars
  <2>2. CASE AttemptFails(p)
    BY <1>6, <1>7, <2>2 DEF ReadEmpty
  <2> QED
    BY <1>7, <2>1, <2>2 DEF ReadEmpty
<1>8. CASE ReadFails(p)
  BY <1>6, <1>8 DEF ReadFails
<1> QED
  BY <1>2, <1>3, <1>4, <1>5, <1>7, <1>8 DEF Step

\* A new call.
LEMMA OwnCall ==
    ASSUME IInv, IInv', NEW p \in Client, NEW es \in Request, Call(p, es)
    PROVE  C(p)!Next
<1>1. /\ Returned(p) /\ pc'[p] = "send" /\ call'[p] = es /\ attempt'[p] = 1
      /\ entry' = entry /\ mempool' = mempool
  BY DEF Call, chainVars, IInv, TypeOK
<1>2. Phase(p) = "closed"
  BY <1>1 DEF Phase, Returned
<1>3. /\ Phase(p)' = "submit" /\ AskedNow(p)' = Asked(p)' /\ Answered(p)' = {}
      /\ UnderWay' = UnderWay /\ WithEntry' = WithEntry
  BY <1>1 DEF Phase, AskedNow, Answered, Returned, UnderWay, WithEntry
<1>4. Asked(p)' # {} /\ Asked(p)' \subseteq Cid
  <2>1. es \in Seq(Entry) /\ es # << >>
    BY RequestAssumption
  <2>2. 1 \in DOMAIN es /\ \A i \in DOMAIN es : es[i] \in Entry
    BY <2>1
  <2>3. Asked(p)' = {es[i].cid : i \in DOMAIN es}
    BY <1>1 DEF Asked
  <2> QED
    BY <2>2, <2>3 DEF Entry
<1>5. C(p)!Ask(Asked(p)')
  BY <1>1, <1>2, <1>3, <1>4 DEF C!Ask, C!chainVars
<1> QED
  BY <1>4, <1>5 DEF C!Next

\* The caller dies, or starts from anew.
LEMMA OwnEnd ==
    ASSUME IInv, NEW p \in Client, Ends(p)
    PROVE  C(p)!GiveUp
<1>1. pc'[p] = "idle" /\ attempt'[p] = 0 /\ UNCHANGED <<entry, mempool>>
  BY DEF Ends, IInv, TypeOK, chainVars
<1>2. /\ Phase(p)' = "closed" /\ AskedNow(p)' = {} /\ Answered(p)' = {}
      /\ UnderWay' = UnderWay /\ WithEntry' = WithEntry
  BY <1>1 DEF Phase, AskedNow, Answered, Returned, UnderWay, WithEntry
<1> QED
  BY <1>1, <1>2 DEF C!GiveUp, C!MaybeSubmitted

\* A step of another caller's call.
LEMMA OthersStep ==
    ASSUME IInv, NEW p \in Client, NEW q \in Client, q # p,
           Step(q) \/ Ends(q) \/ \E es \in Request : Call(q, es)
    PROVE  [C(p)!Next]_(C(p)!vars)
<1>1. pc'[p] = pc[p] /\ call'[p] = call[p] /\ attempt'[p] = attempt[p] /\ entry' = entry
  BY DEF Step, Send, SendFails, Confirm, ReadEntry, ReadEmpty, ReadFails,
     AttemptFails, Ends, Call, IInv, TypeOK, chainVars
<1>2. /\ Phase(p)' = Phase(p) /\ AskedNow(p)' = AskedNow(p) /\ Answered(p)' = Answered(p)
      /\ WithEntry' = WithEntry
  BY <1>1, SameCall DEF WithEntry
<1>3. CASE mempool' = mempool
  BY <1>1, <1>2, <1>3 DEF C!vars, C!callVars, C!chainVars, UnderWay
<1>4. CASE pc[q] = "send" /\ \E now \in Time : mempool' = mempool \cup {Sent(q, now)}
  <2>1. UnderWay' = UnderWay \cup {Asked(q)}
    BY <1>4, UnderWayGrows, SentCids
  <2>2. C(p)!SomebodySubmits(Asked(q))
    BY <1>1, <1>2, <2>1 DEF C!SomebodySubmits, C!callVars
  <2>3. Asked(q) \in SUBSET Cid
    BY <1>4, AskedFacts DEF IInv, Progress
  <2> QED
    BY <2>2, <2>3 DEF C!Next
<1> QED
  BY <1>3, <1>4 DEF Step, Send, SendFails, Confirm, ReadEntry, ReadEmpty, ReadFails,
     Ends, Call, chainVars

LEMMA ChainOfClient ==
    ASSUME IInv, NEW p \in Client, NEW t \in mempool, Lands(t) \/ IsLost(t)
    PROVE  C(p)!Next
<1>1. UNCHANGED callVars /\ mempool' = mempool \ {t}
  BY DEF Lands, IsLost
<1>2. /\ Phase(p)' = Phase(p) /\ AskedNow(p)' = AskedNow(p) /\ Answered(p)' = Answered(p)
      /\ attempt'[p] = attempt[p]
  BY <1>1, SameCall DEF callVars
<1>3. CidsOf(t) \in UnderWay /\ UnderWay' \in {UnderWay, UnderWay \ {CidsOf(t)}}
  BY <1>1, UnderWayShrinks
<1>4. CASE Lands(t)
  <2>1. C(p)!Lands(CidsOf(t))
    BY <1>2, <1>3, <1>4, WithEntryGrows DEF C!Lands, C!Leaves, C!callVars
  <2> QED
    BY <1>3, <2>1 DEF C!Next
<1>5. CASE IsLost(t)
  <2>1. WithEntry' = WithEntry
    BY <1>5 DEF IsLost, WithEntry
  <2>2. C(p)!IsLost(CidsOf(t))
    BY <1>2, <1>3, <2>1 DEF C!IsLost, C!Leaves, C!callVars
  <2> QED
    BY <1>3, <2>2 DEF C!Next
<1> QED
  BY <1>4, <1>5

\* Each caller sees the client of RegistryClient: with other callers competing
\* for its CIDs, with requests and transactions lost, it is answered Ok only
\* for CIDs that have an entry, and sends at most max_attempts transactions
\* per call, any of which may land later.
THEOREM AdapterIsClient == Spec => ImplementsClient
<1>1. Init => \A p \in Client : C(p)!Init
  BY DEF Init, C!Init, Phase, AskedNow, Answered, Returned, UnderWay, WithEntry
<1>2. ASSUME IInv, IInv', [Next]_vars, NEW p \in Client
      PROVE  [C(p)!Next]_(C(p)!vars)
  <2>1. ASSUME NEW q \in Client, Step(q) \/ Ends(q) \/ \E es \in Request : Call(q, es)
        PROVE  [C(p)!Next]_(C(p)!vars)
    <3>1. CASE q # p
      BY <1>2, <2>1, <3>1, OthersStep
    <3>2. CASE q = p
      <4>1. Ends(p) => C(p)!Next
        BY <1>2, OwnEnd DEF C!Next
      <4> QED
        BY <1>2, <2>1, <3>2, <4>1, OwnStep, OwnCall
    <3> QED
      BY <3>1, <3>2
  <2>2. ASSUME NEW t \in mempool, Lands(t) \/ IsLost(t)
        PROVE  [C(p)!Next]_(C(p)!vars)
    BY <1>2, <2>2, ChainOfClient
  <2>3. CASE UNCHANGED vars
    <3>1. /\ pc' = pc /\ call' = call /\ attempt' = attempt
          /\ entry' = entry /\ mempool' = mempool
      BY <2>3 DEF vars, callVars, chainVars
    <3> QED
      BY <3>1, SameCall DEF C!vars, C!callVars, C!chainVars, UnderWay, WithEntry
  <2> QED
    BY <1>2, <2>1, <2>2, <2>3 DEF Next
<1>3. IInv /\ IInv' /\ [Next]_vars => \A p \in Client : [C(p)!Next]_(C(p)!vars)
  BY <1>2
<1> QED
  BY <1>1, <1>3, Invariance, PTL DEF Spec, ImplementsClient

===============================================================================

--------------------------- MODULE DedupeStoreProofs ---------------------------
(***************************************************************************)
(* Proofs about DedupeStore, for any number of processes, any hashes and a *)
(* file of any length: typing, that New means durable, that only a torn    *)
(* line makes an open forget, and the refinement of DedupeLedger.          *)
(***************************************************************************)
EXTENDS DedupeStore, TLAPS

-------------------------------------------------------------------------------
(* The file.                                                               *)

\* A write adds one token behind all that was there.
LEMMA AppendsOne ==
    ASSUME file \in Seq(Token), NEW t \in Token, file' = Append(file, t)
    PROVE  /\ file' \in Seq(Token)
           /\ Len(file') = Len(file) + 1
           /\ file'[Len(file')] = t
           /\ \A i \in DOMAIN file : file'[i] = file[i]
           /\ DOMAIN file' = DOMAIN file \cup {Len(file')}
           /\ DOMAIN file = 1..Len(file)
  OBVIOUS

\* What a power loss leaves: the synced tokens, as they were, and of those
\* behind them a prefix, the last perhaps torn.
LEMMA PowerLossLeavesPrefix ==
    ASSUME TypeOK, PowerLoss
    PROVE  /\ file' \in Seq(Token)
           /\ Len(file') \in Nat /\ synced' = Len(file') /\ synced <= synced'
           /\ \A i \in 1..synced : i \in DOMAIN file' /\ file'[i] = file[i]
           /\ Unterminated(file') \/
                ( /\ Len(file') <= Len(file)
                  /\ \A i \in DOMAIN file' : file'[i] = file[i] )
<1> USE DedupeAssumption
<1>1. PICK k \in synced..Len(file), rest \in {<< >>, <<Torn>>} :
         /\ rest # << >> => k < Len(file) /\ file[k + 1] # NL
         /\ file' = SubSeq(file, 1, k) \o rest
  BY DEF PowerLoss
<1>2. file \in Seq(Token) /\ synced \in Nat /\ Len(file) \in Nat /\ k \in Nat /\ synced <= k
      /\ k <= Len(file)
  BY <1>1 DEF TypeOK
<1>3. /\ SubSeq(file, 1, k) \in Seq(Token)
      /\ Len(SubSeq(file, 1, k)) = k
      /\ \A i \in 1..k : SubSeq(file, 1, k)[i] = file[i]
  BY <1>2
<1>4. synced' = Len(file')
  BY DEF PowerLoss
<1>5. CASE rest = << >>
  <2>1. file' = SubSeq(file, 1, k)
    BY <1>1, <1>3, <1>5
  <2> QED
    BY <2>1, <1>2, <1>3, <1>4
<1>6. CASE rest = <<Torn>>
  <2>1. file' = Append(SubSeq(file, 1, k), Torn)
    BY <1>1, <1>3, <1>6
  <2>2. Torn \in Token
    BY DEF Token
  <2>3. /\ file' \in Seq(Token) /\ Len(file') = k + 1 /\ file'[k + 1] = Torn
        /\ \A i \in 1..k : file'[i] = file[i]
    BY <2>1, <2>2, <1>2, <1>3
  <2>4. Unterminated(file')
    BY <2>3, <1>2 DEF Unterminated
  <2> QED
    BY <2>3, <2>4, <1>2, <1>4
<1> QED
  BY <1>1, <1>5, <1>6

-------------------------------------------------------------------------------
(* Typing.                                                                 *)

LEMMA TypeStep == TypeOK /\ Written /\ [Next]_vars => TypeOK'
<1> SUFFICES ASSUME TypeOK, Written, [Next]_vars PROVE TypeOK'
  OBVIOUS
<1> USE DedupeAssumption
<1>0. /\ \A h \in Hash : h \in Token
      /\ NL \in Token /\ Torn \in Token
      /\ \A p \in Process : pc[p] \in {"hash", "newline", "sync"} => cur[p] \in Hash
  BY DEF Token, Written, InLine, TypeOK
<1>1. ASSUME NEW p \in Process, Open(p) PROVE TypeOK'
  BY <1>1 DEF Open, Recovered, WholeLine, TypeOK
<1>2. ASSUME NEW p \in Process, NEW h \in Hash, Duplicate(p, h) PROVE TypeOK'
  BY <1>2 DEF Duplicate, TypeOK, histVars
<1>3. ASSUME NEW p \in Process, NEW h \in Hash, Begin(p, h) PROVE TypeOK'
  BY <1>3 DEF Begin, Remember, TypeOK, histVars
<1>4. ASSUME NEW p \in Process, NEW h \in Hash, BeginFails(p, h) PROVE TypeOK'
  BY <1>4 DEF BeginFails, Remember, TypeOK, histVars
<1> DEFINE Typed(p) ==
      /\ pc' \in [Process -> {"down", "ready", "hash", "newline", "sync"}]
      /\ seen' \in [Process -> SUBSET Hash]
      /\ cur' \in [Process -> Hash \cup {NoHash}]
      /\ answer' \in [Process -> {"none", "new", "duplicate", "error"}]
      /\ known' \in [Process -> SUBSET Hash]
<1>5. ASSUME NEW p \in Process, NEW r \in {"new", "error"}, Returns(p, r) PROVE Typed(p)
  BY <1>5 DEF Returns, TypeOK
<1>6. ASSUME NEW p \in Process, Exit(p) PROVE Typed(p)
  BY <1>6 DEF Exit, TypeOK
<1>7. ASSUME NEW t \in Token, file' = Append(file, t), synced' = synced
      PROVE  file' \in Seq(Token) /\ synced' \in 0..Len(file')
  BY <1>7, AppendsOne DEF TypeOK
<1>8. ASSUME NEW p \in Process, WriteHash(p) PROVE TypeOK'
  BY <1>0, <1>7, <1>8 DEF WriteHash, TypeOK
<1>9. ASSUME NEW p \in Process, WriteHashFails(p) PROVE TypeOK'
  <2>1. Typed(p) /\ taken' = taken /\ synced' = synced
    BY <1>5, <1>9 DEF WriteHashFails
  <2>2. CASE UNCHANGED <<file, torn>>
    BY <2>1, <2>2 DEF TypeOK
  <2>3. CASE file' = Append(file, Torn) /\ torn' = TRUE
    BY <2>1, <2>3, <1>0, <1>7 DEF TypeOK
  <2> QED
    BY <2>2, <2>3, <1>9 DEF WriteHashFails
<1>10. ASSUME NEW p \in Process, WriteNewline(p) PROVE TypeOK'
  BY <1>0, <1>7, <1>10 DEF WriteNewline, TypeOK, histVars
<1>11. ASSUME NEW p \in Process, WriteNewlineFails(p) PROVE TypeOK'
  BY <1>5, <1>11 DEF WriteNewlineFails, TypeOK
<1>12. ASSUME NEW p \in Process, SyncAll(p) PROVE TypeOK'
  BY <1>0, <1>5, <1>12 DEF SyncAll, TypeOK
<1>13. ASSUME NEW p \in Process, SyncAllFails(p) PROVE TypeOK'
  BY <1>5, <1>13 DEF SyncAllFails, TypeOK
<1>14. ASSUME NEW p \in Process, Close(p) PROVE TypeOK'
  BY <1>6, <1>14 DEF Close, Exit, TypeOK
<1>15. ASSUME NEW p \in Process, Killed(p) PROVE TypeOK'
  BY <1>6, <1>15 DEF Killed, Exit, TypeOK
<1>16. ASSUME PowerLoss PROVE TypeOK'
  <2>1. torn' \in BOOLEAN
    BY <1>16 DEF PowerLoss, Unterminated, TypeOK
  <2>2. file' \in Seq(Token) /\ synced' \in 0..Len(file')
    BY <1>16, PowerLossLeavesPrefix
  <2> QED
    BY <2>1, <2>2, <1>16 DEF PowerLoss, TypeOK
<1>17. ASSUME UNCHANGED vars PROVE TypeOK'
  BY <1>17 DEF vars, histVars, TypeOK
<1> HIDE DEF Typed
<1>18. ASSUME NEW p \in Process, Ingest(p) PROVE TypeOK'
  BY <1>2, <1>3, <1>4, <1>8, <1>9, <1>10, <1>11, <1>12, <1>13, <1>18 DEF Ingest
<1> QED
  BY <1>1, <1>14, <1>15, <1>16, <1>17, <1>18 DEF Next

-------------------------------------------------------------------------------
(* How a step changes the file.                                            *)

LEMMA FileStep ==
    ASSUME TypeOK, Written, [Next]_vars
    PROVE  \/ file' = file /\ synced' \in {synced, Len(file)}
           \/ synced' = synced /\ \E t \in Token : file' = Append(file, t)
           \/ PowerLoss
<1> USE DedupeAssumption
<1>0. /\ NL \in Token /\ Torn \in Token
      /\ \A p \in Process : pc[p] = "hash" => cur[p] \in Token
  BY DEF Token, Written, InLine, TypeOK
<1>1. ASSUME NEW p \in Process, Ingest(p)
      PROVE  \/ file' = file /\ synced' \in {synced, Len(file)}
             \/ synced' = synced /\ \E t \in Token : file' = Append(file, t)
  BY <1>0, <1>1 DEF Ingest, Duplicate, Begin, BeginFails, WriteHash, WriteHashFails,
     WriteNewline, WriteNewlineFails, SyncAll, SyncAllFails
<1>2. ASSUME NEW p \in Process, Open(p) \/ Close(p) \/ Killed(p)
      PROVE  file' = file /\ synced' = synced
  BY <1>2 DEF Open, Close, Killed, Exit
<1> QED
  BY <1>1, <1>2 DEF Next, vars

LEMMA SyncedStep ==
    ASSUME TypeOK, Written, [Next]_vars
    PROVE  /\ synced <= synced'
           /\ \A i \in 1..synced : i \in DOMAIN file' /\ file'[i] = file[i]
<1>0. file \in Seq(Token) /\ synced \in 0..Len(file) /\ Len(file) \in Nat
      /\ DOMAIN file = 1..Len(file)
  BY DEF TypeOK
<1>1. CASE file' = file /\ synced' \in {synced, Len(file)}
  BY <1>0, <1>1
<1>2. CASE synced' = synced /\ \E t \in Token : file' = Append(file, t)
  <2>1. PICK t \in Token : file' = Append(file, t)
    BY <1>2
  <2> QED
    BY <1>0, <1>2, <2>1, AppendsOne
<1>3. CASE PowerLoss
  BY <1>3, PowerLossLeavesPrefix
<1> QED
  BY <1>1, <1>2, <1>3, FileStep

\* Every token stays where it is but for a power loss.
LEMMA TokensStay ==
    ASSUME TypeOK, Written, [Next]_vars, ~PowerLoss
    PROVE  \A i \in DOMAIN file : i \in DOMAIN file' /\ file'[i] = file[i]
<1>1. CASE \E t \in Token : file' = Append(file, t)
  <2>1. PICK t \in Token : file' = Append(file, t)
    BY <1>1
  <2> QED
    BY <2>1, AppendsOne DEF TypeOK
<1> QED
  BY <1>1, FileStep

LEMMA TakenStep ==
    ASSUME TypeOK, Written, TakenIsDurable, [Next]_vars
    PROVE  TakenIsDurable'
<1>1. /\ synced <= synced' /\ synced \in Nat /\ synced' \in Nat
      /\ \A i \in 1..synced : file'[i] = file[i]
  BY SyncedStep, TypeStep DEF TypeOK
<1>2. CASE taken' = taken
  BY <1>1, <1>2 DEF TakenIsDurable
<1>3. ASSUME NEW p \in Process, SyncAll(p) PROVE TakenIsDurable'
  <2>1. taken' = taken \cup {cur[p]} /\ synced' = Len(file) /\ file' = file
    BY <1>3 DEF SyncAll
  <2>2. PICK i \in DOMAIN file : file[i] = cur[p]
    BY <1>3 DEF SyncAll, Written
  <2>3. i \in 1..synced'
    BY <2>1 DEF TypeOK
  <2> QED
    BY <1>1, <2>1, <2>2, <2>3 DEF TakenIsDurable
<1>4. taken' = taken \/ \E p \in Process : SyncAll(p)
  BY DEF Next, Ingest, Open, Duplicate, Begin, BeginFails, WriteHash, WriteHashFails,
     WriteNewline, WriteNewlineFails, SyncAllFails, Close, Killed, Exit, PowerLoss,
     vars, histVars
<1> QED
  BY <1>2, <1>3, <1>4

-------------------------------------------------------------------------------
(* Where the processes are.                                                *)

LEMMA WrittenStep ==
    ASSUME TypeOK, Written, [Next]_vars
    PROVE  Written'
<1> USE DedupeAssumption
<1> DEFINE Here(q) ==
      /\ InLine(q) <=> cur[q] # NoHash
      /\ InLine(q) => cur[q] \in seen[q]
      /\ pc[q] \in {"newline", "sync"} => \E i \in DOMAIN file : file[i] = cur[q]
      /\ pc[q] = "down" => seen[q] = {} /\ known[q] = {}
<1> SUFFICES ASSUME NEW q \in Process PROVE Here(q)'
  BY DEF Written
<1>1. Here(q)
  BY DEF Written
<1>2. CASE PowerLoss
  BY <1>2 DEF PowerLoss, InLine
<1>3. CASE ~PowerLoss
  <2>1. \A i \in DOMAIN file : i \in DOMAIN file' /\ file'[i] = file[i]
    BY <1>3, TokensStay
  <2>2. ASSUME pc'[q] = pc[q], cur'[q] = cur[q], seen[q] \subseteq seen'[q],
               pc[q] = "down" => seen'[q] = {} /\ known'[q] = {}
        PROVE  Here(q)'
    BY <1>1, <2>1, <2>2 DEF InLine
  <2>3. ASSUME NEW p \in Process, Open(p) PROVE Here(q)'
    BY <1>1, <2>2, <2>3 DEF Open, InLine, TypeOK
  <2>4. ASSUME NEW p \in Process, NEW h \in Hash,
               Duplicate(p, h) \/ Begin(p, h) \/ BeginFails(p, h)
        PROVE  Here(q)'
    BY <1>1, <2>2, <2>4
       DEF Duplicate, Begin, BeginFails, Remember, InLine, TypeOK, histVars
  <2>5. ASSUME NEW p \in Process, WriteHash(p) PROVE Here(q)'
    <3>1. cur[p] \in Token /\ file \in Seq(Token)
      BY <2>5 DEF WriteHash, Written, InLine, TypeOK, Token
    <3>2. \E i \in DOMAIN file' : file'[i] = cur[p]
      BY <2>5, <3>1, AppendsOne DEF WriteHash
    <3> QED
      BY <1>1, <2>2, <2>5, <3>2 DEF WriteHash, InLine, TypeOK
  <2>6. ASSUME NEW p \in Process, WriteNewline(p) PROVE Here(q)'
    BY <1>1, <2>1, <2>2, <2>6 DEF WriteNewline, InLine, TypeOK, histVars
  <2>7. ASSUME NEW p \in Process, NEW r \in {"new", "error"}, Returns(p, r)
        PROVE  Here(q)'
    BY <1>1, <2>2, <2>7 DEF Returns, InLine, TypeOK
  <2>8. ASSUME NEW p \in Process, Exit(p) PROVE Here(q)'
    BY <1>1, <2>2, <2>8 DEF Exit, InLine, TypeOK
  <2>9. CASE UNCHANGED vars
    BY <1>1, <2>2, <2>9 DEF vars, histVars
  <2> HIDE DEF Here
  <2>10. ASSUME NEW p \in Process, Ingest(p) PROVE Here(q)'
    BY <2>4, <2>5, <2>6, <2>7, <2>10 DEF Ingest, WriteHashFails, WriteNewlineFails,
       SyncAll, SyncAllFails
  <2> QED
    BY <1>3, <2>3, <2>8, <2>9, <2>10 DEF Next, Close, Killed
<1> QED
  BY <1>2, <1>3

-------------------------------------------------------------------------------
(* Whole lines.                                                            *)

\* A hash behind a complete line is a line of its own, so far.
LEMMA HashStartsLine ==
    ASSUME file \in Seq(Token), NEW h \in Hash, file' = Append(file, h),
           \A i \in DOMAIN file : file[i] # NL => WholeLine(file, i),
           ~Unterminated(file)
    PROVE  \A i \in DOMAIN file' : file'[i] # NL => WholeLine(file', i)
<1> SUFFICES ASSUME NEW i \in DOMAIN file', file'[i] # NL PROVE WholeLine(file', i)
  OBVIOUS
<1>1. h \in Token
  BY DEF Token
<1>2. /\ Len(file') = Len(file) + 1 /\ Len(file) \in Nat /\ file'[Len(file')] = h
      /\ \A j \in DOMAIN file : file'[j] = file[j]
      /\ DOMAIN file' = DOMAIN file \cup {Len(file')} /\ DOMAIN file = 1..Len(file)
  BY <1>1, AppendsOne
<1>3. CASE i = Len(file')
  <2>1. CASE file = << >>
    BY <1>2, <1>3, <2>1 DEF WholeLine
  <2>2. CASE file # << >>
    <3>1. file[Len(file)] = NL /\ Len(file) \in DOMAIN file
      BY <1>2, <2>2 DEF Unterminated
    <3> QED
      BY <1>2, <1>3, <3>1 DEF WholeLine
  <2> QED
    BY <2>1, <2>2
<1>4. CASE i \in DOMAIN file
  <2>1. file[i] # NL /\ WholeLine(file, i)
    BY <1>2, <1>4
  <2>2. i # Len(file)
    BY <1>2, <1>4, <2>1 DEF Unterminated
  <2>3. i + 1 \in DOMAIN file /\ (i # 1 => i - 1 \in DOMAIN file)
    BY <1>2, <1>4, <2>2
  <2> QED
    BY <1>2, <1>4, <2>1, <2>2, <2>3 DEF WholeLine
<1> QED
  BY <1>2, <1>3, <1>4

LEMMA NewlineEndsLine ==
    ASSUME file \in Seq(Token), file' = Append(file, NL),
           \A i \in DOMAIN file : file[i] # NL => WholeLine(file, i)
    PROVE  /\ \A i \in DOMAIN file' : file'[i] # NL => WholeLine(file', i)
           /\ ~Unterminated(file')
<1>1. NL \in Token
  BY DEF Token
<1>2. /\ Len(file') = Len(file) + 1 /\ Len(file) \in Nat /\ file'[Len(file')] = NL
      /\ \A j \in DOMAIN file : file'[j] = file[j]
      /\ DOMAIN file' = DOMAIN file \cup {Len(file')} /\ DOMAIN file = 1..Len(file)
  BY <1>1, AppendsOne
<1>3. ASSUME NEW i \in DOMAIN file', file'[i] # NL PROVE WholeLine(file', i)
  <2>1. i \in DOMAIN file /\ WholeLine(file, i)
    BY <1>2, <1>3
  <2>2. i # 1 => i - 1 \in DOMAIN file
    BY <1>2, <2>1
  <2>3. CASE i = Len(file)
    BY <1>2, <2>1, <2>2, <2>3 DEF WholeLine
  <2>4. CASE i # Len(file)
    <3>1. i + 1 \in DOMAIN file
      BY <1>2, <2>1, <2>4
    <3> QED
      BY <1>2, <2>1, <2>2, <2>4, <3>1 DEF WholeLine
  <2> QED
    BY <2>3, <2>4
<1> QED
  BY <1>2, <1>3 DEF Unterminated

LEMMA PrefixKeepsLines ==
    ASSUME TypeOK, PowerLoss, ~Unterminated(file'),
           \A i \in DOMAIN file : file[i] # NL => WholeLine(file, i)
    PROVE  \A i \in DOMAIN file' : file'[i] # NL => WholeLine(file', i)
<1> SUFFICES ASSUME NEW i \in DOMAIN file', file'[i] # NL PROVE WholeLine(file', i)
  OBVIOUS
<1>1. /\ Len(file') \in Nat /\ Len(file) \in Nat /\ Len(file') <= Len(file)
      /\ \A j \in DOMAIN file' : file'[j] = file[j]
      /\ DOMAIN file' = 1..Len(file') /\ DOMAIN file = 1..Len(file)
  BY PowerLossLeavesPrefix DEF TypeOK
<1>2. WholeLine(file, i)
  BY <1>1
<1>3. i # Len(file')
  BY <1>1 DEF Unterminated
<1>4. i + 1 \in DOMAIN file' /\ i # Len(file) /\ (i # 1 => i - 1 \in DOMAIN file')
  BY <1>1, <1>3
<1> QED
  BY <1>1, <1>2, <1>4 DEF WholeLine

LEMMA LinesStep ==
    ASSUME TypeOK, Written, LinesAreWhole, [Next]_vars
    PROVE  LinesAreWhole'
<1> USE DedupeAssumption
<1> SUFFICES ASSUME ~torn' PROVE LinesAreWhole'
  BY DEF LinesAreWhole
<1>1. ~torn
  BY DEF Next, Ingest, Open, Duplicate, Begin, BeginFails, WriteHash, WriteHashFails,
     WriteNewline, WriteNewlineFails, SyncAll, SyncAllFails, Close, Killed, PowerLoss,
     vars, histVars
<1>2. /\ \A i \in DOMAIN file : file[i] # NL => WholeLine(file, i)
      /\ Unterminated(file) => \E p \in Process : pc[p] = "newline"
      /\ \A p, q \in Process : pc[p] = "newline" /\ pc[q] = "newline" => p = q
  BY <1>1 DEF LinesAreWhole
<1>3. ASSUME file' = file,
             \A p \in Process : pc'[p] = "newline" <=> pc[p] = "newline"
      PROVE  LinesAreWhole'
  BY <1>2, <1>3 DEF LinesAreWhole
<1>4. ASSUME NEW p \in Process, Open(p) PROVE LinesAreWhole'
  BY <1>3, <1>4 DEF Open, TypeOK
<1>5. ASSUME NEW p \in Process, NEW h \in Hash,
             Duplicate(p, h) \/ Begin(p, h) \/ BeginFails(p, h)
      PROVE  LinesAreWhole'
  BY <1>3, <1>5 DEF Duplicate, Begin, BeginFails, Remember, TypeOK
<1>6. ASSUME NEW p \in Process, WriteHash(p) PROVE LinesAreWhole'
  <2>1. cur[p] \in Hash /\ file \in Seq(Token)
    BY <1>6 DEF WriteHash, Written, InLine, TypeOK
  <2>2. \A q \in Process : pc[q] # "newline"
    BY <1>6 DEF WriteHash
  <2>3. \A i \in DOMAIN file' : file'[i] # NL => WholeLine(file', i)
    BY <1>2, <1>6, <2>1, <2>2, HashStartsLine DEF WriteHash
  <2>4. \A q \in Process : pc'[q] = "newline" <=> q = p
    BY <1>6, <2>2 DEF WriteHash, TypeOK
  <2> QED
    BY <2>3, <2>4 DEF LinesAreWhole
<1>7. ASSUME NEW p \in Process, WriteNewline(p) PROVE LinesAreWhole'
  <2>1. /\ \A i \in DOMAIN file' : file'[i] # NL => WholeLine(file', i)
        /\ ~Unterminated(file')
    BY <1>2, <1>7, NewlineEndsLine DEF WriteNewline, TypeOK
  <2>2. \A q \in Process : pc'[q] = "newline" => pc[q] = "newline"
    BY <1>7 DEF WriteNewline, TypeOK
  <2> QED
    BY <1>2, <2>1, <2>2 DEF LinesAreWhole
<1>8. ASSUME NEW p \in Process, WriteHashFails(p) PROVE LinesAreWhole'
  BY <1>3, <1>8 DEF WriteHashFails, Returns, TypeOK
<1>9. ASSUME NEW p \in Process, SyncAll(p) \/ SyncAllFails(p) PROVE LinesAreWhole'
  BY <1>3, <1>9 DEF SyncAll, SyncAllFails, Returns, TypeOK
<1>10. ASSUME NEW p \in Process, Close(p) \/ Killed(p) PROVE LinesAreWhole'
  BY <1>3, <1>10 DEF Close, Killed, Exit, TypeOK
<1>11. CASE PowerLoss
  <2>1. ~Unterminated(file')
    BY <1>11 DEF PowerLoss
  <2>2. \A q \in Process : pc'[q] = "down"
    BY <1>11 DEF PowerLoss
  <2> QED
    BY <1>2, <1>11, <2>1, <2>2, PrefixKeepsLines DEF LinesAreWhole
<1>12. CASE UNCHANGED vars
  BY <1>3, <1>12 DEF vars
<1>13. ASSUME NEW p \in Process, Ingest(p) PROVE LinesAreWhole'
  BY <1>5, <1>6, <1>7, <1>8, <1>9, <1>13 DEF Ingest, WriteNewlineFails
<1> QED
  BY <1>4, <1>10, <1>11, <1>12, <1>13 DEF Next

-------------------------------------------------------------------------------
(* What an open finds.                                                     *)

LEMMA WholeLinesAreRecovered ==
    TypeOK /\ TakenIsDurable /\ LinesAreWhole => UntornRemembers
<1> SUFFICES ASSUME TypeOK, TakenIsDurable, LinesAreWhole, ~torn, NEW h \in taken
             PROVE  h \in Recovered(file)
  BY DEF UntornRemembers
<1>1. PICK i \in 1..synced : file[i] = h
  BY DEF TakenIsDurable
<1>2. i \in DOMAIN file /\ h # NL
  BY DedupeAssumption DEF TypeOK
<1> QED
  BY <1>1, <1>2 DEF LinesAreWhole, Recovered

LEMMA KnownStep ==
    ASSUME IInv, [Next]_vars
    PROVE  KnownIsSeen'
<1> USE DedupeAssumption
<1> DEFINE Here(q) == known[q] \subseteq seen[q] /\ cur[q] \notin known[q]
<1> SUFFICES ASSUME ~torn', NEW q \in Process PROVE Here(q)'
  BY DEF KnownIsSeen
<1>1. ~torn
  BY DEF Next, Ingest, Open, Duplicate, Begin, BeginFails, WriteHash, WriteHashFails,
     WriteNewline, WriteNewlineFails, SyncAll, SyncAllFails, Close, Killed, PowerLoss,
     vars, histVars
<1>2. Here(q) /\ TypeOK
  BY <1>1 DEF IInv, KnownIsSeen
<1>3. NoHash \notin known'[q] /\ NoHash \notin taken
  BY TypeStep DEF IInv, TypeOK
<1>4. ASSUME known'[q] = known[q], seen[q] \subseteq seen'[q], cur'[q] \in {cur[q], NoHash}
      PROVE  Here(q)'
  BY <1>2, <1>3, <1>4
<1>5. ASSUME NEW p \in Process, Open(p) PROVE Here(q)'
  <2>1. CASE q = p
    <3>1. cur[q] = NoHash
      BY <1>5, <2>1 DEF Open, IInv, Written, InLine
    <3>2. known'[q] = taken /\ seen'[q] = Recovered(file) /\ cur'[q] = NoHash
      BY <1>2, <1>5, <2>1, <3>1 DEF Open, TypeOK
    <3> QED
      BY <1>1, <1>3, <3>2 DEF IInv, UntornRemembers
  <2>2. CASE q # p
    BY <1>2, <1>4, <1>5, <2>2 DEF Open, TypeOK
  <2> QED
    BY <2>1, <2>2
<1>6. ASSUME NEW p \in Process, NEW h \in Hash, Begin(p, h) PROVE Here(q)'
  BY <1>2, <1>6 DEF Begin, Remember, TypeOK, histVars
<1>7. ASSUME NEW p \in Process, NEW h \in Hash, Duplicate(p, h) \/ BeginFails(p, h)
      PROVE  Here(q)'
  BY <1>2, <1>4, <1>7 DEF Duplicate, BeginFails, Remember, TypeOK, histVars
<1>8. ASSUME NEW p \in Process, WriteHash(p) \/ WriteNewline(p) PROVE Here(q)'
  BY <1>4, <1>8 DEF WriteHash, WriteNewline, histVars
<1>9. ASSUME NEW p \in Process, NEW r \in {"new", "error"}, Returns(p, r) PROVE Here(q)'
  BY <1>2, <1>4, <1>9 DEF Returns, TypeOK
<1>10. ASSUME NEW p \in Process, Exit(p) PROVE Here(q)'
  BY <1>2, <1>3, <1>4, <1>10 DEF Exit, TypeOK
<1>11. CASE PowerLoss
  BY <1>11 DEF PowerLoss
<1>12. CASE UNCHANGED vars
  BY <1>4, <1>12 DEF vars, histVars
<1> HIDE DEF Here
<1>13. ASSUME NEW p \in Process, Ingest(p) PROVE Here(q)'
  BY <1>6, <1>7, <1>8, <1>9, <1>13 DEF Ingest, WriteHashFails, WriteNewlineFails,
     SyncAll, SyncAllFails
<1> QED
  BY <1>5, <1>10, <1>11, <1>12, <1>13 DEF Next, Close, Killed

\* The inductive invariant of the store: what is durable, where each process is
\* in its line, which lines are whole, and what each process has read.
THEOREM Invariance == Spec => []IInv
<1>1. Init => IInv
  <2> SUFFICES ASSUME Init PROVE IInv
    OBVIOUS
  <2>1. TypeOK
    <3>1. file \in Seq(Token) /\ synced \in 0..Len(file)
      BY DEF Init
    <3> QED
      BY <3>1 DEF Init, TypeOK
  <2>2. TakenIsDurable /\ UntornRemembers /\ KnownIsSeen
    BY DedupeAssumption DEF Init, TakenIsDurable, UntornRemembers, KnownIsSeen
  <2>3. Written
    BY DEF Init, Written, InLine
  <2>4. LinesAreWhole
    BY DEF Init, LinesAreWhole, Unterminated
  <2> QED
    BY <2>1, <2>2, <2>3, <2>4 DEF IInv
<1>2. IInv /\ [Next]_vars => IInv'
  <2> SUFFICES ASSUME IInv, [Next]_vars PROVE IInv'
    OBVIOUS
  <2>1. TypeOK' /\ TakenIsDurable' /\ Written' /\ LinesAreWhole' /\ KnownIsSeen'
    BY TypeStep, TakenStep, WrittenStep, LinesStep, KnownStep DEF IInv
  <2>2. (TypeOK /\ TakenIsDurable /\ LinesAreWhole => UntornRemembers)'
    BY WholeLinesAreRecovered, PTL
  <2> QED
    BY <2>1, <2>2 DEF IInv
<1> QED
  BY <1>1, <1>2, PTL DEF Spec

\* Every variable of the store keeps its type, whatever fails.
THEOREM Typing == Spec => []TypeOK
<1>1. IInv => TypeOK
  BY DEF IInv
<1> QED
  BY <1>1, Invariance, PTL

\* An envelope that ingest answered New is on the disk, not only in the file.
THEOREM NewIsDurable == Spec => []TakenIsDurable
<1>1. IInv => TakenIsDurable
  BY DEF IInv
<1> QED
  BY <1>1, Invariance, PTL

\* Only a torn line makes an open forget an envelope that was answered New.
THEOREM Remembering == Spec => []UntornRemembers
<1>1. IInv => UntornRemembers
  BY DEF IInv
<1> QED
  BY <1>1, Invariance, PTL

\* While no line is torn, a batch tool does not take an envelope again that
\* was answered New before it opened the store.
THEOREM StaleReaders == Spec => NewAgainOnlyByStaleReader
<1>1. IInv => \A p \in Process : torn \/ cur[p] \notin known[p]
  BY DEF IInv, KnownIsSeen
<1>2. IInv => [\A p \in Process : SyncAll(p) => torn \/ cur[p] \notin known[p]]_vars
  BY <1>1
<1> QED
  BY <1>2, Invariance, PTL DEF NewAgainOnlyByStaleReader

\* A process that is alone has seen what was taken: what it took itself, and what
\* it found when it opened the file, which is all as long as no line is torn.
LEMMA AloneStep ==
    ASSUME IInv, AloneHasSeenAll, [Next]_vars
    PROVE  AloneHasSeenAll'
<1> USE DedupeAssumption
<1> SUFFICES ASSUME ~torn', NEW p \in Process, Process = {p}, Up(p)'
             PROVE  taken' \subseteq seen'[p] /\ cur'[p] \notin taken'
  BY DEF AloneHasSeenAll, Up
<1>1. ~torn
  BY DEF Next, Ingest, Open, Duplicate, Begin, BeginFails, WriteHash, WriteHashFails,
     WriteNewline, WriteNewlineFails, SyncAll, SyncAllFails, Close, Killed, PowerLoss,
     vars, histVars
<1>2. TypeOK /\ TypeOK' /\ NoHash \notin taken /\ NoHash \notin taken'
  BY TypeStep DEF IInv, TypeOK
<1>3. pc[p] # "down" => taken \subseteq seen[p] /\ cur[p] \notin taken
  BY <1>1 DEF AloneHasSeenAll, Up
<1>4. CASE Open(p)
  <2>1. taken' = taken /\ seen'[p] = Recovered(file) /\ cur'[p] = NoHash
    BY <1>2, <1>4 DEF Open, IInv, Written, InLine, TypeOK
  <2>2. taken \subseteq Recovered(file)
    BY <1>1 DEF IInv, UntornRemembers
  <2> QED
    BY <1>2, <2>1, <2>2
<1>5. CASE pc[p] # "down" /\ taken' = taken /\ seen[p] \subseteq seen'[p]
           /\ cur'[p] \in {cur[p], NoHash}
  BY <1>2, <1>3, <1>5
<1>6. ASSUME NEW h \in Hash, Begin(p, h) PROVE taken' \subseteq seen'[p] /\ cur'[p] \notin taken'
  <2>1. /\ pc[p] # "down" /\ h \notin seen[p] /\ taken' = taken
        /\ seen'[p] = seen[p] \cup {h} /\ cur'[p] = h
    BY <1>2, <1>6 DEF Begin, Remember, TypeOK, histVars
  <2> QED
    BY <1>3, <2>1
<1>7. CASE SyncAll(p)
  <2>1. /\ pc[p] # "down" /\ cur[p] \in seen[p] /\ taken' = taken \cup {cur[p]}
        /\ seen'[p] = seen[p] /\ cur'[p] = NoHash
    BY <1>2, <1>7 DEF SyncAll, Returns, IInv, Written, InLine, TypeOK
  <2> QED
    BY <1>2, <1>3, <2>1
<1>8. ASSUME NEW h \in Hash, Duplicate(p, h) \/ BeginFails(p, h)
      PROVE  taken' \subseteq seen'[p] /\ cur'[p] \notin taken'
  BY <1>2, <1>5, <1>8 DEF Duplicate, BeginFails, Remember, TypeOK, histVars
<1>9. CASE WriteHash(p) \/ WriteNewline(p)
  BY <1>5, <1>9 DEF WriteHash, WriteNewline, histVars
<1>10. CASE WriteHashFails(p) \/ WriteNewlineFails(p) \/ SyncAllFails(p)
  <2>1. Returns(p, "error") /\ pc[p] # "down" /\ taken' = taken
    BY <1>10 DEF WriteHashFails, WriteNewlineFails, SyncAllFails
  <2> QED
    BY <1>2, <1>5, <2>1 DEF Returns, TypeOK
<1>11. ~Close(p) /\ ~Killed(p) /\ ~PowerLoss
  BY <1>2 DEF Close, Killed, Exit, PowerLoss, Up, TypeOK
<1>12. CASE UNCHANGED vars
  BY <1>3, <1>12 DEF vars, histVars, Up
<1> QED
  BY <1>4, <1>6, <1>7, <1>8, <1>9, <1>10, <1>11, <1>12 DEF Next, Ingest

\* A batch tool that has its ledger for itself answers New once, whatever
\* restarts and failures there are, as long as no line is torn.
THEOREM AloneTakesOnce == Spec => AloneNewOnlyOnce
<1>1. Init => AloneHasSeenAll
  BY DEF Init, AloneHasSeenAll, Up
<1>2. IInv /\ AloneHasSeenAll /\ [Next]_vars => AloneHasSeenAll'
  BY AloneStep
<1>3. AloneHasSeenAll
        => [\A p \in Process : SyncAll(p) /\ Process = {p} => torn \/ cur[p] \notin taken]_vars
  BY DEF AloneHasSeenAll, SyncAll, Up
<1> QED
  BY <1>1, <1>2, <1>3, Invariance, PTL DEF Spec, AloneNewOnlyOnce

\* The file is only appended to, and its durable part stays.
THEOREM AppendOnly == Spec => SyncedStays
<1>1. IInv /\ [Next]_vars =>
         [/\ synced <= synced'
          /\ \A i \in 1..synced : i \in DOMAIN file' /\ file'[i] = file[i]]_vars
  BY SyncedStep DEF IInv
<1> QED
  BY <1>1, Invariance, PTL DEF Spec, SyncedStays

-------------------------------------------------------------------------------
(* The ledger.                                                             *)

LEMMA LedgerInit == Init => L!Init
  BY DEF Init, L!Init, Recovered

\* While no line is torn, what an open would find changes only by the hash that
\* is being written, and in a power loss.
LEMMA RecoveredIsTokens ==
    ASSUME TypeOK, LinesAreWhole, ~torn
    PROVE  Recovered(file) = {file[i] : i \in DOMAIN file} \ {NL}
  BY DedupeAssumption DEF LinesAreWhole, Recovered, WholeLine

\* The same one step later.
LEMMA RecoveredIsTokensNext ==
    (TypeOK /\ LinesAreWhole /\ ~torn =>
        Recovered(file) = {file[i] : i \in DOMAIN file} \ {NL})'
<1>1. TypeOK /\ LinesAreWhole /\ ~torn =>
        Recovered(file) = {file[i] : i \in DOMAIN file} \ {NL}
  BY RecoveredIsTokens
<1> QED
  BY <1>1, PTL

\* A write adds its token to those of the file.
LEMMA AppendsToken ==
    ASSUME file \in Seq(Token), NEW t \in Token, file' = Append(file, t)
    PROVE  {file'[i] : i \in DOMAIN file'} = {file[i] : i \in DOMAIN file} \cup {t}
<1>1. /\ file'[Len(file')] = t
      /\ \A i \in DOMAIN file : file'[i] = file[i]
      /\ DOMAIN file' = DOMAIN file \cup {Len(file')}
  BY AppendsOne
<1>2. ASSUME NEW x PROVE x \in {file'[i] : i \in DOMAIN file'}
                          <=> x \in {file[i] : i \in DOMAIN file} \cup {t}
  BY <1>1
<1> QED
  BY <1>2

LEMMA LedgerStep == IInv /\ [Next]_vars => [torn' \/ L!Next]_(L!vars)
<1> SUFFICES ASSUME IInv, [Next]_vars, ~torn'
             PROVE  L!Next \/ UNCHANGED L!vars
  OBVIOUS
<1> USE DedupeAssumption
<1>0. ~torn
  BY DEF Next, Ingest, Open, Duplicate, Begin, BeginFails, WriteHash, WriteHashFails,
     WriteNewline, WriteNewlineFails, SyncAll, SyncAllFails, Close, Killed, PowerLoss,
     vars, histVars
<1>1. ~torn /\ TypeOK /\ TypeOK' /\ LinesAreWhole /\ LinesAreWhole' /\ TakenIsDurable'
      /\ Written
  BY <1>0, TypeStep, LinesStep, TakenStep DEF IInv
<1>2. /\ Recovered(file) = {file[i] : i \in DOMAIN file} \ {NL}
      /\ Recovered(file') = {file'[i] : i \in DOMAIN file'} \ {NL}
  BY <1>0, <1>1, RecoveredIsTokens, RecoveredIsTokensNext
<1>3. ASSUME NEW p \in Process, Open(p) PROVE L!Next
  <2>1. L!Open(p)
    BY <1>3 DEF Open, L!Open
  <2> QED
    BY <2>1 DEF L!Next
<1>4. ASSUME NEW p \in Process, NEW h \in Hash, Remember(p, h), file' = file, taken' = taken
      PROVE  L!Next
  <2>1. L!Remember(p, h)
    BY <1>4 DEF Remember, L!Remember
  <2> QED
    BY <2>1 DEF L!Next
<1>5. ASSUME NEW p \in Process, WriteHash(p) PROVE L!Next
  <2>1. cur[p] \in Hash /\ cur[p] \in seen[p] /\ cur[p] \in Token
    BY <1>1, <1>5 DEF WriteHash, Written, InLine, TypeOK, Token
  <2>2. Recovered(file') = Recovered(file) \cup {cur[p]}
    <3>1. {file'[i] : i \in DOMAIN file'} = {file[i] : i \in DOMAIN file} \cup {cur[p]}
      BY <1>1, <1>5, <2>1, AppendsToken DEF WriteHash, TypeOK
    <3>2. cur[p] # NL
      BY <2>1
    <3> QED
      BY <1>2, <3>1, <3>2
  <2>3. L!Store(p, cur[p])
    BY <1>5, <2>1, <2>2 DEF WriteHash, L!Store
  <2> QED
    BY <2>1, <2>3 DEF L!Next
<1>6. ASSUME NEW p \in Process, WriteNewline(p) PROVE UNCHANGED L!vars
  <2>1. NL \in Token
    BY DEF Token
  <2>2. {file'[i] : i \in DOMAIN file'} = {file[i] : i \in DOMAIN file} \cup {NL}
    BY <1>1, <1>6, <2>1, AppendsToken DEF WriteNewline, TypeOK
  <2>3. Recovered(file') = Recovered(file)
    BY <1>2, <2>2
  <2> QED
    BY <1>6, <2>3 DEF WriteNewline, L!vars, histVars
<1>7. ASSUME NEW p \in Process, SyncAll(p) PROVE L!Next
  <2>1. cur[p] \in Hash /\ cur[p] \in seen[p] /\ cur[p] # NL
    <3>1. cur[p] \in Hash \cup {NoHash} /\ cur[p] # NoHash /\ cur[p] \in seen[p]
      BY <1>1, <1>7 DEF SyncAll, Written, InLine, TypeOK
    <3> QED
      BY <3>1
  <2>2. cur[p] \in Recovered(file)
    <3>1. PICK i \in DOMAIN file : file[i] = cur[p]
      BY <1>1, <1>7 DEF SyncAll, Written
    <3> QED
      BY <1>2, <2>1, <3>1
  <2>3. L!Take(p, cur[p])
    BY <1>7, <2>1, <2>2 DEF SyncAll, Returns, L!Take
  <2> QED
    BY <2>1, <2>3 DEF L!Next
<1>8. ASSUME NEW p \in Process, Exit(p) PROVE L!Next
  <2>1. L!Stop(p)
    BY <1>8 DEF Exit, L!Stop
  <2> QED
    BY <2>1 DEF L!Next
<1>9. CASE PowerLoss
  <2>1. /\ DOMAIN file' \subseteq DOMAIN file
        /\ \A i \in DOMAIN file' : file'[i] = file[i]
    <3>1. ~Unterminated(file')
      BY <1>9 DEF PowerLoss
    <3>2. Len(file') \in Nat /\ Len(file) \in Nat /\ Len(file') <= Len(file)
          /\ \A i \in DOMAIN file' : file'[i] = file[i]
      BY <1>1, <1>9, <3>1, PowerLossLeavesPrefix DEF TypeOK
    <3>3. DOMAIN file' = 1..Len(file') /\ DOMAIN file = 1..Len(file)
      BY <1>1 DEF TypeOK
    <3> QED
      BY <3>2, <3>3
  <2>2. Recovered(file') \subseteq Recovered(file)
    <3>1. ASSUME NEW h \in Recovered(file') PROVE h \in Recovered(file)
      <4>1. PICK i \in DOMAIN file' : file'[i] = h /\ h # NL
        BY <1>2
      <4> QED
        BY <1>2, <2>1, <4>1
    <3> QED
      BY <3>1
  <2>3. taken' \subseteq Recovered(file')
    <3>1. \A h \in taken' : h # NL
      BY <1>1 DEF TypeOK
    <3>2. \A i \in 1..synced' : i \in DOMAIN file'
      BY <1>1 DEF TypeOK
    <3> QED
      BY <1>1, <1>2, <3>1, <3>2 DEF TakenIsDurable
  <2>4. L!Lose
    BY <1>9, <2>2, <2>3 DEF PowerLoss, L!Lose
  <2> QED
    BY <2>4 DEF L!Next
<1>10. ASSUME UNCHANGED <<file, seen, taken>> PROVE UNCHANGED L!vars
  BY <1>10 DEF L!vars
<1>11. ASSUME NEW p \in Process, Ingest(p) PROVE L!Next \/ UNCHANGED L!vars
  BY <1>4, <1>5, <1>6, <1>7, <1>10, <1>11 DEF Ingest, Duplicate, Begin, BeginFails,
     WriteHashFails, WriteNewlineFails, SyncAllFails, Returns, histVars
<1> QED
  BY <1>3, <1>8, <1>9, <1>10, <1>11 DEF Next, Close, Killed, vars, histVars

\* The store is the durable set of hashes that BatchLoop works with, for as
\* long as no line is torn.
THEOREM LedgerRefinement == Spec => ImplementsLedger
  BY LedgerInit, LedgerStep, Invariance, PTL DEF Spec, ImplementsLedger
===============================================================================

------------------------------ MODULE SmpProofs ------------------------------
(***************************************************************************)
(* Proofs about Smp for any number of cores and of chunks: its types, and  *)
(* that the join sums every chunk exactly once.                            *)
(*                                                                         *)
(* The argument: the chunks taken so far are those below CHUNK, and each   *)
(* is owned by one core (Owned), which works on it or has added it to its  *)
(* PARTIAL.  DONE is the number of chunks that are taken and in no core's  *)
(* hands (Counted), so that when it is N there is no other (Wait).  From   *)
(* then on the owners' PARTIALs are what the sum needs (Summed).           *)
(***************************************************************************)
EXTENDS Smp, FiniteSetTheorems, TLAPS

Busy == {"work", "count"}

\* The types of everything but DONE.
Types ==
  /\ pc \in [Core -> Stages]
  /\ gen \in 0 .. 1
  /\ chunk \in Nat /\ nchunks \in {0, N}
  /\ partial \in [Core -> [Chunk -> 0 .. 1]]
  /\ seen \in [Worker -> 0 .. 1]
  /\ event \in [Worker -> BOOLEAN]
  /\ n \in [Core -> {0, N}]
  /\ mine \in [Core -> Chunk]
  /\ left \subseteq Core
  /\ sum \in [Chunk -> Nat]

\* Nobody takes a chunk before the job is published.
Phase ==
  /\ gen = 0 <=> pc[Primary] \in {"reset", "size", "publish"}
  /\ pc[Primary] \notin {"reset", "size"} => nchunks = N
  /\ gen = 0 => chunk = 0
  /\ \A w \in Worker : seen[w] # 0 => gen = 1
  /\ \A k \in Core : pc[k] \in {"note", "load", "take"} \cup Busy => gen = 1
  /\ \A k \in Core : pc[k] \in {"take"} \cup Busy => n[k] = N

Owns(k, c) == partial[k][c] = 1 \/ (pc[k] = "work" /\ mine[k] = c)

Owned ==
  /\ \A k \in Core : pc[k] = "work" => partial[k][mine[k]] = 0
  /\ \A k \in Core : pc[k] = "count" => partial[k][mine[k]] = 1
  /\ \A k \in Core, c \in Chunk : Owns(k, c) => c < chunk
  /\ \A k, j \in Core, c \in Chunk : Owns(k, c) /\ Owns(j, c) => k = j
  /\ \A c \in Chunk : c < chunk => \E k \in Core : Owns(k, c)

\* The chunks that are taken and finished.
Finished == { c \in Chunk : c < chunk /\ \A k \in Core : pc[k] \in Busy => mine[k] # c }

Counted == done = Cardinality(Finished)

Summed ==
  IF pc[Primary] \in {"sum", "joined"}
  THEN /\ Finished = Chunk
       /\ \A c \in Chunk :
            sum[c] = IF \E k \in Core \ left : partial[k][c] = 1 THEN 1 ELSE 0
       /\ pc[Primary] = "joined" => left = {}
  ELSE sum = Empty

Inv == Types /\ Phase /\ Owned /\ Counted /\ Summed

PrimaryIsCore == Primary \in Core /\ Primary \notin Worker /\ Worker \subseteq Core
-----------------------------------------------------------------------------
LEMMA Cores == PrimaryIsCore /\ N \in Nat /\ N > 0 /\ 0 \in Chunk /\ Chunk \subseteq Nat
BY SmpAssumption DEF PrimaryIsCore, Core, Chunk

LEMMA InitInv == Init => Inv
<1> SUFFICES ASSUME Init PROVE Inv
  OBVIOUS
<1>1. Types
  BY Cores DEF Init, Types, Stages, Empty, PrimaryIsCore
<1>2. Phase
  BY Cores DEF Init, Phase, Busy, PrimaryIsCore, Core
<1>3. Owned
  BY Cores DEF Init, Owned, Owns, Empty
<1>4. Finished = {}
  <2>1. \A c \in Chunk : ~(c < chunk)
    BY Cores DEF Init
  <2> QED
    BY <2>1 DEF Finished
<1>5. Counted
  BY <1>4, FS_EmptySet DEF Init, Counted
<1>6. Summed
  BY Cores DEF Init, Summed, PrimaryIsCore
<1> QED
  BY <1>1, <1>2, <1>3, <1>5, <1>6 DEF Inv

\* Every step leaves the types and the phases as they are.
LEMMA NextTypes == Types /\ Phase /\ Owned /\ [Next]_vars => Types' /\ Phase'
<1> SUFFICES ASSUME Types, Phase, Owned, [Next]_vars PROVE Types' /\ Phase'
  OBVIOUS
<1> USE Cores DEF PrimaryIsCore, Types, Stages, Goto
<1>1. CASE Reset
  BY <1>1 DEF Reset, Phase, Busy
<1>2. CASE SetSize
  BY <1>2 DEF SetSize, Phase, Busy, Empty
<1>3. CASE Publish
  BY <1>3 DEF Publish, Phase, Busy
<1>4. CASE Sev
  BY <1>4 DEF Sev, Phase, Busy
<1>5. CASE Wait
  BY <1>5 DEF Wait, Phase, Busy
<1>6. CASE Add
  <2>1. PICK k \in left : left' = left \ {k} /\ sum' = [c \in Chunk |-> sum[c] + partial[k][c]]
    BY <1>6 DEF Add
  <2>2. \A c \in Chunk : partial[k][c] \in Nat /\ sum[c] \in Nat
    BY <2>1
  <2>3. sum' \in [Chunk -> Nat]
    BY <2>1, <2>2
  <2> QED
    BY <1>6, <2>1, <2>3 DEF Add, Phase, Busy
<1>7. ASSUME NEW k \in Core, Load(k) PROVE Types' /\ Phase'
  BY <1>7 DEF Load, Phase, Busy
<1>8. ASSUME NEW k \in Core, Take(k) PROVE Types' /\ Phase'
  <2>1. chunk < n[k] => chunk \in Chunk
    BY <1>8, SmpAssumption DEF Take, Phase, Chunk
  <2>2. Types'
    <3>1. CASE chunk < n[k]
      <4>1. mine' = [mine EXCEPT ![k] = chunk] /\ pc' = [pc EXCEPT ![k] = "work"]
        BY <1>8, <3>1 DEF Take
      <4>2. mine' \in [Core -> Chunk] /\ pc' \in [Core -> Stages]
        BY <2>1, <3>1, <4>1
      <4>3. chunk' \in Nat
        BY <1>8 DEF Take
      <4> QED
        BY <1>8, <4>2, <4>3 DEF Take
    <3>2. CASE ~(chunk < n[k])
      BY <1>8, <3>2 DEF Take
    <3> QED
      BY <3>1, <3>2
  <2>3. Phase'
    BY <1>8 DEF Take, Phase, Busy
  <2> QED
    BY <2>2, <2>3
<1>9. ASSUME NEW k \in Core, Work(k) PROVE Types' /\ Phase'
  <2>1. partial[k][mine[k]] + 1 = 1
    BY <1>9 DEF Work, Owned
  <2>2. partial' \in [Core -> [Chunk -> 0 .. 1]]
    BY <1>9, <2>1 DEF Work
  <2> QED
    BY <1>9, <2>2 DEF Work, Phase, Busy
<1>10. ASSUME NEW k \in Core, Count(k) PROVE Types' /\ Phase'
  BY <1>10 DEF Count, Phase, Busy
<1>11. ASSUME NEW w \in Worker, ComeUp(w) PROVE Types' /\ Phase'
  BY <1>11 DEF ComeUp, Phase, Busy
<1>12. ASSUME NEW w \in Worker, Look(w) PROVE Types' /\ Phase'
  BY <1>12 DEF Look, Phase, Busy
<1>13. ASSUME NEW w \in Worker, Wfe(w) PROVE Types' /\ Phase'
  BY <1>13 DEF Wfe, Phase, Busy
<1>14. ASSUME NEW w \in Worker, Wake(w) PROVE Types' /\ Phase'
  BY <1>14 DEF Wake, Phase, Busy
<1>15. ASSUME NEW w \in Worker, Note(w) PROVE Types' /\ Phase'
  BY <1>15 DEF Note, Phase, Busy
<1>16. CASE UNCHANGED vars
  BY <1>16 DEF vars, Phase, Busy
<1> QED
  BY <1>1, <1>2, <1>3, <1>4, <1>5, <1>6, <1>7, <1>8, <1>9, <1>10, <1>11, <1>12,
     <1>13, <1>14, <1>15, <1>16
     DEF Next, PrimaryStep, WorkerStep, Process
-----------------------------------------------------------------------------
(* The owners of the chunks *)

\* A step in which no core takes, adds or counts a chunk.
HandsStay ==
  /\ partial' = partial /\ mine' = mine /\ chunk' = chunk /\ done' = done
  /\ \A k \in Core : pc'[k] # pc[k] => pc[k] \notin Busy /\ pc'[k] \notin Busy

LEMMA StayOwned ==
  ASSUME Owned, HandsStay PROVE Owned' /\ Finished' = Finished
<1>1. \A k \in Core : /\ pc'[k] = "work" <=> pc[k] = "work"
                      /\ pc'[k] = "count" <=> pc[k] = "count"
  BY DEF HandsStay, Busy
<1>2. \A k \in Core, c \in Chunk : Owns(k, c)' <=> Owns(k, c)
  BY <1>1 DEF HandsStay, Owns
<1>3. Owned'
  BY <1>1, <1>2 DEF HandsStay, Owned
<1>4. Finished' = Finished
  BY <1>1 DEF HandsStay, Finished, Busy
<1> QED
  BY <1>3, <1>4

LEMMA NextHands ==
  ASSUME Types, Phase, Owned, Counted, [Next]_vars
  PROVE  HandsStay \/ \E k \in Core : Take(k) \/ Work(k) \/ Count(k)
<1> USE Cores DEF PrimaryIsCore, Types, HandsStay, Goto, Busy
<1>1. ASSUME chunk = 0 PROVE done = 0 /\ partial = [k \in Core |-> Empty]
  <2>1. \A c \in Chunk : ~(c < chunk)
    BY <1>1
  <2>2. Finished = {}
    BY <2>1 DEF Finished
  <2>3. \A k \in Core, c \in Chunk : partial[k][c] = 0
    BY <2>1 DEF Owned, Owns
  <2>4. \A k \in Core : partial[k] = Empty
    BY <2>3 DEF Empty
  <2> QED
    BY <2>2, <2>4, FS_EmptySet DEF Counted
<1>2. CASE Reset
  BY <1>1, <1>2 DEF Reset, Phase
<1>3. CASE SetSize
  BY <1>1, <1>3 DEF SetSize, Phase
<1>4. CASE Publish \/ Sev \/ Wait \/ Add
  BY <1>4 DEF Publish, Sev, Wait, Add
<1>5. ASSUME NEW k \in Core, Load(k) PROVE HandsStay
  BY <1>5 DEF Load
<1>6. ASSUME NEW w \in Worker, ComeUp(w) \/ Look(w) \/ Wfe(w) \/ Wake(w) \/ Note(w)
      PROVE  HandsStay
  BY <1>6 DEF ComeUp, Look, Wfe, Wake, Note
<1>7. CASE UNCHANGED vars
  BY <1>7 DEF vars
<1> QED
  BY <1>2, <1>3, <1>4, <1>5, <1>6, <1>7 DEF Next, PrimaryStep, WorkerStep, Process

\* A chunk that is taken gets its owner, and the finished ones stay so.
LEMMA TakeOwned ==
  ASSUME Types, Phase, Owned, NEW k \in Core, Take(k)
  PROVE  Owned' /\ Finished' = Finished
<1> USE Cores DEF Types, Goto
<1>1. n[k] = N
  BY DEF Take, Phase
<1>2. CASE chunk < N
  <2>1. chunk \in Chunk
    BY <1>2, SmpAssumption DEF Chunk
  <2>2. /\ pc' = [pc EXCEPT ![k] = "work"] /\ mine' = [mine EXCEPT ![k] = chunk]
        /\ partial' = partial /\ chunk' = chunk + 1 /\ pc[k] = "take"
    BY <1>1, <1>2 DEF Take
  <2>3. \A j \in Core, c \in Chunk : Owns(j, c)' <=> Owns(j, c) \/ (j = k /\ c = chunk)
    BY <2>2 DEF Owns
  <2>4. \A j \in Core : ~Owns(j, chunk)
    BY <2>1 DEF Owned
  <2>5. partial[k][chunk] = 0
    BY <2>1, <2>4 DEF Owns
  <2>6. \A c \in Chunk : c < chunk + 1 <=> c < chunk \/ c = chunk
    OBVIOUS
  <2>7. \A j \in Core, c \in Chunk : Owns(j, c)' => c < chunk'
    BY <2>2, <2>3, <2>6 DEF Owned
  <2>8. \A i, j \in Core, c \in Chunk : Owns(i, c)' /\ Owns(j, c)' => i = j
    BY <2>3, <2>4 DEF Owned
  <2>9. \A c \in Chunk : c < chunk' => \E j \in Core : Owns(j, c)'
    BY <2>2, <2>3, <2>6 DEF Owned
  <2>10. \A j \in Core : /\ pc'[j] = "work" => partial'[j][mine'[j]] = 0
                         /\ pc'[j] = "count" => partial'[j][mine'[j]] = 1
    BY <2>2, <2>5 DEF Owned
  <2>11. Owned'
    BY <2>7, <2>8, <2>9, <2>10 DEF Owned
  <2>12. \A c \in Chunk : c \in Finished' <=> c \in Finished
    <3> SUFFICES ASSUME NEW c \in Chunk PROVE c \in Finished' <=> c \in Finished
      OBVIOUS
    <3>1. CASE c = chunk
      BY <2>2, <3>1 DEF Finished, Busy
    <3>2. CASE c # chunk
      BY <2>2, <2>6, <3>2 DEF Finished, Busy
    <3> QED
      BY <3>1, <3>2
  <2> QED
    BY <2>11, <2>12 DEF Finished
<1>3. CASE ~(chunk < N)
  <2>1. /\ \A j \in Core : /\ pc'[j] = "work" <=> pc[j] = "work"
                           /\ pc'[j] = "count" <=> pc[j] = "count"
        /\ mine' = mine /\ partial' = partial
    BY <1>1, <1>3 DEF Take
  <2>2. \A c \in Chunk : c < chunk /\ c < chunk'
    BY <1>3, SmpAssumption DEF Take, Chunk
  <2>3. \A j \in Core, c \in Chunk : Owns(j, c)' <=> Owns(j, c)
    BY <2>1 DEF Owns
  <2>4. Owned'
    BY <2>1, <2>2, <2>3 DEF Owned
  <2>5. Finished' = Finished
    BY <2>1, <2>2 DEF Finished, Busy
  <2> QED
    BY <2>4, <2>5
<1> QED
  BY <1>2, <1>3

LEMMA WorkOwned ==
  ASSUME Types, Owned, NEW k \in Core, Work(k)
  PROVE  Owned' /\ Finished' = Finished
<1> USE Cores DEF Types, Goto
<1>1. /\ pc' = [pc EXCEPT ![k] = "count"] /\ pc[k] = "work"
      /\ partial' = [partial EXCEPT ![k][mine[k]] = @ + 1]
      /\ mine' = mine /\ chunk' = chunk
  BY DEF Work
<1>2. partial[k][mine[k]] = 0 /\ partial'[k][mine[k]] = 1
  BY <1>1 DEF Owned
<1>3. \A j \in Core, c \in Chunk : (j # k \/ c # mine[k]) => partial'[j][c] = partial[j][c]
  BY <1>1
<1>4. \A j \in Core, c \in Chunk : Owns(j, c)' <=> Owns(j, c)
  BY <1>1, <1>2, <1>3 DEF Owns
<1>5. \A j \in Core : /\ pc'[j] = "work" => partial'[j][mine'[j]] = 0
                      /\ pc'[j] = "count" => partial'[j][mine'[j]] = 1
  BY <1>1, <1>2, <1>3 DEF Owned
<1>6. Owned'
  BY <1>1, <1>4, <1>5 DEF Owned
<1>7. \A j \in Core : pc'[j] \in Busy <=> pc[j] \in Busy
  BY <1>1 DEF Busy
<1>8. Finished' = Finished
  BY <1>1, <1>7 DEF Finished
<1> QED
  BY <1>6, <1>8

\* A chunk that is counted is one more that is finished.
LEMMA CountOwned ==
  ASSUME Types, Owned, NEW k \in Core, Count(k)
  PROVE  Owned' /\ Finished' = Finished \cup {mine[k]} /\ mine[k] \notin Finished
<1> USE Cores DEF Types, Goto
<1>1. /\ pc' = [pc EXCEPT ![k] = "take"] /\ pc[k] = "count"
      /\ partial' = partial /\ mine' = mine /\ chunk' = chunk
  BY DEF Count
<1>2. \A j \in Core, c \in Chunk : Owns(j, c)' <=> Owns(j, c)
  BY <1>1 DEF Owns
<1>3. Owned'
  BY <1>1, <1>2 DEF Owned
<1>4. \A j \in Core : pc[j] \in Busy => Owns(j, mine[j])
  BY DEF Busy, Owns, Owned
<1>5. mine[k] \in Chunk /\ mine[k] < chunk
  BY <1>1, <1>4 DEF Owned, Busy
<1>6. \A j \in Core : pc[j] \in Busy /\ mine[j] = mine[k] => j = k
  BY <1>1, <1>4, <1>5 DEF Owned, Busy
<1>7. \A c \in Chunk : c \in Finished' <=> c \in Finished \/ c = mine[k]
  BY <1>1, <1>5, <1>6 DEF Finished, Busy
<1>8. Finished' = Finished \cup {mine[k]}
  BY <1>5, <1>7 DEF Finished
<1>9. mine[k] \notin Finished
  BY <1>1 DEF Finished, Busy
<1> QED
  BY <1>3, <1>8, <1>9
-----------------------------------------------------------------------------
(* The join *)

LEMMA FinishedFinite ==
  /\ IsFiniteSet(Chunk) /\ Cardinality(Chunk) = N
  /\ Finished \subseteq Chunk /\ IsFiniteSet(Finished)
<1>1. IsFiniteSet(Chunk) /\ Cardinality(Chunk) = N
  BY SmpAssumption, FS_Interval DEF Chunk
<1>2. Finished \subseteq Chunk
  BY DEF Finished
<1> QED
  BY <1>1, <1>2, FS_Subset

LEMMA NextOwned == Inv /\ [Next]_vars => Owned' /\ Counted'
<1> SUFFICES ASSUME Types, Phase, Owned, Counted, [Next]_vars PROVE Owned' /\ Counted'
  BY DEF Inv
<1>1. CASE HandsStay
  <2>1. Owned' /\ Finished' = Finished
    BY <1>1, StayOwned
  <2>2. done' = done
    BY <1>1 DEF HandsStay
  <2> QED
    BY <2>1, <2>2 DEF Counted
<1>2. ASSUME NEW k \in Core, Take(k) PROVE Owned' /\ Counted'
  <2>1. Owned' /\ Finished' = Finished
    BY <1>2, TakeOwned
  <2>2. done' = done
    BY <1>2 DEF Take
  <2> QED
    BY <2>1, <2>2 DEF Counted
<1>3. ASSUME NEW k \in Core, Work(k) PROVE Owned' /\ Counted'
  <2>1. Owned' /\ Finished' = Finished
    BY <1>3, WorkOwned
  <2>2. done' = done
    BY <1>3 DEF Work
  <2> QED
    BY <2>1, <2>2 DEF Counted
<1>4. ASSUME NEW k \in Core, Count(k) PROVE Owned' /\ Counted'
  <2>1. Owned' /\ Finished' = Finished \cup {mine[k]} /\ mine[k] \notin Finished
    BY <1>4, CountOwned
  <2>2. Cardinality(Finished \cup {mine[k]}) = Cardinality(Finished) + 1
    BY <2>1, FinishedFinite, FS_AddElement
  <2>3. done' = done + 1
    BY <1>4 DEF Count
  <2> QED
    BY <2>1, <2>2, <2>3 DEF Counted
<1> QED
  BY <1>1, <1>2, <1>3, <1>4, NextHands

LEMMA NextSummed == Inv /\ [Next]_vars => Summed'
<1> SUFFICES ASSUME Inv, [Next]_vars PROVE Summed'
  OBVIOUS
<1> USE Cores DEF PrimaryIsCore, Goto
<1> DEFINE Summing == pc[Primary] \in {"sum", "joined"}
\* While the sum is taken, no core is busy.
<1>1. ASSUME Summing, NEW k \in Core PROVE pc[k] \notin Busy
  <2>1. mine[k] \in Finished
    BY <1>1 DEF Inv, Types, Summed
  <2> QED
    BY <2>1 DEF Finished
<1>2. ASSUME partial' = partial, left' = left, sum' = sum, Finished' = Finished,
             pc'[Primary] = pc[Primary] \/ (~Summing /\ ~Summing')
      PROVE  Summed'
  BY <1>2 DEF Inv, Summed
<1>3. CASE Wait
  <2>1. Finished = Chunk
    <3>1. Cardinality(Finished) >= N
      BY <1>3 DEF Wait, Inv, Counted
    <3>2. Cardinality(Finished) <= Cardinality(Chunk) /\ Cardinality(Finished) \in Nat
      BY FinishedFinite, FS_Subset, FS_CardinalityType
    <3>3. Cardinality(Finished) = Cardinality(Chunk)
      BY <3>1, <3>2, FinishedFinite
    <3> QED
      BY <3>3, FinishedFinite, FS_Subset
  <2>2. HandsStay
    BY <1>3 DEF Wait, HandsStay, Inv, Types, Busy
  <2>3. Finished' = Chunk
    BY <2>1, <2>2, StayOwned DEF Inv
  <2>4. pc'[Primary] = "sum" /\ left' = Core /\ sum' = Empty
    BY <1>3 DEF Wait, Inv, Types, Summed
  <2> QED
    BY <2>3, <2>4 DEF Summed, Empty
<1>4. CASE Add
  <2>1. PICK k \in left : left' = left \ {k} /\ sum' = [c \in Chunk |-> sum[c] + partial[k][c]]
    BY <1>4 DEF Add
  <2>2. pc[Primary] = "sum" /\ partial' = partial /\ k \in Core
        /\ pc'[Primary] = (IF left' = {} THEN "joined" ELSE "sum")
    BY <1>4, <2>1 DEF Add, Inv, Types
  <2>3. HandsStay
    BY <1>4 DEF Add, HandsStay, Inv, Types, Busy
  <2>4. Finished' = Chunk
    BY <2>2, <2>3, StayOwned DEF Inv, Summed
  <2>5. ASSUME NEW c \in Chunk
        PROVE  sum'[c] = IF \E j \in Core \ left' : partial'[j][c] = 1 THEN 1 ELSE 0
    <3>1. sum[c] = IF \E j \in Core \ left : partial[j][c] = 1 THEN 1 ELSE 0
      BY <2>2 DEF Inv, Summed
    <3>2. sum'[c] = sum[c] + partial[k][c]
      BY <2>1
    <3>3. CASE partial[k][c] = 1
      <4>1. \A j \in Core : partial[j][c] = 1 => j = k
        BY <2>2, <3>3 DEF Inv, Owned, Owns
      <4>2. sum[c] = 0
        BY <2>1, <3>1, <4>1
      <4> QED
        BY <2>1, <2>2, <3>2, <3>3, <4>2
    <3>4. CASE partial[k][c] = 0
      <4>1. (\E j \in Core \ left' : partial'[j][c] = 1)
              <=> \E j \in Core \ left : partial[j][c] = 1
        BY <2>1, <2>2, <3>4
      <4> QED
        BY <3>1, <3>2, <3>4, <4>1
    <3> QED
      BY <2>2, <3>3, <3>4 DEF Inv, Types
  <2> QED
    BY <2>2, <2>4, <2>5 DEF Summed
<1>5. CASE Reset \/ SetSize \/ Publish \/ Sev
  <2>1. ~Summing /\ ~Summing' /\ sum' = sum
    BY <1>5 DEF Reset, SetSize, Publish, Sev, Inv, Types
  <2> QED
    BY <2>1 DEF Inv, Summed
<1>6. ASSUME NEW k \in Core, Load(k) PROVE Summed'
  <2>1. HandsStay
    BY <1>6 DEF Load, HandsStay, Inv, Types, Busy
  <2>2. Finished' = Finished
    BY <2>1, StayOwned DEF Inv
  <2>3. pc'[Primary] = pc[Primary] \/ (~Summing /\ ~Summing')
    BY <1>6 DEF Load, Inv, Types
  <2> QED
    BY <1>2, <1>6, <2>2, <2>3 DEF Load
<1>7. ASSUME NEW k \in Core, Take(k) PROVE Summed'
  <2>1. Finished' = Finished
    BY <1>7, TakeOwned DEF Inv
  <2>2. pc'[Primary] = pc[Primary] \/ (~Summing /\ ~Summing')
    BY <1>7 DEF Take, Inv, Types
  <2> QED
    BY <1>2, <1>7, <2>1, <2>2 DEF Take
<1>8. ASSUME NEW k \in Core, Work(k) \/ Count(k) PROVE Summed'
  <2>1. pc[k] \in Busy
    BY <1>8 DEF Work, Count, Busy
  <2>2. ~Summing
    BY <1>1, <2>1
  <2>3. pc'[Primary] \in {pc[Primary], "count", "take"} /\ sum' = sum
    BY <1>8 DEF Work, Count, Inv, Types
  <2> QED
    BY <2>2, <2>3 DEF Inv, Summed
<1>9. ASSUME NEW w \in Worker, ComeUp(w) \/ Look(w) \/ Wfe(w) \/ Wake(w) \/ Note(w)
      PROVE  Summed'
  <2>1. HandsStay
    BY <1>9 DEF ComeUp, Look, Wfe, Wake, Note, HandsStay, Inv, Types, Busy
  <2>2. Finished' = Finished
    BY <2>1, StayOwned DEF Inv
  <2>3. pc'[Primary] = pc[Primary]
    BY <1>9 DEF ComeUp, Look, Wfe, Wake, Note, Inv, Types
  <2> QED
    BY <1>2, <1>9, <2>2, <2>3 DEF ComeUp, Look, Wfe, Wake, Note
<1>10. CASE UNCHANGED vars
  <2>1. Finished' = Finished
    BY <1>10 DEF vars, Finished
  <2> QED
    BY <1>2, <1>10, <2>1 DEF vars
<1> QED
  BY <1>3, <1>4, <1>5, <1>6, <1>7, <1>8, <1>9, <1>10
     DEF Next, PrimaryStep, WorkerStep, Process

LEMMA Invariant == Spec => []Inv
<1>1. Inv /\ [Next]_vars => Inv'
  BY NextTypes, NextOwned, NextSummed DEF Inv
<1> QED
  BY <1>1, InitInv, PTL DEF Spec

\* Type correctness; no more chunks are counted than the job has.
THEOREM TypeCorrect == Spec => []TypeOK
<1>1. Inv => TypeOK
  <2> SUFFICES ASSUME Inv PROVE TypeOK
    OBVIOUS
  <2>1. Cardinality(Finished) <= N /\ Cardinality(Finished) \in Nat
    BY FinishedFinite, FS_Subset, FS_CardinalityType
  <2>2. done \in 0 .. N
    BY <2>1, Cores DEF Inv, Counted
  <2>3. \A k \in Core : pc[k] \in {"load", "take", "work", "count"} => gen = 1 /\ nchunks = N
    BY Cores DEF Inv, Types, Phase, Busy
  <2> QED
    BY <2>2, <2>3 DEF Inv, Types, TypeOK
<1> QED
  BY <1>1, Invariant, PTL

\* The join sums every chunk once, for any number of cores, wherever each of
\* them is when the primary finds DONE at n_chunks (parallel_compute).
THEOREM JoinIsExact == Spec => []JoinExact
<1>1. Inv => JoinExact
  <2> SUFFICES ASSUME Inv, pc[Primary] = "joined"
               PROVE  /\ sum = [c \in Chunk |-> 1]
                      /\ \A k \in Core : pc[k] \notin {"work", "count"}
    BY DEF JoinExact
  <2>1. Finished = Chunk /\ left = {}
    BY DEF Inv, Summed
  <2>2. \A k \in Core : pc[k] \notin Busy
    BY <2>1 DEF Inv, Types, Finished
  <2>3. \A c \in Chunk : \E k \in Core : Owns(k, c)
    BY <2>1 DEF Inv, Owned, Finished
  <2>4. \A c \in Chunk : \E k \in Core \ left : partial[k][c] = 1
    BY <2>1, <2>2, <2>3 DEF Owns, Busy
  <2>5. \A c \in Chunk : sum[c] = 1
    BY <2>4 DEF Inv, Summed
  <2>6. sum = [c \in Chunk |-> 1]
    BY <2>5 DEF Inv, Types
  <2> QED
    BY <2>2, <2>6 DEF Busy
<1> QED
  BY <1>1, Invariant, PTL

\* The wake-up of a worker that sleeps over a new job is under way: sev comes
\* after the new GEN, and the event register keeps it.
THEOREM NoWakeupIsLost == Spec => []NobodySleepsOverTheJob
<1> USE Cores DEF PrimaryIsCore, Types, Stages, Goto
<1>1. Init => NobodySleepsOverTheJob
  BY DEF Init, NobodySleepsOverTheJob
<1>2. Inv /\ NobodySleepsOverTheJob /\ [Next]_vars => NobodySleepsOverTheJob'
  <2> SUFFICES ASSUME Inv, NobodySleepsOverTheJob, [Next]_vars
               PROVE  NobodySleepsOverTheJob'
    OBVIOUS
  <2> USE DEF Inv, NobodySleepsOverTheJob
  <2>1. CASE Reset \/ SetSize \/ Publish \/ Sev \/ Wait \/ Add
    BY <2>1 DEF Reset, SetSize, Publish, Sev, Wait, Add
  <2>2. ASSUME NEW k \in Core, Process(k) PROVE NobodySleepsOverTheJob'
    BY <2>2 DEF Process, Load, Take, Work, Count
  <2>3. ASSUME NEW w \in Worker, ComeUp(w) \/ WorkerStep(w)
        PROVE  NobodySleepsOverTheJob' \/ Process(w)
    BY <2>3 DEF ComeUp, WorkerStep, Look, Wfe, Wake, Note
  <2>4. CASE UNCHANGED vars
    BY <2>4 DEF vars
  <2> QED
    BY <2>1, <2>2, <2>3, <2>4 DEF Next, PrimaryStep
<1> QED
  BY <1>1, <1>2, Invariant, PTL DEF Spec
=============================================================================

--------------------------- MODULE RingQueueProofs --------------------------
(***************************************************************************)
(* The ring implements the queue of Fifo.tla, for every capacity.          *)
(***************************************************************************)
EXTENDS RingQueue, SequenceTheorems, TLAPS

\* Indices stay below twice the capacity, where % is one subtraction.
LEMMA Wrap ==
  ASSUME NEW x \in 0..(2 * Capacity + 1)
  PROVE  x % capacity = IF x < capacity THEN x ELSE x - capacity
  BY RingAssumption DEF capacity

\* Index arithmetic in terms of comparisons.
LEMMA Successor ==
  ASSUME NEW s \in Idx
  PROVE  /\ (s + 1) % capacity = IF s = Capacity THEN 0 ELSE s + 1
         /\ (s + 1) % capacity \in Idx
  BY Wrap, RingAssumption DEF Idx, capacity

LEMMA DistanceIs ==
  ASSUME NEW s \in Idx, NEW e \in Idx
  PROVE  /\ Distance(s, e) = IF e >= s THEN e - s ELSE e + Capacity + 1 - s
         /\ Distance(s, e) \in 0..Capacity
  <1>1. PICK x \in 0..(2 * Capacity + 1) : x = e + capacity - s
    BY RingAssumption DEF Idx, capacity
  <1>2. Distance(s, e) = x % capacity BY <1>1 DEF Distance
  <1>3. Distance(s, e) = IF x < capacity THEN x ELSE x - capacity BY <1>2, Wrap
  <1> QED BY <1>1, <1>3, RingAssumption DEF Idx, capacity

LEMMA SlotIs ==
  ASSUME NEW s \in Idx, NEW i \in 0..Capacity
  PROVE  /\ Slot(s, i) = IF s + i <= Capacity THEN s + i ELSE s + i - Capacity - 1
         /\ Slot(s, i) \in Idx
  <1>1. PICK x \in 0..(2 * Capacity + 1) : x = s + i
    BY RingAssumption DEF Idx
  <1>2. Slot(s, i) = IF x < capacity THEN x ELSE x - capacity BY <1>1, Wrap DEF Slot
  <1> QED BY <1>1, <1>2, RingAssumption DEF Idx, capacity

\* The slots in use are not the one endIdx points to, and start at startIdx.
LEMMA UsedSlots ==
  ASSUME NEW s \in Idx, NEW e \in Idx
  PROVE  /\ \A i \in 1..Distance(s, e) : Slot(s, i - 1) \in Idx /\ Slot(s, i - 1) # e
         /\ Slot(s, Distance(s, e)) = e
         /\ Slot(s, 0) = s
  <1>1. ASSUME NEW i \in 1..Distance(s, e)
        PROVE  Slot(s, i - 1) \in Idx /\ Slot(s, i - 1) # e
    <2>1. PICK n \in 0..Capacity : n = Distance(s, e) BY DistanceIs
    <2>2. n = IF e >= s THEN e - s ELSE e + Capacity + 1 - s BY <2>1, DistanceIs
    <2>3. PICK j \in 0..Capacity : j = i - 1 BY <2>1, RingAssumption
    <2>4. /\ Slot(s, j) = IF s + j <= Capacity THEN s + j ELSE s + j - Capacity - 1
          /\ Slot(s, j) \in Idx
      BY SlotIs
    <2>5. j < n /\ i \in Int BY <2>1, <2>3
    <2>6. Slot(s, j) # e BY <2>2, <2>4, <2>5, RingAssumption DEF Idx
    <2> QED BY <2>3, <2>4, <2>6
  <1>2. Slot(s, Distance(s, e)) = e
    <2>1. PICK n \in 0..Capacity : n = Distance(s, e) BY DistanceIs
    <2>2. n = IF e >= s THEN e - s ELSE e + Capacity + 1 - s BY <2>1, DistanceIs
    <2>3. Slot(s, n) = IF s + n <= Capacity THEN s + n ELSE s + n - Capacity - 1
      BY SlotIs
    <2> QED BY <2>1, <2>2, <2>3, RingAssumption DEF Idx
  <1>3. Slot(s, 0) = s BY SlotIs, RingAssumption DEF Idx
  <1> QED BY <1>1, <1>2, <1>3

\* Moving endIdx or startIdx by one, as push and pop do.
LEMMA Moves ==
  ASSUME NEW s \in Idx, NEW e \in Idx
  PROVE  /\ (e + 1) % capacity # s =>
               /\ Distance(s, e) < Capacity
               /\ Distance(s, (e + 1) % capacity) = Distance(s, e) + 1
         /\ s # e =>
               /\ Distance(s, e) > 0
               /\ Distance((s + 1) % capacity, e) = Distance(s, e) - 1
               /\ \A i \in 0..(Capacity - 1) : Slot((s + 1) % capacity, i) = Slot(s, i + 1)
  <1>1. PICK e1 \in Idx : e1 = (e + 1) % capacity BY Successor
  <1>2. PICK s1 \in Idx : s1 = (s + 1) % capacity BY Successor
  <1>3. e1 # s => Distance(s, e) < Capacity /\ Distance(s, e1) = Distance(s, e) + 1
    <2>1. e1 = IF e = Capacity THEN 0 ELSE e + 1 BY <1>1, Successor
    <2>2. Distance(s, e) = IF e >= s THEN e - s ELSE e + Capacity + 1 - s BY DistanceIs
    <2>3. Distance(s, e1) = IF e1 >= s THEN e1 - s ELSE e1 + Capacity + 1 - s BY DistanceIs
    <2> QED BY <2>1, <2>2, <2>3, RingAssumption DEF Idx
  <1>4. s # e => Distance(s, e) > 0 /\ Distance(s1, e) = Distance(s, e) - 1
    <2>1. s1 = IF s = Capacity THEN 0 ELSE s + 1 BY <1>2, Successor
    <2>2. Distance(s, e) = IF e >= s THEN e - s ELSE e + Capacity + 1 - s BY DistanceIs
    <2>3. Distance(s1, e) = IF e >= s1 THEN e - s1 ELSE e + Capacity + 1 - s1 BY DistanceIs
    <2> QED BY <2>1, <2>2, <2>3, RingAssumption DEF Idx
  <1>5. ASSUME NEW i \in 0..(Capacity - 1) PROVE Slot(s1, i) = Slot(s, i + 1)
    <2>1. s1 = IF s = Capacity THEN 0 ELSE s + 1 BY <1>2, Successor
    <2>2. PICK j \in 0..Capacity : j = i + 1 BY RingAssumption
    <2>3. Slot(s, j) = IF s + j <= Capacity THEN s + j ELSE s + j - Capacity - 1
      BY SlotIs
    <2>4. i \in 0..Capacity BY RingAssumption
    <2>5. Slot(s1, i) = IF s1 + i <= Capacity THEN s1 + i ELSE s1 + i - Capacity - 1
      BY <2>4, SlotIs
    <2>6. Slot(s1, i) = Slot(s, j) BY <2>1, <2>2, <2>3, <2>4, <2>5, RingAssumption DEF Idx
    <2> QED BY <2>2, <2>6
  <1> QED BY <1>1, <1>2, <1>3, <1>4, <1>5

\* RingInv is inductive.
LEMMA RingInvInductive == Init => RingInv
  BY RingAssumption DEF Init, RingInv, Idx, isFull, isEmpty

LEMMA RingInvStep ==
  ASSUME RingInv, [Next]_vars
  PROVE  RingInv'
  <1>1. /\ startIdx \in Idx /\ endIdx \in Idx
        /\ (endIdx + 1) % capacity = IF endIdx = Capacity THEN 0 ELSE endIdx + 1
        /\ (startIdx + 1) % capacity = IF startIdx = Capacity THEN 0 ELSE startIdx + 1
    BY Successor DEF RingInv
  <1>2. CASE p_look
    BY <1>2 DEF p_look, RingInv, isFull, isEmpty
  <1>3. CASE p_store
    BY <1>1, <1>3 DEF p_store, RingInv, isFull, isEmpty
  <1>4. CASE p_advance
    BY <1>1, <1>4, RingAssumption DEF p_advance, RingInv, isFull, isEmpty, Idx
  <1>5. CASE c_look
    BY <1>5 DEF c_look, RingInv, isFull, isEmpty
  <1>6. CASE c_front
    BY <1>1, <1>6 DEF c_front, RingInv, isFull, isEmpty
  <1>7. CASE c_pop
    BY <1>1, <1>7, RingAssumption DEF c_pop, RingInv, isFull, isEmpty, Idx
  <1>8. CASE UNCHANGED vars
    BY <1>8 DEF vars, RingInv, isFull, isEmpty
  <1> QED BY <1>2, <1>3, <1>4, <1>5, <1>6, <1>7, <1>8 DEF Next

\* The abstract queue after a step that moves neither index and stores at most
\* the slot behind the last.
LEMMA SameContents ==
  ASSUME UNCHANGED <<startIdx, endIdx>>, RingInv,
         \A j \in Idx \ {endIdx} : data'[j] = data[j]
  PROVE  Contents' = Contents
  <1>1. startIdx \in Idx /\ endIdx \in Idx BY DEF RingInv
  <1>2. \A i \in 1..Distance(startIdx, endIdx) :
            Slot(startIdx, i - 1) \in Idx \ {endIdx}
    BY <1>1, UsedSlots
  <1> QED BY <1>2 DEF Contents

\* Contents is a sequence of the elements in use.
LEMMA ContentsType ==
  ASSUME RingInv
  PROVE  /\ Contents \in Seq(T)
         /\ Len(Contents) = Distance(startIdx, endIdx)
         /\ Distance(startIdx, endIdx) \in Nat
  <1>1. startIdx \in Idx /\ endIdx \in Idx /\ data \in [Idx -> T] BY DEF RingInv
  <1>2. /\ Distance(startIdx, endIdx) \in Nat
        /\ \A i \in 1..Distance(startIdx, endIdx) : Slot(startIdx, i - 1) \in Idx
    BY <1>1, UsedSlots, DistanceIs, RingAssumption
  <1> QED BY <1>1, <1>2 DEF Contents

\* p_advance appends the slot that p_store filled.
LEMMA PushContents ==
  ASSUME RingInv, p_advance
  PROVE  /\ Len(Contents) < Capacity
         /\ Contents' = Append(Contents, producer.t)
         /\ producer.t \in T
  <1>1. /\ startIdx \in Idx /\ endIdx \in Idx
        /\ endIdx' = (endIdx + 1) % capacity /\ endIdx' # startIdx
        /\ UNCHANGED <<startIdx, data>>
        /\ data[endIdx] = producer.t /\ producer.t \in T
    BY DEF p_advance, RingInv, isFull
  <1> DEFINE n == Distance(startIdx, endIdx)
  <1>2. n < Capacity /\ Distance(startIdx, endIdx') = n + 1
    BY <1>1, Moves
  <1>3. n \in Nat /\ Contents \in Seq(T) /\ Len(Contents) = n BY ContentsType
  <1>4. Slot(startIdx, n) = endIdx BY <1>1, UsedSlots
  <1>5. Contents = [i \in 1..n |-> data[Slot(startIdx, i - 1)]] BY DEF Contents
  <1>6. Contents' = [i \in 1..(n + 1) |-> data[Slot(startIdx, i - 1)]]
    BY <1>1, <1>2 DEF Contents
  <1> HIDE DEF n
  <1>7. Append(Contents, producer.t) =
            [i \in 1..(n + 1) |-> IF i = n + 1 THEN producer.t ELSE Contents[i]]
    BY <1>1, <1>3
  <1>8. ASSUME NEW i \in 1..(n + 1)
        PROVE  data[Slot(startIdx, i - 1)] = IF i = n + 1 THEN producer.t ELSE Contents[i]
    <2>1. CASE i = n + 1
      <3>1. i - 1 = n BY <1>3, <2>1
      <3> QED BY <1>1, <1>4, <2>1, <3>1
    <2>2. CASE i # n + 1
      <3>1. i \in 1..n BY <1>3, <2>2
      <3> QED BY <1>5, <2>2, <3>1
    <2> QED BY <2>1, <2>2
  <1> QED BY <1>1, <1>2, <1>3, <1>6, <1>7, <1>8

\* c_pop removes the head.
LEMMA PopContents ==
  ASSUME RingInv, c_pop
  PROVE  Contents' = Tail(Contents)
  <1>1. /\ startIdx \in Idx /\ endIdx \in Idx /\ startIdx # endIdx
        /\ startIdx' = (startIdx + 1) % capacity
        /\ UNCHANGED <<endIdx, data>>
    BY DEF c_pop, RingInv, isEmpty
  <1> DEFINE n == Distance(startIdx, endIdx)
  <1>2. /\ n > 0 /\ Distance(startIdx', endIdx) = n - 1
        /\ \A i \in 0..(Capacity - 1) : Slot(startIdx', i) = Slot(startIdx, i + 1)
    BY <1>1, Moves
  <1>3. n \in 0..Capacity /\ Contents \in Seq(T) /\ Len(Contents) = n
    BY <1>1, ContentsType, DistanceIs
  <1>4. Contents = [i \in 1..n |-> data[Slot(startIdx, i - 1)]] BY DEF Contents
  <1>5. Contents' = [i \in 1..(n - 1) |-> data[Slot(startIdx', i - 1)]]
    BY <1>1, <1>2 DEF Contents
  <1> HIDE DEF n
  <1>6. /\ Tail(Contents) \in Seq(T) /\ Len(Tail(Contents)) = n - 1
        /\ \A i \in 1..(n - 1) : Tail(Contents)[i] = Contents[i + 1]
    <2>1. Contents # <<>> BY <1>2, <1>3
    <2> QED BY <1>3, <2>1, HeadTailProperties
  <1>7. ASSUME NEW i \in 1..(n - 1)
        PROVE  data[Slot(startIdx', i - 1)] = Contents[i + 1]
    <2>1. i - 1 \in 0..(Capacity - 1) /\ i + 1 \in 1..n /\ (i - 1) + 1 = i /\ (i + 1) - 1 = i
      BY <1>3, RingAssumption
    <2>2. Slot(startIdx', i - 1) = Slot(startIdx, i) BY <1>2, <2>1
    <2> QED BY <1>4, <2>1, <2>2
  <1>8. \A i \in 1..(n - 1) : Contents'[i] = Tail(Contents)[i] BY <1>5, <1>6, <1>7
  <1>9. Contents' \in Seq(T) /\ Len(Contents') = n - 1
    <2>1. RingInv' BY RingInvStep DEF Next
    <2>2. Contents' \in Seq(T) /\ Len(Contents') = Distance(startIdx', endIdx')
      <3>1. startIdx' \in Idx /\ endIdx' \in Idx /\ data' \in [Idx -> T]
        BY <2>1 DEF RingInv
      <3>2. \A i \in 1..(n - 1) : Slot(startIdx', i - 1) \in Idx
        BY <1>1, <1>2, <3>1, UsedSlots
      <3>3. PICK m \in Nat : m = n - 1 BY <1>2, <1>3
      <3>4. Contents' \in [1..m -> T] BY <1>1, <1>5, <3>1, <3>2, <3>3
      <3>5. Contents' \in Seq(T) /\ Len(Contents') = m BY <3>4
      <3> QED BY <1>1, <1>2, <3>3, <3>5
    <2> QED BY <1>1, <1>2, <2>2
  <1>10. n - 1 \in Nat BY <1>2, <1>3
  <1> QED BY <1>6, <1>8, <1>9, <1>10, SeqEqual


\* What each side of the ring learnt from its look at the indices stays true.
THEOREM RingInvariant == Spec => []RingInv
  <1>1. RingInv /\ [Next]_vars => RingInv' BY RingInvStep
  <1> QED BY <1>1, RingInvInductive, PTL DEF Spec

\* The ring implements the bounded FIFO queue, for every capacity and element
\* type: looks and stores stutter, endIdx pushes, front and startIdx pop.
THEOREM RingImplementsFifo == Spec => FifoSpec
  <1>1. Init => Abstract!Init
    <2> SUFFICES ASSUME Init PROVE Abstract!Init OBVIOUS
    <2>1. startIdx = 0 /\ endIdx = 0 /\ 0 \in Idx /\ consumer.t = Nothing
      BY RingAssumption DEF Init, Idx
    <2>2. Distance(startIdx, endIdx) = 0 BY <2>1, DistanceIs
    <2>3. Contents = <<>> BY <2>2 DEF Contents
    <2> QED BY <2>1, <2>3 DEF Abstract!Init
  <1>2. RingInv /\ [Next]_vars => [Abstract!Next]_<<Contents, consumer.t>>
    <2> SUFFICES ASSUME RingInv, [Next]_vars
                 PROVE  Abstract!Next \/ UNCHANGED <<Contents, consumer.t>>
      OBVIOUS
    <2>1. CASE p_look
      BY <2>1, SameContents DEF p_look
    <2>2. CASE p_store
      <3>1. \A j \in Idx \ {endIdx} : data'[j] = data[j] BY <2>2 DEF p_store, RingInv
      <3> QED BY <2>2, <3>1, SameContents DEF p_store
    <2>3. CASE p_advance
      <3>1. Abstract!Push BY <2>3, PushContents DEF Abstract!Push, p_advance
      <3> QED BY <3>1 DEF Abstract!Next
    <2>4. CASE c_look
      <3>1. UNCHANGED Contents BY <2>4, SameContents DEF c_look
      <3> QED BY <2>4, <3>1 DEF c_look, RingInv
    <2>5. CASE c_front
      <3>1. UNCHANGED Contents BY <2>5, SameContents DEF c_front
      <3>2. /\ startIdx \in Idx /\ endIdx \in Idx /\ startIdx # endIdx
            /\ consumer.t = Nothing /\ consumer'.t = data[startIdx]
        BY <2>5 DEF c_front, RingInv, isEmpty
      <3>3. Distance(startIdx, endIdx) > 0 /\ Slot(startIdx, 0) = startIdx
        BY <3>2, Moves, UsedSlots
      <3>4. Contents \in Seq(T) /\ Contents # <<>> BY <3>3, ContentsType
      <3>5. Contents[1] = data[startIdx] BY <3>3, ContentsType DEF Contents
      <3>6. Head(Contents) = data[startIdx] BY <3>4, <3>5
      <3>7. Abstract!Front BY <3>1, <3>2, <3>4, <3>6 DEF Abstract!Front
      <3> QED BY <3>7 DEF Abstract!Next
    <2>6. CASE c_pop
      <3>1. consumer.t # Nothing /\ consumer'.t = Nothing
        BY <2>6, RingAssumption DEF c_pop, RingInv
      <3>2. Abstract!Pop BY <2>6, <3>1, PopContents DEF Abstract!Pop
      <3> QED BY <3>2 DEF Abstract!Next
    <2>7. CASE UNCHANGED vars
      BY <2>7, SameContents DEF vars
    <2> QED BY <2>1, <2>2, <2>3, <2>4, <2>5, <2>6, <2>7 DEF Next
  <1> QED BY <1>1, <1>2, RingInvariant, PTL DEF Spec, FifoSpec, Abstract!Spec
=============================================================================

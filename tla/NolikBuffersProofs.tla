-------------------------- MODULE NolikBuffersProofs --------------------------
(***************************************************************************)
(* Proofs about NolikBuffers, for any addresses, any length of a text and  *)
(* any number of boxes.                                                    *)
(***************************************************************************)
EXTENDS NolikBuffers, TLAPS

USE BufferAssumption

Buffer == [capacity : 2 .. MaxLength + 1, text : 0 .. MaxLength]

\* What the buffer of a box looks like: full size from the start, and no text
\* until the host has written it.
Contents(box) ==
  [capacity |-> box.length + 1, text |-> IF box.written THEN box.length ELSE 0]

(* The inductive invariant.  BoxesIntact alone does not say how large a     *)
(* buffer is, which FreedAsAllocated needs at the time of Deallocate.       *)
Stored == heap \in [Addresses -> Buffer \cup {Free}] /\ boxes \subseteq Box
Owned == \A a \in Addresses : heap[a] # Free <=> \E b \in boxes : b.pointer = a
Apart == \A b, c \in boxes : b.pointer = c.pointer => b = c
Sized == \A b \in boxes : heap[b.pointer] = Contents(b)

IndInv == Stored /\ Owned /\ Apart /\ Sized /\ FreedAsAllocated

\* New buffers, of the host or of the library, have room for a text and its
\* NUL, and are not mistaken for nothing.
LEMMA NewBuffer ==
  ASSUME NEW length \in Lengths
  PROVE  /\ Zeroed(length) \in Buffer /\ Zeroed(length) # Free
         /\ Holding(length) \in Buffer /\ Holding(length) # Free
         /\ Write(Zeroed(length), length) = Holding(length)
<1>1. /\ Zeroed(length) \in [capacity : Nat, text : Nat] \cap Buffer
      /\ Holding(length) \in [capacity : Nat, text : Nat] \cap Buffer
  BY DEF Zeroed, Holding, Lengths, Buffer
<1>2. Write(Zeroed(length), length) = Holding(length)
  BY DEF Write, Zeroed, Holding
<1>3. QED
  BY <1>1, <1>2

\* A box for a buffer at a free address disturbs none of the others.
LEMMA Allocated ==
  ASSUME IndInv, NEW a \in Addresses, heap[a] = Free,
         NEW box \in Box, box.pointer = a, Contents(box) \in Buffer, Contents(box) # Free,
         heap' = [heap EXCEPT ![a] = Contents(box)],
         boxes' = boxes \cup {box}, UNCHANGED freed
  PROVE  IndInv'
<1>1. Stored'
  BY DEF IndInv, Stored
<1>2. \A b \in boxes : b.pointer # a /\ b.pointer \in Addresses
  BY DEF IndInv, Owned, Stored, Box
<1>3. Owned'
  BY <1>2 DEF IndInv, Owned, Stored
<1>4. Apart'
  BY <1>2 DEF IndInv, Apart
<1>5. \A b \in boxes' : heap'[b.pointer] = Contents(b)
  BY <1>2 DEF IndInv, Sized, Stored
<1>6. Sized'
  BY <1>5 DEF Sized, Contents
<1>7. FreedAsAllocated'
  BY DEF IndInv, FreedAsAllocated
<1>8. QED
  BY <1>1, <1>3, <1>4, <1>6, <1>7 DEF IndInv

LEMMA Induction == Spec => []IndInv
<1>1. Init => IndInv
  BY DEF Init, IndInv, Stored, Owned, Apart, Sized, FreedAsAllocated
<1>2. IndInv /\ [Next]_vars => IndInv'
  <2> SUFFICES ASSUME IndInv, [Next]_vars PROVE IndInv'
    OBVIOUS
  <2>1. CASE NewParams
    <3>1. PICK a \in Addresses, length \in Lengths :
            /\ heap[a] = Free
            /\ heap' = [heap EXCEPT ![a] = Zeroed(length)]
            /\ boxes' = boxes \cup {[pointer |-> a, kind |-> "params",
                                     length |-> length, written |-> FALSE]}
            /\ UNCHANGED freed
      BY <2>1 DEF NewParams, Room
    <3> DEFINE box == [pointer |-> a, kind |-> "params", length |-> length, written |-> FALSE]
    <3>2. box \in Box /\ box.pointer = a /\ Contents(box) = Zeroed(length)
      BY DEF Box, Contents, Zeroed
    <3>3. QED
      BY <3>1, <3>2, NewBuffer, Allocated
  <2>2. CASE WriteParams
    <3>1. PICK box \in boxes :
            /\ box.kind = "params" /\ ~box.written
            /\ heap' = [heap EXCEPT ![box.pointer] = Write(@, box.length)]
            /\ boxes' = (boxes \ {box}) \cup {[box EXCEPT !.written = TRUE]}
            /\ UNCHANGED freed
      BY <2>2 DEF WriteParams
    <3> DEFINE new == [box EXCEPT !.written = TRUE]
    <3>2. /\ box \in Box /\ box.pointer \in Addresses /\ box.length \in Lengths
          /\ new \in Box /\ new.pointer = box.pointer /\ new.length = box.length
          /\ new.written = TRUE
      BY DEF IndInv, Stored, Box
    <3>3. heap[box.pointer] = Zeroed(box.length)
      BY <3>1 DEF IndInv, Sized, Contents, Zeroed
    <3>4. heap' = [heap EXCEPT ![box.pointer] = Holding(box.length)]
      BY <3>1, <3>2, <3>3, NewBuffer
    <3>5. Holding(box.length) \in Buffer /\ Holding(box.length) # Free
      BY <3>2, NewBuffer
    <3>6. Stored'
      BY <3>1, <3>2, <3>4, <3>5 DEF IndInv, Stored
    <3>7. \A b \in boxes : b # box => b.pointer # box.pointer /\ b.pointer \in Addresses
      BY DEF IndInv, Apart, Stored, Box
    <3>8. heap[box.pointer] # Free
      BY <3>2 DEF IndInv, Owned
    <3>9. Owned'
      <4>1. ASSUME NEW c \in Addresses
            PROVE  (\E b \in boxes' : b.pointer = c) <=> (\E b \in boxes : b.pointer = c)
        BY <3>1, <3>2
      <4>2. ASSUME NEW c \in Addresses PROVE heap'[c] # Free <=> heap[c] # Free
        BY <3>2, <3>4, <3>5, <3>8 DEF IndInv, Stored
      <4>3. QED
        BY <4>1, <4>2 DEF IndInv, Owned
    <3>10. Apart'
      BY <3>1, <3>2, <3>7 DEF IndInv, Apart
    <3>11. Sized'
      <4>1. ASSUME NEW b \in boxes, b # box PROVE heap'[b.pointer] = Contents(b)
        BY <4>1, <3>4, <3>7 DEF IndInv, Sized, Stored
      <4>2. heap'[new.pointer] = Contents(new)
        BY <3>2, <3>4 DEF IndInv, Stored, Contents, Holding
      <4>3. \A b \in boxes' : heap'[b.pointer] = Contents(b)
        BY <3>1, <4>1, <4>2
      <4>4. QED
        BY <4>3 DEF Sized, Contents
    <3>12. FreedAsAllocated'
      BY <3>1 DEF IndInv, FreedAsAllocated
    <3>13. QED
      BY <3>6, <3>9, <3>10, <3>11, <3>12 DEF IndInv
  <2>3. ASSUME NEW a \in Addresses, NEW length \in Lengths, heap[a] = Free,
               heap' = [heap EXCEPT ![a] = Holding(length)],
               boxes' = boxes \cup {[pointer |-> a, kind |-> "reply",
                                     length |-> length, written |-> TRUE]},
               UNCHANGED freed
        PROVE  IndInv'
    <3> DEFINE box == [pointer |-> a, kind |-> "reply", length |-> length, written |-> TRUE]
    <3>1. box \in Box /\ box.pointer = a /\ Contents(box) = Holding(length)
      BY DEF Box, Contents, Holding
    <3>2. QED
      BY <2>3, <3>1, NewBuffer, Allocated
  <2>4. CASE Generate
    BY <2>3, <2>4 DEF Generate, Room
  <2>5. CASE Call
    BY <2>3, <2>5 DEF Call, Reply, Room
  <2>6. CASE Deallocate
    <3>1. PICK box \in boxes :
            /\ box.written
            /\ freed' = freed \cup {[capacity |-> heap[box.pointer].capacity,
                                     layout |-> Layout(heap[box.pointer])]}
            /\ heap' = [heap EXCEPT ![box.pointer] = Free]
            /\ boxes' = boxes \ {box}
      BY <2>6 DEF Deallocate
    <3>2. box.pointer \in Addresses /\ heap[box.pointer] = Holding(box.length)
      BY <3>1 DEF IndInv, Stored, Box, Sized, Contents, Holding
    <3>3. \A b \in boxes' : b \in boxes /\ b.pointer # box.pointer /\ b.pointer \in Addresses
      BY <3>1 DEF IndInv, Apart, Stored, Box
    <3>4. Stored'
      BY <3>1 DEF IndInv, Stored
    <3>5. Owned'
      BY <3>1, <3>2, <3>3 DEF IndInv, Owned, Stored
    <3>6. Apart'
      BY <3>3 DEF IndInv, Apart
    <3>7. \A b \in boxes' : heap'[b.pointer] = Contents(b)
      BY <3>1, <3>3 DEF IndInv, Sized, Stored
    <3>8. Sized'
      BY <3>7 DEF Sized, Contents
    <3>9. heap[box.pointer].capacity = Layout(heap[box.pointer])
      BY <3>2 DEF Holding, Layout
    <3>10. FreedAsAllocated'
      BY <3>1, <3>9 DEF IndInv, FreedAsAllocated
    <3>11. QED
      BY <3>4, <3>5, <3>6, <3>8, <3>10 DEF IndInv
  <2>7. CASE UNCHANGED vars
    BY <2>7 DEF vars, IndInv, Stored, Owned, Apart, Sized, Contents, FreedAsAllocated
  <2>8. QED
    BY <2>1, <2>2, <2>4, <2>5, <2>6, <2>7 DEF Next
<1>3. QED
  BY <1>1, <1>2, PTL DEF Spec

-----------------------------------------------------------------------------

\* Boxes and buffers have their types, the sizes within the length of a text.
THEOREM TypeCorrect == Spec => []BuffersTypeOK
<1>1. IndInv => BuffersTypeOK
  BY DEF IndInv, Stored, Buffer, BuffersTypeOK
<1>2. QED
  BY <1>1, Induction, PTL

\* The size that deallocate finds by looking for the NUL is the size that the
\* buffer was allocated with, whoever allocated it.
THEOREM LayoutsFit == Spec => []FreedAsAllocated
<1>1. IndInv => FreedAsAllocated
  BY DEF IndInv
<1>2. QED
  BY <1>1, Induction, PTL

\* A box keeps its buffer and its text until the host gives it back, and every
\* buffer has a box: nothing dangles, nothing is overwritten, nothing leaks.
THEOREM BoxesStayIntact == Spec => []BoxesIntact
<1>1. IndInv => BoxesIntact
  <2> SUFFICES ASSUME IndInv PROVE BoxesIntact
    OBVIOUS
  <2>1. {a \in Addresses : heap[a] # Free} = {b.pointer : b \in boxes}
    BY DEF IndInv, Owned, Stored, Box
  <2>2. ASSUME NEW b \in boxes, b.written
        PROVE  heap[b.pointer].text = b.length /\ b.length < heap[b.pointer].capacity
    <3>1. b.length \in Nat
      BY DEF IndInv, Stored, Box, Lengths
    <3>2. heap[b.pointer] = [capacity |-> b.length + 1, text |-> b.length]
      BY <2>2 DEF IndInv, Sized, Contents
    <3>3. QED
      BY <3>1, <3>2
  <2>3. QED
    BY <2>1, <2>2 DEF IndInv, Apart, BoxesIntact
<1>2. QED
  BY <1>1, Induction, PTL

=============================================================================

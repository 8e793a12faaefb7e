----------------------------- MODULE NolikBuffers -----------------------------
(***************************************************************************)
(* The memory behind the C interface of client/metadata/src/lib.rs, shared *)
(* by the library and a host that uses it as tests/www/index.js does: the  *)
(* host asks for a buffer, writes the parameters of a call into it, reads  *)
(* the reply from a buffer of the library, and gives both back, in any     *)
(* order and with several calls under way.                                 *)
(*                                                                         *)
(* Nobody passes a length: the end of a text is its first NUL byte, and so *)
(* is the size that `deallocate` hands to the allocator.  JSON has no NUL. *)
(***************************************************************************)
EXTENDS Naturals, FiniteSets

CONSTANTS
  Addresses,    \* where buffers may be
  MaxLength,    \* bound: length of a JSON text
  MaxBoxes,     \* bound: buffers the host holds at a time
  Free          \* nothing is allocated at an address

ASSUME BufferAssumption ==
  /\ MaxLength \in Nat \ {0}
  /\ MaxBoxes \in Nat
  /\ Free \notin [capacity : Nat, text : Nat]

VARIABLES
  heap,     \* the buffer at an address: its size and the bytes before its first NUL
  boxes,    \* the Box objects of the host
  freed     \* the buffers given back: their size, and the size they went back with

vars == <<heap, boxes, freed>>

Lengths == 1 .. MaxLength

\* `length` is that of the text the box is for; a reply is written from the start.
Box == [pointer : Addresses, kind : {"params", "reply"}, length : Lengths, written : BOOLEAN]

BuffersTypeOK ==
  /\ boxes \subseteq Box
  /\ \A a \in Addresses : heap[a] # Free =>
       heap[a].capacity \in 2 .. MaxLength + 1 /\ heap[a].text \in 0 .. MaxLength

Init ==
  /\ heap = [a \in Addresses |-> Free]
  /\ boxes = {}
  /\ freed = {}

-----------------------------------------------------------------------------
(* The library *)

Zeroed_Roomy(size) == [capacity |-> size + 2, text |-> 0]    \* mutant

\* allocate: `size` zero bytes, to which CString adds its own NUL.
Zeroed(size) == [capacity |-> size + 1, text |-> 0]

\* allocate_string
Holding(length) == [capacity |-> length + 1, text |-> length]

\* CString::from_raw measures the text to find out what to free.
Layout(buffer) == buffer.text + 1

\* The host writes a text from the start of the buffer.
Write(buffer, length) == [buffer EXCEPT !.text = length]

Reply_Consume(box, length, a) ==                         \* mutant
  /\ heap' = [heap EXCEPT ![a] = Holding(length), ![box.pointer] = Free]
  /\ freed' = freed \cup {[capacity |-> heap[box.pointer].capacity,
                           layout |-> Layout(heap[box.pointer])]}

\* A call with the parameters in a box.  They stay with the host; the reply,
\* an error or not, is a new buffer.
Reply(box, length, a) ==
  /\ heap' = [heap EXCEPT ![a] = Holding(length)]
  /\ UNCHANGED freed

-----------------------------------------------------------------------------
(* The host *)

Room(a) == heap[a] = Free /\ Cardinality(boxes) < MaxBoxes

NewParams ==
  \E a \in Addresses, length \in Lengths :
    /\ Room(a)
    /\ heap' = [heap EXCEPT ![a] = Zeroed(length)]
    /\ boxes' = boxes \cup {[pointer |-> a, kind |-> "params", length |-> length,
                             written |-> FALSE]}
    /\ UNCHANGED freed

WriteParams ==
  \E box \in boxes :
    /\ box.kind = "params" /\ ~box.written
    /\ heap' = [heap EXCEPT ![box.pointer] = Write(@, box.length)]
    /\ boxes' = (boxes \ {box}) \cup {[box EXCEPT !.written = TRUE]}
    /\ UNCHANGED freed

\* generate_keypair and generate_nonce take no parameters.
Generate ==
  \E a \in Addresses, length \in Lengths :
    /\ Room(a)
    /\ heap' = [heap EXCEPT ![a] = Holding(length)]
    /\ boxes' = boxes \cup {[pointer |-> a, kind |-> "reply", length |-> length,
                             written |-> TRUE]}
    /\ UNCHANGED freed

\* new_encrypted_metadata, decrypt_metadata, encrypt_message, decrypt_message.
Call ==
  \E box \in boxes, a \in Addresses, length \in Lengths :
    /\ box.kind = "params" /\ box.written
    /\ Room(a)
    /\ Reply(box, length, a)
    /\ boxes' = boxes \cup {[pointer |-> a, kind |-> "reply", length |-> length,
                             written |-> TRUE]}

\* A box is given back when it has served.
Deallocate ==
  \E box \in boxes :
    /\ box.written
    /\ freed' = freed \cup {[capacity |-> heap[box.pointer].capacity,
                             layout |-> Layout(heap[box.pointer])]}
    /\ heap' = [heap EXCEPT ![box.pointer] = Free]
    /\ boxes' = boxes \ {box}

Next == NewParams \/ WriteParams \/ Generate \/ Call \/ Deallocate

Spec == Init /\ [][Next]_vars

-----------------------------------------------------------------------------
(* Safety *)

\* What a box points to is its own, and holds the text that was put there: no
\* call frees or overwrites a buffer that the host still uses, and no buffer
\* is left that the host does not know of.
BoxesIntact ==
  /\ {a \in Addresses : heap[a] # Free} = {b.pointer : b \in boxes}
  /\ \A b, c \in boxes : b.pointer = c.pointer => b = c
  /\ \A b \in boxes :
       b.written => /\ heap[b.pointer].text = b.length
                    /\ heap[b.pointer].text < heap[b.pointer].capacity

\* deallocate (lib.rs:87) finds the size that the buffer was allocated with,
\* for the buffers of the host and for those of the library.
FreedAsAllocated == \A f \in freed : f.layout = f.capacity

=============================================================================

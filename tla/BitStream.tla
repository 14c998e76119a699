----------------------------- MODULE BitStream -----------------------------
(***************************************************************************)
(* The bit packer messages are written and read with: BitWriter and        *)
(* BitReader behind WriteStream and ReadStream.  They work on words of 32  *)
(* bits, with a scratch between the caller and the memory.                 *)
(*                                                                         *)
(* Every field of a message is a whole number of bytes, so the unit here   *)
(* is the byte and the alignment that precedes an array is never a step.   *)
(* The buffer of a writer is large enough.                                 *)
(***************************************************************************)
EXTENDS Integers, Sequences

CONSTANT Junk   \* any byte: what follows a packet in memory

Byte == 0..255

ASSUME JunkAssumption == Junk \in Byte

WordBytes == 4

-----------------------------------------------------------------------------
\* written counts for the caller, memory has the words that are stored.
NewWriter == [memory |-> << >>, scratch |-> << >>, written |-> 0]

\* One word at most is stored: nobody writes more than a word at a time.
WriteBits(w, bytes) ==
  LET pending == w.scratch \o bytes
      stored  == IF Len(pending) >= WordBytes THEN WordBytes ELSE 0
  IN [memory  |-> w.memory \o SubSeq(pending, 1, stored),
      scratch |-> SubSeq(pending, stored + 1, Len(pending)),
      written |-> w.written + Len(bytes)]

\* The last word is filled up with zeros.
FlushBits(w) ==
  IF w.scratch = << >> THEN w
  ELSE [w EXCEPT !.memory = @ \o [i \in 1..WordBytes |->
                                    IF i <= Len(w.scratch) THEN w.scratch[i] ELSE 0],
                 !.scratch = << >>]

\* How much of an array completes the current word, and how much is whole words.
HeadBytes(position, count) ==
  LET rest == (WordBytes - (position % WordBytes)) % WordBytes
  IN IF rest > count THEN count ELSE rest

BodyBytes(position, count) ==
  ((count - HeadBytes(position, count)) \div WordBytes) * WordBytes

\* Mutant: the tail begins after the words alone.
WriteBytesTailEarly(w, data) ==
  LET head == HeadBytes(w.written, Len(data))
      body == BodyBytes(w.written, Len(data))
      w1   == FlushBits(WriteBits(w, SubSeq(data, 1, head)))
      w2   == [w1 EXCEPT !.memory = @ \o SubSeq(data, head + 1, head + body),
                         !.written = @ + body]
  IN IF head = Len(data) THEN WriteBits(w, data)
     ELSE WriteBits(w2, SubSeq(data, body + 1, Len(data) - head))

\* Head and tail go through the scratch, byte by byte in the code; the words
\* between them are copied past it.
WriteBytes(w, data) ==
  LET head == HeadBytes(w.written, Len(data))
      body == BodyBytes(w.written, Len(data))
      w1   == WriteBits(w, SubSeq(data, 1, head))
      w2   == FlushBits(w1)
      w3   == [w2 EXCEPT !.memory = @ \o SubSeq(data, head + 1, head + body),
                         !.written = @ + body]
  IN IF head = Len(data) THEN w1
     ELSE WriteBits(w3, SubSeq(data, head + body + 1, Len(data)))

-----------------------------------------------------------------------------
\* The last word of a packet is fetched with what follows it.
Word(packet, index) ==
  [i \in 1..WordBytes |-> IF index * WordBytes + i <= Len(packet)
                            THEN packet[index * WordBytes + i] ELSE Junk]

NewReader == [scratch |-> << >>, index |-> 0, read |-> 0]

\* A read gives a value and the reader after it.
ReadBits(packet, r, count) ==
  LET fetch   == Len(r.scratch) < count
      scratch == IF fetch THEN r.scratch \o Word(packet, r.index) ELSE r.scratch
  IN [value  |-> SubSeq(scratch, 1, count),
      reader |-> [scratch |-> SubSeq(scratch, count + 1, Len(scratch)),
                  index   |-> IF fetch THEN r.index + 1 ELSE r.index,
                  read    |-> r.read + count]]

ReadBytes(packet, r, count) ==
  LET head == HeadBytes(r.read, count)
      body == BodyBytes(r.read, count)
      h    == ReadBits(packet, r, head)
      from == h.reader.index * WordBytes
      past == [h.reader EXCEPT !.index = @ + body \div WordBytes, !.read = @ + body]
      t    == ReadBits(packet, past, count - head - body)
  IN IF head = count THEN h
     ELSE [value |-> h.value
                     \o [i \in 1..body |-> Word(packet, (from + i - 1) \div WordBytes)
                                             [((i - 1) % WordBytes) + 1]]
                     \o t.value,
           reader |-> t.reader]

\* Mutant: the end of a packet is that of its last word.
FitsWords(packet, r, count) ==
  r.read + count <= ((Len(packet) + WordBytes - 1) \div WordBytes) * WordBytes

\* WouldReadPastEnd is false.
Fits(packet, r, count) == r.read + count <= Len(packet)
=============================================================================

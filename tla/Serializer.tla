----------------------------- MODULE Serializer -----------------------------
(***************************************************************************)
(* serializer/serializer.go and serializer/loader.go: the .mky file of a   *)
(* Bytecode, as a sequence of bytes.                                       *)
(*                                                                         *)
(* SHA-256 is taken to have no collisions: a cell of the checksum is the   *)
(* pair of what it is the checksum of and of its position.  A character of *)
(* a string is a byte other than 0.                                        *)
(***************************************************************************)
EXTENDS Bytecode, Objects

CONSTANTS
  IntBytes,        \* the bytes of an int64: 8 in the program
  ChecksumSize     \* sha256.Size: 32 in the program

(* What a byte counts that has k bytes to its right.                       *)
Weight[k \in 0..(IntBytes + 4)] == IF k = 0 THEN 1 ELSE Radix * Weight[k - 1]

(* The bytes of an int64 count all of its values.                          *)
ASSUME IntBytesAssumption ==
  IntBytes \in Nat \ {0} /\ ChecksumSize \in Nat \ {0} /\ Weight[IntBytes] = 2 * IntHalf

(* What a compiler gives.  The parameters of a function are among its      *)
(* locals, and 4 bytes count any code that fits into memory.               *)
Code == { ins \in Seq(ByteValues) : Len(ins) < Weight[4] }

Constants ==
  [t : {"INTEGER"}, n : Int64]
    \cup [t : {"STRING"}, s : Seq(1..(Radix - 1))]
    \cup { f \in [t : {"COMPILED_FUNCTION"}, ins : Code, numLocals : Nat, numParameters : Nat] :
             f.numParameters <= f.numLocals }

HEADER == << "*", "E", "M", "o", "n", "k", "e", "y", "1" >>

TypeByte(type) ==
  CASE type = "INTEGER" -> 2 [] type = "STRING" -> 6 [] type = "COMPILED_FUNCTION" -> 7

(* Mutant of BigEndian: the bytes the other way round.                     *)
LittleEndian(n, width) == [i \in 1..width |-> (n \div Weight[i - 1]) % Radix]

BigEndian(n, width) == [i \in 1..width |-> (n \div Weight[width - i]) % Radix]

FromBigEndian(bytes) ==
  LET value[k \in 0..Len(bytes)] ==      \* of the first k bytes
        IF k = 0 THEN 0 ELSE value[k - 1] * Radix + bytes[k]
  IN value[Len(bytes)]

(* Mutant of Covered: all but the last byte.                               *)
AllButLast(payload) == SubSeq(payload, 1, Len(payload) - 1)

(* What the checksum is made of: all that follows it.                      *)
Covered(payload) == payload

Checksum(payload)  == [i \in 1..ChecksumSize |-> << Covered(payload), i >>]

(* Space that has been reserved only; no payload has a byte -1.            *)
ReservedChecksum   == [i \in 1..ChecksumSize |-> << << -1 >>, i >>]

WithSize(bytes) == BigEndian(Len(bytes), 4) \o bytes

-----------------------------------------------------------------------------
(* writeObj, for the constants that a compiler makes.  The two numbers of  *)
(* a function are cut to a byte each.                                      *)
WriteObj(obj) ==
  << TypeByte(obj.t) >> \o
  CASE obj.t = "INTEGER" -> BigEndian(obj.n, IntBytes)
    [] obj.t = "STRING"  -> obj.s \o << 0 >>
    [] obj.t = "COMPILED_FUNCTION" ->
         << obj.numLocals % Radix, obj.numParameters % Radix >> \o WithSize(obj.ins)

(* The loop over the constants: the bytes of the first k of them.          *)
Written(constants) ==
  LET written[k \in 0..Len(constants)] ==
        IF k = 0 THEN << >> ELSE written[k - 1] \o WriteObj(constants[k])
  IN written

Payload(bytecode) ==
  << Len(bytecode.constants) >>
    \o Written(bytecode.constants)[Len(bytecode.constants)]
    \o WithSize(bytecode.instructions)

(* Write: the Output and whether there is an error.                        *)
Write(bytecode) ==
  IF Len(bytecode.constants) >= Radix
  THEN [output |-> HEADER \o ReservedChecksum, err |-> TRUE]
  ELSE [output |-> HEADER \o Checksum(Payload(bytecode)) \o Payload(bytecode), err |-> FALSE]

-----------------------------------------------------------------------------
(* The loader: is tells how it goes, "ok" as long as nothing is wrong, and *)
(* pos is what has been read of the payload.                               *)
Loading(payload) == [is |-> "ok", payload |-> payload, pos |-> 0, constants |-> << >>]

Rest(l)       == Len(l.payload) - l.pos
Bytes(l, n)   == SubSeq(l.payload, l.pos + 1, l.pos + n)
Ends(l, how)  == [l EXCEPT !.is = how]

Reads_(l, n, obj) == [l EXCEPT !.pos = @ + n, !.constants = Append(@, obj)]

ReadString(l) ==
  LET zeros == { n \in 0..(Rest(l) - 1) : l.payload[l.pos + n + 1] = 0 }
      len   == CHOOSE n \in zeros : \A m \in zeros : n <= m
  IN IF zeros = {} THEN Ends(l, "error") ELSE Reads_(l, len + 1, String(Bytes(l, len)))

ReadInteger(l) ==
  IF Rest(l) < IntBytes THEN Ends(l, "error")
  ELSE Reads_(l, IntBytes, Integer(Wrap(FromBigEndian(Bytes(l, IntBytes)))))

ReadFunction(l) ==
  LET size == FromBigEndian(SubSeq(l.payload, l.pos + 3, l.pos + 6))
      ins  == SubSeq(l.payload, l.pos + 7, l.pos + 6 + size)
  IN IF Rest(l) < 6 \/ Rest(l) < 6 + size THEN Ends(l, "error")
     ELSE Reads_(l, 6 + size, CompiledFunction(ins, l.payload[l.pos + 1], l.payload[l.pos + 2]))

ReadConstant(before) ==
  LET l    == [before EXCEPT !.pos = @ + 1]
      type == before.payload[l.pos]
  IN CASE before.is # "ok"  -> before
       [] before.is = "ok" /\ Rest(before) = 0 -> Ends(before, "error")
       [] OTHER -> CASE type = 6 -> ReadString(l)
                     [] type = 2 -> ReadInteger(l)
                     [] type = 7 -> ReadFunction(l)
                     [] OTHER    -> Ends(l, "error")

(* The loader after it has read k constants of as many as the first byte   *)
(* says.                                                                   *)
LoadConstants(payload) ==
  LET loading[k \in 0..payload[1]] ==
        IF k = 0 THEN [Loading(payload) EXCEPT !.pos = 1] ELSE ReadConstant(loading[k - 1])
  IN loading

(* The part of Load after the header: constants, then instructions.  (Go   *)
(* also lets a slice end in the capacity beyond the file; the checksum     *)
(* lets no file through whose lengths reach there.)                        *)
LoadPayload(payload) ==
  LET l    == LoadConstants(payload)[payload[1]]
      size == FromBigEndian(Bytes(l, 4))
  IN CASE payload = << >> -> Panic
       [] payload # << >> /\ l.is # "ok" -> Failed
       [] payload # << >> /\ l.is = "ok" /\ (Rest(l) < 4 \/ Rest(l) < 4 + size) -> Panic
       [] OTHER -> New([ constants |-> l.constants,
                         instructions |-> SubSeq(payload, l.pos + 5, l.pos + 4 + size) ])

(* checkHeader and Load.  What is beyond the end of the file is not there  *)
(* to be compared: an index or a slice out of range.                       *)
HeaderLen    == Len(HEADER)
PayloadStart == HeaderLen + ChecksumSize

WrongHeader(file) == \E i \in 1..HeaderLen : i <= Len(file) /\ file[i] # HEADER[i]

Load(file) ==
  LET payload == SubSeq(file, PayloadStart + 1, Len(file))
  IN IF WrongHeader(file) THEN Failed
     ELSE IF Len(file) < PayloadStart THEN Panic
     ELSE IF SubSeq(file, HeaderLen + 1, PayloadStart) # Checksum(payload) THEN Failed
     ELSE LoadPayload(payload)
=============================================================================

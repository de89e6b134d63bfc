--------------------------- MODULE CompilingProofs ---------------------------
(***************************************************************************)
(* Compile leaves code that the machine can run, for every program, every  *)
(* width of bytes and every size of the machine, unless it was in doubt.   *)
(***************************************************************************)
EXTENDS Compiling, SymbolTableProofs

-----------------------------------------------------------------------------
(* Instructions and their bytes.                                           *)

(* An opcode has a byte of its own.                                        *)
LEMMA OpcodeBytes ==
  ASSUME NEW op \in OpcodeNames
  PROVE  OpcodeByte(op) \in 0..29 /\ OpcodeByte(op) \in ByteValues /\ Opcodes[OpcodeByte(op) + 1] = op
<1>1. \E i \in 1..30 : Opcodes[i] = op
  BY DEF OpcodeNames
<1> DEFINE j == CHOOSE i \in 1..30 : Opcodes[i] = op
<1>2. j \in 1..30 /\ Opcodes[j] = op
  BY <1>1
<1>3. OpcodeByte(op) = j - 1
  BY DEF OpcodeByte
<1> HIDE DEF j
<1>4. (j - 1) + 1 = j /\ j - 1 \in 0..29
  BY <1>2
<1>5. j - 1 \in ByteValues
  BY <1>2, RadixAssumption DEF ByteValues
<1> QED BY <1>2, <1>3, <1>4, <1>5

(* Two bytes read as the number they were written from, but for multiples  *)
(* of what two bytes count; and one byte likewise.                         *)
LEMMA TwoBytes ==
  ASSUME NEW o \in Int
  PROVE  /\ o % Radix \in ByteValues /\ (o \div Radix) % Radix \in ByteValues
         /\ ((o \div Radix) % Radix) * Radix + (o % Radix) = o - ((o \div (Radix * Radix)) * (Radix * Radix))
<1> DEFINE h == o \div Radix
           x == h % Radix
           y == o % Radix
           z == h \div Radix
           r == Radix
<1>1. r \in Nat \ {0} /\ r \in Int
  BY RadixAssumption
<1>2. h \in Int /\ y \in 0..(r - 1) /\ (h * r) + y = o
  <2> HIDE DEF r
  <2> QED BY <1>1, Quotients DEF r
<1>3. z \in Int /\ x \in 0..(r - 1) /\ (z * r) + x = h
  <2> HIDE DEF h, r
  <2> QED BY <1>1, <1>2, Quotients DEF r
<1>4. z = o \div (r * r)
  BY <1>1, Quotients
<1>5. x \in ByteValues /\ y \in ByteValues
  BY <1>2, <1>3 DEF ByteValues
<1> HIDE DEF x, y, z, h, r
<1>6. x \in Int /\ y \in Int
  BY <1>1, <1>2, <1>3
<1>7. x * r + y = o - (z * (r * r))
  <2>1. ((z * r) + x) * r + y = o
    BY <1>2, <1>3
  <2>2. ((z * r) + x) * r = (z * (r * r)) + (x * r)
    BY <1>1, <1>3, <1>6
  <2>3. x * r \in Int /\ z * (r * r) \in Int
    BY <1>1, <1>3, <1>6
  <2> QED BY <1>6, <2>1, <2>2, <2>3
<1> QED BY <1>4, <1>5, <1>7 DEF x, y, z, h, r

(* What is read of operands that are written: what of them fits.           *)
OfWord(o) == o - ((o \div (Radix * Radix)) * (Radix * Radix))

AsEncoded(op, operands) ==
  LET widths == OperandWidths(op) IN
  CASE widths = << 2, 1 >> -> << OfWord(operands[1]), operands[2] % Radix >>
    [] widths = << 2 >>    -> << OfWord(operands[1]) >>
    [] widths = << 1 >>    -> << operands[1] % Radix >>
    [] OTHER               -> << >>

(* A number that fits is read as itself.                                   *)
LEMMA FittingReadsBack ==
  /\ \A o \in 0..(Radix - 1) : o % Radix = o
  /\ \A o \in 0..((Radix * Radix) - 1) : OfWord(o) = o
<1> DEFINE r == Radix * Radix
<1>1. Radix \in Nat /\ Radix >= 1
  BY RadixAssumption
<1>2. r \in Nat /\ r >= 1
  BY <1>1
<1>3. ASSUME NEW o \in 0..(Radix - 1) PROVE o % Radix = o
  BY <1>1
<1>4. ASSUME NEW o \in 0..(r - 1) PROVE o - ((o \div r) * r) = o
  <2> HIDE DEF r
  <2>1. o \div r = 0
    BY <1>2
  <2>2. 0 * r = 0 /\ o - 0 = o
    BY <1>2
  <2> QED BY <2>1, <2>2
<1> QED BY <1>3, <1>4 DEF OfWord

(* There are four shapes of operands.                                      *)
LEMMA Shapes ==
  ASSUME NEW op
  PROVE  LET widths == OperandWidths(op)
         IN \/ widths = << 2, 1 >> /\ InstructionLen(op) = 4 /\ Len(widths) = 2
            \/ widths = << 2 >> /\ InstructionLen(op) = 3 /\ Len(widths) = 1
            \/ widths = << 1 >> /\ InstructionLen(op) = 2 /\ Len(widths) = 1
            \/ widths = << >> /\ InstructionLen(op) = 1 /\ Len(widths) = 0
<1>1. OperandWidths(op) \in { << 2, 1 >>, << 2 >>, << 1 >>, << >> }
  BY DEF OperandWidths
<1>2. /\ << 2, 1 >> # << 2 >> /\ << 2, 1 >> # << 1 >> /\ << 2, 1 >> # << >>
      /\ << 2 >> # << 1 >> /\ << 2 >> # << >> /\ << 1 >> # << >>
  OBVIOUS
<1> QED BY <1>1, <1>2 DEF InstructionLen

(* Bytes between others are where they were put.                           *)
LEMMA BytesBetween ==
  ASSUME NEW before \in Seq(ByteValues), NEW code \in Seq(ByteValues),
         NEW after \in Seq(ByteValues)
  PROVE  LET ins == (before \o code) \o after
             p   == Len(before)
         IN /\ Len(ins) \in Nat /\ p \in Nat /\ Len(code) \in Nat /\ Len(after) \in Nat
            /\ Len(ins) = p + Len(code) + Len(after)
            /\ \A k \in 1..Len(code) : ins[p + k] = code[k]
<1> DEFINE left == before \o code
           p == Len(before)
           n == Len(code)
<1>1. p \in Nat /\ n \in Nat /\ Len(after) \in Nat
  BY LenProperties
<1>2. /\ left \in Seq(ByteValues) /\ Len(left) = p + n
      /\ \A i \in 1..(p + n) : left[i] = IF i <= p THEN before[i] ELSE code[i - p]
  BY ConcatProperties
<1> HIDE DEF left
<1>3. /\ Len(left \o after) = p + n + Len(after)
      /\ \A i \in 1..(p + n + Len(after)) : (left \o after)[i] = IF i <= p + n THEN left[i] ELSE after[i - (p + n)]
  <2>1. /\ Len(left \o after) = Len(left) + Len(after)
        /\ \A i \in 1..(Len(left) + Len(after)) :
             (left \o after)[i] = IF i <= Len(left) THEN left[i] ELSE after[i - Len(left)]
    <3>1. left \in Seq(ByteValues) /\ after \in Seq(ByteValues)
      BY <1>2
    <3> QED BY <3>1, ConcatProperties, Zenon
  <2>2. Len(left) = p + n
    BY <1>2
  <2> HIDE DEF p, n
  <2> QED BY <2>1, <2>2
<1> HIDE DEF p, n
<1>4. ASSUME NEW k \in 1..n PROVE (left \o after)[p + k] = code[k]
  <2>1. /\ p + k \in 1..(p + n + Len(after)) /\ p + k <= p + n /\ p + k \in 1..(p + n)
        /\ ~ (p + k <= p) /\ (p + k) - p = k
    BY <1>1
  <2>2. (left \o after)[p + k] = left[p + k]
    BY <1>3, <2>1
  <2>3. left[p + k] = code[(p + k) - p]
    BY <1>2, <2>1
  <2> QED BY <2>1, <2>2, <2>3
<1>5. Len(left \o after) \in Nat
  BY <1>1, <1>3
<1> QED BY <1>1, <1>3, <1>4, <1>5 DEF left, p, n

(* A byte before others.                                                   *)
LEMMA OneBefore ==
  ASSUME NEW S, NEW x \in S, NEW rest \in Seq(S)
  PROVE  LET code == << x >> \o rest
         IN /\ code \in Seq(S) /\ Len(code) = 1 + Len(rest)
            /\ code[1] = x /\ \A i \in 1..Len(rest) : code[i + 1] = rest[i]
<1> DEFINE one == << x >>
           code == one \o rest
<1>1. one \in Seq(S) /\ Len(one) = 1 /\ one[1] = x
  OBVIOUS
<1>2. Len(rest) \in Nat
  BY LenProperties
<1> HIDE DEF one
<1>3. /\ code \in Seq(S) /\ Len(code) = Len(one) + Len(rest)
      /\ \A i \in 1..(Len(one) + Len(rest)) : code[i] = IF i <= Len(one) THEN one[i] ELSE rest[i - Len(one)]
  <2>1. one \in Seq(S) /\ rest \in Seq(S)
    BY <1>1
  <2> QED BY <2>1, ConcatProperties, Zenon
<1> HIDE DEF code
<1>4. code[1] = x
  BY <1>1, <1>2, <1>3
<1>5. ASSUME NEW i \in 1..Len(rest) PROVE code[i + 1] = rest[i]
  <2>1. i + 1 \in 1..(Len(one) + Len(rest)) /\ ~ (i + 1 <= Len(one)) /\ (i + 1) - Len(one) = i
    BY <1>1, <1>2
  <2> QED BY <1>3, <2>1
<1> QED BY <1>1, <1>3, <1>4, <1>5 DEF code, one

(* Two bytes before one.                                                   *)
LEMMA TwoBefore ==
  ASSUME NEW S, NEW x \in S, NEW y \in S, NEW z \in S
  PROVE  LET rest == << x, y >> \o << z >>
         IN rest \in Seq(S) /\ Len(rest) = 3 /\ rest[1] = x /\ rest[2] = y /\ rest[3] = z
<1> DEFINE two == << x, y >>
           one == << z >>
           rest == two \o one
<1>1. two \in Seq(S) /\ Len(two) = 2 /\ two[1] = x /\ two[2] = y
  OBVIOUS
<1>2. one \in Seq(S) /\ Len(one) = 1 /\ one[1] = z
  OBVIOUS
<1> HIDE DEF two, one
<1>3. /\ rest \in Seq(S) /\ Len(rest) = Len(two) + Len(one)
      /\ \A i \in 1..(Len(two) + Len(one)) : rest[i] = IF i <= Len(two) THEN two[i] ELSE one[i - Len(two)]
  <2>1. two \in Seq(S) /\ one \in Seq(S)
    BY <1>1, <1>2
  <2> QED BY <2>1, ConcatProperties, Zenon
<1> HIDE DEF rest
<1>4. Len(rest) = 3 /\ rest[1] = x /\ rest[2] = y /\ rest[3] = z
  BY <1>1, <1>2, <1>3
<1> QED BY <1>3, <1>4 DEF rest, two, one

(* What Make makes.                                                        *)
LEMMA MakeLaws ==
  ASSUME NEW op \in OpcodeNames, NEW operands \in Seq(Int), Len(operands) = Len(OperandWidths(op))
  PROVE  /\ Make(op, operands) \in Seq(ByteValues) /\ Len(Make(op, operands)) = InstructionLen(op)
         /\ Make(op, operands)[1] = OpcodeByte(op)
         /\ LET code == Make(op, operands) IN
              CASE OperandWidths(op) = << 2, 1 >> ->
                     /\ code[2] * Radix + code[3] = OfWord(operands[1])
                     /\ code[4] = operands[2] % Radix
                [] OperandWidths(op) = << 2 >>    -> code[2] * Radix + code[3] = OfWord(operands[1])
                [] OperandWidths(op) = << 1 >>    -> code[2] = operands[1] % Radix
                [] OTHER                          -> TRUE
<1> DEFINE w == OperandWidths(op)
           b == OpcodeByte(op)
           code == Make(op, operands)
           first == operands[1]
           second == operands[2]
           High(o) == (o \div Radix) % Radix
           Low(o) == o % Radix
<1>1. b \in ByteValues
  BY OpcodeBytes
<1>2. /\ << 2, 1 >> # << 2 >> /\ << 2, 1 >> # << 1 >> /\ << 2, 1 >> # << >>
      /\ << 2 >> # << 1 >> /\ << 2 >> # << >> /\ << 1 >> # << >>
  OBVIOUS
<1>3. \A o \in Int : Low(o) \in ByteValues /\ High(o) \in ByteValues /\ High(o) * Radix + Low(o) = OfWord(o)
  BY TwoBytes DEF OfWord
<1> DEFINE rest == CASE w = << 2, 1 >> -> << High(first), Low(first) >> \o << Low(second) >>
                     [] w = << 2 >>    -> << High(first), Low(first) >>
                     [] w = << 1 >>    -> << Low(first) >>
                     [] OTHER          -> << >>
<1>4. code = << b >> \o rest
  BY DEF Make, PutUint16, PutUint8
<1>5. \A i \in 1..Len(operands) : operands[i] \in Int
  BY ElementOfSeq
<1> HIDE DEF High, Low, b, code
<1>6. CASE w = << 2, 1 >>
  <2>1. InstructionLen(op) = 4 /\ first \in Int /\ second \in Int
    <3>1. InstructionLen(op) = 4 /\ Len(operands) = 2
      BY <1>2, <1>6, Shapes
    <3> QED BY <1>5, <3>1
  <2>2. rest = << High(first), Low(first) >> \o << Low(second) >>
    BY <1>2, <1>6
  <2> HIDE DEF w, first, second, rest
  <2>3. High(first) \in ByteValues /\ Low(first) \in ByteValues /\ Low(second) \in ByteValues
    BY <1>3, <2>1
  <2>4. /\ rest \in Seq(ByteValues) /\ Len(rest) = 3
        /\ rest[1] = High(first) /\ rest[2] = Low(first) /\ rest[3] = Low(second)
    <3> DEFINE x == High(first)
           y == Low(first)
           z == Low(second)
           three == << x, y >> \o << z >>
    <3>1. x \in ByteValues /\ y \in ByteValues /\ z \in ByteValues
      BY <2>3
    <3>2. rest = three
      BY <2>2
    <3> HIDE DEF x, y, z
    <3>3. three \in Seq(ByteValues) /\ Len(three) = 3 /\ three[1] = x /\ three[2] = y /\ three[3] = z
      BY <3>1, TwoBefore
    <3> HIDE DEF three
    <3> QED BY <3>2, <3>3 DEF x, y, z
  <2>5. /\ code \in Seq(ByteValues) /\ Len(code) = 4
        /\ code[1] = b /\ code[2] = High(first) /\ code[3] = Low(first) /\ code[4] = Low(second)
    <3>1. rest \in Seq(ByteValues) /\ b \in ByteValues
      BY <1>1, <2>4
    <3> DEFINE all == << b >> \o rest
    <3>2. /\ all \in Seq(ByteValues) /\ Len(all) = 1 + Len(rest)
          /\ all[1] = b /\ \A i \in 1..Len(rest) : all[i + 1] = rest[i]
      BY <3>1, OneBefore
    <3>3. code = all
      BY <1>4
    <3> HIDE DEF all
    <3> QED BY <2>4, <3>2, <3>3
  <2>6. code[2] * Radix + code[3] = OfWord(first) /\ code[4] = second % Radix
    BY <1>3, <2>1, <2>5 DEF Low
  <2> QED BY <1>2, <1>6, <2>1, <2>5, <2>6 DEF w, b, code, first, second
<1>7. CASE w = << 2 >>
  <2>1. InstructionLen(op) = 3 /\ first \in Int
    <3>1. InstructionLen(op) = 3 /\ Len(operands) = 1
      BY <1>2, <1>7, Shapes
    <3> QED BY <1>5, <3>1
  <2>2. rest = << High(first), Low(first) >>
    BY <1>2, <1>7
  <2> HIDE DEF w, first, second, rest
  <2>3. High(first) \in ByteValues /\ Low(first) \in ByteValues
    BY <1>3, <2>1
  <2>4. /\ rest \in Seq(ByteValues) /\ Len(rest) = 2
        /\ rest[1] = High(first) /\ rest[2] = Low(first)
    BY <2>2, <2>3
  <2>5. /\ code \in Seq(ByteValues) /\ Len(code) = 3
        /\ code[1] = b /\ code[2] = High(first) /\ code[3] = Low(first)
    <3>1. rest \in Seq(ByteValues) /\ b \in ByteValues
      BY <1>1, <2>4
    <3> DEFINE all == << b >> \o rest
    <3>2. /\ all \in Seq(ByteValues) /\ Len(all) = 1 + Len(rest)
          /\ all[1] = b /\ \A i \in 1..Len(rest) : all[i + 1] = rest[i]
      BY <3>1, OneBefore
    <3>3. code = all
      BY <1>4
    <3> HIDE DEF all
    <3> QED BY <2>4, <3>2, <3>3
  <2>6. code[2] * Radix + code[3] = OfWord(first)
    BY <1>3, <2>1, <2>5
  <2> QED BY <1>2, <1>7, <2>1, <2>5, <2>6 DEF w, b, code, first
<1>8. CASE w = << 1 >>
  <2>1. InstructionLen(op) = 2 /\ first \in Int
    <3>1. InstructionLen(op) = 2 /\ Len(operands) = 1
      BY <1>2, <1>8, Shapes
    <3> QED BY <1>5, <3>1
  <2>2. rest = << Low(first) >>
    BY <1>2, <1>8
  <2> HIDE DEF w, first, second, rest
  <2>3. Low(first) \in ByteValues
    BY <1>3, <2>1
  <2>4. /\ rest \in Seq(ByteValues) /\ Len(rest) = 1
        /\ rest[1] = Low(first)
    BY <2>2, <2>3
  <2>5. /\ code \in Seq(ByteValues) /\ Len(code) = 2
        /\ code[1] = b /\ code[2] = Low(first)
    <3>1. rest \in Seq(ByteValues) /\ b \in ByteValues
      BY <1>1, <2>4
    <3> DEFINE all == << b >> \o rest
    <3>2. /\ all \in Seq(ByteValues) /\ Len(all) = 1 + Len(rest)
          /\ all[1] = b /\ \A i \in 1..Len(rest) : all[i + 1] = rest[i]
      BY <3>1, OneBefore
    <3>3. code = all
      BY <1>4
    <3> HIDE DEF all
    <3> QED BY <2>4, <3>2, <3>3
  <2> QED BY <1>2, <1>8, <2>1, <2>5 DEF w, b, code, first, Low
<1>9. CASE w = << >>
  <2>1. InstructionLen(op) = 1
    BY <1>2, <1>9, Shapes
  <2>2. code = << b >>
    BY <1>2, <1>4, <1>9
  <2>3. code \in Seq(ByteValues) /\ Len(code) = 1 /\ code[1] = b
    BY <1>1, <2>2
  <2> HIDE DEF w
  <2> QED BY <1>2, <1>9, <2>1, <2>3 DEF w, b, code
<1> QED BY <1>6, <1>7, <1>8, <1>9, Shapes

(* The machine finds an instruction where the compiler has put it, whole,  *)
(* and reads the operands that it was given, as far as they fit into their *)
(* bytes; one that does not fit is another one (code.go:137-164, 166-182). *)
THEOREM OperandsComeBack ==
  ASSUME NEW op \in OpcodeNames, NEW operands \in Seq(Int), Len(operands) = Len(OperandWidths(op)),
         NEW before \in Seq(ByteValues), NEW after \in Seq(ByteValues)
  PROVE  LET ins == (before \o Make(op, operands)) \o after
             p   == Len(before)
         IN /\ WholeInstruction(ins, p)
            /\ Opcodes[ins[p + 1] + 1] = op
            /\ ReadOperands(op, ins, p) = AsEncoded(op, operands)
            /\ Fit(op, operands) => ReadOperands(op, ins, p) = operands
<1> DEFINE code == Make(op, operands)
           ins == (before \o code) \o after
           p == Len(before)
           w == OperandWidths(op)
           o1 == operands[1]
           o2 == operands[2]
<1>1. /\ code \in Seq(ByteValues) /\ Len(code) = InstructionLen(op) /\ code[1] = OpcodeByte(op)
      /\ CASE w = << 2, 1 >> -> code[2] * Radix + code[3] = OfWord(o1) /\ code[4] = o2 % Radix
           [] w = << 2 >>    -> code[2] * Radix + code[3] = OfWord(o1)
           [] w = << 1 >>    -> code[2] = o1 % Radix
           [] OTHER          -> TRUE
  BY MakeLaws
<1>2. /\ << 2, 1 >> # << 2 >> /\ << 2, 1 >> # << 1 >> /\ << 2, 1 >> # << >>
      /\ << 2 >> # << 1 >> /\ << 2 >> # << >> /\ << 1 >> # << >>
  OBVIOUS
<1>3. \/ w = << 2, 1 >> /\ InstructionLen(op) = 4 /\ Len(w) = 2
      \/ w = << 2 >> /\ InstructionLen(op) = 3 /\ Len(w) = 1
      \/ w = << 1 >> /\ InstructionLen(op) = 2 /\ Len(w) = 1
      \/ w = << >> /\ InstructionLen(op) = 1 /\ Len(w) = 0
  BY Shapes
<1> HIDE DEF code
<1>4. /\ Len(ins) \in Nat /\ p \in Nat /\ Len(code) \in Nat /\ Len(after) \in Nat
      /\ Len(ins) = p + Len(code) + Len(after)
      /\ \A k \in 1..Len(code) : ins[p + k] = code[k]
  <2>1. before \in Seq(ByteValues) /\ code \in Seq(ByteValues) /\ after \in Seq(ByteValues)
    BY <1>1
  <2>2. LET all == (before \o code) \o after
            q   == Len(before)
        IN /\ Len(all) \in Nat /\ q \in Nat /\ Len(code) \in Nat /\ Len(after) \in Nat
           /\ Len(all) = q + Len(code) + Len(after)
           /\ \A k \in 1..Len(code) : all[q + k] = code[k]
    <3> HIDE DEF ins, p, w, o1, o2
    <3> QED BY <2>1, BytesBetween
  <2> QED BY <2>2
<1> HIDE DEF ins, p
<1>5. Len(code) >= 1 /\ 1 \in 1..Len(code)
  BY <1>1, <1>3
<1>6. ins[p + 1] = OpcodeByte(op)
  BY <1>1, <1>4, <1>5
<1>7. Opcodes[ins[p + 1] + 1] = op /\ ins[p + 1] \in 0..29
  BY <1>6, OpcodeBytes
<1>8. WholeInstruction(ins, p)
  <2>1. p \in 0..(Len(ins) - 1) /\ p + InstructionLen(op) <= Len(ins)
    <3> HIDE DEF w
    <3> QED BY <1>1, <1>4, <1>5
  <2> QED BY <1>7, <2>1 DEF WholeInstruction
<1>9. /\ Len(code) = 4 => ins[p + 2] = code[2] /\ ins[p + 3] = code[3] /\ ins[p + 4] = code[4]
      /\ Len(code) = 3 => ins[p + 2] = code[2] /\ ins[p + 3] = code[3]
      /\ Len(code) = 2 => ins[p + 2] = code[2]
  BY <1>4
<1>10. p + 1 + 1 = p + 2 /\ p + 1 + 2 = p + 3 /\ p + 3 + 1 = p + 4
  BY <1>4
<1> HIDE DEF w, o1, o2
<1>11. ReadOperands(op, ins, p) =
         CASE w = << 2, 1 >> -> << ins[p + 2] * Radix + ins[p + 3], ins[p + 4] >>
           [] w = << 2 >>    -> << ins[p + 2] * Radix + ins[p + 3] >>
           [] w = << 1 >>    -> << ins[p + 2] >>
           [] OTHER          -> << >>
  BY <1>10 DEF ReadOperands, ReadUint16, ReadUint8, w
<1>12. AsEncoded(op, operands) =
         CASE w = << 2, 1 >> -> << OfWord(o1), o2 % Radix >>
           [] w = << 2 >>    -> << OfWord(o1) >>
           [] w = << 1 >>    -> << o1 % Radix >>
           [] OTHER          -> << >>
  BY DEF AsEncoded, w, o1, o2
<1>13. ReadOperands(op, ins, p) = AsEncoded(op, operands)
  <2>1. CASE w = << 2, 1 >>
    BY <1>1, <1>2, <1>3, <1>9, <1>11, <1>12, <2>1
  <2>2. CASE w = << 2 >>
    BY <1>1, <1>2, <1>3, <1>9, <1>11, <1>12, <2>2
  <2>3. CASE w = << 1 >>
    BY <1>1, <1>2, <1>3, <1>9, <1>11, <1>12, <2>3
  <2>4. CASE w = << >>
    BY <1>2, <1>11, <1>12, <2>4
  <2> QED BY <1>3, <2>1, <2>2, <2>3, <2>4
<1>14. ASSUME Fit(op, operands) PROVE AsEncoded(op, operands) = operands
  <2>1. Len(operands) = Len(w)
    BY DEF w
  <2>2. \A i \in 1..Len(operands) : operands[i] \in 0..((IF w[i] = 2 THEN Radix * Radix ELSE Radix) - 1)
    BY <1>14 DEF Fit, w
  <2>3. CASE w = << 2, 1 >>
    <3>1. o1 \in 0..((Radix * Radix) - 1) /\ o2 \in 0..(Radix - 1)
      <4>1. Len(operands) = 2 /\ w[1] = 2 /\ w[2] = 1
        BY <2>1, <2>3
      <4> QED BY <2>2, <4>1 DEF o1, o2
    <3>2. OfWord(o1) = o1 /\ o2 % Radix = o2
      BY <3>1, FittingReadsBack
    <3>3. operands = << o1, o2 >>
      <4>1. Len(operands) = 2
        BY <2>1, <2>3
      <4> QED BY <4>1 DEF o1, o2
    <3> QED BY <1>2, <1>12, <2>3, <3>2, <3>3
  <2>4. CASE w = << 2 >>
    <3>1. o1 \in 0..((Radix * Radix) - 1)
      <4>1. Len(operands) = 1 /\ w[1] = 2
        BY <2>1, <2>4
      <4> QED BY <2>2, <4>1 DEF o1
    <3>2. OfWord(o1) = o1
      BY <3>1, FittingReadsBack
    <3>3. operands = << o1 >>
      <4>1. Len(operands) = 1
        BY <2>1, <2>4
      <4> QED BY <4>1 DEF o1
    <3> QED BY <1>2, <1>12, <2>4, <3>2, <3>3
  <2>5. CASE w = << 1 >>
    <3>1. o1 \in 0..(Radix - 1)
      <4>1. Len(operands) = 1 /\ w[1] = 1
        BY <2>1, <2>5
      <4> QED BY <2>2, <4>1 DEF o1
    <3>2. o1 % Radix = o1
      BY <3>1, FittingReadsBack
    <3>3. operands = << o1 >>
      <4>1. Len(operands) = 1
        BY <2>1, <2>5
      <4> QED BY <4>1 DEF o1
    <3> QED BY <1>2, <1>12, <2>5, <3>2, <3>3
  <2>6. CASE w = << >>
    <3>1. operands = << >>
      <4>1. Len(operands) = 0
        BY <2>1, <2>6
      <4> QED BY <4>1, EmptySeq
    <3> QED BY <1>2, <1>12, <2>6, <3>1
  <2> QED BY <1>3, <2>3, <2>4, <2>5, <2>6
<1> QED BY <1>7, <1>8, <1>13, <1>14 DEF ins, p, code

-----------------------------------------------------------------------------
(* Instructions in a code.                                                 *)

(* The four shapes are told apart by their opcodes.                        *)
LEMMA OperandShapes ==
  ASSUME NEW ins, NEW p, NEW op
  PROVE  \/ /\ OperandWidths(op) = << 2, 1 >> /\ InstructionLen(op) = 4
            /\ ReadOperands(op, ins, p) = << ins[p + 1 + 1] * Radix + ins[p + 1 + 2], ins[p + 3 + 1] >>
         \/ /\ OperandWidths(op) = << 2 >> /\ InstructionLen(op) = 3
            /\ ReadOperands(op, ins, p) = << ins[p + 1 + 1] * Radix + ins[p + 1 + 2] >>
         \/ /\ OperandWidths(op) = << 1 >> /\ InstructionLen(op) = 2
            /\ ReadOperands(op, ins, p) = << ins[p + 1 + 1] >>
         \/ /\ OperandWidths(op) = << >> /\ InstructionLen(op) = 1
            /\ ReadOperands(op, ins, p) = << >>
<1>1. /\ << 2, 1 >> # << 2 >> /\ << 2, 1 >> # << 1 >> /\ << 2, 1 >> # << >>
      /\ << 2 >> # << 1 >> /\ << 2 >> # << >> /\ << 1 >> # << >>
  OBVIOUS
<1>2. \/ OperandWidths(op) = << 2, 1 >> /\ InstructionLen(op) = 4
      \/ OperandWidths(op) = << 2 >> /\ InstructionLen(op) = 3
      \/ OperandWidths(op) = << 1 >> /\ InstructionLen(op) = 2
      \/ OperandWidths(op) = << >> /\ InstructionLen(op) = 1
  BY Shapes
<1> QED BY <1>1, <1>2 DEF ReadOperands, ReadUint16, ReadUint8

(* What is at an instruction that is there.                                *)
LEMMA InstructionFacts ==
  ASSUME NEW ins \in Seq(ByteValues), NEW p, WholeInstruction(ins, p)
  PROVE  /\ p \in Nat /\ p < Len(ins) /\ Len(ins) \in Nat
         /\ OpAt(ins, p) \in OpcodeNames
         /\ InstructionLen(OpAt(ins, p)) \in 1..4
         /\ After(ins, p) = p + InstructionLen(OpAt(ins, p))
         /\ After(ins, p) \in Nat /\ After(ins, p) <= Len(ins) /\ p < After(ins, p)
         /\ ArgsAt(ins, p) \in Seq(Nat)
         /\ Len(ArgsAt(ins, p)) = Len(OperandWidths(OpAt(ins, p)))
<1> DEFINE op == OpAt(ins, p)
<1>1. /\ p \in 0..(Len(ins) - 1) /\ ins[p + 1] \in 0..29 /\ Len(ins) \in Nat
      /\ p + InstructionLen(op) <= Len(ins) /\ op = Opcodes[ins[p + 1] + 1]
  BY DEF WholeInstruction, OpAt
<1>2. op \in OpcodeNames
  <2>1. \A b \in 0..29 : b + 1 \in 1..30
    OBVIOUS
  <2>2. ins[p + 1] + 1 \in 1..30
    BY Zenon, <1>1, <2>1
  <2> QED BY <1>1, <2>2 DEF OpcodeNames
<1>3. \A i \in 1..Len(ins) : ins[i] \in Nat
  <2>1. \A i \in 1..Len(ins) : ins[i] \in ByteValues
    OBVIOUS
  <2> QED BY <2>1, RadixAssumption DEF ByteValues
<1>4. After(ins, p) = p + InstructionLen(op) /\ ArgsAt(ins, p) = ReadOperands(op, ins, p)
  BY DEF After, ArgsAt
<1> HIDE DEF op
<1>5. /\ InstructionLen(op) \in 1..4 /\ ReadOperands(op, ins, p) \in Seq(Nat)
      /\ Len(ReadOperands(op, ins, p)) = Len(OperandWidths(op))
  <2>1. CASE /\ OperandWidths(op) = << 2, 1 >> /\ InstructionLen(op) = 4
             /\ ReadOperands(op, ins, p) = << ins[p + 1 + 1] * Radix + ins[p + 1 + 2], ins[p + 3 + 1] >>
    <3>1. ins[p + 1 + 1] \in Nat /\ ins[p + 1 + 2] \in Nat /\ ins[p + 3 + 1] \in Nat
      BY <1>1, <1>3, <2>1
    <3>2. ins[p + 1 + 1] * Radix + ins[p + 1 + 2] \in Nat
      BY <3>1, RadixAssumption
    <3> QED BY <2>1, <3>1, <3>2
  <2>2. CASE /\ OperandWidths(op) = << 2 >> /\ InstructionLen(op) = 3
             /\ ReadOperands(op, ins, p) = << ins[p + 1 + 1] * Radix + ins[p + 1 + 2] >>
    <3>1. ins[p + 1 + 1] \in Nat /\ ins[p + 1 + 2] \in Nat
      BY <1>1, <1>3, <2>2
    <3>2. ins[p + 1 + 1] * Radix + ins[p + 1 + 2] \in Nat
      BY <3>1, RadixAssumption
    <3> QED BY <2>2, <3>1, <3>2
  <2>3. CASE /\ OperandWidths(op) = << 1 >> /\ InstructionLen(op) = 2
             /\ ReadOperands(op, ins, p) = << ins[p + 1 + 1] >>
    <3>1. ins[p + 1 + 1] \in Nat
      BY <1>1, <1>3, <2>3
    <3> QED BY <2>3, <3>1
  <2>4. CASE /\ OperandWidths(op) = << >> /\ InstructionLen(op) = 1
             /\ ReadOperands(op, ins, p) = << >>
    BY <2>4
  <2> QED BY <2>1, <2>2, <2>3, <2>4, OperandShapes
<1> QED BY <1>1, <1>2, <1>4, <1>5 DEF op

(* An instruction is what its bytes are.                                   *)
LEMMA ReadAlike ==
  ASSUME NEW ins \in Seq(ByteValues), NEW new \in Seq(ByteValues), NEW p, WholeInstruction(ins, p),
         After(ins, p) <= Len(new), \A i \in (p + 1)..After(ins, p) : new[i] = ins[i]
  PROVE  /\ WholeInstruction(new, p)
         /\ OpAt(new, p) = OpAt(ins, p) /\ ArgsAt(new, p) = ArgsAt(ins, p)
         /\ After(new, p) = After(ins, p)
         /\ Takes(new, p) = Takes(ins, p) /\ Leaves(new, p) = Leaves(ins, p)
         /\ Successors(new, p) = Successors(ins, p)
<1> DEFINE op == OpAt(ins, p)
<1>1. /\ p \in Nat /\ p < Len(ins) /\ Len(ins) \in Nat /\ Len(new) \in Nat
      /\ InstructionLen(op) \in 1..4 /\ After(ins, p) = p + InstructionLen(op)
      /\ op = Opcodes[ins[p + 1] + 1] /\ ins[p + 1] \in 0..29
  BY InstructionFacts DEF WholeInstruction, OpAt
<1>2. new[p + 1] = ins[p + 1]
  <2>1. p + 1 \in (p + 1)..After(ins, p)
    BY <1>1
  <2> QED BY <2>1
<1>3. OpAt(new, p) = op
  BY <1>1, <1>2 DEF OpAt
<1>4. After(new, p) = After(ins, p)
  BY <1>3 DEF After
<1>5. WholeInstruction(new, p)
  <2>1. p \in 0..(Len(new) - 1) /\ p + InstructionLen(op) <= Len(new)
    BY <1>1
  <2>2. op = Opcodes[new[p + 1] + 1] /\ new[p + 1] \in 0..29
    BY <1>1, <1>2
  <2> QED BY <2>1, <2>2 DEF WholeInstruction
<1>6. ArgsAt(new, p) = ArgsAt(ins, p)
  <2>1. ReadOperands(op, new, p) = ReadOperands(op, ins, p)
    <3>1. \A i \in 2..InstructionLen(op) : new[p + i] = ins[p + i]
      BY <1>1
    <3>2. p + 1 + 1 = p + 2 /\ p + 1 + 2 = p + 3 /\ p + 3 + 1 = p + 4
      BY <1>1
    <3> HIDE DEF op
    <3>3. CASE InstructionLen(op) = 4
      <4>1. new[p + 2] = ins[p + 2] /\ new[p + 3] = ins[p + 3] /\ new[p + 4] = ins[p + 4]
        BY <3>1, <3>3
      <4> QED BY <3>2, <3>3, <4>1 DEF ReadOperands, ReadUint16, ReadUint8
    <3>4. CASE InstructionLen(op) = 3
      <4>1. new[p + 2] = ins[p + 2] /\ new[p + 3] = ins[p + 3]
        BY <3>1, <3>4
      <4>2. OperandWidths(op) = << 2 >>
        BY <3>4, Shapes
      <4>3. << 2 >> # << 2, 1 >>
        OBVIOUS
      <4> QED BY <3>2, <4>1, <4>2, <4>3 DEF ReadOperands, ReadUint16, ReadUint8
    <3>5. CASE InstructionLen(op) = 2
      <4>1. new[p + 2] = ins[p + 2]
        BY <3>1, <3>5
      <4>2. OperandWidths(op) = << 1 >>
        BY <3>5, Shapes
      <4>3. << 1 >> # << 2, 1 >> /\ << 1 >> # << 2 >>
        OBVIOUS
      <4> QED BY <3>2, <4>1, <4>2, <4>3 DEF ReadOperands, ReadUint16, ReadUint8
    <3>6. CASE InstructionLen(op) = 1
      <4>1. OperandWidths(op) = << >>
        BY <3>6, Shapes
      <4>2. << >> # << 2, 1 >> /\ << >> # << 2 >> /\ << >> # << 1 >>
        OBVIOUS
      <4> QED BY <4>1, <4>2 DEF ReadOperands
    <3> QED BY <1>1, <3>3, <3>4, <3>5, <3>6 DEF op
  <2> QED BY <1>3, <2>1 DEF ArgsAt
<1>7. Takes(new, p) = Takes(ins, p) /\ Leaves(new, p) = Leaves(ins, p)
  BY <1>3, <1>6 DEF Takes, Leaves
<1>8. Successors(new, p) = Successors(ins, p)
  BY <1>3, <1>4, <1>6 DEF Successors
<1> QED BY <1>3, <1>4, <1>5, <1>6, <1>7, <1>8

(* An instruction that is emitted is found behind the others.              *)
LEMMA EmitReads ==
  ASSUME NEW ins \in Seq(ByteValues), NEW op \in OpcodeNames, NEW operands \in Seq(Nat),
         Len(operands) = Len(OperandWidths(op))
  PROVE  LET new == ins \o Make(op, operands)
             n   == Len(ins)
         IN /\ new \in Seq(ByteValues) /\ Len(new) = n + InstructionLen(op)
            /\ \A i \in 1..n : new[i] = ins[i]
            /\ WholeInstruction(new, n) /\ OpAt(new, n) = op /\ After(new, n) = Len(new)
            /\ Fit(op, operands) => ArgsAt(new, n) = operands
<1> DEFINE code == Make(op, operands)
           new == ins \o code
           n == Len(ins)
<1>1. operands \in Seq(Int)
  OBVIOUS
<1>2. code \in Seq(ByteValues) /\ Len(code) = InstructionLen(op)
  BY <1>1, MakeLaws
<1>3. << >> \in Seq(ByteValues)
  OBVIOUS
<1>4. LET all == (ins \o code) \o << >>
      IN /\ WholeInstruction(all, n)
         /\ Opcodes[all[n + 1] + 1] = op
         /\ Fit(op, operands) => ReadOperands(op, all, n) = operands
  BY ZenonT(30), <1>1, <1>3, OperandsComeBack
<1> HIDE DEF code
<1>5. new \in Seq(ByteValues) /\ Len(new) = n + Len(code) /\ \A i \in 1..n : new[i] = ins[i]
  <2>1. ins \in Seq(ByteValues) /\ code \in Seq(ByteValues)
    BY <1>2
  <2>2. /\ ins \o code \in Seq(ByteValues) /\ Len(ins \o code) = Len(ins) + Len(code)
        /\ \A i \in 1..(Len(ins) + Len(code)) :
             (ins \o code)[i] = IF i <= Len(ins) THEN ins[i] ELSE code[i - Len(ins)]
    BY <2>1, ConcatProperties
  <2> QED BY <2>2
<1>6. new \o << >> = new
  BY <1>5, ConcatEmptySeq
<1> HIDE DEF new
<1>7. /\ WholeInstruction(new, n) /\ OpAt(new, n) = op
      /\ Fit(op, operands) => ArgsAt(new, n) = operands
  BY <1>4, <1>6 DEF OpAt, ArgsAt, new
<1>8. After(new, n) = Len(new)
  BY <1>2, <1>5, <1>7 DEF After
<1> QED BY <1>2, <1>5, <1>7, <1>8 DEF new, code

(* Other bytes are put over those of an instruction of the same length.    *)
LEMMA Overwritten ==
  ASSUME NEW ins \in Seq(ByteValues), NEW p \in Nat, NEW code \in Seq(ByteValues), p + Len(code) <= Len(ins)
  PROVE  LET new == ReplaceInstruction(ins, p, code)
         IN /\ new \in Seq(ByteValues) /\ Len(new) = Len(ins)
            /\ \A i \in 1..Len(ins) : i \notin (p + 1)..(p + Len(code)) => new[i] = ins[i]
            /\ \A i \in 1..Len(code) : new[p + i] = code[i]
<1> DEFINE new == ReplaceInstruction(ins, p, code)
           n == Len(ins)
<1>1. new = [i \in 1..n |-> IF i - p \in 1..Len(code) THEN code[i - p] ELSE ins[i]]
  BY DEF ReplaceInstruction
<1>2. n \in Nat /\ Len(code) \in Nat
  OBVIOUS
<1>3. \A i \in 1..n : ins[i] \in ByteValues
  OBVIOUS
<1>4. \A i \in 1..Len(code) : code[i] \in ByteValues
  OBVIOUS
<1>5. \A i \in 1..n : new[i] \in ByteValues
  <2> HIDE DEF new
  <2> TAKE i \in 1..n
  <2>1. new[i] = IF i - p \in 1..Len(code) THEN code[i - p] ELSE ins[i]
    BY <1>1
  <2> QED BY Zenon, <1>3, <1>4, <2>1
<1>6. new \in Seq(ByteValues) /\ Len(new) = n
  <2>1. new \in [1..n -> ByteValues]
    <3> HIDE DEF new
    <3> QED BY <1>1, <1>5
  <2> HIDE DEF new
  <2> QED BY <1>2, <2>1
<1>7. ASSUME NEW i \in 1..n, i \notin (p + 1)..(p + Len(code)) PROVE new[i] = ins[i]
  <2>1. i - p \notin 1..Len(code)
    BY <1>2, <1>7
  <2> QED BY <1>1, <2>1
<1>8. ASSUME NEW i \in 1..Len(code) PROVE new[p + i] = code[i]
  <2>1. p + i \in 1..n /\ (p + i) - p = i
    BY <1>2
  <2> QED BY <1>1, <2>1
<1> QED BY <1>6, <1>7, <1>8

(* A jump is patched: it has the target, and nothing else is changed.      *)
LEMMA PatchReads ==
  ASSUME NEW ins \in Seq(ByteValues), NEW p, WholeInstruction(ins, p), NEW target \in Nat,
         OpAt(ins, p) \in {"OpJump", "OpJumpNotTruthy"}
  PROVE  LET new == ReplaceInstruction(ins, p, Make(OpAt(ins, p), << target >>))
         IN /\ new \in Seq(ByteValues) /\ Len(new) = Len(ins)
            /\ \A i \in 1..Len(ins) : i \notin (p + 1)..After(ins, p) => new[i] = ins[i]
            /\ WholeInstruction(new, p)
            /\ OpAt(new, p) = OpAt(ins, p) /\ After(new, p) = After(ins, p)
            /\ Fit(OpAt(ins, p), << target >>) => ArgsAt(new, p) = << target >>
<1> DEFINE op == OpAt(ins, p)
           code == Make(op, << target >>)
           new == ReplaceInstruction(ins, p, code)
<1>1. /\ p \in Nat /\ Len(ins) \in Nat /\ op \in OpcodeNames
      /\ After(ins, p) = p + InstructionLen(op) /\ After(ins, p) <= Len(ins)
  BY InstructionFacts
<1>2. OperandWidths(op) = << 2 >> /\ InstructionLen(op) = 3 /\ Len(OperandWidths(op)) = 1
  <2>1. << 2 >> # << 2, 1 >>
    OBVIOUS
  <2> QED BY <2>1 DEF OperandWidths, InstructionLen
<1>3. << target >> \in Seq(Int) /\ Len(<< target >>) = 1 /\ << target >>[1] = target
  OBVIOUS
<1> HIDE DEF op
<1>4. /\ code \in Seq(ByteValues) /\ Len(code) = 3 /\ code[1] = OpcodeByte(op)
      /\ code[2] * Radix + code[3] = OfWord(target)
  <2>1. /\ code \in Seq(ByteValues) /\ Len(code) = InstructionLen(op) /\ code[1] = OpcodeByte(op)
        /\ CASE OperandWidths(op) = << 2, 1 >> ->
                  /\ code[2] * Radix + code[3] = OfWord(<< target >>[1])
                  /\ code[4] = << target >>[2] % Radix
             [] OperandWidths(op) = << 2 >>    -> code[2] * Radix + code[3] = OfWord(<< target >>[1])
             [] OperandWidths(op) = << 1 >>    -> code[2] = << target >>[1] % Radix
             [] OTHER                          -> TRUE
    BY <1>1, <1>2, <1>3, MakeLaws
  <2>2. << 2 >> # << 2, 1 >>
    OBVIOUS
  <2> HIDE DEF code
  <2> QED BY <1>2, <1>3, <2>1, <2>2
<1> HIDE DEF code
<1>5. /\ new \in Seq(ByteValues) /\ Len(new) = Len(ins)
      /\ \A i \in 1..Len(ins) : i \notin (p + 1)..(p + Len(code)) => new[i] = ins[i]
      /\ \A i \in 1..Len(code) : new[p + i] = code[i]
  <2>1. p \in Nat /\ code \in Seq(ByteValues) /\ p + Len(code) <= Len(ins)
    BY <1>1, <1>2, <1>4
  <2> HIDE DEF new
  <2> QED BY <2>1, Overwritten DEF new
<1> HIDE DEF new
<1>6. new[p + 1] = code[1] /\ new[p + 2] = code[2] /\ new[p + 3] = code[3]
  <2>1. 1 \in 1..Len(code) /\ 2 \in 1..Len(code) /\ 3 \in 1..Len(code)
    BY <1>4
  <2> QED BY <1>5, <2>1
<1>7. OpAt(new, p) = op /\ new[p + 1] \in 0..29
  BY <1>1, <1>4, <1>6, OpcodeBytes DEF OpAt
<1>8. After(new, p) = After(ins, p)
  BY <1>7 DEF After, op
<1>9. WholeInstruction(new, p)
  <2>1. p \in 0..(Len(new) - 1) /\ p + InstructionLen(op) <= Len(new)
    BY <1>1, <1>2, <1>5
  <2> QED BY <1>7, <2>1 DEF WholeInstruction, OpAt
<1>10. ASSUME Fit(op, << target >>) PROVE ArgsAt(new, p) = << target >>
  <2>1. target \in 0..((Radix * Radix) - 1)
    <3>1. OperandWidths(op)[1] = 2 /\ 1 \in 1..Len(<< target >>)
      BY <1>2, <1>3
    <3> QED BY <1>3, <1>10, <3>1 DEF Fit
  <2>2. OfWord(target) = target
    BY <2>1, FittingReadsBack
  <2>3. ArgsAt(new, p) = << new[p + 1 + 1] * Radix + new[p + 1 + 2] >>
    <3>1. << 2 >> # << 2, 1 >>
      OBVIOUS
    <3> QED BY <1>2, <1>7, <3>1 DEF ArgsAt, ReadOperands, ReadUint16
  <2>4. p + 1 + 1 = p + 2 /\ p + 1 + 2 = p + 3
    BY <1>1
  <2> QED BY <1>4, <1>6, <2>2, <2>3, <2>4
<1> QED BY <1>1, <1>2, <1>4, <1>5, <1>7, <1>8, <1>9, <1>10 DEF new, code, op

(* OpPop becomes OpReturnValue, in its place.                              *)
LEMMA ReturnReads ==
  ASSUME NEW ins \in Seq(ByteValues), NEW p, WholeInstruction(ins, p), OpAt(ins, p) = "OpPop"
  PROVE  LET new == ReplaceInstruction(ins, p, Make("OpReturnValue", << >>))
         IN /\ new \in Seq(ByteValues) /\ Len(new) = Len(ins)
            /\ \A i \in 1..Len(ins) : i \notin (p + 1)..After(ins, p) => new[i] = ins[i]
            /\ WholeInstruction(new, p)
            /\ OpAt(new, p) = "OpReturnValue" /\ After(new, p) = After(ins, p)
<1> DEFINE op == "OpReturnValue"
           code == Make(op, << >>)
           new == ReplaceInstruction(ins, p, code)
<1>1. /\ p \in Nat /\ Len(ins) \in Nat
      /\ After(ins, p) = p + InstructionLen("OpPop") /\ After(ins, p) <= Len(ins)
  BY InstructionFacts
<1>2. /\ OperandWidths(op) = << >> /\ InstructionLen(op) = 1
      /\ OperandWidths("OpPop") = << >> /\ InstructionLen("OpPop") = 1
  <2>1. << >> # << 2, 1 >> /\ << >> # << 2 >> /\ << >> # << 1 >>
    OBVIOUS
  <2>2. OperandWidths(op) = << >> /\ OperandWidths("OpPop") = << >>
    BY DEF OperandWidths
  <2> QED BY <2>1, <2>2 DEF InstructionLen
<1>3. op \in OpcodeNames
  <2>1. 22 \in 1..30 /\ Opcodes[22] = op
    BY DEF Opcodes
  <2> QED BY <2>1 DEF OpcodeNames
<1> HIDE DEF op
<1>4. code \in Seq(ByteValues) /\ Len(code) = 1 /\ code[1] = OpcodeByte(op)
  <2>1. << >> \in Seq(Int) /\ Len(<< >>) = Len(OperandWidths(op))
    BY <1>2
  <2> QED BY <1>2, <1>3, <2>1, MakeLaws
<1> HIDE DEF code
<1>5. /\ new \in Seq(ByteValues) /\ Len(new) = Len(ins)
      /\ \A i \in 1..Len(ins) : i \notin (p + 1)..(p + Len(code)) => new[i] = ins[i]
      /\ \A i \in 1..Len(code) : new[p + i] = code[i]
  <2>1. p \in Nat /\ code \in Seq(ByteValues) /\ p + Len(code) <= Len(ins)
    BY <1>1, <1>2, <1>4
  <2> HIDE DEF new
  <2> QED BY <2>1, Overwritten DEF new
<1> HIDE DEF new
<1>6. new[p + 1] = code[1]
  <2>1. 1 \in 1..Len(code)
    BY <1>4
  <2> QED BY <1>5, <2>1
<1>7. OpAt(new, p) = op /\ new[p + 1] \in 0..29
  BY <1>3, <1>4, <1>6, OpcodeBytes DEF OpAt
<1>8. After(new, p) = After(ins, p)
  BY <1>1, <1>2, <1>7 DEF After
<1>9. WholeInstruction(new, p)
  <2>1. p \in 0..(Len(new) - 1) /\ p + InstructionLen(op) <= Len(new)
    BY <1>1, <1>2, <1>5
  <2> QED BY <1>7, <2>1 DEF WholeInstruction, OpAt
<1> QED BY <1>1, <1>2, <1>4, <1>5, <1>7, <1>8, <1>9 DEF new, code, op

-----------------------------------------------------------------------------
(* The code of one scope.                                                  *)

(* What is known of a place where an instruction starts.                   *)
LEMMA StartFacts ==
  ASSUME NEW ins, NEW d, NEW pending, CodeOK(ins, d, pending), NEW p \in Starts(ins, d)
  PROVE  /\ p \in Nat /\ p \in DOMAIN d /\ p < Len(ins) /\ d[p] \in Nat
         /\ WholeInstruction(ins, p)
         /\ OpAt(ins, p) \in OpcodeNames
         /\ After(ins, p) \in DOMAIN d /\ After(ins, p) \in Nat
         /\ p < After(ins, p) /\ After(ins, p) <= Len(ins)
         /\ \A q \in DOMAIN d : q > p => q >= After(ins, p)
         /\ Takes(ins, p) <= d[p]
         /\ ArgsAt(ins, p) \in Seq(Nat)
         /\ Len(ArgsAt(ins, p)) = Len(OperandWidths(OpAt(ins, p)))
<1>1. /\ p \in DOMAIN d /\ p < Len(ins) /\ ins \in Seq(ByteValues)
      /\ d \in [DOMAIN d -> Nat]
      /\ WholeInstruction(ins, p) /\ After(ins, p) \in DOMAIN d
      /\ \A q \in DOMAIN d : q > p => q >= After(ins, p)
      /\ Takes(ins, p) <= d[p]
  BY DEF CodeOK, Laid, Starts
<1>2. d[p] \in Nat
  BY <1>1
<1> QED BY <1>1, <1>2, InstructionFacts

(* Where the depths of a code are known.                                   *)
LEMMA CodeFacts ==
  ASSUME NEW ins, NEW d, NEW pending, CodeOK(ins, d, pending)
  PROVE  /\ ins \in Seq(ByteValues) /\ Len(ins) \in Nat
         /\ DOMAIN d \subseteq Nat /\ \A q \in DOMAIN d : q <= Len(ins) /\ d[q] \in Nat
         /\ 0 \in DOMAIN d /\ Len(ins) \in DOMAIN d /\ d[0] = 0
         /\ pending \subseteq Starts(ins, d)
<1>1. /\ ins \in Seq(ByteValues) /\ d \in [DOMAIN d -> Nat] /\ DOMAIN d \subseteq 0..Len(ins)
      /\ 0 \in DOMAIN d /\ Len(ins) \in DOMAIN d /\ d[0] = 0
      /\ pending \subseteq Starts(ins, d)
  BY DEF CodeOK, Laid, Waiting
<1>2. Len(ins) \in Nat
  BY <1>1
<1>3. \A q \in DOMAIN d : d[q] \in Nat
  BY <1>1
<1> QED BY <1>1, <1>2, <1>3

(* Two codes that agree on the bytes of an instruction.                    *)
SameAt(ins, new, p) ==
  /\ WholeInstruction(new, p)
  /\ OpAt(new, p) = OpAt(ins, p) /\ ArgsAt(new, p) = ArgsAt(ins, p)
  /\ After(new, p) = After(ins, p)
  /\ Takes(new, p) = Takes(ins, p) /\ Leaves(new, p) = Leaves(ins, p)
  /\ Successors(new, p) = Successors(ins, p)

(* Code goes on when an instruction is emitted that finds its values.      *)
LEMMA EmitCode ==
  ASSUME NEW ins, NEW d, NEW P, CodeOK(ins, d, P), NEW to \in Nat,
         NEW new \in Seq(ByteValues), Len(new) > Len(ins),
         \A i \in 1..Len(ins) : new[i] = ins[i],
         WholeInstruction(new, Len(ins)), After(new, Len(ins)) = Len(new),
         Takes(new, Len(ins)) <= d[Len(ins)],
         NEW Q, P \subseteq Q, Q \subseteq P \cup {Len(ins)},
         Len(ins) \notin Q => Leads(new, Marks(d, Len(new), to), Len(ins)),
         Len(ins) \in Q => Waiting(new, Marks(d, Len(new), to), Len(ins))
  PROVE  /\ CodeOK(new, Marks(d, Len(new), to), Q)
         /\ Starts(new, Marks(d, Len(new), to)) = Starts(ins, d) \cup {Len(ins)}
         /\ Marks(d, Len(new), to)[Len(new)] = to
         /\ \A p \in DOMAIN d : Marks(d, Len(new), to)[p] = d[p]
         /\ \A p \in Starts(ins, d) : SameAt(ins, new, p)
<1> DEFINE n == Len(ins)
           m == Len(new)
           e == Marks(d, m, to)
<1>1. /\ ins \in Seq(ByteValues) /\ n \in Nat /\ m \in Nat /\ n < m
      /\ DOMAIN d \subseteq Nat /\ \A q \in DOMAIN d : q <= n /\ d[q] \in Nat
      /\ 0 \in DOMAIN d /\ n \in DOMAIN d /\ d[0] = 0 /\ P \subseteq Starts(ins, d)
  BY CodeFacts
<1>2. DOMAIN e = DOMAIN d \cup {m}
  <2>1. {p \in DOMAIN d : p < m} = DOMAIN d
    BY SMTT(30), <1>1
  <2> QED BY <2>1 DEF Marks
<1>3. e[m] = to /\ \A p \in DOMAIN d : p # m /\ e[p] = d[p]
  BY <1>1 DEF Marks
<1>4. e \in [DOMAIN e -> Nat]
  <2>1. e = [q \in DOMAIN e |-> e[q]]
    BY DEF Marks
  <2>2. \A q \in DOMAIN e : e[q] \in Nat
    BY <1>1, <1>2, <1>3
  <2> HIDE DEF e
  <2> QED BY <2>1, <2>2
<1> HIDE DEF e, m, n
<1>5. Starts(new, e) = Starts(ins, d) \cup {n}
  BY <1>1, <1>2 DEF Starts, n, m
<1>6. ASSUME NEW p \in Starts(ins, d)
      PROVE  /\ SameAt(ins, new, p) /\ p < n /\ p \in DOMAIN d /\ After(ins, p) \in DOMAIN d
             /\ After(ins, p) <= n /\ After(ins, p) \in Nat /\ p \in Nat
             /\ \A q \in DOMAIN d : q > p => q >= After(ins, p)
             /\ Takes(ins, p) <= d[p] /\ d[p] \in Nat
  <2>1. /\ p \in Nat /\ p \in DOMAIN d /\ p < n /\ WholeInstruction(ins, p)
        /\ After(ins, p) \in DOMAIN d /\ After(ins, p) \in Nat /\ After(ins, p) <= n
        /\ \A q \in DOMAIN d : q > p => q >= After(ins, p)
        /\ Takes(ins, p) <= d[p] /\ d[p] \in Nat
    BY StartFacts DEF n
  <2>2. After(ins, p) <= Len(new) /\ \A i \in (p + 1)..After(ins, p) : new[i] = ins[i]
    BY <1>1, <2>1 DEF n, m
  <2>3. SameAt(ins, new, p)
    BY <1>1, <2>1, <2>2, ReadAlike DEF SameAt
  <2> QED BY <2>1, <2>3
<1>7. Laid(new, e)
  <2>1. DOMAIN e \subseteq 0..m /\ 0 \in DOMAIN e /\ m \in DOMAIN e /\ e[0] = 0
    BY <1>1, <1>2, <1>3
  <2>2. ASSUME NEW p \in Starts(ins, d)
        PROVE  /\ WholeInstruction(new, p) /\ After(new, p) \in DOMAIN e
               /\ \A q \in DOMAIN e : q > p => q >= After(new, p)
               /\ Takes(new, p) <= e[p]
    BY <1>1, <1>2, <1>3, <1>6 DEF SameAt
  <2>3. /\ WholeInstruction(new, n) /\ After(new, n) \in DOMAIN e
        /\ \A q \in DOMAIN e : q > n => q >= After(new, n)
        /\ Takes(new, n) <= e[n]
    BY <1>1, <1>2, <1>3 DEF n, m
  <2> QED BY <1>4, <1>5, <2>1, <2>2, <2>3 DEF Laid, m
<1>8. ASSUME NEW p \in Starts(new, e) \ Q PROVE Leads(new, e, p)
  <2>1. CASE p = n
    BY <1>8, <2>1 DEF e, m, n
  <2>2. CASE p \in Starts(ins, d)
    <3>1. Leads(ins, d, p)
      BY <1>8, <2>2 DEF CodeOK
    <3> QED BY <1>2, <1>3, <1>6, <2>2, <3>1 DEF Leads, SameAt, DepthAfter
  <2> QED BY <1>5, <1>8, <2>1, <2>2
<1>9. ASSUME NEW p \in Q PROVE Waiting(new, e, p)
  <2>1. CASE p = n
    BY <1>9, <2>1 DEF e, m, n
  <2>2. CASE p \in P
    <3>1. Waiting(ins, d, p) /\ p \in Starts(ins, d)
      BY <2>2 DEF CodeOK, Waiting
    <3> QED BY <1>3, <1>5, <1>6, <3>1 DEF Waiting, SameAt
  <2> QED BY <1>9, <2>1, <2>2 DEF n
<1>10. CodeOK(new, e, Q)
  BY <1>7, <1>8, <1>9 DEF CodeOK
<1> QED BY <1>3, <1>5, <1>6, <1>10 DEF e, m, n

(* The last instruction is p, and no jump leads behind it.                 *)
LEMMA LastStart ==
  ASSUME NEW ins, NEW d, NEW P, CodeOK(ins, d, P), NEW p \in Starts(ins, d),
         After(ins, p) = Len(ins), NEW r \in Starts(ins, d), r # p
  PROVE  r < p /\ After(ins, r) <= p
<1>1. /\ p \in Nat /\ r \in Nat /\ r < Len(ins) /\ p \in DOMAIN d /\ r \in DOMAIN d
      /\ \A q \in DOMAIN d : q > p => q >= After(ins, p)
      /\ \A q \in DOMAIN d : q > r => q >= After(ins, r)
      /\ After(ins, r) \in Nat
  BY StartFacts
<1>2. ~ (r > p)
  BY <1>1
<1>3. r < p
  BY <1>1, <1>2
<1> QED BY <1>1, <1>3

(* Code without its last instruction, which popped a value.                *)
Shortened(ins, d, P, p, new, e) ==
  /\ CodeOK(new, e, P) /\ Len(new) = p /\ Starts(new, e) = Starts(ins, d) \ {p}
  /\ e[p] = d[p] /\ d[p] = d[Len(ins)] + 1
  /\ \A r \in Starts(ins, d) \ {p} : SameAt(ins, new, r) /\ e[r] = d[r]

(* A last OpPop can be cut off.                                            *)
LEMMA CutCode ==
  ASSUME NEW ins, NEW d, NEW P, CodeOK(ins, d, P), NEW p \in Starts(ins, d),
         OpAt(ins, p) = "OpPop", After(ins, p) = Len(ins),
         \A r \in Starts(ins, d) \ (P \cup {p}) : Len(ins) \notin Successors(ins, r)
  PROVE  Shortened(ins, d, P, p, SubSeq(ins, 1, p), Marks(d, p, d[p]))
<1> DEFINE n == Len(ins)
           new == SubSeq(ins, 1, p)
           e == Marks(d, p, d[p])
<1>1. /\ ins \in Seq(ByteValues) /\ n \in Nat
      /\ DOMAIN d \subseteq Nat /\ \A q \in DOMAIN d : q <= n /\ d[q] \in Nat
      /\ 0 \in DOMAIN d /\ n \in DOMAIN d /\ d[0] = 0 /\ P \subseteq Starts(ins, d)
  BY CodeFacts
<1>2. /\ p \in Nat /\ p \in DOMAIN d /\ p < n /\ d[p] \in Nat /\ WholeInstruction(ins, p)
  BY StartFacts
<1>3. new \in Seq(ByteValues) /\ Len(new) = p /\ \A i \in 1..p : new[i] = ins[i]
  BY <1>1, <1>2
<1>4. DOMAIN e = {q \in DOMAIN d : q <= p} /\ \A q \in DOMAIN e : e[q] = d[q]
  <2>1. {q \in DOMAIN d : q < p} \cup {p} = {q \in DOMAIN d : q <= p}
    BY <1>1, <1>2
  <2> QED BY <2>1 DEF Marks
<1>5. e \in [DOMAIN e -> Nat]
  <2>1. e = [q \in DOMAIN e |-> e[q]]
    BY DEF Marks
  <2>2. \A q \in DOMAIN e : e[q] \in Nat
    BY <1>1, <1>4
  <2> HIDE DEF e
  <2> QED BY <2>1, <2>2
<1> HIDE DEF e, new
<1>6. Starts(new, e) = Starts(ins, d) \ {p}
  <2>1. \A r \in Starts(ins, d) \ {p} : r < p
    BY LastStart
  <2> QED BY <1>1, <1>2, <1>3, <1>4, <2>1 DEF Starts
<1>7. p \notin P
  <2>1. ASSUME p \in P PROVE FALSE
    BY <2>1 DEF CodeOK, Waiting
  <2> QED BY <2>1
<1>8. d[p] = d[n] + 1
  <2>1. Leads(ins, d, p)
    BY <1>7 DEF CodeOK
  <2>2. Successors(ins, p) = {n} /\ Takes(ins, p) = 1 /\ Leaves(ins, p) = 0
    BY DEF Successors, Takes, Leaves, TakenBy, LeftBy
  <2>3. d[n] = d[p] - 1 + 0
    BY <2>1, <2>2 DEF Leads, DepthAfter
  <2> QED BY <1>1, <1>2, <2>3
<1>9. ASSUME NEW r \in Starts(ins, d) \ {p}
      PROVE  /\ SameAt(ins, new, r) /\ r < p /\ r \in DOMAIN d /\ After(ins, r) \in DOMAIN d
             /\ After(ins, r) <= p /\ After(ins, r) \in Nat /\ r \in Nat
             /\ \A q \in DOMAIN d : q > r => q >= After(ins, r)
             /\ Takes(ins, r) <= d[r]
  <2>1. /\ r \in Nat /\ r \in DOMAIN d /\ WholeInstruction(ins, r)
        /\ After(ins, r) \in DOMAIN d /\ After(ins, r) \in Nat
        /\ \A q \in DOMAIN d : q > r => q >= After(ins, r)
        /\ Takes(ins, r) <= d[r]
    BY StartFacts
  <2>2. r < p /\ After(ins, r) <= p
    BY LastStart
  <2>3. After(ins, r) <= Len(new) /\ \A i \in (r + 1)..After(ins, r) : new[i] = ins[i]
    BY <1>2, <1>3, <2>1, <2>2
  <2>4. SameAt(ins, new, r)
    BY <1>1, <1>3, <2>1, <2>3, ReadAlike DEF SameAt
  <2> QED BY <2>1, <2>2, <2>4
<1>10. Laid(new, e)
  <2>1. DOMAIN e \subseteq 0..p /\ 0 \in DOMAIN e /\ p \in DOMAIN e /\ e[0] = 0
    BY <1>1, <1>2, <1>4
  <2>2. ASSUME NEW r \in Starts(ins, d) \ {p}
        PROVE  /\ WholeInstruction(new, r) /\ After(new, r) \in DOMAIN e
               /\ \A q \in DOMAIN e : q > r => q >= After(new, r)
               /\ Takes(new, r) <= e[r]
    BY SMTT(30), <1>1, <1>4, <1>9 DEF SameAt
  <2> QED BY <1>3, <1>5, <1>6, <2>1, <2>2 DEF Laid
<1>11. ASSUME NEW r \in Starts(new, e) \ P PROVE Leads(new, e, r)
  <2>1. Leads(ins, d, r) /\ n \notin Successors(ins, r) /\ r \in Starts(ins, d) \ {p}
    BY <1>6, <1>11 DEF CodeOK
  <2>2. \A q \in DOMAIN d : q > p => q = n
    <3>1. \A q \in DOMAIN d : q > p => q >= n
      BY StartFacts
    <3> QED BY <1>1, <3>1
  <2>3. ASSUME NEW q \in Successors(ins, r) PROVE q > r /\ q \in DOMAIN e /\ e[q] = DepthAfter(ins, r, d[r])
    <3>1. q > r /\ q \in DOMAIN d /\ d[q] = DepthAfter(ins, r, d[r]) /\ q # n
      BY <2>1, <2>3 DEF Leads
    <3>2. q <= p
      BY <1>1, <1>2, <2>2, <3>1
    <3> QED BY <1>4, <3>1, <3>2
  <2>4. SameAt(ins, new, r) /\ e[r] = d[r]
    BY <1>4, <1>9, <2>1, <1>2
  <2> QED BY <2>3, <2>4 DEF Leads, SameAt, DepthAfter
<1>12. ASSUME NEW r \in P PROVE Waiting(new, e, r)
  <2>1. Waiting(ins, d, r) /\ r \in Starts(ins, d) \ {p}
    BY <1>7, <1>12 DEF CodeOK, Waiting
  <2>2. SameAt(ins, new, r) /\ After(ins, r) \in DOMAIN e /\ r \in DOMAIN e
    BY <1>1, <1>2, <1>4, <1>9, <2>1
  <2> QED BY <1>4, <1>6, <2>1, <2>2 DEF Waiting, SameAt
<1>13. CodeOK(new, e, P)
  BY <1>3, <1>10, <1>11, <1>12 DEF CodeOK
<1>14. \A r \in Starts(ins, d) \ {p} : e[r] = d[r]
  BY <1>1, <1>2, <1>4, <1>9
<1>15. e[p] = d[p]
  BY <1>1, <1>2, <1>4
<1>16. Shortened(ins, d, P, p, new, e)
  BY <1>3, <1>6, <1>8, <1>9, <1>13, <1>14, <1>15 DEF Shortened
<1> QED BY <1>16 DEF e, new

(* The end that no code leads to may have any depth.                       *)
LEMMA MarkEnd ==
  ASSUME NEW ins, NEW d, NEW P, CodeOK(ins, d, P), NEW p \in Starts(ins, d),
         OpAt(ins, p) = "OpReturnValue", After(ins, p) = Len(ins),
         \A r \in Starts(ins, d) \ (P \cup {p}) : Len(ins) \notin Successors(ins, r),
         NEW to \in Nat
  PROVE  /\ CodeOK(ins, Marks(d, Len(ins), to), P)
         /\ Starts(ins, Marks(d, Len(ins), to)) = Starts(ins, d)
         /\ Marks(d, Len(ins), to)[Len(ins)] = to
         /\ \A r \in Starts(ins, d) : Marks(d, Len(ins), to)[r] = d[r]
<1> DEFINE n == Len(ins)
           e == Marks(d, n, to)
<1>1. /\ ins \in Seq(ByteValues) /\ n \in Nat
      /\ DOMAIN d \subseteq Nat /\ \A q \in DOMAIN d : q <= n /\ d[q] \in Nat
      /\ 0 \in DOMAIN d /\ n \in DOMAIN d /\ d[0] = 0 /\ P \subseteq Starts(ins, d)
  BY CodeFacts
<1>2. p \in Nat /\ p < n
  BY StartFacts
<1>3. DOMAIN e = DOMAIN d /\ e[n] = to /\ \A q \in DOMAIN d : q # n => e[q] = d[q]
  <2>1. {q \in DOMAIN d : q < n} \cup {n} = DOMAIN d
    BY <1>1
  <2> QED BY <2>1 DEF Marks
<1>4. e \in [DOMAIN e -> Nat]
  <2>1. e = [q \in DOMAIN e |-> e[q]]
    BY DEF Marks
  <2>2. \A q \in DOMAIN e : e[q] \in Nat
    BY <1>1, <1>3
  <2> HIDE DEF e
  <2> QED BY <2>1, <2>2
<1> HIDE DEF e
<1>5. Starts(ins, e) = Starts(ins, d) /\ \A r \in Starts(ins, d) : r # n /\ e[r] = d[r]
  BY <1>1, <1>3 DEF Starts
<1>6. Laid(ins, e)
  <2>1. DOMAIN e \subseteq 0..n /\ 0 \in DOMAIN e /\ n \in DOMAIN e /\ e[0] = 0
    BY <1>1, <1>2, <1>3
  <2>2. \A r \in Starts(ins, d) :
           /\ WholeInstruction(ins, r) /\ After(ins, r) \in DOMAIN e
           /\ \A q \in DOMAIN e : q > r => q >= After(ins, r)
           /\ Takes(ins, r) <= e[r]
    BY <1>3, <1>5, StartFacts
  <2> QED BY <1>4, <1>5, <2>1, <2>2 DEF Laid
<1>7. Successors(ins, p) = {} /\ p \notin P
  <2>1. ASSUME p \in P PROVE FALSE
    BY <2>1 DEF CodeOK, Waiting
  <2> QED BY <2>1 DEF Successors
<1>8. ASSUME NEW r \in Starts(ins, e) \ P PROVE Leads(ins, e, r)
  <2>1. Leads(ins, d, r) /\ n \notin Successors(ins, r)
    BY <1>5, <1>7, <1>8 DEF CodeOK
  <2> QED BY <1>3, <1>5, <1>8, <2>1 DEF Leads
<1>9. ASSUME NEW r \in P PROVE Waiting(ins, e, r)
  <2>1. Waiting(ins, d, r) /\ r \in Starts(ins, d) /\ r # p
    BY <1>7, <1>9 DEF CodeOK, Waiting
  <2>2. After(ins, r) <= p /\ After(ins, r) \in DOMAIN d /\ After(ins, r) \in Nat
    BY <2>1, LastStart, StartFacts
  <2>3. After(ins, r) # n
    BY <1>1, <1>2, <2>2
  <2> QED BY <1>3, <1>5, <2>1, <2>2, <2>3 DEF Waiting
<1>10. CodeOK(ins, e, P)
  BY <1>1, <1>6, <1>8, <1>9 DEF CodeOK
<1> QED BY <1>3, <1>5, <1>10 DEF e

(* A jump goes to the end of the code.                                     *)
LEMMA PatchCode ==
  ASSUME NEW ins, NEW d, NEW P, CodeOK(ins, d, P), NEW j \in P,
         Fit(OpAt(ins, j), << Len(ins) >>),
         d[Len(ins)] = d[j] - (IF OpAt(ins, j) = "OpJump" THEN 0 ELSE 1)
  PROVE  LET new == ReplaceInstruction(ins, j, Make(OpAt(ins, j), << Len(ins) >>)) IN
         /\ CodeOK(new, d, P \ {j}) /\ Len(new) = Len(ins) /\ Starts(new, d) = Starts(ins, d)
         /\ WholeInstruction(new, j) /\ OpAt(new, j) = OpAt(ins, j)
         /\ \A r \in Starts(ins, d) \ {j} : SameAt(ins, new, r)
<1> DEFINE n == Len(ins)
           op == OpAt(ins, j)
           new == ReplaceInstruction(ins, j, Make(op, << n >>))
<1>1. /\ ins \in Seq(ByteValues) /\ n \in Nat
      /\ DOMAIN d \subseteq Nat /\ \A q \in DOMAIN d : q <= n /\ d[q] \in Nat
      /\ n \in DOMAIN d /\ P \subseteq Starts(ins, d)
  BY CodeFacts
<1>2. Waiting(ins, d, j) /\ j \in Starts(ins, d)
  BY <1>1 DEF CodeOK
<1>3. /\ j \in Nat /\ j < n /\ j \in DOMAIN d /\ d[j] \in Nat /\ WholeInstruction(ins, j)
      /\ After(ins, j) \in DOMAIN d /\ After(ins, j) \in Nat /\ After(ins, j) > j
      /\ Takes(ins, j) <= d[j]
  BY <1>2, StartFacts
<1>4. op \in {"OpJump", "OpJumpNotTruthy"}
  BY <1>2 DEF Waiting
<1>5. /\ new \in Seq(ByteValues) /\ Len(new) = n
      /\ \A i \in 1..n : i \notin (j + 1)..After(ins, j) => new[i] = ins[i]
      /\ WholeInstruction(new, j) /\ OpAt(new, j) = op /\ After(new, j) = After(ins, j)
      /\ ArgsAt(new, j) = << n >>
  <2> HIDE DEF new
  <2> QED BY <1>1, <1>3, <1>4, PatchReads DEF new
<1> HIDE DEF new
<1>6. Starts(new, d) = Starts(ins, d)
  BY <1>5 DEF Starts
<1>7. ASSUME NEW r \in Starts(ins, d) \ {j} PROVE SameAt(ins, new, r)
  <2>1. /\ r \in Nat /\ r < n /\ r \in DOMAIN d /\ WholeInstruction(ins, r)
        /\ After(ins, r) \in Nat /\ After(ins, r) <= n
        /\ \A q \in DOMAIN d : q > r => q >= After(ins, r)
        /\ \A q \in DOMAIN d : q > j => q >= After(ins, j)
    BY <1>2, StartFacts
  <2>2. After(ins, r) <= j \/ r >= After(ins, j)
    BY <1>3, <2>1
  <2>3. \A i \in (r + 1)..After(ins, r) : new[i] = ins[i]
    BY <1>3, <1>5, <2>1, <2>2
  <2> QED BY <1>1, <1>5, <2>1, <2>3, ReadAlike DEF SameAt
<1>8. Takes(new, j) = Takes(ins, j) /\ Leaves(new, j) = 0 /\ Takes(new, j) = (IF op = "OpJump" THEN 0 ELSE 1)
  BY <1>4, <1>5 DEF Takes, Leaves, TakenBy, LeftBy
<1>9. Laid(new, d)
  <2>1. \A r \in Starts(ins, d) :
           /\ WholeInstruction(new, r) /\ After(new, r) = After(ins, r) /\ Takes(new, r) = Takes(ins, r)
    BY <1>5, <1>7, <1>8 DEF SameAt
  <2>2. Laid(ins, d)
    BY DEF CodeOK
  <2> QED BY <1>5, <1>6, <2>1, <2>2 DEF Laid
<1>10. Leads(new, d, j)
  <2>1. DepthAfter(new, j, d[j]) = d[n]
    BY <1>3, <1>8 DEF DepthAfter
  <2>2. << n >>[1] = n
    OBVIOUS
  <2>3. Successors(new, j) \subseteq {n, After(ins, j)} /\ (op = "OpJump" => Successors(new, j) = {n})
    BY <1>4, <1>5, <2>2 DEF Successors
  <2>4. op = "OpJumpNotTruthy" => d[After(ins, j)] = d[j] - 1
    BY <1>2 DEF Waiting
  <2>5. d[After(ins, j)] = d[n] \/ op = "OpJump"
    BY <1>4, <2>4
  <2> QED BY <1>1, <1>3, <2>1, <2>3, <2>5 DEF Leads
<1>11. ASSUME NEW r \in Starts(new, d) \ (P \ {j}) PROVE Leads(new, d, r)
  <2>1. CASE r # j
    <3>1. Leads(ins, d, r) /\ SameAt(ins, new, r)
      BY <1>6, <1>7, <1>11, <2>1 DEF CodeOK
    <3> QED BY <3>1 DEF Leads, SameAt, DepthAfter
  <2> QED BY <1>10, <2>1
<1>12. ASSUME NEW r \in P \ {j} PROVE Waiting(new, d, r)
  <2>1. Waiting(ins, d, r) /\ SameAt(ins, new, r)
    BY <1>1, <1>7, <1>12 DEF CodeOK
  <2> QED BY <1>6, <2>1 DEF Waiting, SameAt
<1>13. CodeOK(new, d, P \ {j})
  BY <1>5, <1>9, <1>11, <1>12 DEF CodeOK
<1> QED BY <1>5, <1>6, <1>7, <1>13 DEF new, op, n

(* Code whose end no instruction leads to.                                 *)
Closed(ins, d) ==
  /\ CodeOK(ins, d, {}) /\ Len(ins) > 0
  /\ \A p \in Starts(ins, d) : Len(ins) \notin Successors(ins, p)

(* The last OpPop of a function becomes its return.                        *)
LEMMA ReturnCode ==
  ASSUME NEW ins, NEW d, CodeOK(ins, d, {}), NEW p \in Starts(ins, d),
         OpAt(ins, p) = "OpPop", After(ins, p) = Len(ins),
         \A r \in Starts(ins, d) \ {p} : Len(ins) \notin Successors(ins, r)
  PROVE  LET new == ReplaceInstruction(ins, p, Make("OpReturnValue", << >>)) IN
         /\ Closed(new, d) /\ Starts(new, d) = Starts(ins, d)
         /\ OpAt(new, p) = "OpReturnValue"
         /\ \A r \in Starts(ins, d) \ {p} : SameAt(ins, new, r)
<1> DEFINE n == Len(ins)
           new == ReplaceInstruction(ins, p, Make("OpReturnValue", << >>))
<1>1. ins \in Seq(ByteValues) /\ n \in Nat
  BY CodeFacts
<1>2. /\ p \in Nat /\ p < n /\ p \in DOMAIN d /\ d[p] \in Nat /\ WholeInstruction(ins, p)
      /\ After(ins, p) \in DOMAIN d /\ After(ins, p) \in Nat /\ After(ins, p) > p
      /\ Takes(ins, p) <= d[p]
  BY StartFacts
<1>3. /\ new \in Seq(ByteValues) /\ Len(new) = n
      /\ \A i \in 1..n : i \notin (p + 1)..After(ins, p) => new[i] = ins[i]
      /\ WholeInstruction(new, p) /\ OpAt(new, p) = "OpReturnValue" /\ After(new, p) = After(ins, p)
  <2> HIDE DEF new
  <2> QED BY <1>1, <1>2, ReturnReads DEF new
<1> HIDE DEF new
<1>4. Starts(new, d) = Starts(ins, d)
  BY <1>3 DEF Starts
<1>5. ASSUME NEW r \in Starts(ins, d) \ {p} PROVE SameAt(ins, new, r)
  <2>1. /\ r \in Nat /\ WholeInstruction(ins, r) /\ After(ins, r) \in Nat /\ After(ins, r) <= n
    BY StartFacts
  <2>2. After(ins, r) <= p
    BY LastStart
  <2>3. \A i \in (r + 1)..After(ins, r) : new[i] = ins[i]
    BY <1>2, <1>3, <2>1, <2>2
  <2> QED BY <1>1, <1>3, <2>1, <2>3, ReadAlike DEF SameAt
<1>6. Takes(new, p) = Takes(ins, p) /\ Successors(new, p) = {}
  BY <1>3 DEF Takes, TakenBy, Successors
<1>7. Laid(new, d)
  <2>1. \A r \in Starts(ins, d) :
           /\ WholeInstruction(new, r) /\ After(new, r) = After(ins, r) /\ Takes(new, r) = Takes(ins, r)
    BY <1>3, <1>5, <1>6 DEF SameAt
  <2>2. Laid(ins, d)
    BY DEF CodeOK
  <2> QED BY <1>3, <1>4, <2>1, <2>2 DEF Laid
<1>8. ASSUME NEW r \in Starts(new, d) PROVE Leads(new, d, r) /\ n \notin Successors(new, r)
  <2>1. CASE r # p
    <3>1. Leads(ins, d, r) /\ SameAt(ins, new, r) /\ n \notin Successors(ins, r)
      BY <1>4, <1>5, <1>8, <2>1 DEF CodeOK
    <3> QED BY <3>1 DEF Leads, SameAt, DepthAfter
  <2>2. CASE r = p
    BY <1>6, <2>2 DEF Leads
  <2> QED BY <2>1, <2>2
<1>9. CodeOK(new, d, {})
  BY <1>3, <1>7, <1>8 DEF CodeOK
<1>10. Closed(new, d)
  BY <1>1, <1>2, <1>3, <1>8, <1>9 DEF Closed
<1> QED BY <1>3, <1>4, <1>5, <1>10 DEF new

-----------------------------------------------------------------------------
(* What the pass over the code finds.                                      *)

DepthStep(ins, D, p) ==
  IF p \in DOMAIN D /\ WholeInstruction(ins, p)
  THEN [q \in DOMAIN D \cup Successors(ins, p) |->
          IF q \in DOMAIN D THEN D[q] ELSE DepthAfter(ins, p, D[p])]
  ELSE D

(* The recursive definition in Depths.                                     *)
Passes(ins, known) ==
  known = [n \in 0..Len(ins) |->
             IF n = 0 THEN [p \in {0} |-> 0] ELSE DepthStep(ins, known[n - 1], n - 1)]

(* The values of d at the places T.                                        *)
Within(d, T) == [p \in T |-> d[p]]

(* One instruction of code that is laid out as d says.                     *)
LEMMA OnePass ==
  ASSUME NEW ins, NEW d, CodeOK(ins, d, {}), NEW T \in SUBSET (DOMAIN d),
         NEW p \in 0..(Len(ins) - 1)
  PROVE  /\ DepthStep(ins, Within(d, T), p)
              = Within(d, IF p \in T THEN T \cup Successors(ins, p) ELSE T)
         /\ p \in T => Successors(ins, p) \subseteq { q \in DOMAIN d : q > p }
<1>1. DOMAIN Within(d, T) = T /\ \A q \in T : Within(d, T)[q] = d[q]
  BY DEF Within
<1>2. CASE p \notin T
  BY <1>1, <1>2 DEF DepthStep
<1>3. CASE p \in T
  <2>1. p \in Starts(ins, d)
    BY <1>3, CodeFacts DEF Starts
  <2>2. WholeInstruction(ins, p) /\ Leads(ins, d, p)
    <3>1. p \in Starts(ins, d) \ {}
      BY <2>1
    <3>2. WholeInstruction(ins, p)
      BY <2>1, StartFacts
    <3> QED BY <3>1, <3>2 DEF CodeOK
  <2>3. \A q \in Successors(ins, p) : q > p /\ q \in DOMAIN d /\ d[q] = DepthAfter(ins, p, d[p])
    BY <2>2 DEF Leads
  <2>4. DepthStep(ins, Within(d, T), p)
          = [q \in T \cup Successors(ins, p) |->
               IF q \in T THEN Within(d, T)[q] ELSE DepthAfter(ins, p, Within(d, T)[p])]
    BY <1>1, <1>3, <2>2 DEF DepthStep
  <2>5. \A q \in T \cup Successors(ins, p) :
          (IF q \in T THEN Within(d, T)[q] ELSE DepthAfter(ins, p, Within(d, T)[p])) = d[q]
    BY <1>1, <1>3, <2>3
  <2>6. DepthStep(ins, Within(d, T), p) = Within(d, T \cup Successors(ins, p))
    BY <2>4, <2>5 DEF Within
  <2> QED BY <1>3, <2>3, <2>6
<1> QED BY <1>2, <1>3

(* The pass has a result, which is what Depths gives.                      *)
LEMMA PassesEnd ==
  ASSUME NEW ins, NEW d, CodeOK(ins, d, {})
  PROVE  \E known : Passes(ins, known) /\ Depths(ins) = known[Len(ins)]
<1> DEFINE n == Len(ins)
           S == { Within(d, T) : T \in SUBSET (DOMAIN d) }
           step == [x \in S \X (1..n) |-> DepthStep(ins, x[1], x[2] - 1)]
           b == [p \in {0} |-> 0]
<1>1. n \in Nat /\ 0 \in DOMAIN d /\ d[0] = 0
  BY CodeFacts
<1>2. step \in Steps(S, n)
  <2>1. ASSUME NEW D \in S, NEW k \in 1..n PROVE DepthStep(ins, D, k - 1) \in S
    <3>1. PICK T \in SUBSET (DOMAIN d) : D = Within(d, T)
      OBVIOUS
    <3>2. k - 1 \in 0..(Len(ins) - 1)
      BY <1>1
    <3> DEFINE U == IF k - 1 \in T THEN T \cup Successors(ins, k - 1) ELSE T
    <3>3. /\ DepthStep(ins, Within(d, T), k - 1) = Within(d, U)
          /\ k - 1 \in T => Successors(ins, k - 1) \subseteq { q \in DOMAIN d : q > k - 1 }
      <4> DEFINE p == k - 1
      <4>1. p \in 0..(Len(ins) - 1)
        BY <3>2
      <4> HIDE DEF S, step, b, n, p
      <4>2. /\ DepthStep(ins, Within(d, T), p)
                 = Within(d, IF p \in T THEN T \cup Successors(ins, p) ELSE T)
            /\ p \in T => Successors(ins, p) \subseteq { q \in DOMAIN d : q > p }
        BY <4>1, OnePass
      <4> QED BY <4>2 DEF p
    <3>4. U \in SUBSET (DOMAIN d)
      BY <3>3
    <3> HIDE DEF U
    <3> QED BY <3>1, <3>3, <3>4
  <2>2. \A x \in S \X (1..n) : x[1] \in S /\ x[2] \in 1..n
    OBVIOUS
  <2>3. \A x \in S \X (1..n) : DepthStep(ins, x[1], x[2] - 1) \in S
    <3> HIDE DEF S
    <3> QED BY Zenon, <2>1, <2>2
  <2> HIDE DEF S
  <2> QED BY <2>3 DEF Steps
<1>3. b \in S
  <2>1. b = Within(d, {0}) /\ {0} \in SUBSET (DOMAIN d)
    BY <1>1 DEF Within
  <2> HIDE DEF b
  <2> QED BY <2>1
<1>4. \E f : Iterates(f, S, b, n, step)
  <2> HIDE DEF step, S, b, n
  <2> QED BY <1>1, <1>2, <1>3, Iterated
<1>5. PICK f : f \in [0..n -> S] /\ f[0] = b /\ \A k \in 1..n : f[k] = step[<< f[k - 1], k >>]
  BY <1>4 DEF Iterates
<1>6. ASSUME NEW k \in 0..n PROVE f[k] = IF k = 0 THEN b ELSE DepthStep(ins, f[k - 1], k - 1)
  <2>1. CASE k = 0
    BY <1>5, <2>1
  <2>2. CASE k # 0
    <3>1. k \in 1..n /\ k - 1 \in 0..n
      BY <1>1, <2>2
    <3>2. f[k - 1] \in S
      <4> HIDE DEF S, step
      <4> QED BY <1>5, <3>1
    <3>3. f[k] = step[<< f[k - 1], k >>]
      BY <1>5, <3>1
    <3>4. << f[k - 1], k >> \in S \X (1..n)
      BY <3>1, <3>2
    <3>5. step[<< f[k - 1], k >>] = DepthStep(ins, << f[k - 1], k >>[1], << f[k - 1], k >>[2] - 1)
      <4> HIDE DEF S
      <4> QED BY Zenon, <3>4
    <3>6. << f[k - 1], k >>[1] = f[k - 1] /\ << f[k - 1], k >>[2] = k
      OBVIOUS
    <3> QED BY Zenon, <2>2, <3>3, <3>5, <3>6
  <2> QED BY <2>1, <2>2
<1>7. Passes(ins, f)
  <2>1. f = [k \in 0..n |-> f[k]]
    BY <1>5
  <2>2. f = [k \in 0..n |-> IF k = 0 THEN b ELSE DepthStep(ins, f[k - 1], k - 1)]
    <3> HIDE DEF b
    <3> QED BY <1>6, <2>1
  <2> QED BY <2>2 DEF Passes
<1> DEFINE v == CHOOSE known : Passes(ins, known)
<1>8. Passes(ins, v)
  BY <1>7
<1>9. Depths(ins) = v[Len(ins)]
  BY DEF Depths, Passes, DepthStep
<1> HIDE DEF v
<1> QED BY <1>8, <1>9

(* The places U are those that control reaches by instructions before k.   *)
ReachedBefore(ins, U, k) ==
  /\ 0 \in U
  /\ \A p \in U : p < k => Successors(ins, p) \subseteq U
  /\ \A q \in U : q = 0 \/ \E p \in U : p < k /\ q \in Successors(ins, p)

(* The pass over the code finds the depths that d has, of the places that  *)
(* control reaches.                                                        *)
LEMMA DepthsLaw ==
  ASSUME NEW ins, NEW d, CodeOK(ins, d, {})
  PROVE  \E U \in SUBSET (DOMAIN d) : Depths(ins) = Within(d, U) /\ ReachedBefore(ins, U, Len(ins))
<1> DEFINE n == Len(ins)
<1>1. n \in Nat /\ 0 \in DOMAIN d /\ d[0] = 0
  BY CodeFacts
<1>2. PICK v : Passes(ins, v) /\ Depths(ins) = v[n]
  BY PassesEnd
<1>3. \A k \in 0..n : v[k] = IF k = 0 THEN [p \in {0} |-> 0] ELSE DepthStep(ins, v[k - 1], k - 1)
  <2>1. v = [k \in 0..n |-> IF k = 0 THEN [p \in {0} |-> 0] ELSE DepthStep(ins, v[k - 1], k - 1)]
    BY <1>2 DEF Passes
  <2> QED BY <2>1
<1> DEFINE Good(k) == \E U \in SUBSET (DOMAIN d) : v[k] = Within(d, U) /\ ReachedBefore(ins, U, k)
           G == {k \in 0..n : Good(k)}
<1> HIDE DEF n
<1>4. 0 \in G
  <2>1. v[0] = Within(d, {0}) /\ {0} \in SUBSET (DOMAIN d)
    BY <1>1, <1>3 DEF Within
  <2>2. ReachedBefore(ins, {0}, 0)
    BY DEF ReachedBefore
  <2> QED BY <1>1, <2>1, <2>2
<1>5. ASSUME NEW k \in 1..n, k - 1 \in G PROVE k \in G
  <2>1. PICK U \in SUBSET (DOMAIN d) : v[k - 1] = Within(d, U) /\ ReachedBefore(ins, U, k - 1)
    BY <1>5
  <2> DEFINE p == k - 1
             W == IF p \in U THEN U \cup Successors(ins, p) ELSE U
  <2>2. p \in 0..(Len(ins) - 1) /\ p \in Nat /\ p + 1 = k /\ k \in 0..n /\ k # 0
    BY <1>1 DEF n
  <2> HIDE DEF p, G
  <2>3. /\ DepthStep(ins, Within(d, U), p) = Within(d, W)
        /\ p \in U => Successors(ins, p) \subseteq { q \in DOMAIN d : q > p }
    BY <2>2, OnePass
  <2>4. v[k] = DepthStep(ins, v[p], p)
    BY <1>3, <2>2 DEF p
  <2>5. v[k] = Within(d, W)
    BY <2>1, <2>3, <2>4 DEF p
  <2>6. W \in SUBSET (DOMAIN d)
    BY <2>3
  <2>7. ReachedBefore(ins, W, k)
    <3>1. DOMAIN d \subseteq Nat
      BY CodeFacts
    <3>2. 0 \in W
      BY <2>1 DEF ReachedBefore
    <3>3. ASSUME NEW r \in W, r < k PROVE Successors(ins, r) \subseteq W
      <4>1. r \in Nat
        BY <2>6, <3>1
      <4>2. r \in U
        BY <2>2, <2>3, <3>3, <4>1
      <4>3. CASE r = p
        BY <4>2, <4>3
      <4>4. CASE r # p
        <5>1. r < p
          BY <2>2, <3>3, <4>1, <4>4
        <5> QED BY <2>1, <4>2, <5>1 DEF ReachedBefore, p
      <4> QED BY <4>3, <4>4
    <3>4. ASSUME NEW q \in W PROVE q = 0 \/ \E r \in W : r < k /\ q \in Successors(ins, r)
      <4>1. CASE q \in U
        <5>1. q = 0 \/ \E r \in U : r < p /\ q \in Successors(ins, r)
          BY <2>1, <4>1 DEF ReachedBefore, p
        <5>2. \A r \in U : r \in W /\ (r < p => r < k)
          BY <2>2, <2>6, <3>1
        <5> QED BY <5>1, <5>2
      <4>2. CASE q \notin U
        <5>1. p \in U /\ q \in Successors(ins, p)
          BY <3>4, <4>2
        <5>2. p \in W /\ p < k
          BY <2>2, <5>1
        <5> QED BY <5>1, <5>2
      <4> QED BY <4>1, <4>2
    <3> HIDE DEF W
    <3> QED BY <3>2, <3>3, <3>4 DEF ReachedBefore
  <2> HIDE DEF W
  <2>8. Good(k)
    BY <2>5, <2>6, <2>7
  <2> QED BY <2>2, <2>8 DEF G
<1> HIDE DEF G
<1>6. 0..n \subseteq G
  BY <1>1, <1>4, <1>5, Counting
<1>7. n \in G
  BY <1>1, <1>6
<1> QED BY <1>2, <1>7 DEF G, n

(* Code that is laid out as some depths say is balanced with those that    *)
(* the pass finds, and reaches only places where instructions start.       *)
LEMMA CodeIsBalanced ==
  ASSUME NEW ins, NEW d, CodeOK(ins, d, {})
  PROVE  /\ Balanced(ins, Depths(ins))
         /\ Reached(ins) \subseteq Starts(ins, d)
         /\ Len(ins) \in DOMAIN Depths(ins) => Depths(ins)[Len(ins)] = d[Len(ins)]
         /\ Closed(ins, d) => Len(ins) \notin DOMAIN Depths(ins)
<1>1. PICK U \in SUBSET (DOMAIN d) : Depths(ins) = Within(d, U) /\ ReachedBefore(ins, U, Len(ins))
  BY DepthsLaw
<1> DEFINE D == Depths(ins)
           n == Len(ins)
<1>2. DOMAIN D = U /\ \A q \in U : D[q] = d[q]
  BY <1>1 DEF Within
<1>3. /\ n \in Nat /\ DOMAIN d \subseteq Nat /\ \A q \in DOMAIN d : q <= n /\ d[q] \in Nat
      /\ 0 \in DOMAIN d /\ d[0] = 0
  BY CodeFacts
<1>4. D \in [DOMAIN D -> Nat]
  <2>1. D = [q \in DOMAIN D |-> D[q]]
    BY <1>1 DEF Within
  <2>2. \A q \in DOMAIN D : D[q] \in Nat
    BY <1>2, <1>3
  <2> HIDE DEF D
  <2> QED BY <2>1, <2>2
<1>5. Reached(ins) = {p \in U : p < n}
  BY <1>2 DEF Reached
<1> HIDE DEF D
<1>6. ASSUME NEW p \in U, p < n
      PROVE  /\ p \in Starts(ins, d) /\ WholeInstruction(ins, p) /\ Takes(ins, p) <= D[p]
             /\ \A q \in Successors(ins, p) : q \in DOMAIN D /\ D[q] = DepthAfter(ins, p, D[p])
  <2>1. p \in Starts(ins, d) \ {}
    BY <1>6 DEF Starts, n
  <2>2. WholeInstruction(ins, p) /\ Takes(ins, p) <= d[p]
    BY <2>1, StartFacts
  <2>3. Leads(ins, d, p)
    BY <2>1 DEF CodeOK
  <2>4. Successors(ins, p) \subseteq U
    BY <1>1, <1>6 DEF ReachedBefore, n
  <2> QED BY <1>2, <2>1, <2>2, <2>3, <2>4 DEF Leads
<1>7. Balanced(ins, D)
  <2>1. DOMAIN D \subseteq 0..n /\ 0 \in DOMAIN D /\ D[0] = 0
    BY <1>1, <1>2, <1>3 DEF ReachedBefore
  <2>2. \A p \in DOMAIN D : p < n =>
          /\ WholeInstruction(ins, p) /\ Takes(ins, p) <= D[p]
          /\ \A q \in Successors(ins, p) : q \in DOMAIN D /\ D[q] = DepthAfter(ins, p, D[p])
    BY <1>2, <1>6
  <2> QED BY <1>4, <2>1, <2>2 DEF Balanced, n
<1>8. ASSUME Closed(ins, d), n \in U PROVE FALSE
  <2>1. n > 0
    BY <1>8 DEF Closed, n
  <2>2. PICK p \in U : p < n /\ n \in Successors(ins, p)
    BY <1>1, <1>8, <2>1, <1>3 DEF ReachedBefore, n
  <2> QED BY <1>6, <1>8, <2>2 DEF Closed, n
<1> QED BY <1>2, <1>5, <1>6, <1>7, <1>8 DEF D, n

-----------------------------------------------------------------------------
(* Tables and constants only grow: what exists goes on to exist.           *)

Longer(cs, es) ==
  /\ Len(cs) \in Nat /\ Len(es) \in Nat /\ Len(cs) <= Len(es)
  /\ \A i \in 1..Len(cs) : es[i] = cs[i]

TableGrows(t, u) ==
  /\ t.num \in Nat /\ u.num \in Nat /\ t.num <= u.num
  /\ Len(t.free) \in Nat /\ Len(u.free) \in Nat /\ Len(t.free) <= Len(u.free)

Grows(x, y, k) ==
  /\ TableGrows(x.tables[1], y.tables[1]) /\ TableGrows(x.tables[k], y.tables[k])
  /\ Longer(x.constants, y.constants)

(* The opcodes whose operands address something.                           *)
LEMMA AddressingOpcodes ==
  ASSUME NEW op \in {"OpGetLocal", "OpSetLocal", "OpGetGlobal", "OpSetGlobal", "OpGetBuiltin",
                     "OpGetFree", "OpConstant", "OpClosure", "OpHash"}
  PROVE  Len(OperandWidths(op)) \in {1, 2} /\ (op = "OpClosure" => Len(OperandWidths(op)) = 2)
<1>1. OperandWidths(op) \in {<< 1 >>, << 2 >>, << 2, 1 >>} /\ (op = "OpClosure" => OperandWidths(op) = << 2, 1 >>)
  BY DEF OperandWidths
<1>2. Len(<< 1 >>) = 1 /\ Len(<< 2 >>) = 1 /\ Len(<< 2, 1 >>) = 2
  OBVIOUS
<1> QED BY <1>1, <1>2

(* What an instruction addresses is still there when the compiler has      *)
(* grown.                                                                  *)
LEMMA ExistsGrows ==
  ASSUME NEW x, NEW y, NEW k, Grows(x, y, k), NEW op \in OpcodeNames, NEW args \in Seq(Nat),
         Len(args) = Len(OperandWidths(op)), Exists(x, k, op, args)
  PROVE  Exists(y, k, op, args)
<1>1. ASSUME op \in {"OpGetLocal", "OpSetLocal", "OpGetGlobal", "OpSetGlobal", "OpGetBuiltin",
                     "OpGetFree", "OpConstant", "OpClosure", "OpHash"}
      PROVE  args[1] \in Nat
  <2>1. 1 \in 1..Len(args)
    BY <1>1, AddressingOpcodes
  <2> QED BY <2>1
<1>2. op \in {"OpGetLocal", "OpSetLocal"} => k > 1 /\ args[1] < y.tables[k].num
  BY <1>1 DEF Exists, Grows, TableGrows
<1>3. op \in {"OpGetGlobal", "OpSetGlobal"} => args[1] < y.tables[1].num
  BY <1>1 DEF Exists, Grows, TableGrows
<1>4. op = "OpGetFree" => args[1] < Len(y.tables[k].free)
  BY SMTT(30), <1>1 DEF Exists, Grows, TableGrows
<1>5. ASSUME op \in {"OpConstant", "OpClosure"}
      PROVE  args[1] < Len(y.constants) /\ y.constants[args[1] + 1] = x.constants[args[1] + 1]
  <2>1. args[1] \in Nat /\ args[1] < Len(x.constants)
    BY <1>1, <1>5 DEF Exists
  <2>2. Len(x.constants) \in Nat /\ Len(y.constants) \in Nat /\ Len(x.constants) <= Len(y.constants)
    BY DEF Grows, Longer
  <2>3. args[1] + 1 \in 1..Len(x.constants)
    BY <2>1, <2>2
  <2> QED BY <2>1, <2>2, <2>3 DEF Grows, Longer
<1> QED BY <1>2, <1>3, <1>4, <1>5 DEF Exists

(* What a function addresses goes on to exist.                             *)
LEMMA FitsGrows ==
  ASSUME NEW cs, NEW es, Longer(cs, es), NEW fn, FunctionFits(cs, fn)
  PROVE  FunctionFits(es, fn)
<1> DEFINE ids(s) == [i \in 1..Len(s) |-> i]
<1>1. /\ fn.ins \in Seq(ByteValues) /\ Balanced(fn.ins, Depths(fn.ins))
      /\ Len(fn.ins) \notin DOMAIN Depths(fn.ins)
      /\ \A p \in Reached(fn.ins) : Addresses(cs, ids(cs), fn, p)
  BY DEF FunctionFits, CertifiedFunction, CertifiedCode
<1>2. Len(cs) \in Nat /\ Len(es) \in Nat /\ Len(cs) <= Len(es) /\ \A i \in 1..Len(cs) : es[i] = cs[i]
  BY DEF Longer
<1>3. /\ Len(ids(cs)) = Len(cs) /\ Len(ids(es)) = Len(es)
      /\ \A i \in 1..Len(cs) : ids(cs)[i] = i
      /\ \A i \in 1..Len(es) : ids(es)[i] = i
  BY <1>2
<1> HIDE DEF ids
<1>4. ASSUME NEW p \in Reached(fn.ins) PROVE Addresses(es, ids(es), fn, p)
  <2> DEFINE op == OpAt(fn.ins, p)
             arg == ArgsAt(fn.ins, p)[1]
  <2>1. WholeInstruction(fn.ins, p)
    BY <1>1 DEF Reached, Balanced
  <2>2. /\ op \in OpcodeNames /\ ArgsAt(fn.ins, p) \in Seq(Nat)
        /\ Len(ArgsAt(fn.ins, p)) = Len(OperandWidths(op))
    BY <1>1, <2>1, InstructionFacts
  <2>3. Addresses(cs, ids(cs), fn, p)
    BY <1>1
  <2>4. ASSUME op \in {"OpConstant", "OpClosure"}
        PROVE  /\ arg < Len(ids(es)) /\ ids(cs)[arg + 1] = arg + 1 /\ ids(es)[arg + 1] = arg + 1
               /\ es[arg + 1] = cs[arg + 1]
    <3>1. arg \in Nat
      <4>1. 1 \in 1..Len(ArgsAt(fn.ins, p))
        <5>1. op \in {"OpGetLocal", "OpSetLocal", "OpGetGlobal", "OpSetGlobal", "OpGetBuiltin",
                      "OpGetFree", "OpConstant", "OpClosure", "OpHash"}
          BY <2>4
        <5> HIDE DEF op, arg
        <5>2. Len(OperandWidths(op)) \in {1, 2}
          BY <5>1, AddressingOpcodes
        <5> QED BY <2>2, <5>2
      <4> QED BY <2>2, <4>1
    <3>2. arg < Len(cs)
      BY <1>3, <2>3, <2>4 DEF Addresses
    <3> HIDE DEF arg
    <3>3. arg + 1 \in 1..Len(cs) /\ arg + 1 \in 1..Len(es) /\ arg < Len(es)
      BY <1>2, <3>1, <3>2
    <3> QED BY <1>2, <1>3, <3>3
  <2> QED BY <2>3, <2>4 DEF Addresses, Is
<1> QED BY <1>1, <1>4 DEF FunctionFits, CertifiedFunction, CertifiedCode, ids

(* The jump at j is where it was before the code ins became new.           *)
JumpKept(ins, d, new, e, j) ==
  j \in Starts(new, e) /\ OpAt(new, j) = OpAt(ins, j) /\ e[j] = d[j]

Jumps(t) == t.do \in {"else", "end"}

(* A task that was in order is so when the compiler and the code have      *)
(* grown, if its jump is where it was.                                     *)
LEMMA TaskGrows ==
  ASSUME NEW x, NEW y, NEW k, Grows(x, y, k), NEW ins, NEW d, NEW new, NEW e, NEW t,
         TaskOK(x, k, ins, d, t), Jumps(t) => JumpKept(ins, d, new, e, t.jump)
  PROVE  TaskOK(y, k, new, e, t)
<1>1. t.at \in Nat /\ t.to \in Nat
  BY DEF TaskOK
<1>2. CASE t.do = "emit" /\ EmitOK(x, k, t)
  <2>1. /\ t.op \in OpcodeNames /\ t.operands \in Seq(Nat)
        /\ Len(t.operands) = Len(OperandWidths(t.op)) /\ Exists(x, k, t.op, t.operands)
    BY <1>2 DEF EmitOK
  <2>2. Exists(y, k, t.op, t.operands)
    BY <2>1, ExistsGrows
  <2>3. EmitOK(y, k, t)
    BY <1>2, <2>2 DEF EmitOK
  <2> QED BY <1>1, <1>2, <2>3 DEF TaskOK
<1>3. CASE t.do = "closure" /\ ClosureOK(x, t)
  <2>1. FunctionFits(y.constants, t.fn)
    <3>1. Longer(x.constants, y.constants) /\ FunctionFits(x.constants, t.fn)
      BY <1>3 DEF Grows, ClosureOK
    <3> QED BY <3>1, FitsGrows
  <2>2. ClosureOK(y, t)
    BY <1>3, <2>1 DEF ClosureOK
  <2> QED BY <1>1, <1>3, <2>2 DEF TaskOK
<1>4. CASE t.do = "else" /\ BranchesOK(t.node) /\ JumpOK(ins, d, t, "OpJumpNotTruthy")
  <2>1. JumpOK(new, e, t, "OpJumpNotTruthy")
    BY <1>4 DEF JumpOK, JumpKept, Jumps
  <2> QED BY <1>1, <1>4, <2>1 DEF TaskOK
<1>5. CASE t.do = "end" /\ JumpOK(ins, d, t, "OpJump")
  <2>1. JumpOK(new, e, t, "OpJump")
    BY <1>5 DEF JumpOK, JumpKept, Jumps
  <2> QED BY <1>1, <1>5, <2>1 DEF TaskOK
<1> QED BY <1>1, <1>2, <1>3, <1>4, <1>5 DEF TaskOK

-----------------------------------------------------------------------------
(* Lists of tasks.                                                         *)

IsSeq(s) == \E S : s \in Seq(S)

(* Two lists, one after the other.                                         *)
LEMMA Joined ==
  ASSUME NEW a, NEW b, IsSeq(a), IsSeq(b)
  PROVE  /\ IsSeq(a \o b) /\ Len(a) \in Nat /\ Len(b) \in Nat /\ Len(a \o b) = Len(a) + Len(b)
         /\ \A i \in 1..Len(a) : (a \o b)[i] = a[i]
         /\ \A i \in 1..Len(b) : (a \o b)[Len(a) + i] = b[i]
         /\ \A i \in 1..Len(a \o b) : i \notin 1..Len(a) =>
              i - Len(a) \in 1..Len(b) /\ (a \o b)[i] = b[i - Len(a)]
<1>1. PICK A : a \in Seq(A)
  BY DEF IsSeq
<1>2. PICK B : b \in Seq(B)
  BY DEF IsSeq
<1> DEFINE S == A \cup B
<1>3. a \in Seq(S) /\ b \in Seq(S) /\ Len(a) \in Nat /\ Len(b) \in Nat
  BY <1>1, <1>2
<1> HIDE DEF S
<1>4. /\ a \o b \in Seq(S) /\ Len(a \o b) = Len(a) + Len(b)
      /\ \A i \in 1..(Len(a) + Len(b)) : (a \o b)[i] = IF i <= Len(a) THEN a[i] ELSE b[i - Len(a)]
  BY <1>3, ConcatProperties
<1>5. IsSeq(a \o b)
  BY <1>4 DEF IsSeq
<1> DEFINE c2 == a \o b
           m == Len(a)
           n == Len(b)
<1>6. \A i \in 1..(m + n) : c2[i] = IF i <= m THEN a[i] ELSE b[i - m]
  BY <1>4
<1>7. m \in Nat /\ n \in Nat /\ Len(c2) = m + n
  BY <1>3, <1>4
<1> HIDE DEF c2, m, n
<1>8. \A i \in 1..m : c2[i] = a[i]
  BY <1>6, <1>7
<1>9. \A i \in 1..n : c2[m + i] = b[i]
  <2> TAKE i \in 1..n
  <2>1. m + i \in 1..(m + n) /\ ~ (m + i <= m) /\ (m + i) - m = i
    BY <1>7
  <2> QED BY <1>6, <2>1
<1>10. \A i \in 1..Len(c2) : i \notin 1..m => i - m \in 1..n /\ c2[i] = b[i - m]
  BY <1>6, <1>7
<1> QED BY <1>5, <1>7, <1>8, <1>9, <1>10 DEF c2, m, n

(* A list and what is behind its first element.                            *)
LEMMA Rest ==
  ASSUME NEW list, IsSeq(list), list # << >>
  PROVE  /\ IsSeq(Tail(list)) /\ Len(list) \in Nat /\ Len(list) >= 1 /\ Head(list) = list[1]
         /\ Len(Tail(list)) \in Nat /\ Len(Tail(list)) = Len(list) - 1
         /\ \A i \in 1..Len(Tail(list)) : Tail(list)[i] = list[i + 1] /\ i + 1 \in 1..Len(list)
<1>1. PICK S : list \in Seq(S)
  BY DEF IsSeq
<1>2. Len(list) \in Nat /\ Len(list) >= 1
  BY <1>1, EmptySeq
<1>3. /\ Head(list) = list[1] /\ Tail(list) \in Seq(S) /\ Len(Tail(list)) = Len(list) - 1
      /\ \A i \in 1..Len(Tail(list)) : Tail(list)[i] = list[i + 1]
  BY <1>1, <1>2
<1> QED BY <1>2, <1>3 DEF IsSeq

(* An empty list.                                                          *)
LEMMA NoElements ==
  ASSUME NEW list, IsSeq(list)
  PROVE  Len(list) \in Nat /\ (list = << >> <=> Len(list) = 0) /\ IsSeq(<< >>) /\ Len(<< >>) = 0
<1>1. PICK S : list \in Seq(S)
  BY DEF IsSeq
<1>2. << >> \in Seq({}) /\ Len(<< >>) = 0
  OBVIOUS
<1> QED BY <1>1, <1>2, EmptySeq DEF IsSeq

(* The jumps that a list of tasks is to patch.                             *)
LEMMA JumpsJoined ==
  ASSUME NEW a, NEW b, IsSeq(a), IsSeq(b)
  PROVE  JumpsOf(a \o b) = JumpsOf(a) \cup JumpsOf(b)
<1> DEFINE both == a \o b
<1>1. /\ Len(a) \in Nat /\ Len(b) \in Nat /\ Len(both) = Len(a) + Len(b)
      /\ \A i \in 1..Len(a) : both[i] = a[i]
      /\ \A i \in 1..Len(b) : both[Len(a) + i] = b[i]
      /\ \A i \in 1..Len(both) : i \notin 1..Len(a) =>
              i - Len(a) \in 1..Len(b) /\ both[i] = b[i - Len(a)]
  BY Joined
<1> HIDE DEF both
<1>2. ASSUME NEW j \in JumpsOf(both) PROVE j \in JumpsOf(a) \cup JumpsOf(b)
  <2>1. PICK i \in 1..Len(both) : both[i].do \in {"else", "end"} /\ j = both[i].jump
    BY DEF JumpsOf
  <2>2. CASE i \in 1..Len(a)
    BY <1>1, <2>1, <2>2 DEF JumpsOf
  <2>3. CASE i \notin 1..Len(a)
    BY <1>1, <2>1, <2>3 DEF JumpsOf
  <2> QED BY <2>2, <2>3
<1>3. ASSUME NEW j \in JumpsOf(a) PROVE j \in JumpsOf(both)
  <2>1. PICK i \in 1..Len(a) : a[i].do \in {"else", "end"} /\ j = a[i].jump
    BY DEF JumpsOf
  <2>2. i \in 1..Len(both) /\ both[i] = a[i]
    BY <1>1
  <2> QED BY <2>1, <2>2 DEF JumpsOf
<1>4. ASSUME NEW j \in JumpsOf(b) PROVE j \in JumpsOf(both)
  <2>1. PICK i \in 1..Len(b) : b[i].do \in {"else", "end"} /\ j = b[i].jump
    BY DEF JumpsOf
  <2>2. Len(a) + i \in 1..Len(both) /\ both[Len(a) + i] = b[i]
    BY <1>1
  <2> QED BY <2>1, <2>2 DEF JumpsOf
<1> QED BY <1>2, <1>3, <1>4 DEF both

(* Two lists of tasks in order, one after the other.                       *)
LEMMA TasksJoin ==
  ASSUME NEW x, NEW k, NEW ins, NEW d, NEW a, NEW b, IsSeq(a), IsSeq(b),
         TasksOK(x, k, ins, d, a), TasksOK(x, k, ins, d, b),
         a # << >> /\ b # << >> => Follows(a[Len(a)], b[1]),
         JumpsOf(a) \cap JumpsOf(b) = {}
  PROVE  TasksOK(x, k, ins, d, a \o b)
<1> DEFINE both == a \o b
           m == Len(a)
           n == Len(b)
<1>1. /\ m \in Nat /\ n \in Nat /\ Len(both) = m + n
      /\ \A i \in 1..m : both[i] = a[i]
      /\ \A i \in 1..Len(both) : i \notin 1..m => i - m \in 1..n /\ both[i] = b[i - m]
  BY Joined
<1>2. (m # 0 => a # << >>) /\ (n # 0 => b # << >>)
  BY NoElements
<1>3. /\ \A i \in 1..m : TaskOK(x, k, ins, d, a[i])
      /\ \A i \in 1..n : TaskOK(x, k, ins, d, b[i])
      /\ \A i \in 1..(m - 1) : Follows(a[i], a[i + 1])
      /\ \A i \in 1..(n - 1) : Follows(b[i], b[i + 1])
  BY DEF TasksOK
<1> HIDE DEF both, m, n
<1>4. ASSUME NEW i \in 1..Len(both) PROVE TaskOK(x, k, ins, d, both[i])
  BY <1>1, <1>3
<1>5. ASSUME NEW i \in 1..(Len(both) - 1) PROVE Follows(both[i], both[i + 1])
  <2>1. CASE i < m
    <3>1. i \in 1..(m - 1) /\ i \in 1..m /\ i + 1 \in 1..m
      BY <1>1, <2>1
    <3> QED BY <1>1, <1>3, <3>1
  <2>2. CASE i = m
    <3>1. i \in 1..m /\ i + 1 \in 1..Len(both) /\ i + 1 \notin 1..m /\ (i + 1) - m = 1 /\ m # 0 /\ n # 0
      BY <1>1, <2>2
    <3>2. both[i] = a[m] /\ both[i + 1] = b[1]
      BY <1>1, <2>2, <3>1
    <3> QED BY <1>2, <3>1, <3>2 DEF m
  <2>3. CASE i > m
    <3>1. /\ i \in 1..Len(both) /\ i + 1 \in 1..Len(both) /\ i \notin 1..m /\ i + 1 \notin 1..m
          /\ (i + 1) - m = (i - m) + 1 /\ i - m \in 1..(n - 1)
      BY <1>1, <2>3
    <3>2. both[i] = b[i - m] /\ both[i + 1] = b[(i - m) + 1]
      <4>1. both[i + 1] = b[(i + 1) - m]
        BY <1>1, <3>1
      <4> QED BY <1>1, <3>1, <4>1
    <3> QED BY <1>3, <3>1, <3>2
  <2> QED BY <1>1, <2>1, <2>2, <2>3
<1>6. ASSUME NEW i \in 1..Len(both), NEW j \in 1..Len(both), i # j,
             both[i].do \in {"else", "end"}, both[j].do \in {"else", "end"}
      PROVE  both[i].jump # both[j].jump
  <2>1. ASSUME NEW p \in 1..m, NEW q \in 1..n, a[p].do \in {"else", "end"}, b[q].do \in {"else", "end"}
        PROVE  a[p].jump # b[q].jump
    <3>1. a[p].jump \in JumpsOf(a) /\ b[q].jump \in JumpsOf(b)
      BY <2>1 DEF JumpsOf, m, n
    <3> QED BY <3>1
  <2>2. CASE i \in 1..m /\ j \in 1..m
    <3>1. both[i] = a[i] /\ both[j] = a[j]
      BY <1>1, <2>2
    <3> QED BY <1>6, <2>2, <3>1 DEF TasksOK, m
  <2>3. CASE i \in 1..m /\ j \notin 1..m
    <3>1. both[i] = a[i] /\ both[j] = b[j - m] /\ j - m \in 1..n
      BY <1>1, <2>3
    <3> QED BY <1>6, <2>1, <2>3, <3>1
  <2>4. CASE i \notin 1..m /\ j \in 1..m
    <3>1. both[j] = a[j] /\ both[i] = b[i - m] /\ i - m \in 1..n
      BY <1>1, <2>4
    <3> QED BY <1>6, <2>1, <2>4, <3>1
  <2>5. CASE i \notin 1..m /\ j \notin 1..m
    <3>1. both[i] = b[i - m] /\ i - m \in 1..n /\ both[j] = b[j - m] /\ j - m \in 1..n
      BY <1>1, <2>5
    <3>2. i - m # j - m
      BY <1>1, <1>6
    <3> QED BY <1>6, <3>1, <3>2 DEF TasksOK, n
  <2> QED BY <2>2, <2>3, <2>4, <2>5
<1> QED BY <1>4, <1>5, <1>6 DEF TasksOK, both

(* A list of tasks in order, without the first.                            *)
LEMMA TasksRest ==
  ASSUME NEW x, NEW k, NEW ins, NEW d, NEW list, IsSeq(list), list # << >>,
         TasksOK(x, k, ins, d, list)
  PROVE  /\ TasksOK(x, k, ins, d, Tail(list))
         /\ TaskOK(x, k, ins, d, list[1])
         /\ Tail(list) # << >> => /\ Follows(list[1], Tail(list)[1])
                                  /\ Tail(list)[Len(Tail(list))] = list[Len(list)]
         /\ Tail(list) = << >> => list[Len(list)] = list[1]
         /\ JumpsOf(Tail(list)) \subseteq JumpsOf(list)
         /\ Jumps(list[1]) => /\ list[1].jump \in JumpsOf(list) \ JumpsOf(Tail(list))
                              /\ JumpsOf(list) = JumpsOf(Tail(list)) \cup {list[1].jump}
         /\ ~ Jumps(list[1]) => JumpsOf(list) = JumpsOf(Tail(list))
<1> DEFINE rest == Tail(list)
           n == Len(list)
<1>1. /\ n \in Nat /\ n >= 1 /\ Len(rest) = n - 1 /\ IsSeq(rest)
      /\ \A i \in 1..(n - 1) : rest[i] = list[i + 1] /\ i + 1 \in 1..n
  BY Rest
<1>2. /\ \A i \in 1..n : TaskOK(x, k, ins, d, list[i])
      /\ \A i \in 1..(n - 1) : Follows(list[i], list[i + 1])
      /\ \A i, j \in 1..n :
           i # j /\ list[i].do \in {"else", "end"} /\ list[j].do \in {"else", "end"} => list[i].jump # list[j].jump
  BY DEF TasksOK
<1>3. rest = << >> <=> n - 1 = 0
  BY <1>1, NoElements
<1>4. rest # << >> => Follows(list[1], rest[1]) /\ rest[Len(rest)] = list[n]
  <2> SUFFICES ASSUME rest # << >> PROVE Follows(list[1], rest[1]) /\ rest[Len(rest)] = list[n]
    OBVIOUS
  <2> HIDE DEF rest, n
  <2>1. 1 \in 1..(n - 1) /\ n - 1 \in 1..(n - 1) /\ (n - 1) + 1 = n /\ 1 + 1 = 2
    BY <1>1, <1>3
  <2>2. rest[1] = list[1 + 1] /\ rest[n - 1] = list[(n - 1) + 1]
    BY <1>1, <2>1
  <2> QED BY <1>1, <1>2, <2>1, <2>2
<1>5. 1 \in 1..n
  BY <1>1
<1>6. rest = << >> => list[n] = list[1]
  BY <1>1, <1>3
<1>7. TasksOK(x, k, ins, d, rest)
  <2> HIDE DEF rest, n
  <2>1. \A i \in 1..Len(rest) : TaskOK(x, k, ins, d, rest[i])
    BY <1>1, <1>2
  <2>2. \A i \in 1..(Len(rest) - 1) : Follows(rest[i], rest[i + 1])
    <3> TAKE i \in 1..(Len(rest) - 1)
    <3>1. i \in 1..(n - 1) /\ i + 1 \in 1..(n - 1)
      BY <1>1
    <3>2. rest[i] = list[i + 1] /\ rest[i + 1] = list[(i + 1) + 1]
      BY <1>1, <3>1
    <3> QED BY <1>2, <3>1, <3>2
  <2>3. \A i, j \in 1..Len(rest) :
           i # j /\ rest[i].do \in {"else", "end"} /\ rest[j].do \in {"else", "end"} => rest[i].jump # rest[j].jump
    <3> TAKE i, j \in 1..Len(rest)
    <3>1. /\ rest[i] = list[i + 1] /\ rest[j] = list[j + 1] /\ i + 1 \in 1..n /\ j + 1 \in 1..n
          /\ (i # j => i + 1 # j + 1)
      BY <1>1
    <3> QED BY <1>2, <3>1
  <2> QED BY <2>1, <2>2, <2>3 DEF TasksOK
<1> HIDE DEF rest, n
<1>8. JumpsOf(rest) = { list[i].jump : i \in { j \in 2..n : list[j].do \in {"else", "end"} } }
  <2>1. ASSUME NEW j \in JumpsOf(rest) PROVE j \in { list[i].jump : i \in { h \in 2..n : list[h].do \in {"else", "end"} } }
    <3>1. PICK i \in 1..(n - 1) : rest[i].do \in {"else", "end"} /\ j = rest[i].jump
      BY <1>1 DEF JumpsOf
    <3>2. i + 1 \in 2..n /\ rest[i] = list[i + 1]
      BY <1>1
    <3> QED BY <3>1, <3>2
  <2>2. ASSUME NEW i \in 2..n, list[i].do \in {"else", "end"} PROVE list[i].jump \in JumpsOf(rest)
    <3>1. i - 1 \in 1..(n - 1) /\ (i - 1) + 1 = i
      BY <1>1
    <3>2. rest[i - 1] = list[i] /\ i - 1 \in 1..Len(rest)
      BY <1>1, <3>1
    <3> QED BY <2>2, <3>2 DEF JumpsOf
  <2> QED BY <2>1, <2>2
<1>9. JumpsOf(list) = { list[i].jump : i \in { j \in 1..n : list[j].do \in {"else", "end"} } }
  BY DEF JumpsOf, n
<1>10. 1..n = {1} \cup 2..n
  BY <1>1
<1>11. JumpsOf(rest) \subseteq JumpsOf(list)
  BY <1>8, <1>9, <1>10
<1>12. ASSUME Jumps(list[1])
       PROVE  /\ list[1].jump \in JumpsOf(list) \ JumpsOf(rest)
              /\ JumpsOf(list) = JumpsOf(rest) \cup {list[1].jump}
  <2>1. list[1].jump \notin JumpsOf(rest)
    <3>1. ASSUME NEW i \in 2..n, list[i].do \in {"else", "end"} PROVE list[i].jump # list[1].jump
      <4>1. i \in 1..n /\ i # 1
        BY <1>10
      <4> QED BY <1>2, <1>5, <1>12, <3>1, <4>1 DEF Jumps
    <3> QED BY <1>8, <3>1
  <2> QED BY <1>5, <1>8, <1>9, <1>10, <1>12, <2>1 DEF Jumps
<1>13. ASSUME ~ Jumps(list[1]) PROVE JumpsOf(list) = JumpsOf(rest)
  BY <1>8, <1>9, <1>10, <1>13 DEF Jumps
<1> QED BY <1>2, <1>4, <1>5, <1>6, <1>7, <1>11, <1>12, <1>13 DEF rest, n

(* A list with another element in one place.                               *)
Put(list, n, v) == [list EXCEPT ![n] = v]

(* Put keeps the length and every other element.                           *)
LEMMA Updated ==
  ASSUME NEW list, IsSeq(list), NEW n \in 1..Len(list), NEW v
  PROVE  /\ IsSeq(Put(list, n, v)) /\ Len(Put(list, n, v)) = Len(list) /\ Put(list, n, v)[n] = v
         /\ \A i \in 1..Len(list) : i # n => Put(list, n, v)[i] = list[i]
<1>1. PICK S : list \in Seq(S)
  BY DEF IsSeq
<1> DEFINE T == S \cup {v}
           new == [list EXCEPT ![n] = v]
<1>2. list \in Seq(T) /\ v \in T
  BY <1>1
<1> HIDE DEF T
<1>3. new \in Seq(T) /\ Len(new) = Len(list) /\ new[n] = v
  BY <1>2
<1>4. \A i \in 1..Len(list) : i # n => new[i] = list[i]
  BY <1>2
<1>5. Put(list, n, v) = new
  BY DEF Put
<1> HIDE DEF new
<1> QED BY <1>3, <1>4, <1>5 DEF IsSeq

(* An element put where it is changes nothing.                             *)
LEMMA SameElements ==
  ASSUME NEW list, IsSeq(list), NEW n \in 1..Len(list)
  PROVE  Put(list, n, list[n]) = list
<1>1. PICK S : list \in Seq(S)
  BY DEF IsSeq
<1> QED BY <1>1 DEF Put

(* Tasks that find what they found before.                                 *)
LEMMA TasksGrow ==
  ASSUME NEW x, NEW y, NEW k, Grows(x, y, k), NEW ins, NEW d, NEW new, NEW e, NEW list,
         TasksOK(x, k, ins, d, list),
         \A j \in JumpsOf(list) : JumpKept(ins, d, new, e, j)
  PROVE  TasksOK(y, k, new, e, list)
<1>1. ASSUME NEW i \in 1..Len(list) PROVE TaskOK(y, k, new, e, list[i])
  <2>1. TaskOK(x, k, ins, d, list[i])
    BY DEF TasksOK
  <2>2. Jumps(list[i]) => JumpKept(ins, d, new, e, list[i].jump)
    BY DEF Jumps, JumpsOf
  <2> QED BY <2>1, <2>2, TaskGrows
<1> QED BY <1>1 DEF TasksOK

(* A scope in which nothing happens.                                       *)
LEMMA ScopeGrows ==
  ASSUME NEW x, NEW y, NEW k, Grows(x, y, k), NEW s, NEW d, NEW tasks,
         ScopeOK(x, k, s, d, tasks)
  PROVE  ScopeOK(y, k, s, d, tasks)
<1>1. /\ CodeOK(s.ins, d, JumpsOf(tasks)) /\ TasksOK(x, k, s.ins, d, tasks)
      /\ \A p \in Starts(s.ins, d) : Exists(x, k, OpAt(s.ins, p), ArgsAt(s.ins, p))
  BY DEF ScopeOK
<1>2. TasksOK(y, k, s.ins, d, tasks)
  <2>1. \A j \in JumpsOf(tasks) : JumpKept(s.ins, d, s.ins, d, j)
    BY <1>1, CodeFacts DEF JumpKept
  <2> QED BY <1>1, <2>1, TasksGrow
<1>3. ASSUME NEW p \in Starts(s.ins, d) PROVE Exists(y, k, OpAt(s.ins, p), ArgsAt(s.ins, p))
  <2>1. /\ OpAt(s.ins, p) \in OpcodeNames /\ ArgsAt(s.ins, p) \in Seq(Nat)
        /\ Len(ArgsAt(s.ins, p)) = Len(OperandWidths(OpAt(s.ins, p)))
    BY <1>1, StartFacts
  <2>2. Exists(x, k, OpAt(s.ins, p), ArgsAt(s.ins, p))
    BY <1>1
  <2> QED BY <2>1, <2>2, ExistsGrows
<1> QED BY <1>2, <1>3 DEF ScopeOK

-----------------------------------------------------------------------------
(* The compiler, its tasks and its depths.                                 *)

EmittedInstruction == [op : OpcodeNames, pos : Nat]

CompilationScope == [ins : Seq(ByteValues), last : EmittedInstruction, previous : EmittedInstruction]

(* A Compiler that has not returned an error.                              *)
IsRecord(x) ==
  x = [constants |-> x.constants, tables |-> x.tables, scopes |-> x.scopes, err |-> FALSE]

IsCompiler(x) ==
  /\ IsRecord(x)
  /\ IsSeq(x.constants)
  /\ x.scopes \in Seq(CompilationScope)
  /\ ChainOK(x.tables)
  /\ \A name \in Names :
       x.tables[1].store[name].scope = "BUILTIN" => x.tables[1].store[name].index < Len(BuiltinNames)

Good(x, lists, ds) ==
  /\ IsCompiler(x)
  /\ IsSeq(lists) /\ IsSeq(ds) /\ \A k \in 1..Len(lists) : IsSeq(lists[k])
  /\ ScopesOK(x, lists, ds)

ConstantsFit(cs) ==
  \A i \in 1..Len(cs) : cs[i].t = "COMPILED_FUNCTION" => FunctionFits(cs, cs[i])

(* y is x but for a current scope s, and what has been added to the tables *)
(* and the constants.                                                      *)
Advances(x, y, n, s) ==
  /\ IsCompiler(y) /\ Len(y.tables) = Len(x.tables)
  /\ y.scopes = Put(x.scopes, n, s)
  /\ y.tables[1].num <= GlobalsSize
  /\ \A k \in 1..n : Grows(x, y, k)
  /\ ConstantsFit(y.constants)

(* What is known of the current scope.                                     *)
LEMMA TopFacts ==
  ASSUME NEW x, NEW lists, NEW ds, Good(x, lists, ds)
  PROVE  LET n == Len(lists) IN
         /\ n \in Nat /\ n >= 1 /\ n \in 1..n
         /\ Len(x.scopes) = n /\ Len(ds) = n /\ Len(x.tables) = n
         /\ IsSeq(lists[n]) /\ x.scopes[n] \in CompilationScope /\ CurrentScope(x) = x.scopes[n]
         /\ ScopeOK(x, n, x.scopes[n], ds[n], lists[n])
         /\ IsCompiler(x) /\ IsSeq(lists) /\ IsSeq(ds) /\ IsSeq(x.scopes) /\ IsSeq(x.constants)
         /\ Len(x.constants) \in Nat /\ ~ x.err
<1>1. /\ IsCompiler(x) /\ IsSeq(lists) /\ IsSeq(ds) /\ ScopesOK(x, lists, ds)
      /\ \A k \in 1..Len(lists) : IsSeq(lists[k])
  BY DEF Good
<1>2. /\ Len(lists) >= 1 /\ Len(x.scopes) = Len(lists) /\ Len(ds) = Len(lists) /\ Len(x.tables) = Len(lists)
  BY <1>1 DEF ScopesOK
<1>3. Len(lists) \in Nat
  BY <1>1, NoElements
<1>4. Len(lists) \in 1..Len(lists)
  BY <1>2, <1>3
<1>5. x.scopes[Len(lists)] \in CompilationScope
  <2>1. x.scopes \in Seq(CompilationScope)
    BY <1>1 DEF IsCompiler
  <2> QED BY <1>2, <1>4, <2>1
<1>6. ScopeOK(x, Len(lists), x.scopes[Len(lists)], ds[Len(lists)], lists[Len(lists)])
  BY <1>1, <1>4 DEF ScopesOK
<1>7. IsSeq(x.scopes) /\ IsSeq(x.constants) /\ ~ x.err
  <2>1. IsRecord(x)
    BY <1>1 DEF IsCompiler
  <2>2. x.err = FALSE
    BY <2>1 DEF IsRecord
  <2> QED BY <1>1, <2>2 DEF IsCompiler, IsSeq
<1>8. Len(x.constants) \in Nat
  BY <1>7, NoElements
<1> QED BY <1>1, <1>2, <1>3, <1>4, <1>5, <1>6, <1>7, <1>8 DEF CurrentScope

(* Only the current scope changes.                                         *)
LEMMA TopStep ==
  ASSUME NEW x, NEW lists, NEW ds, Good(x, lists, ds), NEW y, NEW s, Advances(x, y, Len(lists), s),
         NEW list, IsSeq(list), NEW e, ScopeOK(y, Len(lists), s, e, list),
         NEW lists2, lists2 = Put(lists, Len(lists), list),
         NEW ds2, ds2 = Put(ds, Len(lists), e)
  PROVE  Good(y, lists2, ds2)
<1> DEFINE n == Len(lists)
<1>1. /\ n \in Nat /\ n >= 1 /\ n \in 1..n /\ Len(x.scopes) = n /\ Len(ds) = n /\ Len(x.tables) = n
      /\ IsSeq(lists) /\ IsSeq(ds) /\ IsSeq(x.scopes)
  BY TopFacts
<1>2. IsSeq(lists2) /\ Len(lists2) = n /\ lists2[n] = list /\ \A i \in 1..n : i # n => lists2[i] = lists[i]
  <2>1. IsSeq(lists) /\ n \in 1..Len(lists) /\ lists2 = Put(lists, n, list)
    BY <1>1
  <2> QED BY <2>1, Updated
<1>3. IsSeq(ds2) /\ Len(ds2) = n /\ ds2[n] = e /\ \A i \in 1..n : i # n => ds2[i] = ds[i]
  <2>1. IsSeq(ds) /\ n \in 1..Len(ds) /\ ds2 = Put(ds, n, e)
    BY <1>1
  <2> HIDE DEF n
  <2> QED BY <1>1, <2>1, Updated
<1>4. Len(y.scopes) = n /\ y.scopes[n] = s /\ \A i \in 1..n : i # n => y.scopes[i] = x.scopes[i]
  <2>1. n \in 1..Len(x.scopes)
    BY <1>1
  <2>2. y.scopes = Put(x.scopes, n, s)
    BY DEF Advances
  <2> HIDE DEF n
  <2> QED BY <1>1, <2>1, <2>2, Updated
<1>5. /\ IsCompiler(y) /\ Len(y.tables) = n /\ y.tables[1].num <= GlobalsSize
      /\ \A k \in 1..n : Grows(x, y, k)
      /\ ConstantsFit(y.constants)
  BY <1>1 DEF Advances
<1>6. ASSUME NEW k \in 1..n PROVE IsSeq(lists2[k]) /\ ScopeOK(y, k, y.scopes[k], ds2[k], lists2[k])
  <2>1. CASE k = n
    BY <1>2, <1>3, <1>4, <2>1
  <2>2. CASE k # n
    <3>1. IsSeq(lists[k]) /\ ScopeOK(x, k, x.scopes[k], ds[k], lists[k])
      BY DEF Good, ScopesOK, n
    <3>2. ScopeOK(y, k, x.scopes[k], ds[k], lists[k])
      BY <1>5, <3>1, ScopeGrows
    <3> QED BY <1>2, <1>3, <1>4, <2>2, <3>1, <3>2
  <2> QED BY <2>1, <2>2
<1>7. \A k \in 1..(n - 1) : /\ lists2[k] # << >> /\ lists2[k][1].do = "expression"
                            /\ lists2[k][1].node.node = "FunctionLiteral"
  <2>1. \A k \in 1..(n - 1) : k \in 1..n /\ k # n
    BY <1>1
  <2>2. \A k \in 1..(n - 1) : /\ lists[k] # << >> /\ lists[k][1].do = "expression"
                              /\ lists[k][1].node.node = "FunctionLiteral"
    BY DEF Good, ScopesOK, n
  <2> QED BY <1>2, <2>1, <2>2
<1>8. ScopesOK(y, lists2, ds2)
  BY <1>1, <1>2, <1>3, <1>4, <1>5, <1>6, <1>7 DEF ScopesOK, ConstantsFit
<1> QED BY <1>2, <1>3, <1>5, <1>6, <1>8 DEF Good, n

(* How tasks are replaced, in other words.                                 *)
LEMMA ReplacedIs ==
  ASSUME NEW lists, NEW tasks
  PROVE  Replaced(lists, tasks) = Put(lists, Len(lists), tasks \o Tail(lists[Len(lists)]))
BY DEF Replaced, Put

(* A list that follows a task starts where the task ends.                  *)
LEMMA ScheduledRest ==
  ASSUME NEW k \in Nat \ {0}, NEW list, IsSeq(list), list # << >>, NEW reached,
         NEW x, NEW ins, NEW d, TasksOK(x, k, ins, d, list), Scheduled(k, list, reached),
         list[1].do # "finish"
  PROVE  Scheduled(k, Tail(list), list[1].to)
<1> DEFINE rest == Tail(list)
<1>1. list[Len(list)].to = 0 /\ (list[Len(list)].do = "finish" <=> k > 1)
  BY DEF Scheduled
<1>2. /\ rest # << >> => Follows(list[1], rest[1]) /\ rest[Len(rest)] = list[Len(list)]
      /\ rest = << >> => list[Len(list)] = list[1]
  <2>1. IsSeq(list) /\ list # << >> /\ TasksOK(x, k, ins, d, list)
    OBVIOUS
  <2>2. Tail(list) # << >> => Follows(list[1], Tail(list)[1])
    BY <2>1, TasksRest
  <2>3. Tail(list) # << >> => Tail(list)[Len(Tail(list))] = list[Len(list)]
    BY <2>1, TasksRest
  <2>4. Tail(list) = << >> => list[Len(list)] = list[1]
    BY <2>1, TasksRest
  <2> QED BY <2>2, <2>3, <2>4
<1> HIDE DEF rest
<1>3. CASE rest = << >>
  <2>1. ~ (k > 1) /\ list[1].to = 0
    BY <1>1, <1>2, <1>3
  <2>2. k = 1
    BY <2>1
  <2> QED BY <1>3, <2>1, <2>2 DEF Scheduled, rest
<1>4. CASE rest # << >>
  <2>1. rest[1].at = list[1].to
    BY <1>2, <1>4 DEF Follows
  <2> QED BY <1>1, <1>2, <1>4, <2>1 DEF Scheduled, rest
<1> QED BY <1>3, <1>4

(* The first task is done.                                                 *)
LEMMA HeadDone ==
  ASSUME NEW x, NEW lists, NEW ds, Good(x, lists, ds), NEW y, NEW s, Advances(x, y, Len(lists), s),
         NEW n, n = Len(lists), NEW list, list = lists[n], list # << >>, list[1].do # "finish",
         NEW e, CodeOK(s.ins, e, JumpsOf(Tail(list))),
         \A p \in Starts(s.ins, e) : Exists(y, n, OpAt(s.ins, p), ArgsAt(s.ins, p)),
         \A j \in JumpsOf(Tail(list)) : JumpKept(x.scopes[n].ins, ds[n], s.ins, e, j),
         e[Len(s.ins)] = list[1].to,
         LastOK(s, e, Tail(list)),
         NEW ds2, ds2 = Put(ds, Len(lists), e)
  PROVE  Good(y, Replaced(lists, << >>), ds2)
<1> DEFINE rest == Tail(list)
<1>1. /\ n \in Nat /\ n >= 1 /\ IsSeq(list)
      /\ ScopeOK(x, n, x.scopes[n], ds[n], list)
  BY TopFacts
<1>2. IsSeq(rest)
  BY <1>1, Rest
<1>3. /\ TasksOK(x, n, x.scopes[n].ins, ds[n], list)
      /\ Scheduled(n, list, ds[n][Len(x.scopes[n].ins)])
  BY <1>1 DEF ScopeOK
<1>4. TasksOK(x, n, x.scopes[n].ins, ds[n], rest)
  BY <1>1, <1>3, TasksRest
<1>5. Scheduled(n, rest, list[1].to)
  <2>1. n \in Nat \ {0}
    BY <1>1
  <2> QED BY <1>1, <1>3, <2>1, ScheduledRest
<1> HIDE DEF rest
<1>6. Grows(x, y, n)
  <2>1. n \in 1..Len(lists)
    BY <1>1
  <2> QED BY <2>1 DEF Advances
<1>7. TasksOK(y, n, s.ins, e, rest)
  BY <1>4, <1>6, TasksGrow DEF rest
<1>8. ScopeOK(y, n, s, e, rest)
  BY <1>5, <1>7 DEF ScopeOK, rest
<1>9. << >> \o rest = rest
  <2>1. PICK S : rest \in Seq(S)
    BY <1>2 DEF IsSeq
  <2> QED BY <2>1, ConcatEmptySeq
<1>10. Replaced(lists, << >>) = Put(lists, Len(lists), rest)
  BY <1>9, ReplacedIs DEF rest
<1> QED BY <1>2, <1>8, <1>10, TopStep

(* The first task becomes several.                                         *)
LEMMA HeadSplit ==
  ASSUME NEW x, NEW lists, NEW ds, Good(x, lists, ds), NEW y, NEW s, Advances(x, y, Len(lists), s),
         NEW n, n = Len(lists), NEW list, list = lists[n], list # << >>, list[1].do # "finish",
         NEW tasks, IsSeq(tasks), tasks # << >>,
         NEW e, CodeOK(s.ins, e, JumpsOf(tasks) \cup JumpsOf(Tail(list))),
         \A p \in Starts(s.ins, e) : Exists(y, n, OpAt(s.ins, p), ArgsAt(s.ins, p)),
         \A j \in JumpsOf(Tail(list)) : JumpKept(x.scopes[n].ins, ds[n], s.ins, e, j),
         JumpsOf(tasks) \cap JumpsOf(Tail(list)) = {},
         TasksOK(y, n, s.ins, e, tasks),
         tasks[1].at = e[Len(s.ins)], tasks[Len(tasks)].to = list[1].to,
         EndsStatement(tasks[Len(tasks)]) <=> EndsStatement(list[1]),
         tasks[Len(tasks)].do # "finish",
         s.last.op = "OpPop" => s.previous.op # "OpPop" /\ ~ TakesValue(tasks[1]),
         tasks[1].do \in {"keep", "finish"} => s.last.op \notin {"OpPop", "OpReturnValue"},
         NEW ds2, ds2 = Put(ds, Len(lists), e)
  PROVE  Good(y, Replaced(lists, tasks), ds2)
<1> DEFINE rest == Tail(list)
           both == tasks \o rest
<1>1. /\ n \in Nat /\ n >= 1 /\ IsSeq(list)
      /\ ScopeOK(x, n, x.scopes[n], ds[n], list)
  BY TopFacts
<1>2. IsSeq(rest)
  BY <1>1, Rest
<1>3. /\ TasksOK(x, n, x.scopes[n].ins, ds[n], list)
      /\ Scheduled(n, list, ds[n][Len(x.scopes[n].ins)])
  BY <1>1 DEF ScopeOK
<1>4. /\ TasksOK(x, n, x.scopes[n].ins, ds[n], rest)
      /\ rest # << >> => Follows(list[1], rest[1])
  BY <1>1, <1>3, TasksRest
<1>5. Scheduled(n, rest, list[1].to)
  <2>1. n \in Nat \ {0}
    BY <1>1
  <2> QED BY <1>1, <1>3, <2>1, ScheduledRest
<1> HIDE DEF rest
<1>6. Grows(x, y, n)
  <2>1. n \in 1..Len(lists)
    BY <1>1
  <2> QED BY <2>1 DEF Advances
<1>7. TasksOK(y, n, s.ins, e, rest)
  BY <1>4, <1>6, TasksGrow DEF rest
<1>8. rest # << >> => Follows(tasks[Len(tasks)], rest[1])
  BY <1>4 DEF Follows
<1>9. TasksOK(y, n, s.ins, e, both)
  BY <1>2, <1>7, <1>8, TasksJoin DEF rest
<1>10. JumpsOf(both) = JumpsOf(tasks) \cup JumpsOf(rest)
  BY <1>2, JumpsJoined
<1>11. /\ IsSeq(both) /\ Len(tasks) \in Nat /\ Len(rest) \in Nat /\ Len(both) = Len(tasks) + Len(rest)
       /\ \A i \in 1..Len(tasks) : both[i] = tasks[i]
       /\ \A i \in 1..Len(rest) : both[Len(tasks) + i] = rest[i]
  BY <1>2, Joined
<1>12. Len(tasks) >= 1 /\ (rest = << >> <=> Len(rest) = 0)
  <2>1. Len(tasks) # 0 /\ (rest = << >> <=> Len(rest) = 0)
    BY <1>2, NoElements
  <2> QED BY <1>11, <2>1
<1>13. both # << >> /\ both[1] = tasks[1]
  <2>1. Len(both) # 0 /\ 1 \in 1..Len(tasks)
    BY <1>11, <1>12
  <2> QED BY <1>11, <2>1, NoElements
<1> HIDE DEF both
<1>14. both[Len(both)] = IF rest = << >> THEN tasks[Len(tasks)] ELSE rest[Len(rest)]
  <2>1. CASE Len(rest) = 0
    <3>1. Len(both) = Len(tasks) /\ Len(tasks) \in 1..Len(tasks)
      BY <1>11, <1>12, <2>1
    <3> QED BY <1>11, <1>12, <2>1, <3>1
  <2>2. CASE Len(rest) # 0
    <3>1. Len(rest) \in 1..Len(rest)
      BY <1>11, <2>2
    <3>2. both[Len(tasks) + Len(rest)] = rest[Len(rest)]
      BY <1>11, <3>1
    <3> QED BY <1>11, <1>12, <2>2, <3>2
  <2> QED BY <2>1, <2>2
<1>15. Scheduled(n, both, e[Len(s.ins)])
  <2>1. CASE rest = << >>
    <3>1. n = 1 /\ list[1].to = 0
      BY <1>5, <2>1 DEF Scheduled
    <3>2. ~ (n > 1)
      BY <3>1
    <3> QED BY <1>13, <1>14, <2>1, <3>1, <3>2 DEF Scheduled
  <2>2. CASE rest # << >>
    <3>1. rest[Len(rest)].to = 0 /\ (rest[Len(rest)].do = "finish" <=> n > 1)
      BY <1>5, <2>2 DEF Scheduled
    <3> QED BY <1>13, <1>14, <2>2, <3>1 DEF Scheduled
  <2> QED BY <2>1, <2>2
<1>16. LastOK(s, e, both)
  BY <1>13 DEF LastOK
<1>17. ScopeOK(y, n, s, e, both)
  BY <1>9, <1>10, <1>15, <1>16 DEF ScopeOK, rest
<1>18. Replaced(lists, tasks) = Put(lists, Len(lists), both)
  BY ReplacedIs DEF rest, both
<1> QED BY <1>11, <1>17, <1>18, TopStep

-----------------------------------------------------------------------------
(* What the cases of Compile do to the compiler.                           *)

(* The compiler is a record: a change of one field leaves the others.      *)
LEMMA RecordFields ==
  ASSUME NEW x, IsRecord(x), NEW v, NEW y
  PROVE  /\ y = [x EXCEPT !.constants = v] =>
              IsRecord(y) /\ y.constants = v /\ y.tables = x.tables /\ y.scopes = x.scopes
         /\ y = [x EXCEPT !.tables = v] =>
              IsRecord(y) /\ y.constants = x.constants /\ y.tables = v /\ y.scopes = x.scopes
         /\ y = [x EXCEPT !.scopes = v] =>
              IsRecord(y) /\ y.constants = x.constants /\ y.tables = x.tables /\ y.scopes = v
<1>1. PICK a, b, c0 : x = [constants |-> a, tables |-> b, scopes |-> c0, err |-> FALSE]
  BY DEF IsRecord
<1>2. x.constants = a /\ x.tables = b /\ x.scopes = c0
  BY <1>1
<1>3. ASSUME y = [x EXCEPT !.constants = v]
      PROVE  IsRecord(y) /\ y.constants = v /\ y.tables = b /\ y.scopes = c0
  <2>1. y = [constants |-> v, tables |-> b, scopes |-> c0, err |-> FALSE]
    BY <1>1, <1>3
  <2> QED BY <2>1 DEF IsRecord
<1>4. ASSUME y = [x EXCEPT !.tables = v]
      PROVE  IsRecord(y) /\ y.constants = a /\ y.tables = v /\ y.scopes = c0
  <2>1. y = [constants |-> a, tables |-> v, scopes |-> c0, err |-> FALSE]
    BY <1>1, <1>4
  <2> QED BY <2>1 DEF IsRecord
<1>5. ASSUME y = [x EXCEPT !.scopes = v]
      PROVE  IsRecord(y) /\ y.constants = a /\ y.tables = b /\ y.scopes = v
  <2>1. y = [constants |-> a, tables |-> b, scopes |-> v, err |-> FALSE]
    BY <1>1, <1>5
  <2> QED BY <2>1 DEF IsRecord
<1> QED BY <1>2, <1>3, <1>4, <1>5

(* A symbol table that stays as it is grows by nothing.                    *)
LEMMA TablesStay ==
  ASSUME NEW x, IsCompiler(x), NEW k \in 1..Len(x.tables)
  PROVE  TableGrows(x.tables[k], x.tables[k])
<1>1. Chain(x.tables)
  BY DEF IsCompiler, ChainOK
<1>2. x.tables[k].free \in Seq(Symbol) /\ x.tables[k].num \in Nat
  BY <1>1, TableFields
<1>3. Len(x.tables[k].free) \in Nat
  BY <1>2
<1> QED BY <1>2, <1>3 DEF TableGrows

(* The fields of a compiler.                                               *)
LEMMA CompilerFields ==
  ASSUME NEW x, NEW lists, NEW ds, Good(x, lists, ds)
  PROVE  /\ IsRecord(x)
         /\ x.scopes \in Seq(CompilationScope) /\ ChainOK(x.tables)
         /\ \A k \in 1..Len(lists) : TableGrows(x.tables[k], x.tables[k])
         /\ Longer(x.constants, x.constants)
         /\ 1 \in 1..Len(lists) /\ x.tables[1].num <= GlobalsSize /\ ConstantsFit(x.constants)
<1>1. IsCompiler(x) /\ ScopesOK(x, lists, ds) /\ Len(lists) >= 1 /\ Len(lists) \in Nat /\ Len(x.tables) = Len(lists)
  BY TopFacts DEF Good
<1>2. \A k \in 1..Len(lists) : TableGrows(x.tables[k], x.tables[k])
  BY <1>1, TablesStay
<1>3. Longer(x.constants, x.constants)
  <2>1. Len(x.constants) \in Nat
    BY TopFacts
  <2> QED BY <2>1 DEF Longer
<1>4. x.tables[1].num <= GlobalsSize /\ ConstantsFit(x.constants)
  BY <1>1 DEF ScopesOK, ConstantsFit
<1> QED BY <1>1, <1>2, <1>3, <1>4 DEF IsCompiler

(* Nothing.                                                                *)
LEMMA NoAdvance ==
  ASSUME NEW x, NEW lists, NEW ds, Good(x, lists, ds)
  PROVE  Advances(x, x, Len(lists), x.scopes[Len(lists)])
<1>1. /\ IsCompiler(x) /\ Len(lists) \in 1..Len(x.scopes) /\ IsSeq(x.scopes)
  BY TopFacts
<1>2. x.scopes = Put(x.scopes, Len(lists), x.scopes[Len(lists)])
  BY <1>1, SameElements
<1>3. \A k \in 1..Len(lists) : Grows(x, x, k)
  BY CompilerFields DEF Grows
<1> QED BY <1>1, <1>2, <1>3, CompilerFields DEF Advances

(* Symbols are resolved and defined.                                       *)
LEMMA TablesAdvance ==
  ASSUME NEW x, NEW lists, NEW ds, Good(x, lists, ds),
         NEW ts, ChainOK(ts), Len(ts) = Len(x.tables), ts[1].num <= GlobalsSize,
         \A k \in 1..Len(x.tables) : TableGrows(x.tables[k], ts[k]),
         \A name \in Names : ts[1].store[name].scope = "BUILTIN" => ts[1].store[name] = x.tables[1].store[name],
         NEW y, y = [x EXCEPT !.tables = ts]
  PROVE  Advances(x, y, Len(lists), x.scopes[Len(lists)])
<1>1. /\ IsCompiler(x) /\ Len(lists) \in 1..Len(x.scopes) /\ IsSeq(x.scopes) /\ Len(x.tables) = Len(lists)
  BY TopFacts
<1>2. x.scopes = Put(x.scopes, Len(lists), x.scopes[Len(lists)])
  BY <1>1, SameElements
<1>3. IsRecord(x)
  BY CompilerFields
<1>4. IsRecord(y) /\ y.constants = x.constants /\ y.tables = ts /\ y.scopes = x.scopes
  BY <1>3, RecordFields
<1>5. IsCompiler(y)
  BY <1>1, <1>4 DEF IsCompiler
<1>6. \A k \in 1..Len(lists) : Grows(x, y, k)
  BY <1>1, <1>4, CompilerFields DEF Grows
<1>7. ConstantsFit(y.constants) /\ y.tables[1].num <= GlobalsSize
  BY <1>4, CompilerFields
<1> QED BY <1>1, <1>2, <1>4, <1>5, <1>6, <1>7 DEF Advances

(* A constant is added.                                                    *)
LEMMA ConstantAdvances ==
  ASSUME NEW x, NEW lists, NEW ds, Good(x, lists, ds), NEW obj,
         obj.t = "COMPILED_FUNCTION" => FunctionFits(x.constants, obj),
         NEW y, y = AddConstant(x, obj)
  PROVE  /\ Advances(x, y, Len(lists), x.scopes[Len(lists)])
         /\ Len(y.constants) = Len(x.constants) + 1 /\ y.constants[Len(x.constants) + 1] = obj
         /\ y.tables = x.tables
<1>1. /\ IsCompiler(x) /\ Len(lists) \in 1..Len(x.scopes) /\ IsSeq(x.scopes) /\ IsSeq(x.constants)
      /\ Len(x.tables) = Len(lists)
  BY TopFacts
<1>2. x.scopes = Put(x.scopes, Len(lists), x.scopes[Len(lists)])
  BY <1>1, SameElements
<1>3. IsRecord(x)
  BY CompilerFields
<1> DEFINE cs == Append(x.constants, obj)
           m == Len(x.constants)
<1>4. IsSeq(cs) /\ m \in Nat /\ Len(cs) = m + 1 /\ cs[m + 1] = obj /\ \A i \in 1..m : cs[i] = x.constants[i]
  <2>1. PICK S : x.constants \in Seq(S)
    BY <1>1 DEF IsSeq
  <2> DEFINE T == S \cup {obj}
  <2>2. x.constants \in Seq(T) /\ obj \in T
    BY <2>1
  <2> HIDE DEF T
  <2> QED BY <2>2 DEF IsSeq
<1>5. y = [x EXCEPT !.constants = cs]
  BY DEF AddConstant
<1> HIDE DEF cs, m
<1>6. IsRecord(y) /\ y.constants = cs /\ y.tables = x.tables /\ y.scopes = x.scopes
  BY <1>3, <1>5, RecordFields
<1>7. IsCompiler(y)
  BY <1>1, <1>4, <1>6 DEF IsCompiler
<1>8. Longer(x.constants, cs)
  BY <1>4 DEF Longer, m
<1>9. \A k \in 1..Len(lists) : Grows(x, y, k)
  BY <1>6, <1>8, CompilerFields DEF Grows
<1>10. ConstantsFit(cs)
  <2> SUFFICES ASSUME NEW i \in 1..Len(cs), cs[i].t = "COMPILED_FUNCTION"
               PROVE  FunctionFits(cs, cs[i])
    BY DEF ConstantsFit
  <2>1. CASE i \in 1..m
    <3>1. FunctionFits(x.constants, x.constants[i])
      BY <1>4, <2>1, CompilerFields DEF ConstantsFit, m
    <3> QED BY <1>4, <1>8, <2>1, <3>1, FitsGrows
  <2>2. CASE i \notin 1..m
    <3>1. i = m + 1
      BY <1>4, <2>2
    <3>2. FunctionFits(x.constants, obj)
      BY <1>4, <3>1
    <3> QED BY <1>4, <1>8, <3>1, <3>2, FitsGrows
  <2> QED BY <2>1, <2>2
<1>11. y.tables[1].num <= GlobalsSize
  BY <1>6, CompilerFields
<1> QED BY <1>1, <1>2, <1>4, <1>6, <1>7, <1>9, <1>10, <1>11 DEF Advances, m

(* The current scope is another.                                           *)
LEMMA ScopeAdvances ==
  ASSUME NEW x, NEW lists, NEW ds, Good(x, lists, ds), NEW y, NEW s0, Advances(x, y, Len(lists), s0),
         s0 \in CompilationScope, NEW s \in CompilationScope, NEW z, z = SetScope(y, s)
  PROVE  /\ Advances(x, z, Len(lists), s) /\ CurrentScope(z) = s
         /\ z.constants = y.constants /\ z.tables = y.tables
<1> DEFINE n == Len(lists)
<1>1. n \in Nat /\ n \in 1..n /\ Len(x.scopes) = n /\ IsSeq(x.scopes)
  BY TopFacts
<1>2. /\ IsCompiler(y) /\ Len(y.tables) = Len(x.tables) /\ y.scopes = Put(x.scopes, n, s0)
      /\ y.tables[1].num <= GlobalsSize
      /\ \A k \in 1..n : Grows(x, y, k)
      /\ ConstantsFit(y.constants)
  BY DEF Advances
<1> HIDE DEF n
<1>3. /\ IsRecord(y)
      /\ y.scopes \in Seq(CompilationScope) /\ IsSeq(y.scopes)
  BY <1>2 DEF IsCompiler, IsSeq
<1>4. Len(y.scopes) = n
  <2>1. n \in 1..Len(x.scopes)
    BY <1>1
  <2> QED BY <1>1, <1>2, <2>1, Updated
<1>5. [y.scopes EXCEPT ![n] = s] = Put(x.scopes, n, s)
  <2>1. y.scopes = [x.scopes EXCEPT ![n] = s0]
    BY <1>2 DEF Put
  <2> QED BY <2>1 DEF Put
<1>6. [y.scopes EXCEPT ![n] = s] \in Seq(CompilationScope)
  BY <1>1, <1>3, <1>4
<1>7. z = [y EXCEPT !.scopes = [@ EXCEPT ![n] = s]]
  BY <1>4 DEF SetScope
<1>8. /\ IsRecord(z)
      /\ z.constants = y.constants /\ z.tables = y.tables /\ z.scopes = Put(x.scopes, n, s)
  <2> DEFINE new == [y.scopes EXCEPT ![n] = s]
  <2>1. z = [y EXCEPT !.scopes = new]
    BY <1>7
  <2>2. new = Put(x.scopes, n, s)
    BY <1>5
  <2> HIDE DEF new
  <2> QED BY <1>3, <2>1, <2>2, RecordFields
<1>9. IsCompiler(z)
  BY <1>2, <1>5, <1>6, <1>8 DEF IsCompiler
<1>10. \A k \in 1..n : Grows(x, z, k)
  BY <1>2, <1>8 DEF Grows
<1>11. CurrentScope(z) = s
  <2>1. n \in 1..Len(x.scopes)
    BY <1>1
  <2>2. Len(z.scopes) = n /\ z.scopes[n] = s
    BY <1>1, <1>8, <2>1, Updated
  <2> QED BY <2>2 DEF CurrentScope
<1> QED BY <1>2, <1>8, <1>9, <1>10, <1>11 DEF Advances, n

(* The current scope when an instruction has been emitted.                 *)
EmittedScope(s, op, operands) ==
  [ins |-> s.ins \o Make(op, operands), last |-> [op |-> op, pos |-> Len(s.ins)], previous |-> s.last]

(* z is y but for the current scope.                                       *)
OnlyScope(y, z, s) ==
  CurrentScope(z) = s /\ z.constants = y.constants /\ z.tables = y.tables

(* emit changes the current scope, as EmittedScope says, and nothing else. *)
LEMMA EmitAdvances ==
  ASSUME NEW x, NEW lists, NEW ds, Good(x, lists, ds), NEW n, n = Len(lists),
         NEW y, Advances(x, y, n, x.scopes[n]),
         NEW op \in OpcodeNames, NEW operands \in Seq(Nat), Len(operands) = Len(OperandWidths(op)),
         NEW z, z = Emit(y, op, operands)
  PROVE  /\ Advances(x, z, n, EmittedScope(x.scopes[n], op, operands))
         /\ EmittedScope(x.scopes[n], op, operands) \in CompilationScope
         /\ OnlyScope(y, z, EmittedScope(x.scopes[n], op, operands))
<1> DEFINE s == EmittedScope(x.scopes[n], op, operands)
<1>1. /\ n \in Nat /\ n \in 1..Len(x.scopes) /\ IsSeq(x.scopes) /\ Len(x.scopes) = n
      /\ x.scopes[n] \in CompilationScope
  BY TopFacts
<1>2. y.scopes = x.scopes /\ IsRecord(y)
  <2>1. Put(x.scopes, n, x.scopes[n]) = x.scopes
    BY <1>1, SameElements
  <2> QED BY <2>1 DEF Advances, IsCompiler
<1>3. CurrentScope(y) = x.scopes[n] /\ y.err = FALSE
  BY <1>1, <1>2 DEF CurrentScope, IsRecord
<1>4. /\ x.scopes[n].ins \in Seq(ByteValues) /\ x.scopes[n].last \in EmittedInstruction
  BY <1>1 DEF CompilationScope
<1>5. x.scopes[n].ins \o Make(op, operands) \in Seq(ByteValues) /\ Len(x.scopes[n].ins) \in Nat
  BY <1>4, EmitReads
<1>6. s \in CompilationScope
  BY <1>4, <1>5 DEF CompilationScope, EmittedScope, EmittedInstruction
<1>7. z = SetScope(y, s)
  BY <1>3 DEF Emit, EmittedScope
<1> HIDE DEF s
<1>8. Advances(x, z, n, s) /\ CurrentScope(z) = s /\ z.constants = y.constants /\ z.tables = y.tables
  BY <1>1, <1>6, <1>7, ScopeAdvances
<1> QED BY <1>6, <1>8 DEF s, OnlyScope

(* The depth behind an instruction that is not a jump.                     *)
LEMMA EmitLeads ==
  ASSUME NEW ins, NEW d, NEW P, CodeOK(ins, d, P),
         NEW op \in OpcodeNames \ {"OpJump", "OpJumpNotTruthy", "OpReturn"}, NEW operands \in Seq(Nat),
         Len(operands) = Len(OperandWidths(op)), Fit(op, operands),
         NEW to,
         to = d[Len(ins)] - TakenBy(op, operands) + (IF op = "OpReturnValue" THEN 0 ELSE LeftBy(op)),
         NEW new, new = ins \o Make(op, operands)
  PROVE  /\ Leads(new, Marks(d, Len(new), to), Len(ins))
         /\ Takes(new, Len(ins)) = TakenBy(op, operands)
<1>1. ins \in Seq(ByteValues) /\ Len(ins) \in Nat /\ Len(ins) \in DOMAIN d
  BY CodeFacts
<1>2. /\ WholeInstruction(new, Len(ins)) /\ OpAt(new, Len(ins)) = op /\ After(new, Len(ins)) = Len(new)
      /\ ArgsAt(new, Len(ins)) = operands /\ new \in Seq(ByteValues)
  BY <1>1, EmitReads
<1>3. Len(ins) < Len(new) /\ Len(new) \in Nat
  BY <1>2, InstructionFacts
<1>4. /\ Marks(d, Len(new), to)[Len(ins)] = d[Len(ins)] /\ Marks(d, Len(new), to)[Len(new)] = to
      /\ Len(new) \in DOMAIN Marks(d, Len(new), to)
  BY <1>1, <1>3 DEF Marks
<1>5. Takes(new, Len(ins)) = TakenBy(op, operands) /\ Leaves(new, Len(ins)) = LeftBy(op)
  BY <1>2 DEF Takes, Leaves
<1>6. CASE op = "OpReturnValue"
  <2>1. Successors(new, Len(ins)) = {}
    BY <1>2, <1>6 DEF Successors
  <2> QED BY <1>5, <2>1 DEF Leads
<1>7. CASE op # "OpReturnValue"
  <2>1. Successors(new, Len(ins)) = {Len(new)}
    BY <1>2, <1>7 DEF Successors
  <2>2. to = d[Len(ins)] - TakenBy(op, operands) + LeftBy(op)
    BY <1>7
  <2>3. DepthAfter(new, Len(ins), Marks(d, Len(new), to)[Len(ins)]) = to
    BY <1>4, <1>5, <2>2 DEF DepthAfter
  <2> QED BY <1>3, <1>4, <1>5, <2>1, <2>3 DEF Leads
<1> QED BY <1>6, <1>7

(* What the instructions of the current scope address goes on to exist     *)
(* when they are where they were.                                          *)
LEMMA StartsExist ==
  ASSUME NEW x, NEW lists, NEW ds, Good(x, lists, ds), NEW n, n = Len(lists), NEW y, Grows(x, y, n),
         NEW p \in Starts(x.scopes[n].ins, ds[n]), NEW new, SameAt(x.scopes[n].ins, new, p)
  PROVE  Exists(y, n, OpAt(new, p), ArgsAt(new, p))
<1> DEFINE ins == x.scopes[n].ins
<1>1. ScopeOK(x, n, x.scopes[n], ds[n], lists[n])
  BY TopFacts
<1>2. CodeOK(ins, ds[n], JumpsOf(lists[n])) /\ Exists(x, n, OpAt(ins, p), ArgsAt(ins, p))
  BY <1>1 DEF ScopeOK
<1> HIDE DEF ins
<1>3. /\ OpAt(ins, p) \in OpcodeNames /\ ArgsAt(ins, p) \in Seq(Nat)
      /\ Len(ArgsAt(ins, p)) = Len(OperandWidths(OpAt(ins, p)))
  BY <1>2, StartFacts DEF ins
<1>4. Exists(y, n, OpAt(ins, p), ArgsAt(ins, p))
  BY <1>2, <1>3, ExistsGrows
<1> QED BY <1>4 DEF SameAt, ins

(* What is known of the first task, and of the code that it starts from.   *)
LEMMA HeadFacts ==
  ASSUME NEW x, NEW lists, NEW ds, Good(x, lists, ds), NEW n, n = Len(lists),
         NEW list, list = lists[n], list # << >>
  PROVE  /\ n \in Nat /\ n >= 1 /\ Len(ds) = n /\ IsSeq(list) /\ IsSeq(Tail(list))
         /\ CodeOK(x.scopes[n].ins, ds[n], JumpsOf(list))
         /\ TaskOK(x, n, x.scopes[n].ins, ds[n], list[1])
         /\ list[1].at = ds[n][Len(x.scopes[n].ins)]
         /\ LastOK(x.scopes[n], ds[n], list)
         /\ Tail(list) # << >> => Follows(list[1], Tail(list)[1])
         /\ Jumps(list[1]) => /\ list[1].jump \in JumpsOf(list) \ JumpsOf(Tail(list))
                              /\ JumpsOf(list) = JumpsOf(Tail(list)) \cup {list[1].jump}
         /\ ~ Jumps(list[1]) => JumpsOf(list) = JumpsOf(Tail(list))
<1> DEFINE d == ds[n]
           ins == x.scopes[n].ins
<1>1. /\ n \in Nat /\ n >= 1 /\ IsSeq(list) /\ Len(ds) = n
      /\ ScopeOK(x, n, x.scopes[n], d, list)
  BY TopFacts
<1>2. /\ CodeOK(ins, d, JumpsOf(list)) /\ TasksOK(x, n, ins, d, list)
      /\ Scheduled(n, list, d[Len(ins)]) /\ LastOK(x.scopes[n], d, list)
  BY <1>1 DEF ScopeOK
<1>3. list[1].at = d[Len(ins)]
  BY <1>2 DEF Scheduled
<1> HIDE DEF d, ins
<1>4. IsSeq(list) /\ list # << >> /\ TasksOK(x, n, ins, d, list)
  BY <1>1, <1>2
<1>5. IsSeq(Tail(list))
  BY <1>4, Rest
<1>6. TaskOK(x, n, ins, d, list[1])
  BY <1>4, TasksRest
<1>7. Tail(list) # << >> => Follows(list[1], Tail(list)[1])
  BY <1>4, TasksRest
<1>8. Jumps(list[1]) => /\ list[1].jump \in JumpsOf(list) \ JumpsOf(Tail(list))
                        /\ JumpsOf(list) = JumpsOf(Tail(list)) \cup {list[1].jump}
  BY ZenonT(30), <1>4, TasksRest
<1>9. ~ Jumps(list[1]) => JumpsOf(list) = JumpsOf(Tail(list))
  BY <1>4, TasksRest
<1> QED BY <1>1, <1>2, <1>3, <1>5, <1>6, <1>7, <1>8, <1>9 DEF d, ins

(* An instruction that is no jump does the first task.                     *)
LEMMA EmitDone ==
  ASSUME NEW x, NEW lists, NEW ds, Good(x, lists, ds), NEW n, n = Len(lists),
         NEW list, list = lists[n], list # << >>, NEW t, t = list[1], t.do # "finish", ~ Jumps(t),
         NEW y, Advances(x, y, n, x.scopes[n]),
         NEW op \in OpcodeNames \ {"OpJump", "OpJumpNotTruthy"}, NEW operands \in Seq(Nat),
         Len(operands) = Len(OperandWidths(op)), Fit(op, operands), Exists(y, n, op, operands),
         TakenBy(op, operands) <= t.at, t.to \in Nat,
         t.to = t.at - TakenBy(op, operands) + (IF op = "OpReturnValue" THEN 0 ELSE LeftBy(op)),
         op = "OpPop" => EndsStatement(t) /\ TakesValue(t),
         NEW z, z = Emit(y, op, operands)
  PROVE  Good(z, Replaced(lists, << >>), Marked(ds, Here(z), t.to))
<1> DEFINE d   == ds[n]
           ins == x.scopes[n].ins
           new == ins \o Make(op, operands)
           s   == EmittedScope(x.scopes[n], op, operands)
           e   == Marks(d, Len(new), t.to)
           rest == Tail(list)
           P   == JumpsOf(rest)
<1>1. n \in Nat /\ n >= 1 /\ Len(ds) = n
  BY HeadFacts
<1>2. CodeOK(ins, d, JumpsOf(list)) /\ LastOK(x.scopes[n], d, list)
  BY HeadFacts
<1>3. JumpsOf(list) = P
  BY HeadFacts
<1>4. t.at = d[Len(ins)]
  BY HeadFacts
<1>5. Follows(t, rest[1]) \/ rest = << >>
  BY HeadFacts
<1>6. Advances(x, z, n, s) /\ Here(z) = Len(new) /\ z.constants = y.constants /\ z.tables = y.tables
  <2>1. op \in OpcodeNames /\ Advances(x, y, n, x.scopes[n]) /\ z = Emit(y, op, operands)
    OBVIOUS
  <2>2. Advances(x, z, n, s)
    BY <2>1, EmitAdvances
  <2>3. OnlyScope(y, z, s)
    BY <2>1, EmitAdvances
  <2> QED BY <2>2, <2>3 DEF OnlyScope, Here, EmittedScope
<1>7. s.ins = new /\ s.last.op = op /\ s.last.pos = Len(ins) /\ s.previous = x.scopes[n].last
  BY DEF EmittedScope
<1>8. CodeOK(ins, d, P)
  BY <1>2, <1>3
<1> HIDE DEF s, rest, P, d, ins
<1>9. ins \in Seq(ByteValues) /\ Len(ins) \in Nat /\ Len(ins) \in DOMAIN d /\ P \subseteq Starts(ins, d)
      /\ \A q \in DOMAIN d : q <= Len(ins)
  BY <1>8, CodeFacts
<1>10. /\ new \in Seq(ByteValues) /\ \A i \in 1..Len(ins) : new[i] = ins[i]
       /\ WholeInstruction(new, Len(ins)) /\ OpAt(new, Len(ins)) = op /\ After(new, Len(ins)) = Len(new)
       /\ ArgsAt(new, Len(ins)) = operands
  BY <1>9, EmitReads
<1>11. op # "OpReturn"
  BY DEF Exists
<1>12. Leads(new, e, Len(ins)) /\ Takes(new, Len(ins)) = TakenBy(op, operands)
  BY ZenonT(30), <1>4, <1>8, <1>11, EmitLeads
<1>13. Len(new) \in Nat /\ Len(new) > Len(ins) /\ Takes(new, Len(ins)) <= d[Len(ins)]
  BY <1>4, <1>10, <1>12, InstructionFacts
<1> HIDE DEF new
<1>14. Len(ins) \notin P
  BY <1>9 DEF Starts
<1>15. /\ CodeOK(new, e, P) /\ Starts(new, e) = Starts(ins, d) \cup {Len(ins)} /\ e[Len(new)] = t.to
       /\ \A p \in DOMAIN d : e[p] = d[p]
       /\ \A p \in Starts(ins, d) : SameAt(ins, new, p)
  BY <1>8, <1>10, <1>12, <1>13, <1>14, EmitCode
<1> HIDE DEF e
<1>16. Grows(x, z, n)
  <2>1. n \in 1..Len(lists)
    BY <1>1
  <2> QED BY <1>6, <2>1 DEF Advances
<1>17. Exists(z, n, op, operands)
  BY <1>6 DEF Exists
<1>18. \A p \in Starts(new, e) : Exists(z, n, OpAt(new, p), ArgsAt(new, p))
  <2> SUFFICES ASSUME NEW p \in Starts(new, e) PROVE Exists(z, n, OpAt(new, p), ArgsAt(new, p))
    OBVIOUS
  <2>1. CASE p = Len(ins)
    BY <1>10, <1>17, <2>1
  <2>2. CASE p \in Starts(ins, d)
    <3>1. p \in Starts(x.scopes[n].ins, ds[n]) /\ SameAt(x.scopes[n].ins, new, p)
      BY <1>15, <2>2 DEF d, ins
    <3> QED BY <1>16, <3>1, StartsExist
  <2> QED BY <1>15, <2>1, <2>2
<1>19. \A j \in P : JumpKept(ins, d, new, e, j)
  <2> SUFFICES ASSUME NEW j \in P PROVE JumpKept(ins, d, new, e, j)
    OBVIOUS
  <2>1. j \in Starts(ins, d) /\ j \in DOMAIN d
    BY <1>9 DEF Starts
  <2>2. SameAt(ins, new, j) /\ e[j] = d[j] /\ j \in Starts(new, e)
    BY <1>15, <2>1
  <2> QED BY <2>2 DEF JumpKept, SameAt
<1>20. LastIsTrue(s, e, P)
  <2>1. ASSUME NEW p \in Starts(new, e) \ (P \cup {Len(ins)}) PROVE Len(new) \notin Successors(new, p)
    <3>1. p \in Starts(ins, d) /\ p \in Starts(ins, d) \ P
      BY <1>15
    <3>2. Leads(ins, d, p) /\ SameAt(ins, new, p)
      BY <1>8, <1>15, <3>1 DEF CodeOK
    <3>3. \A q \in Successors(ins, p) : q <= Len(ins)
      BY <1>9, <3>2 DEF Leads
    <3> QED BY <1>9, <1>13, <3>2, <3>3 DEF SameAt
  <2>2. Len(ins) \in Starts(new, e)
    BY <1>15
  <2> QED BY <1>7, <1>10, <2>1, <2>2 DEF LastIsTrue
<1>21. LastOK(s, e, rest)
  <2>1. s.last.op = "OpPop" => s.previous.op # "OpPop"
    BY <1>2, <1>7 DEF LastOK
  <2>2. rest # << >> /\ TakesValue(rest[1]) => s.last.op # "OpPop"
    BY <1>5, <1>7 DEF Follows
  <2> QED BY <1>20, <2>1, <2>2 DEF LastOK, P
<1>22. Marked(ds, Here(z), t.to) = Put(ds, Len(lists), e)
  BY <1>1, <1>6, <1>7 DEF Marked, Put, e, d
<1> QED BY <1>6, <1>7, <1>15, <1>18, <1>19, <1>21, <1>22, HeadDone DEF P, rest, ins, d

-----------------------------------------------------------------------------
(* Symbols.                                                                *)

(* Resolve adds captured symbols to the tables, none to the outermost.     *)
LEMMA ResolveGrows ==
  ASSUME NEW ts, ChainOK(ts), NEW name \in Names
  PROVE  /\ ChainOK(ResolvedTables(ts, name)) /\ Len(ResolvedTables(ts, name)) = Len(ts)
         /\ ResolvedTables(ts, name)[1] = ts[1]
         /\ \A k \in 1..Len(ts) : TableGrows(ts[k], ResolvedTables(ts, name)[k])
<1> DEFINE rs == ResolvedTables(ts, name)
<1>1. /\ Chain(ts) /\ Len(ts) \in Nat /\ Len(ts) > 0
  BY DEF ChainOK, Chain
<1>2. /\ Len(rs) = Len(ts)
      /\ \A i \in 1..Len(ts) :
           rs[i] = IF IsCaptured(ts, name) /\ Holder(ts, name) < i
                   THEN DefineFree(ts[i], Captured(ts, name, i)) ELSE ts[i]
  BY ResolvedChain
<1>3. ChainOK(rs)
  BY ResolveKeepsChain
<1> HIDE DEF rs
<1>4. rs[1] = ts[1]
  <2>1. ASSUME IsCaptured(ts, name) PROVE ~ (Holder(ts, name) < 1)
    <3>1. Resolvable(ts, name)
      BY <2>1 DEF IsCaptured
    <3>2. Holder(ts, name) \in 1..Len(ts)
      BY <1>1, <3>1, HolderIsInnermost
    <3> QED BY <1>1, <3>2
  <2>2. 1 \in 1..Len(ts)
    BY <1>1
  <2> QED BY <1>2, <2>1, <2>2
<1>5. ASSUME NEW k \in 1..Len(ts) PROVE TableGrows(ts[k], rs[k])
  <2>1. ts[k] \in Table /\ ts[k].free \in Seq(Symbol) /\ ts[k].num \in Nat
    BY <1>1, TableFields
  <2>2. Len(ts[k].free) \in Nat
    BY <2>1
  <2>3. CASE rs[k] = ts[k]
    BY <2>1, <2>2, <2>3 DEF TableGrows
  <2>4. CASE rs[k] # ts[k]
    <3>1. IsCaptured(ts, name) /\ Holder(ts, name) < k /\ rs[k] = DefineFree(ts[k], Captured(ts, name, k))
      BY <1>2, <2>4
    <3>2. Captured(ts, name, k) \in Symbol
      BY <3>1, CapturedSymbol
    <3>3. rs[k].num = ts[k].num /\ Len(rs[k].free) = Len(ts[k].free) + 1
      BY <2>1, <3>1, <3>2, DefineFreeTable
    <3> QED BY <2>1, <2>2, <3>3 DEF TableGrows
  <2> QED BY <2>3, <2>4
<1> QED BY <1>2, <1>3, <1>4, <1>5 DEF rs

(* Define adds a symbol to the current table, and it is no builtin.        *)
LEMMA DefineGrows ==
  ASSUME NEW ts, ChainOK(ts), NEW x \in Names
  PROVE  /\ ChainOK(Define(ts, x)) /\ Len(Define(ts, x)) = Len(ts)
         /\ \A k \in 1..Len(ts) : TableGrows(ts[k], Define(ts, x)[k])
         /\ \A name \in Names : Define(ts, x)[1].store[name].scope = "BUILTIN" =>
                                  Define(ts, x)[1].store[name] = ts[1].store[name]
<1> DEFINE es  == Define(ts, x)
           n   == Len(ts)
           sym == DefineSymbol(ts, x)
           new == [store |-> [ts[n].store EXCEPT ![x] = sym], free |-> ts[n].free, num |-> ts[n].num + 1]
<1>1. Chain(ts) /\ n \in Nat /\ n > 0 /\ n \in 1..n
  BY DEF ChainOK, Chain
<1>2. ChainOK(es) /\ Len(es) = n /\ sym \in Symbol
  BY DefineKeepsChain
<1>3. /\ ts[n].store \in [Names -> Symbol \cup {Absent}] /\ ts[n].free \in Seq(Symbol) /\ ts[n].num \in Nat
  BY <1>1, StoredSymbol
<1>4. new \in Table
  BY <1>2, <1>3 DEF Table
<1>5. es = Append(SubSeq(ts, 1, Len(ts) - 1), new)
  BY DEF Define, Current
<1>6. /\ new.num = ts[n].num + 1 /\ new.free = ts[n].free
      /\ \A name \in Names : new.store[name] = IF name = x THEN sym ELSE ts[n].store[name]
  BY <1>3
<1> HIDE DEF new
<1>7. es[n] = new /\ \A i \in 1..(n - 1) : es[i] = ts[i]
  BY <1>1, <1>4, <1>5, ReplaceLast
<1>8. sym.scope # "BUILTIN"
  BY DEF DefineSymbol
<1> HIDE DEF es, sym, n
<1>9. ASSUME NEW k \in 1..n PROVE TableGrows(ts[k], es[k])
  <2>1. ts[k].free \in Seq(Symbol) /\ ts[k].num \in Nat
    BY <1>1, TableFields DEF n
  <2>2. Len(ts[k].free) \in Nat
    BY <2>1
  <2>3. es[k].free = ts[k].free /\ (es[k].num = ts[k].num \/ es[k].num = ts[k].num + 1)
    <3>1. CASE k = n
      BY <1>6, <1>7, <3>1
    <3>2. CASE k # n
      <4>1. k \in 1..(n - 1)
        BY <1>1, <3>2
      <4> QED BY <1>7, <4>1
    <3> QED BY <3>1, <3>2
  <2> QED BY <2>1, <2>2, <2>3 DEF TableGrows
<1>10. ASSUME NEW name \in Names, es[1].store[name].scope = "BUILTIN" PROVE es[1].store[name] = ts[1].store[name]
  <2>1. CASE n = 1
    BY <1>6, <1>7, <1>8, <1>10, <2>1
  <2>2. CASE n # 1
    <3>1. 1 \in 1..(n - 1)
      BY <1>1, <2>2
    <3> QED BY <1>7, <3>1
  <2> QED BY <2>1, <2>2
<1> QED BY <1>2, <1>9, <1>10 DEF es, n

(* A symbol that can be addressed is loaded.                               *)
LEMMA LoadLaws ==
  ASSUME NEW symbol \in Symbol
  PROVE  LET op == LoadOpcode(symbol)
             operands == LoadOperands(symbol)
         IN /\ op \in {"OpGetGlobal", "OpGetLocal", "OpGetBuiltin", "OpGetFree", "OpCurrentClosure"}
            /\ op \in OpcodeNames /\ operands \in Seq(Nat) /\ Len(operands) = Len(OperandWidths(op))
            /\ TakenBy(op, operands) = 0 /\ LeftBy(op) = 1
<1>1. symbol.scope \in Scope /\ symbol.index \in Nat
  BY DEF Symbol
<1>2. CASE symbol.scope = "FUNCTION"
  <2>1. LoadOpcode(symbol) = "OpCurrentClosure" /\ LoadOperands(symbol) = << >>
    BY <1>2 DEF LoadOpcode, LoadOperands
  <2>2. OperandWidths("OpCurrentClosure") = << >> /\ TakenBy("OpCurrentClosure", << >>) = 0
        /\ LeftBy("OpCurrentClosure") = 1
    BY DEF OperandWidths, TakenBy, LeftBy
  <2>3. "OpCurrentClosure" \in OpcodeNames
    BY DEF OpcodeNames, Opcodes
  <2> QED BY <2>1, <2>2, <2>3
<1>3. CASE symbol.scope # "FUNCTION"
  <2>1. LoadOpcode(symbol) \in {"OpGetGlobal", "OpGetLocal", "OpGetBuiltin", "OpGetFree"}
        /\ LoadOperands(symbol) = << symbol.index >>
    BY <1>1, <1>3 DEF LoadOpcode, LoadOperands, Scope
  <2>2. \A op \in {"OpGetGlobal", "OpGetLocal", "OpGetBuiltin", "OpGetFree"} :
          Len(OperandWidths(op)) = 1 /\ TakenBy(op, << symbol.index >>) = 0 /\ LeftBy(op) = 1
    BY DEF OperandWidths, TakenBy, LeftBy
  <2>3. \A op \in {"OpGetGlobal", "OpGetLocal", "OpGetBuiltin", "OpGetFree"} : op \in OpcodeNames
    BY DEF OpcodeNames, Opcodes
  <2>4. << symbol.index >> \in Seq(Nat) /\ Len(<< symbol.index >>) = 1
    BY <1>1
  <2> QED BY <2>1, <2>2, <2>3, <2>4
<1> QED BY <1>2, <1>3

(* loadSymbol addresses what exists when the symbol can be addressed from  *)
(* the current table.                                                      *)
LEMMA LoadExists ==
  ASSUME NEW y, NEW n, n = Len(y.tables), n \in Nat, n > 0, NEW symbol \in Symbol,
         AddressableIn(y.tables, symbol),
         symbol.scope = "BUILTIN" => symbol.index < Len(BuiltinNames)
  PROVE  Exists(y, n, LoadOpcode(symbol), LoadOperands(symbol))
<1>1. symbol.scope \in Scope /\ symbol.index \in Nat
  BY DEF Symbol
<1>2. CASE symbol.scope = "FUNCTION"
  <2>1. LoadOpcode(symbol) = "OpCurrentClosure" /\ n > 1
    BY <1>2 DEF LoadOpcode, AddressableIn
  <2> QED BY <2>1 DEF Exists
<1>3. CASE symbol.scope # "FUNCTION"
  <2>1. LoadOperands(symbol)[1] = symbol.index
    BY <1>3 DEF LoadOperands
  <2>2. CASE symbol.scope = "LOCAL"
    <3>1. LoadOpcode(symbol) = "OpGetLocal" /\ n > 1 /\ symbol.index < y.tables[n].num
      BY <2>2 DEF LoadOpcode, AddressableIn, Current
    <3> QED BY <2>1, <3>1 DEF Exists
  <2>3. CASE symbol.scope = "GLOBAL"
    <3>1. LoadOpcode(symbol) = "OpGetGlobal" /\ symbol.index < y.tables[1].num
      BY <2>3 DEF LoadOpcode, AddressableIn
    <3> QED BY <2>1, <3>1 DEF Exists
  <2>4. CASE symbol.scope = "FREE"
    <3>1. LoadOpcode(symbol) = "OpGetFree" /\ symbol.index < Len(y.tables[n].free)
      BY <2>4 DEF LoadOpcode, AddressableIn, Current
    <3> QED BY <2>1, <3>1 DEF Exists
  <2>5. CASE symbol.scope = "BUILTIN"
    <3>1. LoadOpcode(symbol) = "OpGetBuiltin"
      BY <2>5 DEF LoadOpcode
    <3> QED BY <2>1, <2>5, <3>1 DEF Exists
  <2> QED BY <1>1, <1>3, <2>2, <2>3, <2>4, <2>5 DEF Scope
<1> QED BY <1>2, <1>3

(* A name that is resolved can be loaded.                                  *)
LEMMA ResolvedAdvances ==
  ASSUME NEW x, NEW lists, NEW ds, Good(x, lists, ds), NEW n, n = Len(lists),
         NEW name \in Names, Resolvable(x.tables, name),
         NEW y, y = [x EXCEPT !.tables = ResolvedTables(x.tables, name)],
         NEW symbol, symbol = ResolvedSymbol(x.tables, name)
  PROVE  /\ Advances(x, y, n, x.scopes[n])
         /\ symbol \in Symbol /\ Exists(y, n, LoadOpcode(symbol), LoadOperands(symbol))
<1> DEFINE ts == x.tables
           rs == ResolvedTables(ts, name)
<1>1. /\ n \in Nat /\ n >= 1 /\ Len(ts) = n /\ IsCompiler(x)
  BY TopFacts
<1>2. ChainOK(ts) /\ IsRecord(x) /\ ts[1].num <= GlobalsSize
  BY CompilerFields
<1>3. /\ ChainOK(rs) /\ Len(rs) = Len(ts) /\ rs[1] = ts[1]
      /\ \A k \in 1..Len(ts) : TableGrows(ts[k], rs[k])
  BY <1>2, ResolveGrows
<1>4. symbol \in Symbol /\ AddressableIn(rs, symbol)
  BY <1>2, ResolvedIsAddressable
<1>5. symbol.scope = "BUILTIN" => symbol.index < Len(BuiltinNames)
  <2> HAVE symbol.scope = "BUILTIN"
  <2> DEFINE h == Holder(ts, name)
  <2>1. h \in 1..Len(ts)
    BY <1>2, HolderIsInnermost DEF ChainOK
  <2>2. symbol = ts[h].store[name]
    BY DEF ResolvedSymbol, FreeSymbol
  <2>3. SlotExistsIn(ts, h, name)
    BY <1>2, <2>1 DEF ChainOK
  <2>4. h = 1
    BY <2>2, <2>3 DEF SlotExistsIn
  <2> QED BY <1>1, <2>2, <2>4 DEF IsCompiler
<1> HIDE DEF rs
<1>6. y.tables = rs
  BY <1>2, RecordFields DEF rs
<1>7. Advances(x, y, n, x.scopes[n])
  <2>1. /\ ChainOK(rs) /\ Len(rs) = Len(x.tables) /\ rs[1].num <= GlobalsSize
        /\ \A k \in 1..Len(x.tables) : TableGrows(x.tables[k], rs[k])
    BY <1>2, <1>3
  <2>2. \A a \in Names : rs[1].store[a].scope = "BUILTIN" => rs[1].store[a] = x.tables[1].store[a]
    BY <1>3
  <2>3. y = [x EXCEPT !.tables = rs]
    BY DEF rs
  <2> QED BY <2>1, <2>2, <2>3, TablesAdvance
<1>8. n = Len(y.tables) /\ n > 0
  BY <1>1, <1>3, <1>6
<1>9. Exists(y, n, LoadOpcode(symbol), LoadOperands(symbol))
  BY <1>1, <1>4, <1>5, <1>6, <1>8, LoadExists
<1> QED BY <1>4, <1>7, <1>9

(* What has grown twice has grown.                                         *)
LEMMA GrowsFurther ==
  ASSUME NEW t, NEW u, NEW v, TableGrows(t, u), TableGrows(u, v)
  PROVE  TableGrows(t, v)
BY DEF TableGrows

(* A name that is let can be set.                                          *)
LEMMA LetAdvances ==
  ASSUME NEW x, NEW lists, NEW ds, Good(x, lists, ds), NEW n, n = Len(lists),
         NEW name \in Names,
         NEW y, y = [x EXCEPT !.tables = LetTables(x.tables, name)], y.tables[1].num <= GlobalsSize,
         NEW op, op = LetOpcode(x.tables, name), NEW operands, operands = << LetSymbol(x.tables, name).index >>
  PROVE  /\ Advances(x, y, n, x.scopes[n])
         /\ op \in {"OpSetLocal", "OpSetGlobal"} /\ operands \in Seq(Nat) /\ Len(operands) = 1
         /\ Exists(y, n, op, operands)
<1> DEFINE ts  == x.tables
           rs  == ResolvedTables(ts, name)
           es  == LetTables(ts, name)
           sym == LetSymbol(ts, name)
<1>1. /\ n \in Nat /\ n >= 1 /\ Len(ts) = n
  BY TopFacts
<1>2. ChainOK(ts) /\ IsRecord(x) /\ ts[1].num <= GlobalsSize
  BY CompilerFields
<1>3. /\ ChainOK(rs) /\ Len(rs) = n /\ rs[1] = ts[1]
      /\ \A k \in 1..n : TableGrows(ts[k], rs[k])
  BY <1>1, <1>2, ResolveGrows
<1>4. /\ ChainOK(Define(rs, name)) /\ Len(Define(rs, name)) = n
      /\ \A k \in 1..n : TableGrows(rs[k], Define(rs, name)[k])
      /\ \A a \in Names : Define(rs, name)[1].store[a].scope = "BUILTIN" =>
                            Define(rs, name)[1].store[a] = rs[1].store[a]
  <2> HIDE DEF rs
  <2> QED BY <1>3, DefineGrows
<1>5. AddressableIn(Define(rs, name), DefineSymbol(rs, name)) /\ DefineSymbol(rs, name) \in Symbol
  <2> HIDE DEF rs
  <2> QED BY <1>3, DefinedIsAddressable, DefineKeepsChain
<1>6. /\ ChainOK(es) /\ Len(es) = n /\ \A k \in 1..n : TableGrows(ts[k], es[k])
      /\ \A a \in Names : es[1].store[a].scope = "BUILTIN" => es[1].store[a] = ts[1].store[a]
      /\ sym \in Symbol /\ AddressableIn(es, sym) /\ sym.scope \in {"GLOBAL", "LOCAL"}
  <2>1. CASE ResolvedSymbol(ts, name).scope = "LOCAL"
    <3>1. Resolvable(ts, name)
      BY <2>1 DEF ResolvedSymbol, Absent
    <3>2. es = rs /\ sym = ResolvedSymbol(ts, name)
      BY <2>1 DEF LetTables, LetSymbol
    <3>3. ResolvedSymbol(ts, name) \in Symbol /\ AddressableIn(rs, ResolvedSymbol(ts, name))
      BY <1>2, <3>1, ResolvedIsAddressable
    <3> HIDE DEF es, rs, sym
    <3> QED BY <1>3, <2>1, <3>2, <3>3
  <2>2. CASE ResolvedSymbol(ts, name).scope # "LOCAL"
    <3>1. es = Define(rs, name) /\ sym = DefineSymbol(rs, name)
      BY <2>2 DEF LetTables, LetSymbol
    <3>2. sym.scope \in {"GLOBAL", "LOCAL"}
      BY <3>1 DEF DefineSymbol
    <3> HIDE DEF es, rs, sym
    <3>3. ASSUME NEW k \in 1..n PROVE TableGrows(ts[k], es[k])
      <4>1. TableGrows(ts[k], rs[k]) /\ TableGrows(rs[k], es[k])
        BY <1>3, <1>4, <3>1
      <4> QED BY <4>1, GrowsFurther
    <3> QED BY <1>3, <1>4, <1>5, <3>1, <3>2, <3>3
  <2> QED BY <2>1, <2>2
<1> HIDE DEF es, rs, sym
<1>7. y.tables = es /\ y = [x EXCEPT !.tables = es]
  BY <1>2, RecordFields DEF es
<1>8. Advances(x, y, n, x.scopes[n])
  <2>1. /\ ChainOK(es) /\ Len(es) = Len(x.tables) /\ es[1].num <= GlobalsSize
        /\ \A k \in 1..Len(x.tables) : TableGrows(x.tables[k], es[k])
    BY <1>1, <1>6, <1>7
  <2>2. \A a \in Names : es[1].store[a].scope = "BUILTIN" => es[1].store[a] = x.tables[1].store[a]
    BY <1>6
  <2> QED BY <1>7, <2>1, <2>2, TablesAdvance
<1>9. operands = << sym.index >> /\ sym.index \in Nat
  BY <1>6 DEF sym, Symbol
<1>10. op = IF sym.scope = "LOCAL" THEN "OpSetLocal" ELSE "OpSetGlobal"
  BY DEF LetOpcode, sym
<1>11. Exists(y, n, op, operands)
  <2>1. CASE sym.scope = "LOCAL"
    <3>1. op = "OpSetLocal" /\ n > 1 /\ sym.index < y.tables[n].num
      BY <1>6, <1>7, <1>10, <2>1 DEF AddressableIn, Current
    <3> QED BY <1>9, <3>1 DEF Exists
  <2>2. CASE sym.scope # "LOCAL"
    <3>1. op = "OpSetGlobal" /\ sym.index < y.tables[1].num
      BY <1>6, <1>7, <1>10, <2>2 DEF AddressableIn
    <3> QED BY <1>9, <3>1 DEF Exists
  <2> QED BY <2>1, <2>2
<1> QED BY <1>8, <1>9, <1>10, <1>11

-----------------------------------------------------------------------------
(* The tasks that a case puts on the list.                                 *)

(* Tasks of which none patches a jump.                                     *)
LEMMA NoJumps ==
  ASSUME NEW list, \A i \in 1..Len(list) : ~ Jumps(list[i])
  PROVE  JumpsOf(list) = {}
BY DEF JumpsOf, Jumps

(* One task.                                                               *)
LEMMA OneTask ==
  ASSUME NEW x, NEW k, NEW ins, NEW d, NEW t, TaskOK(x, k, ins, d, t)
  PROVE  /\ IsSeq(<< t >>) /\ << t >> # << >> /\ Len(<< t >>) = 1 /\ << t >>[1] = t
         /\ TasksOK(x, k, ins, d, << t >>)
         /\ Jumps(t) => JumpsOf(<< t >>) = {t.jump}
         /\ ~ Jumps(t) => JumpsOf(<< t >>) = {}
<1> DEFINE list == << t >>
<1>1. list \in Seq({t}) /\ list # << >> /\ Len(list) = 1 /\ list[1] = t
  OBVIOUS
<1> HIDE DEF list
<1>2. IsSeq(list)
  BY <1>1 DEF IsSeq
<1>3. \A i \in 1..Len(list) : i = 1
  BY <1>1
<1>4. 1..(Len(list) - 1) = {}
  BY <1>1
<1>5. TasksOK(x, k, ins, d, list)
  BY <1>1, <1>3, <1>4 DEF TasksOK
<1>6. JumpsOf(list) = { list[i].jump : i \in { j \in {1} : list[j].do \in {"else", "end"} } }
  <2>1. 1..Len(list) = {1}
    BY <1>1
  <2> QED BY <2>1 DEF JumpsOf
<1>7. Jumps(t) => JumpsOf(list) = {t.jump}
  BY <1>1, <1>6 DEF Jumps
<1>8. ~ Jumps(t) => JumpsOf(list) = {}
  BY <1>1, <1>6 DEF Jumps
<1> QED BY <1>1, <1>2, <1>5, <1>7, <1>8 DEF list

(* Some tasks without jumps and others behind them.                        *)
Behind(x, k, ins, d, a, b, both) ==
  /\ IsSeq(both) /\ both # << >> /\ TasksOK(x, k, ins, d, both)
  /\ JumpsOf(both) = JumpsOf(b)
  /\ both[Len(both)] = b[Len(b)]
  /\ both[1] = IF a = << >> THEN b[1] ELSE a[1]

(* A list of tasks without jumps can be put in front of another that       *)
(* starts where it ends.                                                   *)
LEMMA TasksBehind ==
  ASSUME NEW x, NEW k, NEW ins, NEW d, NEW a, NEW b, IsSeq(a), IsSeq(b), b # << >>,
         TasksOK(x, k, ins, d, a), TasksOK(x, k, ins, d, b), JumpsOf(a) = {},
         a # << >> => Follows(a[Len(a)], b[1])
  PROVE  Behind(x, k, ins, d, a, b, a \o b)
<1> DEFINE both == a \o b
<1>1. TasksOK(x, k, ins, d, both)
  BY TasksJoin
<1>2. JumpsOf(both) = JumpsOf(b)
  <2>1. JumpsOf(a \o b) = JumpsOf(a) \cup JumpsOf(b)
    BY JumpsJoined
  <2> QED BY <2>1
<1>3. /\ IsSeq(both) /\ Len(a) \in Nat /\ Len(b) \in Nat /\ Len(both) = Len(a) + Len(b)
      /\ \A i \in 1..Len(a) : both[i] = a[i]
      /\ \A i \in 1..Len(b) : both[Len(a) + i] = b[i]
  BY Joined
<1>4. Len(b) # 0 /\ (a = << >> <=> Len(a) = 0) /\ (both = << >> <=> Len(both) = 0)
  BY <1>3, NoElements
<1>5. both[Len(both)] = b[Len(b)]
  <2>1. Len(b) \in 1..Len(b)
    BY <1>3, <1>4
  <2>2. both[Len(a) + Len(b)] = b[Len(b)]
    BY <1>3, <2>1
  <2> QED BY <1>3, <2>2
<1>6. both[1] = IF a = << >> THEN b[1] ELSE a[1]
  <2>1. CASE a = << >>
    <3>1. Len(a) + 1 = 1 /\ 1 \in 1..Len(b)
      BY <1>3, <1>4, <2>1
    <3>2. both[Len(a) + 1] = b[1]
      BY <1>3, <3>1
    <3> QED BY <2>1, <3>1, <3>2
  <2>2. CASE a # << >>
    <3>1. 1 \in 1..Len(a)
      BY <1>3, <1>4, <2>2
    <3> QED BY <1>3, <2>2, <3>1
  <2> QED BY <2>1, <2>2
<1>7. both # << >>
  BY <1>3, <1>4
<1> QED BY <1>1, <1>2, <1>3, <1>5, <1>6, <1>7 DEF Behind

(* Two tasks.                                                              *)
LEMMA TwoTasks ==
  ASSUME NEW x, NEW k, NEW ins, NEW d, NEW t, NEW u, TaskOK(x, k, ins, d, t), TaskOK(x, k, ins, d, u),
         Follows(t, u), ~ Jumps(t), NEW both, both = << t, u >>
  PROVE  /\ IsSeq(both) /\ both # << >> /\ TasksOK(x, k, ins, d, both)
         /\ JumpsOf(both) = JumpsOf(<< u >>)
         /\ both[1] = t /\ both[Len(both)] = u
<1> DEFINE a == << t >>
           b == << u >>
<1>1. both = a \o b
  <2> DEFINE S == {t, u}
  <2>1. b \in Seq(S) /\ Len(b) = 1 /\ b[1] = u /\ t \in S
    OBVIOUS
  <2>2. both \in Seq(S) /\ Len(both) = 2 /\ both[1] = t /\ both[2] = u
    OBVIOUS
  <2> HIDE DEF S, b
  <2>3. a \o b \in Seq(S) /\ Len(a \o b) = 1 + Len(b) /\ (a \o b)[1] = t
        /\ \A i \in 1..Len(b) : (a \o b)[i + 1] = b[i]
    BY SMTT(30), <2>1, OneBefore
  <2>4. (a \o b)[1 + 1] = b[1]
    BY <2>1, <2>3
  <2> DEFINE c2 == a \o b
  <2>5. c2 \in Seq(S) /\ Len(c2) = 2 /\ c2[1] = t /\ c2[2] = u
    BY <2>1, <2>3, <2>4
  <2> HIDE DEF c2
  <2>6. \A i \in 1..Len(both) : both[i] = c2[i]
    BY <2>2, <2>5
  <2>7. both = c2
    BY <2>2, <2>5, <2>6, SeqEqual
  <2> QED BY <2>7 DEF c2
<1>2. IsSeq(a) /\ a # << >> /\ Len(a) = 1 /\ a[1] = t /\ TasksOK(x, k, ins, d, a) /\ JumpsOf(a) = {}
  BY OneTask
<1>3. IsSeq(b) /\ b # << >> /\ Len(b) = 1 /\ b[1] = u /\ TasksOK(x, k, ins, d, b)
  BY OneTask
<1>4. JumpsOf(b) = JumpsOf(<< u >>)
  OBVIOUS
<1> HIDE DEF a, b
<1>5. Follows(a[Len(a)], b[1])
  BY <1>2, <1>3
<1>6. /\ IsSeq(both) /\ both # << >> /\ TasksOK(x, k, ins, d, both)
      /\ JumpsOf(both) = JumpsOf(b) /\ both[Len(both)] = b[Len(b)]
      /\ both[1] = IF a = << >> THEN b[1] ELSE a[1]
  <2>1. Behind(x, k, ins, d, a, b, a \o b)
    BY <1>2, <1>3, <1>5, TasksBehind
  <2>2. Behind(x, k, ins, d, a, b, both)
    BY <1>1, <2>1
  <2> QED BY <2>2 DEF Behind
<1> QED BY <1>2, <1>3, <1>4, <1>6

(* The statements of a block.                                              *)
AreStatements(x, k, ins, d, list, at) ==
  /\ IsSeq(list) /\ TasksOK(x, k, ins, d, list) /\ JumpsOf(list) = {}
  /\ list # << >> => /\ list[1].at = at /\ list[1].do = "statement"
                     /\ list[Len(list)].to = at /\ list[Len(list)].do = "statement"

(* The tasks of a block are in order, and come back to where they start.   *)
LEMMA StatementTasks ==
  ASSUME NEW ss \in Seq(Statements), NEW at \in Nat, NEW x, NEW k, NEW ins, NEW d
  PROVE  AreStatements(x, k, ins, d, DoStatements(ss, at), at)
<1> DEFINE m == Len(ss)
           list == DoStatements(ss, at)
<1>1. m \in Nat
  OBVIOUS
<1>2. list = [i \in 1..m |-> DoStatement(ss[i], at)]
  BY DEF DoStatements
<1>3. ASSUME NEW i \in 1..m
      PROVE  /\ list[i].do = "statement" /\ list[i].node \in Statements
             /\ list[i].at = at /\ list[i].to = at
  <2>1. ss[i] \in Statements
    BY ElementOfSeq
  <2>2. list[i] = DoStatement(ss[i], at)
    BY <1>2
  <2> QED BY <2>1, <2>2 DEF DoStatement
<1> HIDE DEF m
<1>4. IsSeq(list) /\ Len(list) = m
  <2> DEFINE S == { DoStatement(ss[i], at) : i \in 1..m }
  <2>1. \A i \in 1..m : DoStatement(ss[i], at) \in S
    OBVIOUS
  <2> HIDE DEF S
  <2>2. list \in [1..m -> S]
    BY <1>2, <2>1
  <2>3. list \in Seq(S) /\ Len(list) = m
    BY <1>1, <2>2
  <2> QED BY <2>3 DEF IsSeq
<1>5. \A i \in 1..Len(list) : ~ Jumps(list[i]) /\ TaskOK(x, k, ins, d, list[i])
  BY <1>3, <1>4 DEF Jumps, TaskOK
<1>6. \A i \in 1..(Len(list) - 1) : Follows(list[i], list[i + 1])
  <2> SUFFICES ASSUME NEW i \in 1..(Len(list) - 1) PROVE Follows(list[i], list[i + 1])
    OBVIOUS
  <2>1. i \in 1..m /\ i + 1 \in 1..m
    BY <1>1, <1>4
  <2>2. list[i].do = "statement" /\ list[i].to = at /\ list[i + 1].do = "statement" /\ list[i + 1].at = at
    BY <1>3, <2>1
  <2> QED BY <2>2 DEF Follows, TakesValue
<1>7. JumpsOf(list) = {}
  BY <1>5, NoJumps
<1>8. TasksOK(x, k, ins, d, list)
  BY <1>5, <1>6 DEF TasksOK, Jumps
<1>9. list # << >> => 1 \in 1..m /\ m \in 1..m
  BY <1>1, <1>4, NoElements
<1> HIDE DEF list
<1> QED BY <1>3, <1>4, <1>7, <1>8, <1>9 DEF AreStatements, list

(* The operands of an instruction.                                         *)
AreOperands(x, k, ins, d, list, at, m) ==
  /\ IsSeq(list) /\ TasksOK(x, k, ins, d, list) /\ JumpsOf(list) = {}
  /\ Len(list) = m /\ m \in Nat
  /\ list # << >> => /\ list[1].at = at /\ list[1].do = "expression"
                     /\ list[Len(list)].to = at + m /\ list[Len(list)].do = "expression"

(* The tasks of operands are in order, and each leaves one value more.     *)
LEMMA ExpressionTasks ==
  ASSUME NEW es \in Seq(Expressions), NEW at \in Nat, NEW x, NEW k, NEW ins, NEW d
  PROVE  AreOperands(x, k, ins, d, DoExpressions(es, at), at, Len(es))
<1> DEFINE m == Len(es)
           list == DoExpressions(es, at)
<1>1. m \in Nat
  OBVIOUS
<1>2. list = [i \in 1..m |-> DoExpression(es[i], at + i - 1)]
  BY DEF DoExpressions
<1>3. ASSUME NEW i \in 1..m
      PROVE  /\ list[i].do = "expression" /\ list[i].node \in Expressions
             /\ list[i].at = at + i - 1 /\ list[i].to = at + i
             /\ list[i].at \in Nat /\ list[i].to = list[i].at + 1
  <2>1. es[i] \in Expressions
    BY ElementOfSeq
  <2>2. list[i] = DoExpression(es[i], at + i - 1)
    BY <1>2
  <2>3. /\ list[i].do = "expression" /\ list[i].node = es[i]
        /\ list[i].at = at + i - 1 /\ list[i].to = (at + i - 1) + 1
    BY <2>2 DEF DoExpression
  <2> QED BY <1>1, <2>1, <2>3
<1> HIDE DEF m
<1>4. IsSeq(list) /\ Len(list) = m
  <2> DEFINE S == { DoExpression(es[i], at + i - 1) : i \in 1..m }
  <2>1. \A i \in 1..m : DoExpression(es[i], at + i - 1) \in S
    OBVIOUS
  <2> HIDE DEF S
  <2>2. list \in [1..m -> S]
    BY <1>2, <2>1
  <2>3. list \in Seq(S) /\ Len(list) = m
    BY <1>1, <2>2
  <2> QED BY <2>3 DEF IsSeq
<1>5. \A i \in 1..Len(list) : ~ Jumps(list[i]) /\ TaskOK(x, k, ins, d, list[i])
  <2> SUFFICES ASSUME NEW i \in 1..Len(list) PROVE ~ Jumps(list[i]) /\ TaskOK(x, k, ins, d, list[i])
    OBVIOUS
  <2>1. /\ list[i].do = "expression" /\ list[i].node \in Expressions
        /\ list[i].at \in Nat /\ list[i].to = list[i].at + 1
    BY <1>3, <1>4
  <2>2. list[i].to \in Nat
    BY <2>1
  <2> QED BY <2>1, <2>2 DEF Jumps, TaskOK
<1>6. \A i \in 1..(Len(list) - 1) : Follows(list[i], list[i + 1])
  <2> SUFFICES ASSUME NEW i \in 1..(Len(list) - 1) PROVE Follows(list[i], list[i + 1])
    OBVIOUS
  <2>1. i \in 1..m /\ i + 1 \in 1..m
    BY <1>1, <1>4
  <2>2. list[i].do = "expression" /\ list[i].to = at + i /\ list[i + 1].do = "expression"
        /\ list[i + 1].at = at + (i + 1) - 1
    BY <1>3, <2>1
  <2>3. list[i + 1].at = list[i].to
    BY <2>1, <2>2
  <2> QED BY <2>2, <2>3 DEF Follows, TakesValue
<1>7. JumpsOf(list) = {}
  BY <1>5, NoJumps
<1>8. TasksOK(x, k, ins, d, list)
  BY <1>5, <1>6 DEF TasksOK, Jumps
<1>9. list # << >> => 1 \in 1..m /\ m \in 1..m
  BY <1>1, <1>4, NoElements
<1>10. list # << >> => list[1].at = at
  <2>1. list # << >> => list[1].at = at + 1 - 1
    BY <1>3, <1>9
  <2> QED BY <2>1
<1> HIDE DEF list
<1> QED BY <1>1, <1>3, <1>4, <1>7, <1>8, <1>9, <1>10 DEF m, AreOperands, list

(* The symbols that a function captures.                                   *)
AreLoads(x, k, ins, d, list, at, m) ==
  /\ IsSeq(list) /\ TasksOK(x, k, ins, d, list) /\ JumpsOf(list) = {}
  /\ Len(list) = m /\ m \in Nat
  /\ list # << >> => /\ list[1].at = at /\ list[1].do = "emit" /\ ~ TakesValue(list[1])
                     /\ list[Len(list)].to = at + m /\ list[Len(list)].do = "emit"

(* The tasks that load symbols are in order, and each leaves one value     *)
(* more.                                                                   *)
LEMMA LoadTasks ==
  ASSUME NEW symbols \in Seq(Symbol), NEW at \in Nat, NEW x, NEW k, NEW ins, NEW d,
         \A i \in 1..Len(symbols) : Exists(x, k, LoadOpcode(symbols[i]), LoadOperands(symbols[i]))
  PROVE  AreLoads(x, k, ins, d, DoLoads(symbols, at), at, Len(symbols))
<1> DEFINE m == Len(symbols)
           list == DoLoads(symbols, at)
           Task0(i) == DoEmit(LoadOpcode(symbols[i]), LoadOperands(symbols[i]), at + i - 1, at + i)
<1>1. m \in Nat
  OBVIOUS
<1>2. list = [i \in 1..m |-> Task0(i)]
  BY DEF DoLoads
<1>3. ASSUME NEW i \in 1..m
      PROVE  /\ list[i].do = "emit" /\ list[i].at = at + i - 1 /\ list[i].to = at + i
             /\ ~ TakesValue(list[i]) /\ TaskOK(x, k, ins, d, list[i])
  <2>1. symbols[i] \in Symbol
    BY ElementOfSeq
  <2> DEFINE op == LoadOpcode(symbols[i])
             operands == LoadOperands(symbols[i])
  <2>2. list[i] = DoEmit(op, operands, at + i - 1, at + i)
    BY <1>2
  <2>3. /\ op \in {"OpGetGlobal", "OpGetLocal", "OpGetBuiltin", "OpGetFree", "OpCurrentClosure"}
        /\ op \in OpcodeNames /\ operands \in Seq(Nat) /\ Len(operands) = Len(OperandWidths(op))
        /\ TakenBy(op, operands) = 0 /\ LeftBy(op) = 1
    BY <2>1, LoadLaws
  <2>4. Exists(x, k, op, operands)
    OBVIOUS
  <2> HIDE DEF op, operands
  <2>5. /\ list[i].do = "emit" /\ list[i].op = op /\ list[i].operands = operands
        /\ list[i].at = at + i - 1 /\ list[i].to = at + i
    BY <2>2 DEF DoEmit
  <2>6. list[i].at \in Nat /\ list[i].to \in Nat
    BY <1>1, <2>5
  <2>7. /\ list[i].to = list[i].at - TakenBy(op, operands) + LeftBy(op)
        /\ TakenBy(op, operands) <= list[i].at
    BY <1>1, <2>3, <2>5, <2>6
  <2>8. op \notin {"OpJump", "OpJumpNotTruthy", "OpReturnValue", "OpPop"}
    BY <2>3
  <2>9. EmitOK(x, k, list[i])
    BY <2>3, <2>4, <2>5, <2>7, <2>8 DEF EmitOK
  <2>10. ~ TakesValue(list[i])
    BY <2>5, <2>8 DEF TakesValue
  <2>11. TaskOK(x, k, ins, d, list[i])
    BY <2>5, <2>6, <2>9 DEF TaskOK
  <2> QED BY <2>5, <2>10, <2>11
<1> HIDE DEF m
<1>4. IsSeq(list) /\ Len(list) = m
  <2> DEFINE S == { Task0(i) : i \in 1..m }
  <2> HIDE DEF Task0
  <2>1. \A i \in 1..m : Task0(i) \in S
    OBVIOUS
  <2> HIDE DEF S
  <2>2. list \in [1..m -> S]
    BY <1>2, <2>1
  <2>3. list \in Seq(S) /\ Len(list) = m
    BY <1>1, <2>2
  <2> QED BY <2>3 DEF IsSeq
<1> HIDE DEF Task0
<1>5. \A i \in 1..Len(list) : ~ Jumps(list[i]) /\ TaskOK(x, k, ins, d, list[i])
  BY <1>3, <1>4 DEF Jumps
<1>6. \A i \in 1..(Len(list) - 1) : Follows(list[i], list[i + 1])
  <2> SUFFICES ASSUME NEW i \in 1..(Len(list) - 1) PROVE Follows(list[i], list[i + 1])
    OBVIOUS
  <2>1. i \in 1..m /\ i + 1 \in 1..m
    BY <1>1, <1>4
  <2>2. list[i].do = "emit" /\ list[i].to = at + i /\ list[i + 1].do = "emit" /\ ~ TakesValue(list[i + 1])
        /\ list[i + 1].at = at + (i + 1) - 1
    BY <1>3, <2>1
  <2>3. list[i + 1].at = list[i].to
    BY <2>1, <2>2
  <2> QED BY <2>2, <2>3 DEF Follows
<1>7. JumpsOf(list) = {}
  BY <1>5, NoJumps
<1>8. TasksOK(x, k, ins, d, list)
  BY <1>5, <1>6 DEF TasksOK, Jumps
<1>9. list # << >> => 1 \in 1..m /\ m \in 1..m
  BY <1>1, <1>4, NoElements
<1>10. list # << >> => list[1].at = at
  <2>1. list # << >> => list[1].at = at + 1 - 1
    BY <1>3, <1>9
  <2> QED BY <2>1
<1> HIDE DEF list
<1> QED BY <1>1, <1>3, <1>4, <1>7, <1>8, <1>9, <1>10 DEF m, AreLoads, list

-----------------------------------------------------------------------------
(* The cases of Compile, one lemma each: what is true of the code so far   *)
(* stays true.                                                             *)

(* A case that only calls Compile.                                         *)
LEMMA CallsSplit ==
  ASSUME NEW x, NEW lists, NEW ds, Good(x, lists, ds), NEW n, n = Len(lists),
         NEW list, list = lists[n], list # << >>, list[1].do # "finish", ~ Jumps(list[1]),
         NEW y, Advances(x, y, n, x.scopes[n]),
         NEW tasks, IsSeq(tasks), tasks # << >>, JumpsOf(tasks) = {},
         TasksOK(y, n, x.scopes[n].ins, ds[n], tasks),
         tasks[1].at = list[1].at, tasks[Len(tasks)].to = list[1].to,
         EndsStatement(tasks[Len(tasks)]) <=> EndsStatement(list[1]),
         tasks[Len(tasks)].do # "finish", tasks[1].do \notin {"keep", "finish"}, ~ TakesValue(tasks[1])
  PROVE  Good(y, Replaced(lists, tasks), ds)
<1> DEFINE s == x.scopes[n]
           d == ds[n]
           P == JumpsOf(Tail(list))
<1>1. n \in Nat /\ n >= 1 /\ Len(ds) = n /\ CodeOK(s.ins, d, JumpsOf(list)) /\ LastOK(s, d, list)
      /\ list[1].at = d[Len(s.ins)] /\ JumpsOf(list) = P
  BY HeadFacts
<1>2. CodeOK(s.ins, d, JumpsOf(tasks) \cup P)
  <2>1. JumpsOf(tasks) \cup P = JumpsOf(list)
    BY <1>1
  <2> QED BY <1>1, <2>1
<1> HIDE DEF s, d, P
<1>3. Grows(x, y, n)
  <2>1. n \in 1..n
    BY <1>1
  <2> QED BY <2>1 DEF Advances
<1>4. \A p \in Starts(s.ins, d) : Exists(y, n, OpAt(s.ins, p), ArgsAt(s.ins, p))
  <2> SUFFICES ASSUME NEW p \in Starts(s.ins, d) PROVE Exists(y, n, OpAt(s.ins, p), ArgsAt(s.ins, p))
    OBVIOUS
  <2>1. WholeInstruction(s.ins, p)
    BY <1>1, StartFacts
  <2>2. SameAt(s.ins, s.ins, p)
    BY <2>1 DEF SameAt
  <2>3. p \in Starts(x.scopes[n].ins, ds[n]) /\ SameAt(x.scopes[n].ins, s.ins, p)
    BY <2>2 DEF s, d
  <2> QED BY <1>3, <2>3, StartsExist
<1>5. \A j \in P : JumpKept(s.ins, d, s.ins, d, j)
  <2>1. P \subseteq Starts(s.ins, d)
    BY <1>1, CodeFacts
  <2> QED BY <2>1 DEF JumpKept
<1>6. ds = Put(ds, Len(lists), d)
  <2>1. IsSeq(ds) /\ n \in 1..Len(ds)
    BY <1>1 DEF Good
  <2> QED BY <2>1, SameElements DEF d
<1>7. s.last.op = "OpPop" => s.previous.op # "OpPop" /\ ~ TakesValue(tasks[1])
  BY <1>1 DEF LastOK
<1>8. tasks[1].at = d[Len(s.ins)] /\ JumpsOf(tasks) \cap P = {}
  BY <1>1
<1>9. /\ CodeOK(s.ins, d, JumpsOf(tasks) \cup JumpsOf(Tail(list)))
      /\ \A j \in JumpsOf(Tail(list)) : JumpKept(x.scopes[n].ins, ds[n], s.ins, d, j)
      /\ JumpsOf(tasks) \cap JumpsOf(Tail(list)) = {}
      /\ Advances(x, y, Len(lists), s) /\ TasksOK(y, n, s.ins, d, tasks)
  BY <1>2, <1>5, <1>8 DEF P, s, d
<1> QED BY <1>4, <1>6, <1>7, <1>8, <1>9, HeadSplit

(* The task that is to be done.                                            *)
LEMMA FirstTask ==
  ASSUME Good(c, todo, depth), Tasks # << >>
  PROVE  /\ Len(todo) \in Nat /\ Len(todo) >= 1 /\ Tasks = todo[Len(todo)] /\ Task = Tasks[1]
         /\ TaskOK(c, Len(todo), c.scopes[Len(todo)].ins, depth[Len(todo)], Task)
         /\ Task.at \in Nat /\ Task.to \in Nat
<1> DEFINE n == Len(todo)
           list == todo[n]
<1>1. list = Tasks /\ list # << >>
  BY DEF Tasks
<1>2. n \in Nat /\ n >= 1 /\ IsSeq(list) /\ TaskOK(c, n, c.scopes[n].ins, depth[n], list[1])
  BY <1>1, HeadFacts
<1>3. Task = list[1]
  <2>1. Head(list) = list[1]
    BY <1>1, <1>2, Rest
  <2> QED BY <1>1, <2>1 DEF Task
<1>4. list[1].at \in Nat /\ list[1].to \in Nat
  BY <1>2 DEF TaskOK
<1> QED BY <1>1, <1>2, <1>3, <1>4

(* A node that is met is one of the tree.                                  *)
LEMMA MetNode ==
  ASSUME Good(c, todo, depth), NEW place, NEW kinds, Meets(place, kinds)
  PROVE  /\ Tasks # << >> /\ Task.do = place /\ Node.node \in kinds
         /\ place = "statement" => /\ Node \in Statements /\ StatementOK(Node) /\ Task.to = Task.at
         /\ place = "expression" => /\ Node \in Expressions /\ ExpressionOK(Node) /\ Task.to = Task.at + 1
<1>1. Tasks # << >> /\ Task.do = place /\ Node.node \in kinds
  BY DEF Meets
<1>2. TaskOK(c, Len(todo), c.scopes[Len(todo)].ins, depth[Len(todo)], Task)
  BY <1>1, FirstTask
<1>3. place = "statement" => Node \in Statements /\ Task.to = Task.at
  BY <1>1, <1>2 DEF TaskOK, Node
<1>4. place = "expression" => Node \in Expressions /\ Task.to = Task.at + 1
  BY <1>1, <1>2 DEF TaskOK, Node
<1> QED BY <1>1, <1>3, <1>4, TreesAssumption

(* A task of the current scope that can be done and patches nothing.       *)
Ready(x, k, ins, d, t) == TaskOK(x, k, ins, d, t) /\ ~ Jumps(t)

(* One that emits.                                                         *)
LEMMA EmitIsReady ==
  ASSUME NEW x, NEW k, NEW ins, NEW d, NEW op \in OpcodeNames \ {"OpJump", "OpJumpNotTruthy"},
         NEW operands \in Seq(Nat), Len(operands) = Len(OperandWidths(op)), Exists(x, k, op, operands),
         NEW at \in Nat, NEW to \in Nat, TakenBy(op, operands) <= at,
         to = at - TakenBy(op, operands) + (IF op = "OpReturnValue" THEN 0 ELSE LeftBy(op))
  PROVE  Ready(x, k, ins, d, DoEmit(op, operands, at, to))
<1> DEFINE t == DoEmit(op, operands, at, to)
<1>1. t.do = "emit" /\ t.op = op /\ t.operands = operands /\ t.at = at /\ t.to = to
  BY DEF DoEmit
<1> HIDE DEF t
<1>2. EmitOK(x, k, t)
  BY <1>1 DEF EmitOK
<1> QED BY <1>1, <1>2 DEF TaskOK, Jumps, Ready, t

(* One for an expression.                                                  *)
LEMMA ExpressionIsReady ==
  ASSUME NEW x, NEW k, NEW ins, NEW d, NEW e \in Expressions, NEW at \in Nat
  PROVE  Ready(x, k, ins, d, DoExpression(e, at))
<1> DEFINE t == DoExpression(e, at)
<1>1. t.do = "expression" /\ t.node = e /\ t.at = at /\ t.to = at + 1
  BY DEF DoExpression
<1> HIDE DEF t
<1> QED BY <1>1 DEF TaskOK, Jumps, Ready, t

(* What takes no operands addresses nothing.                               *)
LEMMA PlainOpcodes ==
  ASSUME NEW x, NEW k, NEW op \in {"OpPop", "OpReturnValue", "OpNull", "OpTrue", "OpFalse", "OpBang",
                                   "OpMinus", "OpAdd", "OpSub", "OpMul", "OpDiv", "OpEqual",
                                   "OpNotEqual", "OpGreaterThan", "OpIndex"}
  PROVE  /\ op \in OpcodeNames \ {"OpJump", "OpJumpNotTruthy"}
         /\ << >> \in Seq(Nat) /\ Len(<< >>) = Len(OperandWidths(op)) /\ Fit(op, << >>)
         /\ Exists(x, k, op, << >>)
<1>1. op \in OpcodeNames \ {"OpJump", "OpJumpNotTruthy"}
  BY DEF OpcodeNames, Opcodes
<1>2. OperandWidths(op) = << >>
  BY DEF OperandWidths
<1>3. Fit(op, << >>)
  BY DEF Fit
<1>4. Exists(x, k, op, << >>)
  BY DEF Exists
<1> QED BY <1>1, <1>2, <1>3, <1>4

(* The opcodes that end a statement.                                       *)
LEMMA EffectOpcodes ==
  ASSUME NEW op \in {"OpPop", "OpReturnValue", "OpSetLocal", "OpSetGlobal"}
  PROVE  op \in OpcodeNames \ {"OpJump", "OpJumpNotTruthy"}
BY DEF OpcodeNames, Opcodes

(* A statement computes a value, and an instruction takes it.              *)
LEMMA ValueThenEmit ==
  ASSUME NEW x, NEW lists, NEW ds, Good(x, lists, ds), NEW n, n = Len(lists),
         NEW list, list = lists[n], list # << >>, list[1].do = "statement", list[1].to = list[1].at,
         NEW at \in Nat, at = list[1].at,
         NEW y, Advances(x, y, n, x.scopes[n]),
         NEW e \in Expressions, NEW op \in {"OpPop", "OpReturnValue", "OpSetLocal", "OpSetGlobal"},
         NEW operands \in Seq(Nat), Len(operands) = Len(OperandWidths(op)), Exists(y, n, op, operands)
  PROVE  Good(y, Replaced(lists, << DoExpression(e, at), DoEmit(op, operands, at + 1, at) >>), ds)
<1> DEFINE t == DoExpression(e, at)
           u == DoEmit(op, operands, at + 1, at)
           tasks == << t, u >>
           ins == x.scopes[n].ins
           d == ds[n]
<1>1. Ready(y, n, ins, d, t)
  BY ExpressionIsReady
<1>2. Ready(y, n, ins, d, u)
  <2>1. op \in OpcodeNames \ {"OpJump", "OpJumpNotTruthy"}
    BY EffectOpcodes
  <2>2. TakenBy(op, operands) = 1 /\ (op # "OpReturnValue" => LeftBy(op) = 0)
    BY DEF TakenBy, LeftBy
  <2>3. at + 1 \in Nat /\ TakenBy(op, operands) <= at + 1
        /\ at = (at + 1) - TakenBy(op, operands) + (IF op = "OpReturnValue" THEN 0 ELSE LeftBy(op))
    BY <2>2
  <2> QED BY <2>1, <2>3, EmitIsReady
<1>3. /\ t.do = "expression" /\ t.at = at /\ t.to = at + 1
      /\ u.do = "emit" /\ u.op = op /\ u.at = at + 1 /\ u.to = at
  BY DEF DoExpression, DoEmit
<1>4. Follows(t, u) /\ EndsStatement(u) /\ ~ TakesValue(t)
  BY <1>3 DEF Follows, EndsStatement, TakesValue
<1> HIDE DEF t, u
<1>5. JumpsOf(<< u >>) = {}
  BY <1>2, OneTask DEF Ready
<1>6. /\ IsSeq(tasks) /\ tasks # << >> /\ TasksOK(y, n, ins, d, tasks) /\ JumpsOf(tasks) = {}
      /\ tasks[1] = t /\ tasks[Len(tasks)] = u
  BY <1>1, <1>2, <1>4, <1>5, TwoTasks DEF Ready
<1>7. EndsStatement(list[1]) /\ ~ Jumps(list[1])
  BY DEF EndsStatement, Jumps
<1> HIDE DEF tasks
<1>8. Good(y, Replaced(lists, tasks), ds)
  BY <1>3, <1>4, <1>6, <1>7, CallsSplit
<1> QED BY <1>8 DEF tasks, t, u

(* compiler.go:78-83: the value of an expression statement is popped.      *)
LEMMA ExpressionStatementStep ==
  ASSUME Good(c, todo, depth), OnExpressionStatement
  PROVE  Good(c', todo', depth')
<1>1. Meets("statement", {"ExpressionStatement"})
  BY DEF OnExpressionStatement
<1>2. /\ Tasks # << >> /\ Task.do = "statement" /\ Node.node = "ExpressionStatement"
      /\ StatementOK(Node) /\ Task.to = Task.at
  BY <1>1, MetNode
<1>3. Tasks = todo[Len(todo)] /\ Task = Tasks[1] /\ Task.at \in Nat
  BY <1>2, FirstTask
<1>4. Node.expression \in Expressions
  BY <1>2 DEF StatementOK
<1>5. Advances(c, c, Len(todo), c.scopes[Len(todo)])
  BY NoAdvance
<1>6. << >> \in Seq(Nat) /\ Len(<< >>) = Len(OperandWidths("OpPop")) /\ Exists(c, Len(todo), "OpPop", << >>)
  BY PlainOpcodes
<1>7. Good(c, Replaced(todo, << DoExpression(Node.expression, Task.at),
                                DoEmit("OpPop", << >>, Task.at + 1, Task.at) >>), depth)
  BY ZenonT(30), <1>2, <1>3, <1>4, <1>5, <1>6, ValueThenEmit
<1> QED BY <1>7 DEF OnExpressionStatement, Calls

(* compiler.go:102-108: the value of a return statement is returned.       *)
LEMMA ReturnStatementStep ==
  ASSUME Good(c, todo, depth), OnReturnStatement
  PROVE  Good(c', todo', depth')
<1>1. Meets("statement", {"ReturnStatement"})
  BY DEF OnReturnStatement
<1>2. /\ Tasks # << >> /\ Task.do = "statement" /\ Node.node = "ReturnStatement"
      /\ StatementOK(Node) /\ Task.to = Task.at
  BY <1>1, MetNode
<1>3. Tasks = todo[Len(todo)] /\ Task = Tasks[1] /\ Task.at \in Nat
  BY <1>2, FirstTask
<1>4. Node.value \in Expressions
  BY <1>2 DEF StatementOK
<1>5. Advances(c, c, Len(todo), c.scopes[Len(todo)])
  BY NoAdvance
<1>6. << >> \in Seq(Nat) /\ Len(<< >>) = Len(OperandWidths("OpReturnValue"))
      /\ Exists(c, Len(todo), "OpReturnValue", << >>)
  BY PlainOpcodes
<1>7. Good(c, Replaced(todo, << DoExpression(Node.value, Task.at),
                                DoEmit("OpReturnValue", << >>, Task.at + 1, Task.at) >>), depth)
  BY ZenonT(30), <1>2, <1>3, <1>4, <1>5, <1>6, ValueThenEmit
<1> QED BY <1>7 DEF OnReturnStatement, Calls

(* compiler.go:85-100: the value of a let statement is set, in a slot that *)
(* the machine has.                                                        *)
LEMMA LetStatementStep ==
  ASSUME Good(c, todo, depth), OnLetStatement, doubts' = {}
  PROVE  Good(c', todo', depth')
<1> DEFINE op == LetOpcode(c.tables, Node.name)
           operands == << LetSymbol(c.tables, Node.name).index >>
           n == Len(todo)
<1>1. Meets("statement", {"LetStatement"})
  BY DEF OnLetStatement
<1>2. /\ Tasks # << >> /\ Task.do = "statement" /\ Node.node = "LetStatement"
      /\ StatementOK(Node) /\ Task.to = Task.at
  BY <1>1, MetNode
<1>3. Tasks = todo[n] /\ Task = Tasks[1] /\ Task.at \in Nat
  BY <1>2, FirstTask
<1>4. Node.value \in Expressions /\ Node.name \in Names
  BY <1>2 DEF StatementOK
<1>5. c' = [c EXCEPT !.tables = LetTables(c.tables, Node.name)]
  BY DEF OnLetStatement
<1>6. c'.tables[1].num <= GlobalsSize
  <2>1. Overfull(c'.tables) = {}
    BY DEF OnLetStatement
  <2>2. c'.tables[1].num \in Nat
    <3>1. ChainOK(c.tables) /\ IsRecord(c)
      BY CompilerFields
    <3>2. ChainOK(LetTables(c.tables, Node.name))
      <4>1. ChainOK(ResolvedTables(c.tables, Node.name))
        BY <1>4, <3>1, ResolveGrows
      <4>2. ChainOK(Define(ResolvedTables(c.tables, Node.name), Node.name))
        BY <1>4, <4>1, DefineGrows
      <4> QED BY <4>1, <4>2 DEF LetTables
    <3>3. c'.tables = LetTables(c.tables, Node.name)
      BY <1>5, <3>1, RecordFields
    <3>4. Chain(LetTables(c.tables, Node.name))
      BY <3>2 DEF ChainOK
    <3>5. 1 \in 1..Len(LetTables(c.tables, Node.name))
      BY <3>4 DEF Chain
    <3>6. LetTables(c.tables, Node.name)[1].num \in Nat
      BY <3>4, <3>5, TableFields
    <3> QED BY <3>3, <3>6
  <2>3. ~ (c'.tables[1].num > GlobalsSize)
    BY <2>1 DEF Overfull
  <2> QED BY <2>2, <2>3, SizesAssumption
<1>7. /\ Advances(c, c', n, c.scopes[n])
      /\ op \in {"OpSetLocal", "OpSetGlobal"} /\ operands \in Seq(Nat) /\ Len(operands) = 1
      /\ Exists(c', n, op, operands)
  BY <1>4, <1>5, <1>6, LetAdvances
<1>8. Len(operands) = Len(OperandWidths(op)) /\ op \in {"OpPop", "OpReturnValue", "OpSetLocal", "OpSetGlobal"}
  <2> HIDE DEF op, operands
  <2> QED BY <1>7 DEF OperandWidths
<1>9. todo' = Replaced(todo, << DoExpression(Node.value, Task.at),
                                DoEmit(op, operands, Task.at + 1, Task.at) >>)
      /\ depth' = depth
  BY DEF OnLetStatement
<1> HIDE DEF op, operands, n
<1>10. Good(c', Replaced(todo, << DoExpression(Node.value, Task.at),
                                  DoEmit(op, operands, Task.at + 1, Task.at) >>), depth)
  <2>1. /\ Advances(c, c', Len(todo), c.scopes[Len(todo)]) /\ operands \in Seq(Nat)
        /\ Exists(c', Len(todo), op, operands)
    BY <1>7 DEF n
  <2>2. /\ Tasks = todo[Len(todo)] /\ Tasks # << >> /\ Tasks[1].do = "statement" /\ Tasks[1].to = Tasks[1].at
        /\ Task.at = Tasks[1].at /\ Task.at \in Nat
    BY <1>2, <1>3 DEF n
  <2>3. Node.value \in Expressions
    BY <1>4
  <2> QED BY <1>8, <2>1, <2>2, <2>3, ValueThenEmit
<1> QED BY <1>9, <1>10

(* The instructions of operations.                                         *)
OperationOpcodes ==
  {"OpBang", "OpMinus", "OpAdd", "OpSub", "OpMul", "OpDiv", "OpGreaterThan", "OpEqual", "OpNotEqual",
   "OpIndex", "OpCall", "OpArray", "OpHash"}

(* They are opcodes, and not jumps.                                        *)
LEMMA OperationOpcodesKnown ==
  ASSUME NEW op \in OperationOpcodes
  PROVE  op \in OpcodeNames \ {"OpJump", "OpJumpNotTruthy"}
BY DEF OperationOpcodes, OpcodeNames, Opcodes

(* The values of a hash are as many as its keys.                           *)
LEMMA PairOperands ==
  ASSUME NEW S, NEW pairs \in Seq(S \X S),
         NEW list, list = [i \in 1..(2 * Len(pairs)) |-> pairs[(i + 1) \div 2][IF i % 2 = 1 THEN 1 ELSE 2]]
  PROVE  list \in Seq(S) /\ Len(list) = 2 * Len(pairs) /\ Len(pairs) \in Nat
<1> DEFINE m == Len(pairs)
<1>1. m \in Nat /\ 2 * m \in Nat
  OBVIOUS
<1>2. ASSUME NEW i \in 1..(2 * m) PROVE pairs[(i + 1) \div 2][IF i % 2 = 1 THEN 1 ELSE 2] \in S
  <2>1. (i + 1) \div 2 \in 1..m
    BY <1>1
  <2>2. pairs[(i + 1) \div 2] \in S \X S
    BY <2>1, ElementOfSeq
  <2>3. pairs[(i + 1) \div 2][1] \in S /\ pairs[(i + 1) \div 2][2] \in S
    BY <2>2
  <2> QED BY <2>3
<1>3. list \in [1..(2 * m) -> S]
  BY <1>2
<1> HIDE DEF m
<1>4. list \in Seq(S) /\ Len(list) = 2 * m
  BY <1>1, <1>3
<1> QED BY <1>1, <1>4 DEF m

(* An operation takes the values of its operands and leaves one.           *)
LEMMA OperationLaws ==
  ASSUME NEW e, ExpressionOK(e), e.node \in OperationKinds, NEW x, NEW k
  PROVE  LET op == OperationOpcode(e)
             count == OperationCount(e)
             es == Operands(e)
         IN /\ es \in Seq(Expressions) /\ op \in OperationOpcodes
            /\ count \in Seq(Nat) /\ Len(count) = Len(OperandWidths(op))
            /\ TakenBy(op, count) = Len(es) /\ LeftBy(op) = 1
            /\ Exists(x, k, op, count)
<1> DEFINE op == OperationOpcode(e)
           count == OperationCount(e)
           es == Operands(e)
<1>1. \A o \in OperationOpcodes : LeftBy(o) = 1
  BY DEF OperationOpcodes, LeftBy
<1>2. \A o \in OperationOpcodes : o # "OpHash" => \A args : Exists(x, k, o, args)
  BY DEF OperationOpcodes, Exists
<1>3. << >> \in Seq(Nat) /\ Len(<< >>) = 0
  OBVIOUS
<1>4. CASE e.node = "PrefixExpression"
  <2>1. op \in {"OpBang", "OpMinus"} /\ count = << >> /\ es = << e.right >>
    BY <1>4 DEF OperationOpcode, OperationCount, Operands
  <2>2. es \in Seq(Expressions) /\ Len(es) = 1
    BY <1>4, <2>1 DEF ExpressionOK
  <2> HIDE DEF op, count, es
  <2>3. op \in OperationOpcodes /\ op # "OpHash" /\ OperandWidths(op) = << >> /\ TakenBy(op, count) = 1
    BY <2>1 DEF OperationOpcodes, OperandWidths, TakenBy
  <2> QED BY <1>1, <1>2, <1>3, <2>1, <2>2, <2>3 DEF op, count, es
<1>5. CASE e.node = "InfixExpression"
  <2>1. /\ op \in {"OpAdd", "OpSub", "OpMul", "OpDiv", "OpGreaterThan", "OpEqual", "OpNotEqual"}
        /\ count = << >>
    BY <1>5 DEF OperationOpcode, OperationCount, ExpressionOK, InfixOpcode
  <2>2. es \in Seq(Expressions) /\ Len(es) = 2
    BY <1>5 DEF ExpressionOK, Operands
  <2> HIDE DEF op, count, es
  <2>3. op \in OperationOpcodes /\ op # "OpHash" /\ OperandWidths(op) = << >> /\ TakenBy(op, count) = 2
    BY <2>1 DEF OperationOpcodes, OperandWidths, TakenBy
  <2> QED BY <1>1, <1>2, <1>3, <2>1, <2>2, <2>3 DEF op, count, es
<1>6. CASE e.node = "IndexExpression"
  <2>1. op = "OpIndex" /\ count = << >>
    BY <1>6 DEF OperationOpcode, OperationCount
  <2>2. es \in Seq(Expressions) /\ Len(es) = 2
    BY <1>6 DEF ExpressionOK, Operands
  <2> HIDE DEF op, count, es
  <2>3. op \in OperationOpcodes /\ op # "OpHash" /\ OperandWidths(op) = << >> /\ TakenBy(op, count) = 2
    BY <2>1 DEF OperationOpcodes, OperandWidths, TakenBy
  <2> QED BY <1>1, <1>2, <1>3, <2>1, <2>2, <2>3 DEF op, count, es
<1>7. CASE e.node = "CallExpression"
  <2>1. op = "OpCall" /\ count = << Len(e.arguments) >> /\ es = << e.function >> \o e.arguments
    BY <1>7 DEF OperationOpcode, OperationCount, Operands
  <2>2. e.function \in Expressions /\ e.arguments \in Seq(Expressions)
    BY <1>7 DEF ExpressionOK
  <2>3. es \in Seq(Expressions) /\ Len(es) = 1 + Len(e.arguments)
    BY <2>1, <2>2, OneBefore
  <2>4. Len(e.arguments) \in Nat
    BY <2>2
  <2>5. count \in Seq(Nat) /\ Len(count) = 1 /\ count[1] = Len(e.arguments)
    BY <2>1, <2>4
  <2> HIDE DEF op, count, es
  <2>6. op \in OperationOpcodes /\ op # "OpHash" /\ OperandWidths(op) = << 1 >> /\ TakenBy(op, count) = count[1] + 1
    BY <2>1 DEF OperationOpcodes, OperandWidths, TakenBy
  <2>7. Len(OperandWidths(op)) = 1 /\ TakenBy(op, count) = Len(es)
    BY <2>3, <2>4, <2>5, <2>6
  <2> QED BY <1>1, <1>2, <2>3, <2>5, <2>6, <2>7 DEF op, count, es
<1>8. CASE e.node = "ArrayLiteral"
  <2>1. op = "OpArray" /\ count = << Len(e.elements) >> /\ es = e.elements
    BY <1>8 DEF OperationOpcode, OperationCount, Operands
  <2>2. e.elements \in Seq(Expressions)
    BY <1>8 DEF ExpressionOK
  <2>3. Len(e.elements) \in Nat
    BY <2>2
  <2>4. count \in Seq(Nat) /\ Len(count) = 1 /\ count[1] = Len(e.elements)
    BY <2>1, <2>3
  <2> HIDE DEF op, count, es
  <2>5. op \in OperationOpcodes /\ op # "OpHash" /\ OperandWidths(op) = << 2 >> /\ TakenBy(op, count) = count[1]
    BY <2>1 DEF OperationOpcodes, OperandWidths, TakenBy
  <2>6. Len(OperandWidths(op)) = 1
    BY <2>5
  <2> QED BY <1>1, <1>2, <2>1, <2>2, <2>4, <2>5, <2>6 DEF op, count, es
<1>9. CASE e.node = "HashLiteral"
  <2>1. /\ op = "OpHash" /\ count = << 2 * Len(e.pairs) >>
        /\ es = [i \in 1..(2 * Len(e.pairs)) |-> e.pairs[(i + 1) \div 2][IF i % 2 = 1 THEN 1 ELSE 2]]
    BY <1>9 DEF OperationOpcode, OperationCount, Operands
  <2>2. e.pairs \in Seq(Expressions \X Expressions)
    BY <1>9 DEF ExpressionOK
  <2> HIDE DEF op, count, es
  <2>3. es \in Seq(Expressions) /\ Len(es) = 2 * Len(e.pairs) /\ Len(e.pairs) \in Nat
    BY <2>1, <2>2, PairOperands
  <2>4. count \in Seq(Nat) /\ Len(count) = 1 /\ count[1] = 2 * Len(e.pairs) /\ count[1] % 2 = 0
    <3>1. \A i \in Nat : 2 * i \in Nat /\ (2 * i) % 2 = 0
      OBVIOUS
    <3>2. 2 * Len(e.pairs) \in Nat /\ (2 * Len(e.pairs)) % 2 = 0
      BY <2>3, <3>1
    <3> DEFINE twice == 2 * Len(e.pairs)
    <3>3. twice \in Nat /\ twice % 2 = 0 /\ count = << twice >>
      BY <2>1, <3>2
    <3> HIDE DEF twice
    <3>4. count \in Seq(Nat) /\ Len(count) = 1 /\ count[1] = twice
      BY <3>3
    <3> QED BY <3>3, <3>4 DEF twice
  <2>5. op \in OperationOpcodes /\ OperandWidths(op) = << 2 >> /\ TakenBy(op, count) = count[1]
    BY <2>1 DEF OperationOpcodes, OperandWidths, TakenBy
  <2>6. Len(OperandWidths(op)) = 1
    BY <2>5
  <2>7. Exists(x, k, op, count)
    BY <2>1, <2>4 DEF Exists
  <2> QED BY <1>1, <2>3, <2>4, <2>5, <2>6, <2>7 DEF op, count, es
<1> QED BY <1>4, <1>5, <1>6, <1>7, <1>8, <1>9 DEF OperationKinds

(* compiler.go:110-167, 207-263: operands are compiled from left to right, *)
(* and one instruction takes their values.                                 *)
LEMMA OperationStep ==
  ASSUME Good(c, todo, depth), OnOperation
  PROVE  Good(c', todo', depth')
<1> DEFINE n  == Len(todo)
           at == Task.at
           op == OperationOpcode(Node)
           count == OperationCount(Node)
           es == Operands(Node)
           a  == DoExpressions(es, at)
           u  == DoEmit(op, count, at + Len(es), Task.to)
           b  == << u >>
           tasks == a \o b
           ins == c.scopes[n].ins
           d == depth[n]
<1>1. Meets("expression", OperationKinds)
  BY DEF OnOperation
<1>2. /\ Tasks # << >> /\ Task.do = "expression" /\ Node.node \in OperationKinds
      /\ ExpressionOK(Node) /\ Task.to = at + 1
  BY <1>1, MetNode
<1>3. Tasks = todo[n] /\ Task = Tasks[1] /\ at \in Nat /\ Task.to \in Nat
  BY <1>2, FirstTask
<1>4. /\ es \in Seq(Expressions) /\ op \in OperationOpcodes
      /\ count \in Seq(Nat) /\ Len(count) = Len(OperandWidths(op))
      /\ TakenBy(op, count) = Len(es) /\ LeftBy(op) = 1
      /\ Exists(c, n, op, count)
  BY <1>2, OperationLaws
<1>5. c' = c /\ depth' = depth /\ todo' = Replaced(todo, tasks)
  BY DEF OnOperation, Calls
<1> HIDE DEF es, op, count
<1>6. /\ IsSeq(a) /\ TasksOK(c, n, ins, d, a) /\ JumpsOf(a) = {}
      /\ Len(a) = Len(es) /\ Len(es) \in Nat
      /\ a # << >> => /\ a[1].at = at /\ a[1].do = "expression"
                      /\ a[Len(a)].to = at + Len(es) /\ a[Len(a)].do = "expression"
  <2>1. AreOperands(c, n, ins, d, a, at, Len(es))
    BY <1>3, <1>4, ExpressionTasks
  <2> HIDE DEF at, ins, d, a, n
  <2> QED BY <2>1 DEF AreOperands
<1>7. u.do = "emit" /\ u.op = op /\ u.at = at + Len(es) /\ u.to = Task.to
  BY DEF DoEmit
<1>8. Ready(c, n, ins, d, u)
  <2>1. op \in OpcodeNames \ {"OpJump", "OpJumpNotTruthy"}
    BY <1>4, OperationOpcodesKnown
  <2>2. op # "OpReturnValue" /\ at + Len(es) \in Nat
    BY <1>3, <1>4, <1>6 DEF OperationOpcodes
  <2>3. /\ TakenBy(op, count) <= at + Len(es)
        /\ Task.to = (at + Len(es)) - TakenBy(op, count) + (IF op = "OpReturnValue" THEN 0 ELSE LeftBy(op))
    BY <1>2, <1>3, <1>4, <1>6, <2>2
  <2> QED BY <1>3, <1>4, <2>1, <2>2, <2>3, EmitIsReady
<1>9. ~ EndsStatement(u) /\ ~ TakesValue(u)
  BY <1>4, <1>7 DEF EndsStatement, TakesValue, OperationOpcodes
<1> HIDE DEF u, a
<1>10. /\ IsSeq(b) /\ b # << >> /\ Len(b) = 1 /\ b[1] = u /\ TasksOK(c, n, ins, d, b) /\ JumpsOf(b) = {}
  BY <1>8, OneTask DEF Ready
<1>11. a # << >> => Follows(a[Len(a)], b[1])
  BY <1>6, <1>7, <1>9, <1>10 DEF Follows
<1>12. a = << >> => Len(es) = 0
  BY <1>6, NoElements
<1> HIDE DEF b
<1>13. /\ IsSeq(tasks) /\ tasks # << >> /\ TasksOK(c, n, ins, d, tasks) /\ JumpsOf(tasks) = JumpsOf(b)
       /\ tasks[Len(tasks)] = b[Len(b)]
       /\ tasks[1] = IF a = << >> THEN b[1] ELSE a[1]
  <2>1. Behind(c, n, ins, d, a, b, tasks)
    BY <1>6, <1>10, <1>11, TasksBehind
  <2> HIDE DEF tasks, ins, d, n
  <2> QED BY <2>1 DEF Behind
<1> HIDE DEF tasks
<1>14. tasks[1].at = at /\ tasks[1].do \notin {"keep", "finish"} /\ ~ TakesValue(tasks[1])
  <2>1. CASE a = << >>
    <3>1. u.at = at
      BY <1>3, <1>7, <1>12, <2>1
    <3> QED BY <1>7, <1>9, <1>10, <1>13, <2>1, <3>1
  <2>2. CASE a # << >>
    <3>1. tasks[1].at = at /\ tasks[1].do = "expression"
      BY <1>6, <1>13, <2>2
    <3> QED BY <3>1 DEF TakesValue
  <2> QED BY <2>1, <2>2
<1>15. tasks[Len(tasks)] = u
  BY <1>10, <1>13
<1>16. ~ EndsStatement(Task) /\ ~ Jumps(Task)
  BY <1>2 DEF EndsStatement, Jumps
<1>17. Advances(c, c, n, c.scopes[n])
  BY NoAdvance
<1>18. Good(c, Replaced(todo, tasks), depth)
  BY <1>2, <1>3, <1>7, <1>9, <1>10, <1>13, <1>14, <1>15, <1>16, <1>17, CallsSplit
<1> QED BY <1>5, <1>18

(* What the cases that emit do, when no operand is cut off.                *)
LEMMA Emitted ==
  ASSUME NEW before, NEW op, NEW operands, Emits(before, op, operands), doubts' = {}
  PROVE  /\ c' = Emit(before, op, operands) /\ Fit(op, operands)
         /\ todo' = Replaced(todo, << >>) /\ depth' = Marked(depth, Here(c'), Task.to)
<1>1. CutOff(op, operands) = {}
  BY DEF Emits
<1>2. Fit(op, operands)
  BY <1>1 DEF CutOff
<1> QED BY <1>2 DEF Emits

(* compiler.go:308-313.                                                    *)
LEMMA BooleanStep ==
  ASSUME Good(c, todo, depth), OnBoolean, doubts' = {}
  PROVE  Good(c', todo', depth')
<1> DEFINE op == IF Node.b THEN "OpTrue" ELSE "OpFalse"
<1>1. Meets("expression", {"Boolean"}) /\ Emits(c, op, << >>)
  BY DEF OnBoolean
<1>2. Tasks # << >> /\ Task.do = "expression" /\ Task.to = Task.at + 1
  BY <1>1, MetNode
<1>3. Tasks = todo[Len(todo)] /\ Task = Tasks[1] /\ Task.at \in Nat /\ Task.to \in Nat
  BY <1>2, FirstTask
<1>4. op \in {"OpTrue", "OpFalse"}
  OBVIOUS
<1> HIDE DEF op
<1>5. /\ op \in OpcodeNames \ {"OpJump", "OpJumpNotTruthy"} /\ << >> \in Seq(Nat)
      /\ Len(<< >>) = Len(OperandWidths(op)) /\ Exists(c, Len(todo), op, << >>)
  BY <1>4, PlainOpcodes
<1>6. TakenBy(op, << >>) = 0 /\ LeftBy(op) = 1 /\ op # "OpPop" /\ op # "OpReturnValue"
  BY <1>4 DEF TakenBy, LeftBy
<1>7. /\ TakenBy(op, << >>) <= Task.at
      /\ Task.to = Task.at - TakenBy(op, << >>) + (IF op = "OpReturnValue" THEN 0 ELSE LeftBy(op))
  BY <1>2, <1>3, <1>6
<1>8. /\ c' = Emit(c, op, << >>) /\ Fit(op, << >>)
      /\ todo' = Replaced(todo, << >>) /\ depth' = Marked(depth, Here(c'), Task.to)
  BY <1>1, Emitted
<1>9. Task.do # "finish" /\ ~ Jumps(Task)
  BY <1>2 DEF Jumps
<1>10. Advances(c, c, Len(todo), c.scopes[Len(todo)])
  BY NoAdvance
<1>11. op = "OpPop" => EndsStatement(Task) /\ TakesValue(Task)
  BY <1>6
<1>12. Good(c', Replaced(todo, << >>), Marked(depth, Here(c'), Task.to))
  BY <1>2, <1>3, <1>5, <1>7, <1>8, <1>9, <1>10, <1>11, EmitDone
<1> QED BY <1>8, <1>12

(* compiler.go:235-241: the literal is the last constant.                  *)
LEMMA LiteralStep ==
  ASSUME Good(c, todo, depth), OnLiteral, doubts' = {}
  PROVE  Good(c', todo', depth')
<1> DEFINE obj == IF Node.node = "IntegerLiteral" THEN Integer(Node.n) ELSE String(Node.s)
           y == AddConstant(c, obj)
           op == "OpConstant"
           operands == << Len(c.constants) >>
           n == Len(todo)
<1>1. Meets("expression", {"IntegerLiteral", "StringLiteral"}) /\ Emits(y, op, operands)
  BY DEF OnLiteral
<1>2. Tasks # << >> /\ Task.do = "expression" /\ Task.to = Task.at + 1
  BY <1>1, MetNode
<1>3. Tasks = todo[Len(todo)] /\ Task = Tasks[1] /\ Task.at \in Nat /\ Task.to \in Nat
  BY <1>2, FirstTask
<1>4. obj.t # "COMPILED_FUNCTION"
  BY DEF Integer, String
<1> HIDE DEF obj
<1>5. Advances(c, y, Len(todo), c.scopes[Len(todo)]) /\ Len(y.constants) = Len(c.constants) + 1
  <2>1. y = AddConstant(c, obj) /\ (obj.t = "COMPILED_FUNCTION" => FunctionFits(c.constants, obj))
    BY <1>4
  <2> HIDE DEF y
  <2> QED BY <2>1, ConstantAdvances
<1>6. Len(c.constants) \in Nat
  BY TopFacts
<1>7. operands \in Seq(Nat) /\ Len(operands) = 1 /\ operands[1] = Len(c.constants)
  BY <1>6
<1>8. /\ op \in OpcodeNames \ {"OpJump", "OpJumpNotTruthy"}
      /\ TakenBy(op, operands) = 0 /\ LeftBy(op) = 1 /\ OperandWidths(op) = << 2 >>
  BY DEF OpcodeNames, Opcodes, TakenBy, LeftBy, OperandWidths
<1> HIDE DEF y, operands
<1>9. Exists(y, Len(todo), op, operands)
  <2>1. operands[1] < Len(y.constants)
    BY <1>5, <1>6, <1>7
  <2> QED BY <2>1 DEF Exists
<1>10. /\ c' = Emit(y, op, operands) /\ Fit(op, operands)
       /\ todo' = Replaced(todo, << >>) /\ depth' = Marked(depth, Here(c'), Task.to)
  BY <1>1, Emitted
<1>11. Len(operands) = Len(OperandWidths(op))
  BY <1>7, <1>8
<1>12. /\ TakenBy(op, operands) <= Task.at
       /\ Task.to = Task.at - TakenBy(op, operands) + (IF op = "OpReturnValue" THEN 0 ELSE LeftBy(op))
  BY <1>2, <1>3, <1>8
<1>13. Task.do # "finish" /\ ~ Jumps(Task) /\ (op = "OpPop" => EndsStatement(Task) /\ TakesValue(Task))
  BY <1>2 DEF Jumps
<1> HIDE DEF op
<1>14. Good(c', Replaced(todo, << >>), Marked(depth, Here(c'), Task.to))
  BY <1>2, <1>3, <1>5, <1>7, <1>8, <1>9, <1>10, <1>11, <1>12, <1>13, EmitDone
<1> QED BY <1>10, <1>14

(* compiler.go:315-320: the symbol of a name is loaded.                    *)
LEMMA IdentifierStep ==
  ASSUME Good(c, todo, depth), OnIdentifier, doubts' = {}
  PROVE  Good(c', todo', depth')
<1> DEFINE symbol == ResolvedSymbol(c.tables, Node.name)
           y == [c EXCEPT !.tables = ResolvedTables(c.tables, Node.name)]
           op == LoadOpcode(symbol)
           operands == LoadOperands(symbol)
<1>1. /\ Meets("expression", {"Identifier"}) /\ Resolvable(c.tables, Node.name)
      /\ Emits(y, op, operands)
  BY DEF OnIdentifier
<1>2. /\ Tasks # << >> /\ Task.do = "expression" /\ Task.to = Task.at + 1
      /\ Node.node = "Identifier" /\ ExpressionOK(Node)
  BY <1>1, MetNode
<1>3. Tasks = todo[Len(todo)] /\ Task = Tasks[1] /\ Task.at \in Nat /\ Task.to \in Nat
  BY <1>2, FirstTask
<1>4. Node.name \in Names
  BY <1>2 DEF ExpressionOK
<1>5. Advances(c, y, Len(todo), c.scopes[Len(todo)]) /\ symbol \in Symbol /\ Exists(y, Len(todo), op, operands)
  <2> HIDE DEF op, operands, y, symbol
  <2>1. /\ y = [c EXCEPT !.tables = ResolvedTables(c.tables, Node.name)]
        /\ symbol = ResolvedSymbol(c.tables, Node.name)
    BY DEF y, symbol
  <2>2. Advances(c, y, Len(todo), c.scopes[Len(todo)])
    BY <1>1, <1>4, <2>1, ResolvedAdvances
  <2>3. symbol \in Symbol
    BY <1>1, <1>4, <2>1, ResolvedAdvances
  <2>4. Exists(y, Len(todo), LoadOpcode(symbol), LoadOperands(symbol))
    BY <1>1, <1>4, <2>1, ResolvedAdvances
  <2> QED BY <2>2, <2>3, <2>4 DEF op, operands
<1>6. /\ op \in {"OpGetGlobal", "OpGetLocal", "OpGetBuiltin", "OpGetFree", "OpCurrentClosure"}
      /\ op \in OpcodeNames /\ operands \in Seq(Nat) /\ Len(operands) = Len(OperandWidths(op))
      /\ TakenBy(op, operands) = 0 /\ LeftBy(op) = 1
  <2> HIDE DEF symbol
  <2> QED BY <1>5, LoadLaws
<1>7. /\ c' = Emit(y, op, operands) /\ Fit(op, operands)
      /\ todo' = Replaced(todo, << >>) /\ depth' = Marked(depth, Here(c'), Task.to)
  <2> HIDE DEF op, operands, y
  <2> QED BY <1>1, Emitted
<1> HIDE DEF op, operands, y, symbol
<1>8. op \in OpcodeNames \ {"OpJump", "OpJumpNotTruthy"} /\ op # "OpReturnValue" /\ op # "OpPop"
  BY <1>6
<1>9. /\ TakenBy(op, operands) <= Task.at
      /\ Task.to = Task.at - TakenBy(op, operands) + (IF op = "OpReturnValue" THEN 0 ELSE LeftBy(op))
  BY <1>2, <1>3, <1>6, <1>8
<1>10. Task.do # "finish" /\ ~ Jumps(Task) /\ (op = "OpPop" => EndsStatement(Task) /\ TakesValue(Task))
  BY <1>2, <1>8 DEF Jumps
<1>11. operands \in Seq(Nat) /\ Len(operands) = Len(OperandWidths(op))
  BY <1>6
<1>12. Good(c', Replaced(todo, << >>), Marked(depth, Here(c'), Task.to))
  BY <1>2, <1>3, <1>5, <1>7, <1>8, <1>9, <1>10, <1>11, EmitDone
<1> QED BY <1>7, <1>12

(* The instructions that follow the operands.                              *)
LEMMA EmitTaskStep ==
  ASSUME Good(c, todo, depth), EmitTask, doubts' = {}
  PROVE  Good(c', todo', depth')
<1> DEFINE op == Task.op
           operands == Task.operands
<1>1. Tasks # << >> /\ Task.do = "emit" /\ Emits(c, op, operands)
  BY DEF EmitTask, Has
<1>2. /\ Tasks = todo[Len(todo)] /\ Task = Tasks[1] /\ Task.at \in Nat /\ Task.to \in Nat
      /\ TaskOK(c, Len(todo), c.scopes[Len(todo)].ins, depth[Len(todo)], Task)
  BY <1>1, FirstTask
<1>3. EmitOK(c, Len(todo), Task)
  BY <1>1, <1>2 DEF TaskOK
<1>4. /\ op \in OpcodeNames \ {"OpJump", "OpJumpNotTruthy"}
      /\ operands \in Seq(Nat) /\ Len(operands) = Len(OperandWidths(op))
      /\ TakenBy(op, operands) <= Task.at
      /\ Task.to = Task.at - TakenBy(op, operands) + (IF op = "OpReturnValue" THEN 0 ELSE LeftBy(op))
      /\ Exists(c, Len(todo), op, operands)
  BY <1>3 DEF EmitOK
<1>5. /\ c' = Emit(c, op, operands) /\ Fit(op, operands)
      /\ todo' = Replaced(todo, << >>) /\ depth' = Marked(depth, Here(c'), Task.to)
  BY <1>1, Emitted
<1>6. Task.do # "finish" /\ ~ Jumps(Task) /\ (op = "OpPop" => EndsStatement(Task) /\ TakesValue(Task))
  BY <1>1 DEF Jumps, EndsStatement, TakesValue
<1>7. Advances(c, c, Len(todo), c.scopes[Len(todo)])
  BY NoAdvance
<1> HIDE DEF op, operands
<1>8. Good(c', Replaced(todo, << >>), Marked(depth, Here(c'), Task.to))
  BY <1>1, <1>2, <1>4, <1>5, <1>6, <1>7, EmitDone
<1> QED BY <1>5, <1>8

(* compiler.go:286-304: what a function captured is on the stack, and the  *)
(* function is the last constant.                                          *)
LEMMA MakeClosureStep ==
  ASSUME Good(c, todo, depth), MakeClosure, doubts' = {}
  PROVE  Good(c', todo', depth')
<1> DEFINE fn == Task.fn
           free == Task.free
           y == AddConstant(c, fn)
           op == "OpClosure"
           operands == << Len(c.constants), free >>
<1>1. Tasks # << >> /\ Task.do = "closure" /\ Emits(y, op, operands)
  BY DEF MakeClosure, Has
<1>2. /\ Tasks = todo[Len(todo)] /\ Task = Tasks[1] /\ Task.at \in Nat /\ Task.to \in Nat
      /\ TaskOK(c, Len(todo), c.scopes[Len(todo)].ins, depth[Len(todo)], Task)
  BY <1>1, FirstTask
<1>3. ClosureOK(c, Task)
  BY <1>1, <1>2 DEF TaskOK
<1>4. /\ fn.t = "COMPILED_FUNCTION" /\ FunctionFits(c.constants, fn) /\ FreeSuffices(fn.ins, free)
      /\ free \in Nat /\ free <= Task.at /\ Task.to = Task.at - free + 1
  BY <1>2, <1>3 DEF ClosureOK
<1> HIDE DEF fn, free
<1>5. /\ Advances(c, y, Len(todo), c.scopes[Len(todo)]) /\ Len(y.constants) = Len(c.constants) + 1
      /\ y.constants[Len(c.constants) + 1] = fn
  <2>1. y = AddConstant(c, fn) /\ (fn.t = "COMPILED_FUNCTION" => FunctionFits(c.constants, fn))
    BY <1>4
  <2> HIDE DEF y
  <2> QED BY <2>1, ConstantAdvances
<1>6. Len(c.constants) \in Nat
  BY TopFacts
<1>7. operands \in Seq(Nat) /\ Len(operands) = 2 /\ operands[1] = Len(c.constants) /\ operands[2] = free
  BY <1>4, <1>6
<1>8. /\ op \in OpcodeNames \ {"OpJump", "OpJumpNotTruthy"}
      /\ TakenBy(op, operands) = operands[2] /\ LeftBy(op) = 1 /\ OperandWidths(op) = << 2, 1 >>
  BY DEF OpcodeNames, Opcodes, TakenBy, LeftBy, OperandWidths
<1> HIDE DEF y, operands
<1>9. Exists(y, Len(todo), op, operands)
  <2>1. operands[1] < Len(y.constants) /\ y.constants[operands[1] + 1] = fn
    BY <1>5, <1>6, <1>7
  <2> QED BY <1>4, <1>7, <2>1 DEF Exists
<1>10. /\ c' = Emit(y, op, operands) /\ Fit(op, operands)
       /\ todo' = Replaced(todo, << >>) /\ depth' = Marked(depth, Here(c'), Task.to)
  BY <1>1, Emitted
<1>11. Len(operands) = Len(OperandWidths(op))
  BY <1>7, <1>8
<1>12. /\ TakenBy(op, operands) <= Task.at
       /\ Task.to = Task.at - TakenBy(op, operands) + (IF op = "OpReturnValue" THEN 0 ELSE LeftBy(op))
  BY <1>2, <1>4, <1>7, <1>8
<1>13. Task.do # "finish" /\ ~ Jumps(Task) /\ (op = "OpPop" => EndsStatement(Task) /\ TakesValue(Task))
  BY <1>1 DEF Jumps
<1> HIDE DEF op
<1>14. Good(c', Replaced(todo, << >>), Marked(depth, Here(c'), Task.to))
  BY <1>1, <1>2, <1>5, <1>7, <1>8, <1>9, <1>10, <1>11, <1>12, <1>13, EmitDone
<1> QED BY <1>10, <1>14

(* compiler.go:169-177: the condition of an if is computed first.          *)
LEMMA IfStep ==
  ASSUME Good(c, todo, depth), OnIf
  PROVE  Good(c', todo', depth')
<1> DEFINE n  == Len(todo)
           at == Task.at
           t  == DoExpression(Node.condition, at)
           u  == DoBranch(Node, at + 1)
           tasks == << t, u >>
           ins == c.scopes[n].ins
           d == depth[n]
<1>1. Meets("expression", {"IfExpression"})
  BY DEF OnIf
<1>2. /\ Tasks # << >> /\ Task.do = "expression" /\ Node.node = "IfExpression"
      /\ ExpressionOK(Node) /\ Task.to = at + 1
  BY <1>1, MetNode
<1>3. Tasks = todo[n] /\ Task = Tasks[1] /\ at \in Nat /\ Task.to \in Nat
  BY <1>2, FirstTask
<1>4. BranchesOK(Node) /\ Node.condition \in Expressions
  BY <1>2 DEF ExpressionOK, BranchesOK
<1>5. Ready(c, n, ins, d, t)
  BY <1>3, <1>4, ExpressionIsReady
<1>6. /\ t.do = "expression" /\ t.at = at /\ t.to = at + 1
      /\ u.do = "branch" /\ u.node = Node /\ u.at = at + 1 /\ u.to = at + 1
  BY DEF DoExpression, DoBranch
<1>7. c' = c /\ depth' = depth /\ todo' = Replaced(todo, tasks)
  BY DEF OnIf, Calls
<1> HIDE DEF t, u
<1>8. Ready(c, n, ins, d, u)
  <2>1. u.at \in Nat /\ u.to \in Nat /\ u.at >= 1 /\ u.to = u.at
    BY <1>3, <1>6
  <2> QED BY <1>4, <1>6, <2>1 DEF Ready, TaskOK, Jumps
<1>9. Follows(t, u) /\ ~ EndsStatement(u) /\ ~ TakesValue(t)
  BY <1>6 DEF Follows, EndsStatement, TakesValue
<1>10. JumpsOf(<< u >>) = {}
  BY <1>8, OneTask DEF Ready
<1>11. /\ IsSeq(tasks) /\ tasks # << >> /\ TasksOK(c, n, ins, d, tasks) /\ JumpsOf(tasks) = {}
       /\ tasks[1] = t /\ tasks[Len(tasks)] = u
  BY <1>5, <1>8, <1>9, <1>10, TwoTasks DEF Ready
<1>12. ~ EndsStatement(Task) /\ ~ Jumps(Task)
  BY <1>2 DEF EndsStatement, Jumps
<1>13. Advances(c, c, n, c.scopes[n])
  BY NoAdvance
<1> HIDE DEF tasks
<1>14. Good(c, Replaced(todo, tasks), depth)
  BY <1>2, <1>3, <1>6, <1>9, <1>11, <1>12, <1>13, CallsSplit
<1> QED BY <1>7, <1>14

(* A jump is emitted, whose target is not known yet.                       *)
JumpEmitted(ins, d, P, op, to, new, e) ==
  /\ new \in Seq(ByteValues) /\ e = Marks(d, Len(new), to)
  /\ CodeOK(new, e, P \cup {Len(ins)}) /\ Starts(new, e) = Starts(ins, d) \cup {Len(ins)}
  /\ Len(ins) \notin P /\ Len(ins) \notin Starts(ins, d)
  /\ OpAt(new, Len(ins)) = op /\ e[Len(ins)] = d[Len(ins)] /\ e[Len(new)] = to
  /\ \A p \in Starts(ins, d) : SameAt(ins, new, p) /\ e[p] = d[p]

(* The opcodes of jumps.                                                   *)
LEMMA JumpOpcodes ==
  ASSUME NEW op \in {"OpJump", "OpJumpNotTruthy"}
  PROVE  op \in OpcodeNames /\ OperandWidths(op) = << 2 >> /\ Len(<< 2 >>) = 1
<1>1. op \in OpcodeNames
  BY DEF OpcodeNames, Opcodes
<1>2. OperandWidths(op) = << 2 >>
  BY DEF OperandWidths
<1>3. Len(<< 2 >>) = 1
  OBVIOUS
<1> QED BY <1>1, <1>2, <1>3

(* A jump goes on from the code.                                           *)
LEMMA JumpIsEmitted ==
  ASSUME NEW ins, NEW d, NEW P, CodeOK(ins, d, P), NEW op \in {"OpJump", "OpJumpNotTruthy"},
         NEW to \in Nat, to = d[Len(ins)] - 1, NEW target \in Nat
  PROVE  JumpEmitted(ins, d, P, op, to, ins \o Make(op, << target >>),
                     Marks(d, Len(ins \o Make(op, << target >>)), to))
<1> DEFINE operands == << target >>
           new == ins \o Make(op, operands)
           e   == Marks(d, Len(new), to)
<1>1. ins \in Seq(ByteValues) /\ Len(ins) \in Nat /\ Len(ins) \in DOMAIN d /\ P \subseteq Starts(ins, d)
      /\ d[Len(ins)] \in Nat /\ \A q \in DOMAIN d : q <= Len(ins)
  BY CodeFacts
<1>2. operands \in Seq(Nat) /\ Len(operands) = 1
  OBVIOUS
<1> HIDE DEF operands
<1>14. op \in OpcodeNames
  BY JumpOpcodes
<1>15. OperandWidths(op) = << 2 >> /\ Len(<< 2 >>) = 1
  BY JumpOpcodes
<1>3. Len(operands) = Len(OperandWidths(op))
  BY <1>2, <1>15
<1>4. /\ new \in Seq(ByteValues) /\ \A i \in 1..Len(ins) : new[i] = ins[i]
      /\ WholeInstruction(new, Len(ins)) /\ OpAt(new, Len(ins)) = op /\ After(new, Len(ins)) = Len(new)
  BY <1>1, <1>2, <1>3, <1>14, EmitReads
<1>5. Len(new) \in Nat /\ Len(new) > Len(ins)
  BY <1>4, InstructionFacts
<1> HIDE DEF new
<1>6. Takes(new, Len(ins)) <= d[Len(ins)]
  <2>1. Takes(new, Len(ins)) \in {0, 1}
    BY <1>4 DEF Takes, TakenBy
  <2>2. d[Len(ins)] >= 1
    BY <1>1
  <2> QED BY <1>1, <2>1, <2>2
<1>7. e[Len(ins)] = d[Len(ins)] /\ e[Len(new)] = to /\ Len(ins) \in DOMAIN e
  BY <1>1, <1>5 DEF Marks
<1> HIDE DEF e
<1>8. Len(ins) \in Starts(new, e)
  BY <1>5, <1>7 DEF Starts
<1>9. Waiting(new, e, Len(ins))
  BY <1>4, <1>7, <1>8 DEF Waiting
<1> DEFINE Q == P \cup {Len(ins)}
<1>10. P \subseteq Q /\ Q \subseteq P \cup {Len(ins)} /\ Len(ins) \in Q
  OBVIOUS
<1> HIDE DEF Q
<1>11. /\ CodeOK(new, e, Q) /\ Starts(new, e) = Starts(ins, d) \cup {Len(ins)}
       /\ \A p \in DOMAIN d : e[p] = d[p]
       /\ \A p \in Starts(ins, d) : SameAt(ins, new, p)
  BY <1>1, <1>4, <1>5, <1>6, <1>9, <1>10, EmitCode DEF e
<1>12. Len(ins) \notin Starts(ins, d) /\ \A p \in Starts(ins, d) : p \in DOMAIN d
  BY <1>1 DEF Starts
<1>13. Len(ins) \notin P
  BY <1>1, <1>12
<1> QED BY <1>4, <1>7, <1>11, <1>12, <1>13 DEF JumpEmitted, Q, new, e, operands

(* What is known of the code new, of which e knows the depths, when the    *)
(* jumps of P still wait.                                                  *)
Known(y, n, ins, d, P, new, e) ==
  /\ \A p \in Starts(new, e) : Exists(y, n, OpAt(new, p), ArgsAt(new, p))
  /\ \A j \in P : JumpKept(ins, d, new, e, j)

(* A jump that is emitted leaves the others.                               *)
LEMMA JumpKeepsCode ==
  ASSUME NEW x, NEW lists, NEW ds, Good(x, lists, ds), NEW n, n = Len(lists), NEW y, Grows(x, y, n),
         NEW ins, ins = x.scopes[n].ins, NEW d, d = ds[n], NEW P, P \subseteq Starts(ins, d),
         NEW op \in {"OpJump", "OpJumpNotTruthy"}, NEW to, NEW new, NEW e,
         JumpEmitted(ins, d, P, op, to, new, e)
  PROVE  Known(y, n, ins, d, P, new, e)
<1>1. /\ Starts(new, e) = Starts(ins, d) \cup {Len(ins)} /\ OpAt(new, Len(ins)) = op
      /\ \A p \in Starts(ins, d) : SameAt(ins, new, p) /\ e[p] = d[p]
  BY DEF JumpEmitted
<1>2. ASSUME NEW p \in Starts(new, e) PROVE Exists(y, n, OpAt(new, p), ArgsAt(new, p))
  <2>1. CASE p = Len(ins)
    BY <1>1, <2>1 DEF Exists
  <2>2. CASE p \in Starts(ins, d)
    <3>1. p \in Starts(x.scopes[n].ins, ds[n]) /\ SameAt(x.scopes[n].ins, new, p)
      BY <1>1, <2>2
    <3> QED BY <3>1, StartsExist
  <2> QED BY <1>1, <1>2, <2>1, <2>2
<1>3. ASSUME NEW j \in P PROVE JumpKept(ins, d, new, e, j)
  <2>1. j \in Starts(ins, d)
    OBVIOUS
  <2> QED BY <1>1, <2>1 DEF JumpKept, SameAt
<1> QED BY <1>2, <1>3 DEF Known

(* A block leaves a value on the stack.                                    *)
AreBlock(x, k, ins, d, list, at) ==
  /\ IsSeq(list) /\ list # << >> /\ TasksOK(x, k, ins, d, list) /\ JumpsOf(list) = {}
  /\ list[1].at = at /\ list[1].do \in {"statement", "keep", "emit"} /\ ~ TakesValue(list[1])
  /\ list[Len(list)].to = at + 1 /\ list[Len(list)].do # "finish" /\ ~ EndsStatement(list[Len(list)])

(* The task behind the statements of a block.                              *)
LEMMA KeepIsReady ==
  ASSUME NEW x, NEW k, NEW ins, NEW d, NEW at \in Nat
  PROVE  /\ Ready(x, k, ins, d, DoKeep(at))
         /\ DoKeep(at).do = "keep" /\ DoKeep(at).at = at /\ DoKeep(at).to = at + 1
<1> DEFINE t == DoKeep(at)
<1>1. t.do = "keep" /\ t.at = at /\ t.to = at + 1
  BY DEF DoKeep
<1> HIDE DEF t
<1>2. t.at \in Nat /\ t.to \in Nat
  BY <1>1
<1> QED BY <1>1, <1>2 DEF Ready, TaskOK, Jumps, t

(* The statements of a block, and what keeps its value.                    *)
LEMMA BlockTasks ==
  ASSUME NEW ss \in Seq(Statements), NEW at \in Nat, NEW x, NEW k, NEW ins, NEW d
  PROVE  AreBlock(x, k, ins, d, DoStatements(ss, at) \o << DoKeep(at) >>, at)
<1> DEFINE a == DoStatements(ss, at)
           t == DoKeep(at)
           b == << t >>
           both == a \o b
<1>1. AreStatements(x, k, ins, d, a, at)
  BY StatementTasks
<1>2. Ready(x, k, ins, d, t) /\ t.do = "keep" /\ t.at = at /\ t.to = at + 1
  BY KeepIsReady
<1> HIDE DEF a, t
<1>3. IsSeq(b) /\ b # << >> /\ Len(b) = 1 /\ b[1] = t /\ TasksOK(x, k, ins, d, b) /\ JumpsOf(b) = {}
  BY <1>2, OneTask DEF Ready
<1> HIDE DEF b
<1>4. /\ IsSeq(a) /\ TasksOK(x, k, ins, d, a) /\ JumpsOf(a) = {}
      /\ a # << >> => /\ a[1].at = at /\ a[1].do = "statement"
                      /\ a[Len(a)].to = at /\ a[Len(a)].do = "statement"
  BY <1>1 DEF AreStatements
<1>5. a # << >> => Follows(a[Len(a)], b[1])
  BY <1>2, <1>3, <1>4 DEF Follows, EndsStatement, TakesValue
<1>6. Behind(x, k, ins, d, a, b, both)
  BY <1>3, <1>4, <1>5, TasksBehind
<1> HIDE DEF both
<1>7. /\ IsSeq(both) /\ both # << >> /\ TasksOK(x, k, ins, d, both) /\ JumpsOf(both) = {}
      /\ both[Len(both)] = t /\ both[1] = IF a = << >> THEN t ELSE a[1]
  BY <1>3, <1>6 DEF Behind
<1>8. both[1].at = at /\ both[1].do \in {"statement", "keep"}
  BY <1>2, <1>4, <1>7
<1>9. ~ TakesValue(both[1]) /\ ~ EndsStatement(t)
  BY <1>2, <1>8 DEF TakesValue, EndsStatement
<1> QED BY <1>2, <1>7, <1>8, <1>9 DEF AreBlock, both, a, b, t

(* compiler.go:179-185: over the consequence, when it is known where to.   *)
LEMMA BranchStep ==
  ASSUME Good(c, todo, depth), Branch
  PROVE  Good(c', todo', depth')
<1> DEFINE n  == Len(todo)
           at == Task.at
           op == "OpJumpNotTruthy"
           operands == << 9999 >>
           ins == c.scopes[n].ins
           d   == depth[n]
           P   == JumpsOf(Tail(Tasks))
           s   == EmittedScope(c.scopes[n], op, operands)
           new == ins \o Make(op, operands)
           e   == Marks(d, Len(new), at - 1)
           ss  == Node.consequence.statements
           a   == DoStatements(ss, at - 1)
           t   == DoKeep(at - 1)
           u   == DoElse(Node, Len(ins), at)
           b   == << t, u >>
           tasks == a \o b
<1>1. /\ Tasks # << >> /\ Task.do = "branch" /\ c' = Emit(c, op, operands)
      /\ depth' = Marked(depth, Here(c'), at - 1)
      /\ todo' = Replaced(todo, a \o << t, DoElse(Node, Here(c), at) >>)
  BY DEF Branch, Has
<1>2. /\ Tasks = todo[n] /\ Task = Tasks[1] /\ at \in Nat /\ Task.to \in Nat
      /\ TaskOK(c, n, ins, d, Task)
  BY <1>1, FirstTask
<1>3. BranchesOK(Node) /\ at >= 1 /\ Task.to = at
  BY <1>1, <1>2 DEF TaskOK, Node
<1>4. at - 1 \in Nat /\ ss \in Seq(Statements) /\ (at - 1) + 1 = at
  BY <1>2, <1>3 DEF BranchesOK
<1>5. ~ Jumps(Task) /\ ~ EndsStatement(Task)
  BY <1>1 DEF Jumps, EndsStatement
<1>6. /\ n \in Nat /\ n >= 1 /\ Len(depth) = n /\ CodeOK(ins, d, P) /\ at = d[Len(ins)]
      /\ LastOK(c.scopes[n], d, Tasks)
  <2>1. Tasks = todo[Len(todo)] /\ Tasks # << >>
    BY <1>1, <1>2
  <2> QED BY <1>2, <1>5, <2>1, HeadFacts
<1>7. P \subseteq Starts(ins, d) /\ Len(ins) \in Nat
  BY <1>6, CodeFacts
<1>8. op \in {"OpJump", "OpJumpNotTruthy"} /\ op \in OpcodeNames /\ operands \in Seq(Nat)
      /\ Len(operands) = Len(OperandWidths(op))
  <2>1. operands \in Seq(Nat) /\ Len(operands) = 1
    OBVIOUS
  <2> HIDE DEF operands
  <2> QED BY <2>1, JumpOpcodes
<1>9. JumpEmitted(ins, d, P, op, at - 1, new, e)
  <2>1. op \in {"OpJump", "OpJumpNotTruthy"} /\ at - 1 = d[Len(ins)] - 1 /\ at - 1 \in Nat /\ 9999 \in Nat
    BY <1>4, <1>6
  <2> HIDE DEF at, ins, d, P, op
  <2> QED BY <1>6, <2>1, JumpIsEmitted
<1>10. Advances(c, c', n, s) /\ Here(c') = Len(new) /\ Here(c) = Len(ins)
  <2>1. Advances(c, c, n, c.scopes[n])
    BY NoAdvance
  <2>2. Advances(c, c', n, EmittedScope(c.scopes[n], op, operands))
    <3> HIDE DEF op, operands
    <3> QED BY <1>1, <1>8, <2>1, EmitAdvances
  <2>3. OnlyScope(c, c', EmittedScope(c.scopes[n], op, operands))
    <3> HIDE DEF op, operands
    <3> QED BY <1>1, <1>8, <2>1, EmitAdvances
  <2>4. CurrentScope(c) = c.scopes[n]
    BY TopFacts
  <2> QED BY <2>2, <2>3, <2>4 DEF OnlyScope, Here, EmittedScope
<1>11. s.ins = new /\ s.last.op = op /\ s.previous = c.scopes[n].last
  BY DEF EmittedScope
<1>12. u.do = "else" /\ u.node = Node /\ u.jump = Len(ins) /\ u.at = at /\ u.to = at
  BY DEF DoElse
<1>13. todo' = Replaced(todo, tasks)
  BY <1>1, <1>10
<1> HIDE DEF s, e, new, a, t, u, P, d, ins, ss, operands
<1>14. Grows(c, c', n)
  <2>1. n \in 1..n
    BY <1>6
  <2> QED BY <1>10, <2>1 DEF Advances
<1>15. Known(c', n, ins, d, P, new, e)
  BY <1>7, <1>8, <1>9, <1>14, JumpKeepsCode DEF ins, d
<1>16. /\ CodeOK(new, e, P \cup {Len(ins)}) /\ Starts(new, e) = Starts(ins, d) \cup {Len(ins)}
       /\ Len(ins) \notin P /\ OpAt(new, Len(ins)) = op
       /\ e[Len(ins)] = at /\ e[Len(new)] = at - 1
       /\ e = Marks(d, Len(new), at - 1)
  BY <1>6, <1>9 DEF JumpEmitted
<1>17. AreStatements(c', n, new, e, a, at - 1)
  BY <1>4, StatementTasks DEF a
<1>18. Ready(c', n, new, e, t) /\ t.do = "keep" /\ t.at = at - 1 /\ t.to = at
  <2>1. Ready(c', n, new, e, t) /\ t.do = "keep" /\ t.at = at - 1 /\ t.to = (at - 1) + 1
    BY <1>4, KeepIsReady DEF t
  <2> QED BY <1>4, <2>1
<1>19. TaskOK(c', n, new, e, u)
  BY <1>2, <1>3, <1>12, <1>16 DEF TaskOK, JumpOK
<1>20. Follows(t, u) /\ ~ EndsStatement(u) /\ ~ TakesValue(t) /\ Jumps(u)
  BY <1>12, <1>18 DEF Follows, TakesValue, EndsStatement, Jumps
<1>21. JumpsOf(<< u >>) = {Len(ins)}
  BY <1>12, <1>19, <1>20, OneTask
<1>22. /\ IsSeq(b) /\ b # << >> /\ TasksOK(c', n, new, e, b) /\ JumpsOf(b) = {Len(ins)}
       /\ b[1] = t /\ b[Len(b)] = u
  BY <1>18, <1>19, <1>20, <1>21, TwoTasks DEF Ready
<1> HIDE DEF b, n
<1>23. /\ IsSeq(a) /\ TasksOK(c', n, new, e, a) /\ JumpsOf(a) = {}
       /\ a # << >> => /\ a[1].at = at - 1 /\ a[1].do = "statement"
                       /\ a[Len(a)].to = at - 1 /\ a[Len(a)].do = "statement"
  BY <1>17 DEF AreStatements
<1>24. a # << >> => Follows(a[Len(a)], b[1])
  BY <1>18, <1>22, <1>23 DEF Follows, EndsStatement, TakesValue
<1>25. Behind(c', n, new, e, a, b, tasks)
  BY <1>22, <1>23, <1>24, TasksBehind
<1> HIDE DEF tasks
<1>26. /\ IsSeq(tasks) /\ tasks # << >> /\ TasksOK(c', n, new, e, tasks) /\ JumpsOf(tasks) = {Len(ins)}
       /\ tasks[Len(tasks)] = u /\ tasks[1] = IF a = << >> THEN t ELSE a[1]
  BY <1>22, <1>25 DEF Behind
<1>27. tasks[1].at = at - 1 /\ tasks[1].do \in {"statement", "keep"}
  BY <1>18, <1>23, <1>26
<1>28. ~ TakesValue(tasks[1])
  BY <1>27 DEF TakesValue
<1>29. Marked(depth, Here(c'), at - 1) = Put(depth, n, e)
  BY <1>6, <1>10, <1>16 DEF Marked, Put, d, n
<1>30. /\ CodeOK(s.ins, e, JumpsOf(tasks) \cup JumpsOf(Tail(Tasks)))
       /\ \A p \in Starts(s.ins, e) : Exists(c', n, OpAt(s.ins, p), ArgsAt(s.ins, p))
       /\ \A j \in JumpsOf(Tail(Tasks)) : JumpKept(c.scopes[n].ins, depth[n], s.ins, e, j)
       /\ JumpsOf(tasks) \cap JumpsOf(Tail(Tasks)) = {}
       /\ TasksOK(c', n, s.ins, e, tasks)
       /\ tasks[1].at = e[Len(s.ins)] /\ tasks[Len(tasks)].to = Task.to
  <2>1. P \cup {Len(ins)} = {Len(ins)} \cup P
    OBVIOUS
  <2> QED BY <1>3, <1>11, <1>12, <1>15, <1>16, <1>26, <1>27, <2>1 DEF Known, P, ins, d
<1>31. /\ EndsStatement(tasks[Len(tasks)]) <=> EndsStatement(Task)
       /\ tasks[Len(tasks)].do # "finish" /\ s.last.op \notin {"OpPop", "OpReturnValue"}
  BY <1>5, <1>11, <1>12, <1>20, <1>26
<1>32. n = Len(todo) /\ Tasks = todo[n] /\ Tasks # << >> /\ Tasks[1] = Task /\ Task.do # "finish"
  BY <1>1, <1>2 DEF n
<1>33. Good(c', Replaced(todo, tasks), Put(depth, n, e))
  BY <1>10, <1>26, <1>28, <1>30, <1>31, <1>32, HeadSplit
<1> QED BY <1>1, <1>13, <1>29, <1>33

(* The current scope when a jump in it has been patched.                   *)
PatchedScope(s, new) == [ins |-> new, last |-> s.last, previous |-> s.previous]

(* The code when the jump at j has been patched to go to its end.          *)
PatchedCode(ins, j) == ReplaceInstruction(ins, j, Make(OpAt(ins, j), << Len(ins) >>))

(* What patching a jump does to the compiler.                              *)
LEMMA PatchAdvances ==
  ASSUME NEW x, NEW lists, NEW ds, Good(x, lists, ds), NEW n, n = Len(lists),
         NEW y, NEW s0 \in CompilationScope, Advances(x, y, n, s0), CurrentScope(y) = s0,
         NEW j, NEW new \in Seq(ByteValues), new = PatchedCode(s0.ins, j),
         NEW z, z = JumpHere(y, j)
  PROVE  /\ Advances(x, z, n, PatchedScope(s0, new))
         /\ OnlyScope(y, z, PatchedScope(s0, new))
<1> DEFINE s == PatchedScope(s0, new)
<1>1. IsRecord(y)
  BY DEF Advances, IsCompiler
<1>2. y.err = FALSE
  BY <1>1 DEF IsRecord
<1>3. s0 = [ins |-> s0.ins, last |-> s0.last, previous |-> s0.previous]
      /\ s0.last \in EmittedInstruction /\ s0.previous \in EmittedInstruction
  BY DEF CompilationScope
<1>4. s \in CompilationScope
  BY <1>3 DEF CompilationScope, PatchedScope
<1>5. [s0 EXCEPT !.ins = new] = s
  <2>1. \A a, l, p : [[ins |-> a, last |-> l, previous |-> p] EXCEPT !.ins = new]
                       = [ins |-> new, last |-> l, previous |-> p]
    OBVIOUS
  <2> QED BY <1>3, <2>1 DEF PatchedScope
<1>6. z = SetScope(y, [s0 EXCEPT !.ins = new])
  <2>1. Here(y) = Len(s0.ins)
    BY DEF Here
  <2>2. z = JumpTo(y, j, Len(s0.ins))
    BY <2>1 DEF JumpHere
  <2> QED BY <1>2, <2>2 DEF JumpTo, PatchedCode, OpAt
<1>7. z = SetScope(y, s)
  BY <1>5, <1>6
<1> HIDE DEF s
<1>8. /\ Advances(x, z, n, s) /\ CurrentScope(z) = s
      /\ z.constants = y.constants /\ z.tables = y.tables
  BY <1>4, <1>7, ScopeAdvances
<1> QED BY <1>8 DEF OnlyScope, s

(* A patched jump leaves everything else where it is.                      *)
Repatched(ins, d, P, j, op, new) ==
  /\ CodeOK(new, d, P \ {j}) /\ Starts(new, d) = Starts(ins, d)
  /\ new \in Seq(ByteValues) /\ Len(new) = Len(ins)
  /\ op \in {"OpJump", "OpJumpNotTruthy"} /\ OpAt(new, j) = op
  /\ \A r \in Starts(ins, d) \ {j} : SameAt(ins, new, r)

(* The jump goes to the end, at the depth that the end has.                *)
LEMMA PatchKeepsCode ==
  ASSUME NEW ins, NEW d, NEW P, CodeOK(ins, d, P), NEW j \in P, NEW op, op = OpAt(ins, j),
         Fit(op, << Len(ins) >>), d[Len(ins)] = d[j] - (IF op = "OpJump" THEN 0 ELSE 1),
         NEW new, new = PatchedCode(ins, j)
  PROVE  Repatched(ins, d, P, j, op, new)
<1> DEFINE new0 == ReplaceInstruction(ins, j, Make(OpAt(ins, j), << Len(ins) >>))
<1>1. /\ CodeOK(new0, d, P \ {j}) /\ Len(new0) = Len(ins) /\ Starts(new0, d) = Starts(ins, d)
      /\ OpAt(new0, j) = OpAt(ins, j)
      /\ \A r \in Starts(ins, d) \ {j} : SameAt(ins, new0, r)
  BY PatchCode
<1>2. new = new0
  BY DEF PatchedCode
<1> HIDE DEF new0
<1>3. Waiting(ins, d, j)
  BY DEF CodeOK
<1>4. op \in {"OpJump", "OpJumpNotTruthy"}
  BY <1>3 DEF Waiting
<1>5. new \in Seq(ByteValues)
  BY <1>1, <1>2 DEF CodeOK
<1> QED BY <1>1, <1>2, <1>4, <1>5 DEF Repatched

(* A conditional without an alternative has a null there.                  *)
LEMMA AlternativeTasks ==
  ASSUME NEW f, BranchesOK(f), NEW at \in Nat, NEW to, to = at + 1, NEW x, NEW k, NEW ins, NEW d,
         NEW list,
         list = IF f.alternative = << >> THEN << DoEmit("OpNull", << >>, at, to) >>
                ELSE DoStatements(f.alternative[1].statements, at) \o << DoKeep(at) >>
  PROVE  AreBlock(x, k, ins, d, list, at)
<1>1. CASE f.alternative # << >>
  <2>1. f.alternative[1].statements \in Seq(Statements)
    BY <1>1 DEF BranchesOK
  <2>2. list = DoStatements(f.alternative[1].statements, at) \o << DoKeep(at) >>
    BY <1>1
  <2> QED BY <2>1, <2>2, BlockTasks
<1>2. CASE f.alternative = << >>
  <2> DEFINE t == DoEmit("OpNull", << >>, at, to)
  <2>1. /\ "OpNull" \in OpcodeNames \ {"OpJump", "OpJumpNotTruthy"} /\ << >> \in Seq(Nat)
        /\ Len(<< >>) = Len(OperandWidths("OpNull")) /\ Exists(x, k, "OpNull", << >>)
    BY PlainOpcodes
  <2>2. TakenBy("OpNull", << >>) = 0 /\ LeftBy("OpNull") = 1
    BY DEF TakenBy, LeftBy
  <2>3. Ready(x, k, ins, d, t)
    <3>1. /\ to \in Nat /\ TakenBy("OpNull", << >>) <= at
          /\ to = at - TakenBy("OpNull", << >>) + (IF "OpNull" = "OpReturnValue" THEN 0 ELSE LeftBy("OpNull"))
      BY <2>2
    <3> QED BY <2>1, <3>1, EmitIsReady
  <2>4. t.do = "emit" /\ t.op = "OpNull" /\ t.at = at /\ t.to = to
    BY DEF DoEmit
  <2>5. list = << t >>
    BY <1>2
  <2> HIDE DEF t
  <2>6. /\ IsSeq(list) /\ list # << >> /\ Len(list) = 1 /\ list[1] = t
        /\ TasksOK(x, k, ins, d, list) /\ JumpsOf(list) = {}
    <3>1. TaskOK(x, k, ins, d, t) /\ ~ Jumps(t)
      BY <2>3 DEF Ready
    <3>2. /\ IsSeq(<< t >>) /\ << t >> # << >> /\ Len(<< t >>) = 1 /\ << t >>[1] = t
          /\ TasksOK(x, k, ins, d, << t >>) /\ JumpsOf(<< t >>) = {}
      BY <3>1, OneTask
    <3> QED BY ONLY <2>5, <3>2
  <2>7. ~ TakesValue(t) /\ ~ EndsStatement(t) /\ t.do # "finish"
    BY <2>4 DEF TakesValue, EndsStatement
  <2> QED BY <2>4, <2>6, <2>7 DEF AreBlock
<1> QED BY <1>1, <1>2

(* compiler.go:187-199: the consequence jumps over the alternative, and    *)
(* the jump over the consequence goes to it.                               *)
LEMMA ElseStep ==
  ASSUME Good(c, todo, depth), Else, doubts' = {}
  PROVE  Good(c', todo', depth')
<1> DEFINE n  == Len(todo)
           at == Task.at
           j  == Task.jump
           op == "OpJump"
           operands == << 9999 >>
           y   == Emit(c, op, operands)
           ins == c.scopes[n].ins
           d   == depth[n]
           P   == JumpsOf(Tail(Tasks))
           PJ  == P \cup {j}
           s0  == EmittedScope(c.scopes[n], op, operands)
           mid == ins \o Make(op, operands)
           e   == Marks(d, Len(mid), at - 1)
           new == PatchedCode(mid, j)
           s   == PatchedScope(s0, new)
           a   == IF Node.alternative = << >>
                  THEN << DoEmit("OpNull", << >>, at - 1, at) >>
                  ELSE DoStatements(Node.alternative[1].statements, at - 1) \o << DoKeep(at - 1) >>
           u   == DoEnd(Len(ins), at)
           b   == << u >>
           tasks == a \o b
<1>1. /\ Tasks # << >> /\ Task.do = "else" /\ c' = JumpHere(y, j)
      /\ depth' = Marked(depth, Here(c'), at - 1)
      /\ todo' = Replaced(todo, a \o << DoEnd(Here(c), at) >>)
      /\ Fit("OpJumpNotTruthy", << Here(y) >>)
  <2>1. CutOff("OpJumpNotTruthy", << Here(y) >>) = {}
    BY DEF Else
  <2>2. Fit("OpJumpNotTruthy", << Here(y) >>)
    BY <2>1 DEF CutOff
  <2> QED BY <2>2 DEF Else, Has
<1>2. /\ Tasks = todo[n] /\ Task = Tasks[1] /\ at \in Nat /\ Task.to \in Nat
      /\ TaskOK(c, n, ins, d, Task)
  BY <1>1, FirstTask
<1>3. /\ BranchesOK(Node) /\ at >= 1 /\ Task.to = at
      /\ j \in Starts(ins, d) /\ OpAt(ins, j) = "OpJumpNotTruthy" /\ d[j] = at
  BY <1>1, <1>2 DEF TaskOK, Node, JumpOK
<1>4. at - 1 \in Nat /\ at = (at - 1) + 1
  BY <1>2, <1>3
<1>5. Jumps(Task) /\ ~ EndsStatement(Task)
  BY <1>1 DEF Jumps, EndsStatement
<1>6. /\ n \in Nat /\ n >= 1 /\ Len(depth) = n /\ CodeOK(ins, d, PJ) /\ at = d[Len(ins)]
      /\ LastOK(c.scopes[n], d, Tasks) /\ j \notin P
  <2>1. Tasks = todo[Len(todo)] /\ Tasks # << >>
    BY <1>1, <1>2
  <2>2. /\ Task.jump \in JumpsOf(Tasks) \ JumpsOf(Tail(Tasks))
        /\ JumpsOf(Tasks) = JumpsOf(Tail(Tasks)) \cup {Task.jump}
    BY <1>2, <1>5, <2>1, HeadFacts
  <2>3. /\ n \in Nat /\ n >= 1 /\ Len(depth) = n /\ CodeOK(ins, d, JumpsOf(Tasks)) /\ at = d[Len(ins)]
        /\ LastOK(c.scopes[n], d, Tasks)
    BY <1>2, <2>1, HeadFacts
  <2> QED BY <2>2, <2>3
<1>7. PJ \subseteq Starts(ins, d) /\ Len(ins) \in Nat
  BY <1>6, CodeFacts
<1>8. op \in {"OpJump", "OpJumpNotTruthy"} /\ op \in OpcodeNames /\ operands \in Seq(Nat)
      /\ Len(operands) = Len(OperandWidths(op))
  <2>1. operands \in Seq(Nat) /\ Len(operands) = 1
    OBVIOUS
  <2> HIDE DEF operands
  <2> QED BY <2>1, JumpOpcodes
<1>9. JumpEmitted(ins, d, PJ, op, at - 1, mid, e)
  <2>1. op \in {"OpJump", "OpJumpNotTruthy"} /\ at - 1 = d[Len(ins)] - 1 /\ at - 1 \in Nat /\ 9999 \in Nat
    BY <1>4, <1>6
  <2> HIDE DEF at, ins, d, PJ, op
  <2> QED BY <1>6, <2>1, JumpIsEmitted
<1>10. /\ Advances(c, y, n, s0) /\ CurrentScope(y) = s0 /\ Here(y) = Len(mid) /\ Here(c) = Len(ins)
       /\ s0 \in CompilationScope
  <2>1. Advances(c, c, n, c.scopes[n])
    BY NoAdvance
  <2>2. Advances(c, y, n, EmittedScope(c.scopes[n], op, operands))
    <3> HIDE DEF op, operands
    <3> QED BY <1>8, <2>1, EmitAdvances
  <2>3. OnlyScope(c, y, EmittedScope(c.scopes[n], op, operands))
    <3> HIDE DEF op, operands
    <3> QED BY <1>8, <2>1, EmitAdvances
  <2>4. EmittedScope(c.scopes[n], op, operands) \in CompilationScope
    <3> HIDE DEF op, operands
    <3> QED BY <1>8, <2>1, EmitAdvances
  <2>5. CurrentScope(c) = c.scopes[n]
    BY TopFacts
  <2> HIDE DEF y
  <2> QED BY <2>2, <2>3, <2>4, <2>5 DEF OnlyScope, Here, EmittedScope
<1>11. s0.ins = mid /\ s0.last.op = op /\ s0.previous = c.scopes[n].last
  BY DEF EmittedScope
<1>12. u.do = "end" /\ u.jump = Len(ins) /\ u.at = at /\ u.to = at
  BY DEF DoEnd
<1>13. todo' = Replaced(todo, tasks)
  BY <1>1, <1>10
<1>14. s.ins = new /\ s.last.op = op
  BY <1>11 DEF PatchedScope
<1> HIDE DEF s, s0, e, mid, new, a, u, P, d, ins, operands, y
<1>15. /\ CodeOK(mid, e, PJ \cup {Len(ins)}) /\ Starts(mid, e) = Starts(ins, d) \cup {Len(ins)}
       /\ Len(ins) \notin PJ /\ Len(ins) \notin Starts(ins, d) /\ OpAt(mid, Len(ins)) = op
       /\ e[Len(ins)] = at /\ e[Len(mid)] = at - 1
       /\ e = Marks(d, Len(mid), at - 1)
       /\ OpAt(mid, j) = "OpJumpNotTruthy" /\ e[j] = at
       /\ \A p \in Starts(ins, d) : SameAt(ins, mid, p)
  <2>1. /\ CodeOK(mid, e, PJ \cup {Len(ins)}) /\ Starts(mid, e) = Starts(ins, d) \cup {Len(ins)}
        /\ Len(ins) \notin PJ /\ Len(ins) \notin Starts(ins, d) /\ OpAt(mid, Len(ins)) = op
        /\ e[Len(ins)] = d[Len(ins)] /\ e[Len(mid)] = at - 1
        /\ e = Marks(d, Len(mid), at - 1)
        /\ \A p \in Starts(ins, d) : SameAt(ins, mid, p) /\ e[p] = d[p]
    BY <1>9 DEF JumpEmitted
  <2>2. SameAt(ins, mid, j) /\ e[j] = d[j]
    BY <1>3, <2>1
  <2> QED BY <1>3, <1>6, <2>1, <2>2 DEF SameAt
<1> DEFINE Q == P \cup {Len(ins)}
<1>16. /\ CodeOK(new, e, Q) /\ Starts(new, e) = Starts(mid, e)
       /\ new \in Seq(ByteValues) /\ Len(new) = Len(mid) /\ OpAt(new, j) = "OpJumpNotTruthy"
       /\ \A r \in Starts(mid, e) \ {j} : SameAt(mid, new, r)
  <2> DEFINE R == PJ \cup {Len(ins)}
             opj == "OpJumpNotTruthy"
  <2>1. CodeOK(mid, e, R) /\ j \in R /\ opj = OpAt(mid, j) /\ Fit(opj, << Len(mid) >>)
        /\ e[Len(mid)] = e[j] - (IF opj = "OpJump" THEN 0 ELSE 1) /\ new = PatchedCode(mid, j)
    BY <1>1, <1>10, <1>15 DEF new
  <2>2. R \ {j} = Q
    BY <1>6, <1>15
  <2> HIDE DEF R, opj
  <2>3. /\ CodeOK(new, e, R \ {j}) /\ Starts(new, e) = Starts(mid, e)
        /\ new \in Seq(ByteValues) /\ Len(new) = Len(mid) /\ OpAt(new, j) = opj
        /\ \A r \in Starts(mid, e) \ {j} : SameAt(mid, new, r)
    <3>1. Repatched(mid, e, R, j, opj, new)
      BY <2>1, PatchKeepsCode
    <3> QED BY <3>1 DEF Repatched
  <2> QED BY <2>2, <2>3 DEF opj
<1>17. Advances(c, c', n, s) /\ Here(c') = Len(new)
  <2>1. new = PatchedCode(s0.ins, j)
    BY <1>11 DEF new
  <2>2. Advances(c, c', n, s) /\ OnlyScope(y, c', s)
    BY <1>1, <1>10, <1>16, <2>1, PatchAdvances DEF s
  <2> QED BY <1>14, <2>2 DEF OnlyScope, Here
<1>18. Grows(c, c', n)
  <2>1. n \in 1..n
    BY <1>6
  <2> QED BY <1>17, <2>1 DEF Advances
<1>19. Known(c', n, ins, d, PJ, mid, e)
  BY <1>7, <1>8, <1>9, <1>18, JumpKeepsCode DEF ins, d
<1>20. ASSUME NEW p \in Starts(new, e) PROVE Exists(c', n, OpAt(new, p), ArgsAt(new, p))
  <2>1. CASE p = j
    BY <1>16, <2>1 DEF Exists
  <2>2. CASE p # j
    <3>1. SameAt(mid, new, p) /\ p \in Starts(mid, e)
      BY <1>16, <1>20, <2>2
    <3> QED BY <1>19, <3>1 DEF Known, SameAt
  <2> QED BY <2>1, <2>2
<1>21. ASSUME NEW i \in P PROVE JumpKept(ins, d, new, e, i)
  <2>1. JumpKept(ins, d, mid, e, i) /\ i # j
    BY <1>6, <1>19 DEF Known
  <2>2. SameAt(mid, new, i)
    BY <1>16, <2>1 DEF JumpKept
  <2> QED BY <1>16, <2>1, <2>2 DEF JumpKept, SameAt
<1>22. AreBlock(c', n, new, e, a, at - 1)
  <2> HIDE DEF n
  <2> QED BY <1>3, <1>4, AlternativeTasks DEF a
<1>23. TaskOK(c', n, new, e, u) /\ Jumps(u) /\ ~ EndsStatement(u)
  <2>1. Len(ins) \in Starts(new, e) /\ OpAt(new, Len(ins)) = op
    <3>1. Len(ins) \in Starts(mid, e) \ {j}
      BY <1>3, <1>15
    <3>2. SameAt(mid, new, Len(ins))
      BY <1>16, <3>1
    <3> QED BY <1>15, <1>16, <3>1, <3>2 DEF SameAt
  <2> QED BY <1>2, <1>3, <1>12, <1>15, <2>1 DEF TaskOK, JumpOK, Jumps, EndsStatement
<1> HIDE DEF n
<1>24. /\ IsSeq(b) /\ b # << >> /\ Len(b) = 1 /\ b[1] = u /\ TasksOK(c', n, new, e, b)
       /\ JumpsOf(b) = {Len(ins)}
  BY <1>12, <1>23, OneTask
<1> HIDE DEF b
<1>25. /\ IsSeq(a) /\ a # << >> /\ TasksOK(c', n, new, e, a) /\ JumpsOf(a) = {}
       /\ a[1].at = at - 1 /\ a[1].do \in {"statement", "keep", "emit"} /\ ~ TakesValue(a[1])
       /\ a[Len(a)].to = at /\ a[Len(a)].do # "finish" /\ ~ EndsStatement(a[Len(a)])
  <2>1. /\ IsSeq(a) /\ a # << >> /\ TasksOK(c', n, new, e, a) /\ JumpsOf(a) = {}
        /\ a[1].at = at - 1 /\ a[1].do \in {"statement", "keep", "emit"} /\ ~ TakesValue(a[1])
        /\ a[Len(a)].to = (at - 1) + 1 /\ a[Len(a)].do # "finish" /\ ~ EndsStatement(a[Len(a)])
    BY <1>22 DEF AreBlock
  <2> QED BY <1>4, <2>1
<1>26. Follows(a[Len(a)], b[1])
  BY <1>12, <1>24, <1>25 DEF Follows
<1>27. Behind(c', n, new, e, a, b, tasks)
  BY <1>24, <1>25, <1>26, TasksBehind
<1> HIDE DEF tasks
<1>28. /\ IsSeq(tasks) /\ tasks # << >> /\ TasksOK(c', n, new, e, tasks) /\ JumpsOf(tasks) = {Len(ins)}
       /\ tasks[Len(tasks)] = u /\ tasks[1] = a[1]
  BY <1>24, <1>25, <1>27 DEF Behind
<1>29. Marked(depth, Here(c'), at - 1) = Put(depth, n, e)
  BY <1>6, <1>15, <1>16, <1>17 DEF Marked, Put, d, n
<1>30. /\ CodeOK(s.ins, e, JumpsOf(tasks) \cup JumpsOf(Tail(Tasks)))
       /\ \A p \in Starts(s.ins, e) : Exists(c', n, OpAt(s.ins, p), ArgsAt(s.ins, p))
       /\ \A i \in JumpsOf(Tail(Tasks)) : JumpKept(c.scopes[n].ins, depth[n], s.ins, e, i)
       /\ JumpsOf(tasks) \cap JumpsOf(Tail(Tasks)) = {}
       /\ TasksOK(c', n, s.ins, e, tasks)
       /\ tasks[1].at = e[Len(s.ins)] /\ tasks[Len(tasks)].to = Task.to
  <2>1. Q = {Len(ins)} \cup P /\ Len(ins) \notin P
    BY <1>15
  <2> HIDE DEF Q
  <2> QED BY <1>3, <1>12, <1>14, <1>15, <1>16, <1>20, <1>21, <1>25, <1>28, <2>1 DEF P, ins, d
<1>31. /\ EndsStatement(tasks[Len(tasks)]) <=> EndsStatement(Task)
       /\ tasks[Len(tasks)].do # "finish" /\ s.last.op \notin {"OpPop", "OpReturnValue"}
  BY <1>5, <1>12, <1>14, <1>23, <1>28
<1>32. n = Len(todo) /\ Tasks = todo[n] /\ Tasks # << >> /\ Tasks[1] = Task /\ Task.do # "finish"
  BY <1>1, <1>2 DEF n
<1>33. Good(c', Replaced(todo, tasks), Put(depth, n, e))
  BY <1>17, <1>28, <1>30, <1>31, <1>32, HeadSplit
<1> QED BY <1>1, <1>13, <1>29, <1>33

(* compiler.go:201-202: the jump over the alternative goes behind it.      *)
LEMMA EndStep ==
  ASSUME Good(c, todo, depth), End, doubts' = {}
  PROVE  Good(c', todo', depth')
<1> DEFINE n  == Len(todo)
           at == Task.at
           j  == Task.jump
           s0  == c.scopes[n]
           ins == s0.ins
           d   == depth[n]
           P   == JumpsOf(Tail(Tasks))
           PJ  == P \cup {j}
           new == PatchedCode(ins, j)
           s   == PatchedScope(s0, new)
<1>1. /\ Tasks # << >> /\ Task.do = "end" /\ c' = JumpHere(c, j) /\ depth' = depth
      /\ todo' = Replaced(todo, << >>) /\ Fit("OpJump", << Here(c) >>)
  <2>1. CutOff("OpJump", << Here(c) >>) = {}
    BY DEF End
  <2>2. Fit("OpJump", << Here(c) >>)
    BY <2>1 DEF CutOff
  <2> QED BY <2>2 DEF End, Has
<1>2. /\ Tasks = todo[n] /\ Task = Tasks[1] /\ at \in Nat /\ Task.to \in Nat
      /\ TaskOK(c, n, ins, d, Task)
  BY <1>1, FirstTask
<1>3. /\ Task.to = at /\ j \in Starts(ins, d) /\ OpAt(ins, j) = "OpJump" /\ d[j] = at
  BY <1>1, <1>2 DEF TaskOK, JumpOK
<1>4. Jumps(Task) /\ ~ EndsStatement(Task) /\ TakesValue(Task)
  BY <1>1 DEF Jumps, EndsStatement, TakesValue
<1>5. /\ n \in Nat /\ n >= 1 /\ Len(depth) = n /\ CodeOK(ins, d, PJ) /\ at = d[Len(ins)]
      /\ LastOK(s0, d, Tasks) /\ j \notin P
      /\ Tail(Tasks) # << >> => Follows(Task, Tail(Tasks)[1])
  <2>1. Tasks = todo[Len(todo)] /\ Tasks # << >>
    BY <1>1, <1>2
  <2>2. /\ Task.jump \in JumpsOf(Tasks) \ JumpsOf(Tail(Tasks))
        /\ JumpsOf(Tasks) = JumpsOf(Tail(Tasks)) \cup {Task.jump}
    BY <1>2, <1>4, <2>1, HeadFacts
  <2>3. /\ n \in Nat /\ n >= 1 /\ Len(depth) = n /\ CodeOK(ins, d, JumpsOf(Tasks)) /\ at = d[Len(ins)]
        /\ LastOK(s0, d, Tasks) /\ (Tail(Tasks) # << >> => Follows(Task, Tail(Tasks)[1]))
    BY <1>2, <2>1, HeadFacts
  <2> QED BY <2>2, <2>3
<1>6. CurrentScope(c) = s0 /\ s0 \in CompilationScope /\ Here(c) = Len(ins)
  BY TopFacts DEF Here
<1>7. s.ins = new /\ s.last = s0.last /\ s.previous = s0.previous
  BY DEF PatchedScope
<1> HIDE DEF s, new, ins, d, s0, P
<1>8. /\ CodeOK(new, d, P) /\ Starts(new, d) = Starts(ins, d)
      /\ new \in Seq(ByteValues) /\ Len(new) = Len(ins) /\ OpAt(new, j) = "OpJump"
      /\ \A r \in Starts(ins, d) \ {j} : SameAt(ins, new, r)
  <2> DEFINE op == "OpJump"
  <2>1. /\ CodeOK(ins, d, PJ) /\ j \in PJ /\ op = OpAt(ins, j) /\ Fit(op, << Len(ins) >>)
        /\ d[Len(ins)] = d[j] - (IF op = "OpJump" THEN 0 ELSE 1) /\ new = PatchedCode(ins, j)
    BY <1>1, <1>2, <1>3, <1>5, <1>6 DEF new
  <2>2. PJ \ {j} = P
    BY <1>5
  <2> HIDE DEF PJ, op
  <2>3. Repatched(ins, d, PJ, j, op, new)
    BY <2>1, PatchKeepsCode
  <2> QED BY <2>2, <2>3 DEF Repatched, op
<1>9. Advances(c, c', n, s)
  <2>1. new = PatchedCode(s0.ins, j) /\ Advances(c, c, n, s0)
    BY NoAdvance DEF new, ins, s0
  <2> QED BY <1>1, <1>6, <1>8, <2>1, PatchAdvances DEF s
<1>10. Grows(c, c', n)
  <2>1. n \in 1..n
    BY <1>5
  <2> QED BY <1>9, <2>1 DEF Advances
<1>11. ASSUME NEW p \in Starts(new, d) PROVE Exists(c', n, OpAt(new, p), ArgsAt(new, p))
  <2>1. CASE p = j
    BY <1>8, <2>1 DEF Exists
  <2>2. CASE p # j
    <3>1. p \in Starts(c.scopes[n].ins, depth[n]) /\ SameAt(c.scopes[n].ins, new, p)
      BY <1>8, <1>11, <2>2 DEF ins, d, s0
    <3> QED BY <1>10, <3>1, StartsExist
  <2> QED BY <2>1, <2>2
<1>12. ASSUME NEW i \in P PROVE JumpKept(ins, d, new, d, i)
  <2>1. i \in Starts(new, d) /\ i # j
    BY <1>5, <1>8, <1>12, CodeFacts
  <2>2. SameAt(ins, new, i)
    BY <1>8, <2>1
  <2> QED BY <2>1, <2>2 DEF JumpKept, SameAt
<1>13. LastOK(s, d, Tail(Tasks))
  <2>1. s.last.op = "OpPop" => s.previous.op # "OpPop"
    BY <1>5, <1>7 DEF LastOK
  <2>2. Tail(Tasks) # << >> => Tail(Tasks)[1].do \notin {"keep", "finish"}
    BY <1>4, <1>5 DEF Follows
  <2>3. s.last.op # "OpPop"
    BY <1>1, <1>2, <1>4, <1>5, <1>7 DEF LastOK
  <2> QED BY <2>1, <2>2, <2>3 DEF LastOK
<1>14. depth = Put(depth, Len(todo), d)
  <2>1. IsSeq(depth) /\ n \in 1..Len(depth)
    BY <1>5 DEF Good
  <2> QED BY <2>1, SameElements DEF d
<1>15. /\ CodeOK(s.ins, d, JumpsOf(Tail(Tasks)))
       /\ \A p \in Starts(s.ins, d) : Exists(c', n, OpAt(s.ins, p), ArgsAt(s.ins, p))
       /\ \A i \in JumpsOf(Tail(Tasks)) : JumpKept(c.scopes[n].ins, depth[n], s.ins, d, i)
       /\ d[Len(s.ins)] = Task.to
  BY <1>3, <1>5, <1>7, <1>8, <1>11, <1>12 DEF P, ins, d, s0
<1> HIDE DEF n
<1>16. n = Len(todo) /\ Tasks = todo[n] /\ Tasks # << >> /\ Tasks[1] = Task /\ Task.do # "finish"
  BY <1>1, <1>2 DEF n
<1>17. Good(c', Replaced(todo, << >>), depth)
  BY <1>9, <1>13, <1>14, <1>15, <1>16, HeadDone
<1> QED BY <1>1, <1>17

(* A block that ends in a return is left as it is: behind it the depth is  *)
(* what is wanted, for nothing leads there.                                *)
LEMMA KeepReturn ==
  ASSUME Good(c, todo, depth), Has("keep"), LastInstructionIs(c, "OpReturnValue"),
         c' = c, depth' = Marked(depth, Here(c'), Task.to)
  PROVE  Good(c', Replaced(todo, << >>), depth')
<1> DEFINE n  == Len(todo)
           s   == c.scopes[n]
           ins == s.ins
           d   == depth[n]
           P   == JumpsOf(Tail(Tasks))
           e   == Marks(d, Len(ins), Task.to)
           p   == s.last.pos
<1>1. Tasks # << >> /\ Task.do = "keep"
  BY DEF Has
<1>2. /\ Tasks = todo[n] /\ Task = Tasks[1] /\ Task.to \in Nat
  BY <1>1, FirstTask
<1>3. ~ Jumps(Task) /\ ~ EndsStatement(Task)
  BY <1>1 DEF Jumps, EndsStatement
<1>4. /\ n \in Nat /\ n >= 1 /\ Len(depth) = n /\ CodeOK(ins, d, P)
      /\ LastOK(s, d, Tasks) /\ JumpsOf(Tasks) = P
      /\ Tail(Tasks) # << >> => Follows(Task, Tail(Tasks)[1])
  <2>1. Tasks = todo[Len(todo)] /\ Tasks # << >>
    BY <1>1, <1>2
  <2> QED BY <1>2, <1>3, <2>1, HeadFacts
<1>5. CurrentScope(c) = s /\ Here(c) = Len(ins)
  BY TopFacts DEF Here
<1>6. s.last.op = "OpReturnValue"
  BY <1>5 DEF LastInstructionIs
<1>7. LastIsTrue(s, d, P)
  BY <1>1, <1>2, <1>4, <1>6 DEF LastOK
<1>8. /\ p \in Starts(ins, d) /\ OpAt(ins, p) = "OpReturnValue" /\ After(ins, p) = Len(ins)
      /\ \A r \in Starts(ins, d) \ (P \cup {p}) : Len(ins) \notin Successors(ins, r)
  BY <1>6, <1>7 DEF LastIsTrue
<1> HIDE DEF p, P, d, e
<1>9. /\ CodeOK(ins, e, P) /\ Starts(ins, e) = Starts(ins, d) /\ e[Len(ins)] = Task.to
      /\ \A r \in Starts(ins, d) : e[r] = d[r]
  <2> HIDE DEF ins
  <2> QED BY <1>2, <1>4, <1>8, MarkEnd DEF e
<1>10. Advances(c, c, n, s)
  BY NoAdvance
<1>11. ScopeOK(c, n, s, d, Tasks)
  BY <1>2, TopFacts DEF d
<1> HIDE DEF ins, s
<1>12. ASSUME NEW i \in P PROVE JumpKept(ins, d, ins, e, i)
  <2>1. i \in Starts(ins, d)
    BY <1>4, <1>12, CodeFacts
  <2> QED BY <1>9, <2>1 DEF JumpKept
<1>13. LastOK(s, e, Tail(Tasks))
  <2>1. s.last.op = "OpPop" => s.previous.op # "OpPop"
    BY <1>4 DEF LastOK
  <2>2. Tail(Tasks) # << >> => Tail(Tasks)[1].do \notin {"keep", "finish"}
    BY <1>3, <1>4 DEF Follows
  <2> QED BY <1>6, <2>1, <2>2 DEF LastOK
<1>14. /\ CodeOK(s.ins, e, JumpsOf(Tail(Tasks)))
       /\ \A r \in Starts(s.ins, e) : Exists(c, n, OpAt(s.ins, r), ArgsAt(s.ins, r))
       /\ \A i \in JumpsOf(Tail(Tasks)) : JumpKept(c.scopes[n].ins, depth[n], s.ins, e, i)
       /\ e[Len(s.ins)] = Task.to
  BY <1>9, <1>11, <1>12 DEF P, ins, d, s, ScopeOK
<1>15. Marked(depth, Here(c'), Task.to) = Put(depth, n, e)
  BY <1>4, <1>5 DEF Marked, Put, d, e
<1> HIDE DEF n
<1>16. n = Len(todo) /\ Tasks = todo[n] /\ Tasks # << >> /\ Tasks[1] = Task /\ Task.do # "finish"
  BY <1>1, <1>2 DEF n
<1>17. Good(c, Replaced(todo, << >>), Put(depth, n, e))
  BY <1>10, <1>13, <1>14, <1>16, HeadDone
<1> QED BY <1>15, <1>17

(* The last OpPop of a block is removed.                                   *)
LEMMA KeepPopped ==
  ASSUME Good(c, todo, depth), Has("keep"), LastInstructionIs(c, "OpPop"),
         c' = RemoveLastInstruction(c), depth' = Marked(depth, Here(c'), Task.to)
  PROVE  Good(c', Replaced(todo, << >>), depth')
<1> DEFINE n  == Len(todo)
           s0  == c.scopes[n]
           ins == s0.ins
           d   == depth[n]
           P   == JumpsOf(Tail(Tasks))
           p   == s0.last.pos
           new == SubSeq(ins, 1, p)
           e   == Marks(d, p, d[p])
           s   == [ins |-> new, last |-> s0.previous, previous |-> NoInstruction]
<1>1. Tasks # << >> /\ Task.do = "keep"
  BY DEF Has
<1>2. /\ Tasks = todo[n] /\ Task = Tasks[1] /\ Task.at \in Nat /\ Task.to \in Nat
      /\ TaskOK(c, n, ins, d, Task)
  BY <1>1, FirstTask
<1>3. ~ Jumps(Task) /\ ~ EndsStatement(Task) /\ Task.to = Task.at + 1
  BY <1>1, <1>2 DEF Jumps, EndsStatement, TaskOK
<1>4. /\ n \in Nat /\ n >= 1 /\ Len(depth) = n /\ CodeOK(ins, d, P) /\ Task.at = d[Len(ins)]
      /\ LastOK(s0, d, Tasks) /\ JumpsOf(Tasks) = P
      /\ Tail(Tasks) # << >> => Follows(Task, Tail(Tasks)[1])
  <2>1. Tasks = todo[Len(todo)] /\ Tasks # << >>
    BY <1>1, <1>2
  <2> QED BY <1>2, <1>3, <2>1, HeadFacts
<1>5. CurrentScope(c) = s0 /\ s0 \in CompilationScope
  BY TopFacts
<1>6. s0.last.op = "OpPop" /\ c' = SetScope(c, s)
  BY <1>5 DEF LastInstructionIs, RemoveLastInstruction
<1>7. LastIsTrue(s0, d, P) /\ s0.previous.op # "OpPop"
  BY <1>1, <1>2, <1>4, <1>6 DEF LastOK
<1>8. /\ p \in Starts(ins, d) /\ OpAt(ins, p) = "OpPop" /\ After(ins, p) = Len(ins)
      /\ \A r \in Starts(ins, d) \ (P \cup {p}) : Len(ins) \notin Successors(ins, r)
  BY <1>6, <1>7 DEF LastIsTrue
<1>9. s.ins = new /\ s.last = s0.previous
  OBVIOUS
<1> HIDE DEF new, e, p, P, d
<1>10. /\ CodeOK(new, e, P) /\ Len(new) = p /\ Starts(new, e) = Starts(ins, d) \ {p}
       /\ e[p] = d[p] /\ d[p] = d[Len(ins)] + 1
       /\ \A r \in Starts(ins, d) \ {p} : SameAt(ins, new, r) /\ e[r] = d[r]
  <2>1. new = SubSeq(ins, 1, p) /\ e = Marks(d, p, d[p])
    BY DEF new, e
  <2> HIDE DEF ins
  <2>2. Shortened(ins, d, P, p, new, e)
    <3>1. Shortened(ins, d, P, p, SubSeq(ins, 1, p), Marks(d, p, d[p]))
      BY <1>4, <1>8, CutCode
    <3> QED BY <2>1, <3>1
  <2> QED BY <2>2 DEF Shortened
<1>11. d[p] = Task.to
  BY <1>2, <1>3, <1>4, <1>10
<1>12. s \in CompilationScope
  <2>1. new \in Seq(ByteValues)
    BY <1>10 DEF CodeOK
  <2>2. NoInstruction \in EmittedInstruction
    <3>1. "OpConstant" \in OpcodeNames
      BY DEF OpcodeNames, Opcodes
    <3> QED BY <3>1 DEF NoInstruction, EmittedInstruction
  <2> QED BY <1>5, <2>1, <2>2 DEF CompilationScope
<1> HIDE DEF s
<1>13. Advances(c, c', n, s) /\ Here(c') = p
  <2>1. Advances(c, c, n, s0)
    BY NoAdvance
  <2>2. Advances(c, c', n, s) /\ CurrentScope(c') = s
    BY <1>5, <1>6, <1>12, <2>1, ScopeAdvances
  <2> QED BY <1>9, <1>10, <2>2 DEF Here
<1>14. Grows(c, c', n)
  <2>1. n \in 1..n
    BY <1>4
  <2> QED BY <1>13, <2>1 DEF Advances
<1>15. ASSUME NEW r \in Starts(new, e) PROVE Exists(c', n, OpAt(new, r), ArgsAt(new, r))
  <2>1. r \in Starts(c.scopes[n].ins, depth[n]) /\ SameAt(c.scopes[n].ins, new, r)
    BY <1>10, <1>15 DEF d
  <2> QED BY <1>14, <2>1, StartsExist
<1>16. ASSUME NEW i \in P PROVE JumpKept(ins, d, new, e, i)
  <2>1. i \in Starts(new, e)
    BY <1>10, <1>16, CodeFacts
  <2>2. SameAt(ins, new, i) /\ e[i] = d[i]
    BY <1>10, <2>1
  <2> QED BY <2>1, <2>2 DEF JumpKept, SameAt
<1>17. LastOK(s, e, Tail(Tasks))
  <2>1. Tail(Tasks) # << >> => Tail(Tasks)[1].do \notin {"keep", "finish"}
    BY <1>3, <1>4 DEF Follows
  <2>2. s.last.op # "OpPop"
    BY <1>7, <1>9
  <2> QED BY <2>1, <2>2 DEF LastOK
<1>18. /\ CodeOK(s.ins, e, JumpsOf(Tail(Tasks)))
       /\ \A r \in Starts(s.ins, e) : Exists(c', n, OpAt(s.ins, r), ArgsAt(s.ins, r))
       /\ \A i \in JumpsOf(Tail(Tasks)) : JumpKept(c.scopes[n].ins, depth[n], s.ins, e, i)
       /\ e[Len(s.ins)] = Task.to
  BY <1>9, <1>10, <1>11, <1>15, <1>16 DEF P, d
<1>19. Marked(depth, Here(c'), Task.to) = Put(depth, n, e)
  BY <1>4, <1>11, <1>13 DEF Marked, Put, d, e
<1> HIDE DEF n
<1>20. n = Len(todo) /\ Tasks = todo[n] /\ Tasks # << >> /\ Tasks[1] = Task /\ Task.do # "finish"
  BY <1>1, <1>2 DEF n
<1>21. Good(c', Replaced(todo, << >>), Put(depth, n, e))
  BY <1>13, <1>17, <1>18, <1>20, HeadDone
<1> QED BY <1>19, <1>21

(* compiler.go:182-184, 195-197: a block leaves its value.                 *)
LEMMA KeepStep ==
  ASSUME Good(c, todo, depth), Keep, doubts' = {}
  PROVE  Good(c', todo', depth')
<1>1. /\ Has("keep") /\ ~ c.err /\ c' = KeepLastValue(c) /\ todo' = Replaced(todo, << >>)
      /\ depth' = Marked(depth, Here(c'), Task.to)
      /\ LastInstructionIs(c, "OpPop") \/ LastInstructionIs(c, "OpReturnValue")
  BY DEF Keep, Has
<1>2. CASE LastInstructionIs(c, "OpPop")
  <2>1. c' = RemoveLastInstruction(c)
    BY <1>1, <1>2 DEF KeepLastValue
  <2> QED BY <1>1, <1>2, <2>1, KeepPopped
<1>3. CASE LastInstructionIs(c, "OpReturnValue")
  <2>1. ~ LastInstructionIs(c, "OpPop")
    BY <1>3 DEF LastInstructionIs
  <2>2. c' = c
    BY <1>1, <2>1 DEF KeepLastValue
  <2> QED BY <1>1, <1>3, <2>2, KeepReturn
<1> QED BY <1>1, <1>2, <1>3

-----------------------------------------------------------------------------
(* Scopes are entered and left.                                            *)

(* A list and one element behind it.                                       *)
Extends(list, n, v, list2) ==
  /\ IsSeq(list2) /\ n \in Nat /\ Len(list2) = n + 1 /\ list2[n + 1] = v
  /\ \A i \in 1..n : list2[i] = list[i]

(* Append extends a list by one element.                                   *)
LEMMA Appended ==
  ASSUME NEW list, IsSeq(list), NEW v, NEW n, n = Len(list), NEW list2, list2 = Append(list, v)
  PROVE  Extends(list, n, v, list2)
<1>1. PICK S : list \in Seq(S)
  BY DEF IsSeq
<1> DEFINE T == S \cup {v}
<1>2. list \in Seq(T) /\ v \in T
  BY <1>1
<1> HIDE DEF T
<1>3. Append(list, v) \in Seq(T) /\ n \in Nat
  BY <1>2
<1>4. Len(list2) = n + 1 /\ list2[n + 1] = v /\ \A i \in 1..n : list2[i] = list[i]
  BY <1>2
<1> QED BY <1>3, <1>4 DEF IsSeq, Extends

(* A list without its last element.                                        *)
Shortens(list, n, list2) ==
  /\ IsSeq(list2) /\ n \in Nat /\ Len(list2) = n - 1
  /\ \A i \in 1..(n - 1) : list2[i] = list[i]

(* SubSeq without the last element shortens a list.                        *)
LEMMA Shorter ==
  ASSUME NEW list, IsSeq(list), NEW n, n = Len(list), n >= 1,
         NEW list2, list2 = SubSeq(list, 1, n - 1)
  PROVE  Shortens(list, n, list2)
<1>1. PICK S : list \in Seq(S)
  BY DEF IsSeq
<1>2. n \in Nat /\ n - 1 \in Nat
  BY <1>1
<1>3. /\ list2 \in Seq(S) /\ Len(list2) = n - 1
      /\ \A i \in 1..(n - 1) : list2[i] = list[i]
  BY <1>1, <1>2
<1> QED BY <1>2, <1>3 DEF IsSeq, Shortens

(* enterScope and leaveScope change two fields.                            *)
Rescoped(x, v, w, y) ==
  IsRecord(y) /\ y.constants = x.constants /\ y.tables = w /\ y.scopes = v

(* The other fields stay.                                                  *)
LEMMA TwoFields ==
  ASSUME NEW x, IsRecord(x), NEW v, NEW w, NEW y, y = [x EXCEPT !.scopes = v, !.tables = w]
  PROVE  Rescoped(x, v, w, y)
<1>1. PICK a, b, c0 : x = [constants |-> a, tables |-> b, scopes |-> c0, err |-> FALSE]
  BY DEF IsRecord
<1>2. x.constants = a
  BY <1>1
<1>3. y = [constants |-> a, tables |-> w, scopes |-> v, err |-> FALSE]
  BY <1>1
<1> QED BY <1>2, <1>3 DEF IsRecord, Rescoped

(* Before anything is emitted.                                             *)
Start == [q \in {0} |-> 0]

(* A scope in which nothing has been emitted.                              *)
LEMMA NewScope ==
  ASSUME NEW x, NEW k \in Nat \ {0}, NEW tasks, IsSeq(tasks), JumpsOf(tasks) = {},
         TasksOK(x, k, << >>, Start, tasks), Scheduled(k, tasks, 0),
         tasks # << >> => ~ TakesValue(tasks[1])
  PROVE  /\ ScopeOK(x, k, NewCompilationScope, Start, tasks)
         /\ NewCompilationScope \in CompilationScope
<1> DEFINE s == NewCompilationScope
<1>1. s.ins = << >> /\ s.last = NoInstruction /\ s.previous = NoInstruction
  BY DEF NewCompilationScope
<1>2. NoInstruction \in EmittedInstruction /\ NoInstruction.op = "OpConstant"
  <2>1. "OpConstant" \in OpcodeNames
    BY DEF OpcodeNames, Opcodes
  <2> QED BY <2>1 DEF NoInstruction, EmittedInstruction
<1>3. s.ins \in Seq(ByteValues) /\ Len(s.ins) = 0
  BY <1>1
<1>4. s \in CompilationScope
  <2>1. << >> \in Seq(ByteValues)
    OBVIOUS
  <2> QED BY <1>2, <2>1 DEF NewCompilationScope, CompilationScope
<1> HIDE DEF s
<1>5. DOMAIN Start = {0} /\ Start[0] = 0 /\ Start \in [DOMAIN Start -> Nat]
  BY DEF Start
<1>6. Starts(s.ins, Start) = {}
  BY <1>3, <1>5 DEF Starts
<1>7. Laid(s.ins, Start)
  BY <1>3, <1>5, <1>6 DEF Laid
<1>8. CodeOK(s.ins, Start, JumpsOf(tasks))
  BY <1>3, <1>6, <1>7 DEF CodeOK
<1>9. LastOK(s, Start, tasks)
  BY <1>1, <1>2 DEF LastOK
<1>10. Scheduled(k, tasks, Start[Len(s.ins)])
  BY <1>3, <1>5
<1> QED BY <1>1, <1>4, <1>6, <1>8, <1>9, <1>10 DEF ScopeOK, s

(* The tasks of a scope that is entered.                                   *)
AreBody(x, k, list) ==
  /\ IsSeq(list) /\ list # << >> /\ TasksOK(x, k, << >>, Start, list) /\ JumpsOf(list) = {}
  /\ Scheduled(k, list, 0) /\ ~ TakesValue(list[1])

(* The body of a function, and what finishes it.                           *)
LEMMA BodyTasks ==
  ASSUME NEW e, FunctionOK(e), NEW x, NEW k \in Nat, k > 1
  PROVE  AreBody(x, k, DoStatements(e.body.statements, 0) \o << DoFinish(e) >>)
<1> DEFINE a == DoStatements(e.body.statements, 0)
           t == DoFinish(e)
           b == << t >>
           both == a \o b
<1>1. AreStatements(x, k, << >>, Start, a, 0)
  BY StatementTasks DEF FunctionOK
<1>2. t.do = "finish" /\ t.node = e /\ t.at = 0 /\ t.to = 0
  BY DEF DoFinish
<1> HIDE DEF a, t
<1>3. TaskOK(x, k, << >>, Start, t) /\ ~ Jumps(t)
  BY <1>2 DEF TaskOK, Jumps
<1>4. /\ IsSeq(b) /\ b # << >> /\ Len(b) = 1 /\ b[1] = t /\ TasksOK(x, k, << >>, Start, b)
      /\ JumpsOf(b) = {}
  BY <1>3, OneTask
<1> HIDE DEF b
<1>5. /\ IsSeq(a) /\ TasksOK(x, k, << >>, Start, a) /\ JumpsOf(a) = {}
      /\ a # << >> => /\ a[1].at = 0 /\ a[1].do = "statement"
                      /\ a[Len(a)].to = 0 /\ a[Len(a)].do = "statement"
  BY <1>1 DEF AreStatements
<1>6. a # << >> => Follows(a[Len(a)], b[1])
  BY <1>2, <1>4, <1>5 DEF Follows, EndsStatement, TakesValue
<1>7. Behind(x, k, << >>, Start, a, b, both)
  BY <1>4, <1>5, <1>6, TasksBehind
<1> HIDE DEF both
<1>8. /\ IsSeq(both) /\ both # << >> /\ TasksOK(x, k, << >>, Start, both) /\ JumpsOf(both) = {}
      /\ both[Len(both)] = t /\ both[1] = IF a = << >> THEN t ELSE a[1]
  BY <1>4, <1>7 DEF Behind
<1>9. both[1].at = 0 /\ ~ TakesValue(both[1])
  BY <1>2, <1>5, <1>8 DEF TakesValue
<1>10. Scheduled(k, both, 0)
  BY <1>2, <1>8, <1>9 DEF Scheduled
<1> QED BY <1>8, <1>9, <1>10 DEF AreBody, both, a, b, t

(* A scope is entered while the current one waits for a function.          *)
LEMMA ScopePushed ==
  ASSUME NEW x, NEW lists, NEW ds, Good(x, lists, ds), NEW n, n = Len(lists),
         lists[n] # << >>, lists[n][1].do = "expression", lists[n][1].node.node = "FunctionLiteral",
         NEW table, ChainOK(Append(x.tables, table)),
         NEW y, y = [x EXCEPT !.scopes = Append(x.scopes, NewCompilationScope),
                              !.tables = Append(x.tables, table)],
         NEW tasks, AreBody(y, n + 1, tasks),
         NEW lists2, lists2 = Append(lists, tasks), NEW ds2, ds2 = Append(ds, Start)
  PROVE  Good(y, lists2, ds2)
<1> DEFINE scopes2 == Append(x.scopes, NewCompilationScope)
           tables2 == Append(x.tables, table)
<1>1. /\ n \in Nat /\ n >= 1 /\ Len(x.scopes) = n /\ Len(ds) = n /\ Len(x.tables) = n
      /\ IsCompiler(x) /\ IsSeq(lists) /\ IsSeq(ds) /\ IsSeq(x.scopes)
  BY TopFacts
<1>2. /\ IsRecord(x) /\ x.scopes \in Seq(CompilationScope) /\ ChainOK(x.tables)
      /\ \A k \in 1..n : TableGrows(x.tables[k], x.tables[k])
      /\ Longer(x.constants, x.constants)
      /\ x.tables[1].num <= GlobalsSize /\ ConstantsFit(x.constants)
  BY CompilerFields
<1>3. IsRecord(y) /\ y.constants = x.constants /\ y.tables = tables2 /\ y.scopes = scopes2
  <2> HIDE DEF scopes2, tables2
  <2>1. y = [x EXCEPT !.scopes = scopes2, !.tables = tables2]
    BY DEF scopes2, tables2
  <2>2. Rescoped(x, scopes2, tables2, y)
    BY <1>2, <2>1, TwoFields
  <2> QED BY <2>2 DEF Rescoped
<1>4. /\ IsSeq(tasks) /\ TasksOK(y, n + 1, << >>, Start, tasks) /\ JumpsOf(tasks) = {}
      /\ Scheduled(n + 1, tasks, 0) /\ ~ TakesValue(tasks[1])
  BY DEF AreBody
<1>5. /\ ScopeOK(y, n + 1, NewCompilationScope, Start, tasks)
      /\ NewCompilationScope \in CompilationScope
  <2>1. n + 1 \in Nat \ {0}
    BY <1>1
  <2> QED BY <1>4, <2>1, NewScope
<1>6. scopes2 \in Seq(CompilationScope)
  BY <1>2, <1>5
<1> HIDE DEF scopes2, tables2
<1>7. Len(scopes2) = n + 1 /\ scopes2[n + 1] = NewCompilationScope /\ \A i \in 1..n : scopes2[i] = x.scopes[i]
  <2>1. scopes2 = Append(x.scopes, NewCompilationScope) /\ n = Len(x.scopes)
    BY <1>1 DEF scopes2
  <2>2. Extends(x.scopes, n, NewCompilationScope, scopes2)
    BY <1>1, <2>1, Appended
  <2> QED BY <2>2 DEF Extends
<1>8. Len(tables2) = n + 1 /\ \A i \in 1..n : tables2[i] = x.tables[i]
  <2>1. tables2 = Append(x.tables, table) /\ n = Len(x.tables) /\ IsSeq(x.tables)
    BY <1>1, <1>2 DEF tables2, ChainOK, Chain, IsSeq
  <2>2. Extends(x.tables, n, table, tables2)
    BY <2>1, Appended
  <2> QED BY <2>2 DEF Extends
<1>9. IsSeq(lists2) /\ Len(lists2) = n + 1 /\ lists2[n + 1] = tasks /\ \A i \in 1..n : lists2[i] = lists[i]
  <2>1. Extends(lists, n, tasks, lists2)
    BY <1>1, Appended
  <2> QED BY <2>1 DEF Extends
<1>10. IsSeq(ds2) /\ Len(ds2) = n + 1 /\ ds2[n + 1] = Start /\ \A i \in 1..n : ds2[i] = ds[i]
  <2>1. Extends(ds, n, Start, ds2)
    BY <1>1, Appended
  <2> QED BY <2>1 DEF Extends
<1>11. 1 \in 1..n /\ \A k \in 1..(n + 1) : k \in 1..n \/ k = n + 1
  BY <1>1
<1>12. IsCompiler(y)
  <2>1. ChainOK(y.tables) /\ y.tables[1] = x.tables[1]
    BY <1>3, <1>8, <1>11 DEF tables2
  <2> QED BY <1>1, <1>3, <1>6, <2>1 DEF IsCompiler
<1>13. ASSUME NEW k \in 1..(n + 1)
       PROVE  IsSeq(lists2[k]) /\ ScopeOK(y, k, y.scopes[k], ds2[k], lists2[k])
  <2>1. CASE k = n + 1
    BY <1>3, <1>4, <1>5, <1>7, <1>9, <1>10, <2>1
  <2>2. CASE k \in 1..n
    <3>1. IsSeq(lists[k]) /\ ScopeOK(x, k, x.scopes[k], ds[k], lists[k])
      BY <2>2 DEF Good, ScopesOK
    <3>2. Grows(x, y, k)
      BY <1>2, <1>3, <1>8, <1>11, <2>2 DEF Grows
    <3>3. ScopeOK(y, k, x.scopes[k], ds[k], lists[k])
      BY <3>1, <3>2, ScopeGrows
    <3> QED BY <1>3, <1>7, <1>9, <1>10, <2>2, <3>1, <3>3
  <2> QED BY <1>11, <2>1, <2>2
<1>14. \A k \in 1..((n + 1) - 1) : /\ lists2[k] # << >> /\ lists2[k][1].do = "expression"
                                   /\ lists2[k][1].node.node = "FunctionLiteral"
  <2>1. \A k \in 1..((n + 1) - 1) : k \in 1..n /\ (k = n \/ k \in 1..(n - 1))
    BY <1>1
  <2>2. \A k \in 1..(n - 1) : /\ lists[k] # << >> /\ lists[k][1].do = "expression"
                              /\ lists[k][1].node.node = "FunctionLiteral"
    BY DEF Good, ScopesOK
  <2> QED BY <1>9, <2>1, <2>2
<1>15. n + 1 >= 1 /\ y.tables[1].num <= GlobalsSize
  BY <1>1, <1>2, <1>3, <1>8, <1>11
<1>16. ScopesOK(y, lists2, ds2)
  BY <1>2, <1>3, <1>7, <1>8, <1>9, <1>10, <1>13, <1>14, <1>15 DEF ScopesOK, ConstantsFit
<1> QED BY <1>9, <1>10, <1>12, <1>13, <1>16 DEF Good

(* compiler.go:265-275: the body of a function has a scope of its own.     *)
LEMMA FunctionStep ==
  ASSUME Good(c, todo, depth), OnFunction
  PROVE  Good(c', todo', depth')
<1> DEFINE n == Len(todo)
           table == FunctionTable(Node.fname, Node.parameters)
           tasks == DoStatements(Node.body.statements, 0) \o << DoFinish(Node) >>
<1>1. Meets("expression", {"FunctionLiteral"})
  BY DEF OnFunction
<1>2. /\ Tasks # << >> /\ Task.do = "expression" /\ Node.node = "FunctionLiteral" /\ ExpressionOK(Node)
  BY <1>1, MetNode
<1>3. Tasks = todo[n] /\ Task = Tasks[1] /\ n \in Nat /\ n >= 1
  BY <1>2, FirstTask
<1>4. FunctionOK(Node)
  BY <1>2 DEF ExpressionOK
<1>5. ChainOK(Append(c.tables, table))
  <2>1. ChainOK(c.tables)
    BY CompilerFields
  <2> DEFINE ps == Node.parameters
  <2>2. ps \in Seq(Names)
    BY <1>4 DEF FunctionOK
  <2> HIDE DEF ps
  <2>3. Len(ps) \in Nat /\ ps \in [1..Len(ps) -> Names]
    BY <2>2
  <2>4. Len(Node.parameters) \in Nat /\ Node.parameters \in [1..Len(Node.parameters) -> Names]
    BY <2>3 DEF ps
  <2> QED BY <2>1, <2>4, EnterKeepsChain
<1>6. /\ c' = [c EXCEPT !.scopes = Append(c.scopes, NewCompilationScope),
                        !.tables = Append(c.tables, table)]
      /\ todo' = Append(todo, tasks) /\ depth' = Append(depth, Start)
  BY DEF OnFunction, EnterScope, Start
<1>7. AreBody(c', n + 1, tasks)
  <2>1. n + 1 \in Nat /\ n + 1 > 1
    BY <1>3
  <2> QED BY <1>4, <2>1, BodyTasks
<1>8. n = Len(todo) /\ todo[n] # << >> /\ todo[n][1].do = "expression"
      /\ todo[n][1].node.node = "FunctionLiteral"
  BY <1>2, <1>3 DEF Node
<1> HIDE DEF n, table, tasks
<1> QED BY <1>5, <1>6, <1>7, <1>8, ScopePushed

(* The code of a function that is finished: y is x but for a current scope *)
(* s, whose code returns on every path.                                    *)
Returns(x, n, ins, e) ==
  /\ Closed(ins, e)
  /\ \A p \in Starts(ins, e) :
       OpAt(ins, p) = "OpReturn" \/ Exists(x, n, OpAt(ins, p), ArgsAt(ins, p))

Finishes(x, y, n, s) ==
  /\ Advances(x, y, n, s) /\ OnlyScope(x, y, s)
  /\ \E e : Returns(x, n, s.ins, e)

(* What is known when the body of a function is compiled.                  *)
BodyDone(x, n, s, d) ==
  /\ n \in Nat /\ n > 1 /\ CurrentScope(x) = s /\ s \in CompilationScope
  /\ CodeOK(s.ins, d, {})
  /\ \A p \in Starts(s.ins, d) : Exists(x, n, OpAt(s.ins, p), ArgsAt(s.ins, p))
  /\ d[Len(s.ins)] = 0
  /\ s.last.op \notin {"OpPop", "OpReturnValue"} \/ LastIsTrue(s, d, {})

(* When the literal's turn comes again, its body is compiled: nothing is   *)
(* pending in it, and its code ends with no value on the stack.            *)
LEMMA FinishFacts ==
  ASSUME Good(c, todo, depth), Has("finish"), NEW n, n = Len(todo)
  PROVE  /\ BodyDone(c, n, c.scopes[n], depth[n])
         /\ Tasks # << >> /\ Tasks = todo[n] /\ Task = Tasks[1] /\ FunctionOK(Node)
<1> DEFINE s == c.scopes[n]
           d == depth[n]
<1>1. Tasks # << >> /\ Task.do = "finish"
  BY DEF Has
<1>2. Tasks = todo[n] /\ Task = Tasks[1]
  BY <1>1, FirstTask
<1>3. TaskOK(c, n, s.ins, d, Task)
  BY <1>1, FirstTask
<1>4. FunctionOK(Node) /\ Task.at = 0 /\ n > 1 /\ ~ Jumps(Task)
  BY <1>1, <1>3 DEF TaskOK, Node, Jumps
<1>5. /\ CodeOK(s.ins, d, JumpsOf(Tasks)) /\ Task.at = d[Len(s.ins)] /\ LastOK(s, d, Tasks)
      /\ JumpsOf(Tasks) = JumpsOf(Tail(Tasks))
      /\ Tail(Tasks) # << >> => Follows(Task, Tail(Tasks)[1])
  <2>1. Tasks = todo[n] /\ Tasks # << >> /\ n = Len(todo)
    BY <1>1, <1>2
  <2> HIDE DEF s, d
  <2>2. CodeOK(c.scopes[n].ins, depth[n], JumpsOf(Tasks)) /\ LastOK(c.scopes[n], depth[n], Tasks)
    BY <2>1, HeadFacts
  <2>3. Tasks[1].at = depth[n][Len(c.scopes[n].ins)]
    BY <2>1, HeadFacts
  <2>4. ~ Jumps(Tasks[1]) => JumpsOf(Tasks) = JumpsOf(Tail(Tasks))
    BY <2>1, HeadFacts
  <2>5. Tail(Tasks) # << >> => Follows(Tasks[1], Tail(Tasks)[1])
    BY <2>1, HeadFacts
  <2> QED BY <1>2, <1>4, <2>2, <2>3, <2>4, <2>5 DEF s, d
<1>6. Tail(Tasks) = << >>
  BY <1>1, <1>5 DEF Follows
<1>7. JumpsOf(<< >>) = {}
  BY NoJumps
<1>8. n \in Nat /\ CurrentScope(c) = s /\ s \in CompilationScope /\ ScopeOK(c, n, s, d, Tasks)
  BY <1>2, TopFacts
<1> HIDE DEF s, d
<1>9. JumpsOf(Tasks) = {}
  BY <1>5, <1>6, <1>7
<1>10. s.last.op \notin {"OpPop", "OpReturnValue"} \/ LastIsTrue(s, d, {})
  BY <1>1, <1>2, <1>5, <1>9 DEF LastOK
<1>11. BodyDone(c, n, s, d)
  BY <1>4, <1>5, <1>8, <1>9, <1>10 DEF BodyDone, ScopeOK
<1> QED BY <1>1, <1>2, <1>4, <1>11 DEF s, d

(* A scope with another code and another last opcode.                      *)
LEMMA OtherLast ==
  ASSUME NEW s \in CompilationScope, NEW v, NEW op
  PROVE  [s EXCEPT !.ins = v, !.last.op = op]
         = [ins |-> v, last |-> [op |-> op, pos |-> s.last.pos], previous |-> s.previous]
<1>1. PICK a, b, q, w : s = [ins |-> a, last |-> [op |-> b, pos |-> q], previous |-> w]
  <2>1. s = [ins |-> s.ins, last |-> s.last, previous |-> s.previous] /\ s.last \in EmittedInstruction
    BY DEF CompilationScope
  <2>2. s.last = [op |-> s.last.op, pos |-> s.last.pos]
    BY <2>1 DEF EmittedInstruction
  <2>3. s = [ins |-> s.ins, last |-> [op |-> s.last.op, pos |-> s.last.pos], previous |-> s.previous]
    BY <2>1, <2>2
  <2> QED BY <2>3
<1>2. s.last.pos = q /\ s.previous = w
  BY <1>1
<1> DEFINE s1 == [s EXCEPT !.ins = v]
<1>3. [s EXCEPT !.ins = v, !.last.op = op] = [s1 EXCEPT !.last.op = op]
  BY <1>1
<1>4. s1 = [ins |-> v, last |-> [op |-> b, pos |-> q], previous |-> w]
  BY <1>1
<1> HIDE DEF s1
<1>5. [s1 EXCEPT !.last.op = op] = [ins |-> v, last |-> [op |-> op, pos |-> q], previous |-> w]
  BY <1>4
<1> QED BY <1>2, <1>3, <1>5

(* compiler.go:279-281: the value of the last statement is returned.       *)
LEMMA FinishPopped ==
  ASSUME NEW x, NEW lists, NEW ds, Good(x, lists, ds), NEW n, n = Len(lists), NEW s, s = x.scopes[n],
         NEW d, BodyDone(x, n, s, d), LastInstructionIs(x, "OpPop"),
         NEW y, y = ReturnLastValue(x)
  PROVE  \E t : Finishes(x, y, n, t)
<1> DEFINE ins == s.ins
           p == s.last.pos
           new == ReplaceInstruction(ins, p, Make("OpReturnValue", << >>))
           t == [ins |-> new, last |-> [op |-> "OpReturnValue", pos |-> p], previous |-> s.previous]
<1>1. /\ CurrentScope(x) = s /\ s \in CompilationScope /\ CodeOK(ins, d, {})
      /\ \A q \in Starts(ins, d) : Exists(x, n, OpAt(ins, q), ArgsAt(ins, q))
      /\ s.last.op \notin {"OpPop", "OpReturnValue"} \/ LastIsTrue(s, d, {})
  BY DEF BodyDone
<1>2. s.last.op = "OpPop"
  BY <1>1 DEF LastInstructionIs
<1>3. /\ p \in Starts(ins, d) /\ OpAt(ins, p) = "OpPop" /\ After(ins, p) = Len(ins)
      /\ \A r \in Starts(ins, d) \ {p} : Len(ins) \notin Successors(ins, r)
  BY <1>1, <1>2 DEF LastIsTrue
<1>4. [s EXCEPT !.ins = new, !.last.op = "OpReturnValue"] = t
  <2> HIDE DEF new
  <2>1. \A op : [s EXCEPT !.ins = new, !.last.op = op]
                = [ins |-> new, last |-> [op |-> op, pos |-> s.last.pos], previous |-> s.previous]
    BY <1>1, OtherLast
  <2> QED BY <2>1
<1>5. y = SetScope(x, t)
  <2>1. y = SetScope(x, [s EXCEPT !.ins = new, !.last.op = "OpReturnValue"])
    BY <1>1 DEF ReturnLastValue
  <2> HIDE DEF t
  <2> QED BY <1>4, <2>1
<1>6. t.ins = new
  OBVIOUS
<1>7. /\ Closed(new, d) /\ Starts(new, d) = Starts(ins, d) /\ OpAt(new, p) = "OpReturnValue"
      /\ \A r \in Starts(ins, d) \ {p} : SameAt(ins, new, r)
  <2> HIDE DEF ins, p
  <2> QED BY <1>1, <1>3, ReturnCode
<1> HIDE DEF new
<1>8. t \in CompilationScope
  <2>1. new \in Seq(ByteValues)
    BY <1>7 DEF Closed, CodeOK
  <2>2. "OpReturnValue" \in OpcodeNames
    BY EffectOpcodes
  <2> QED BY <1>1, <2>1, <2>2 DEF CompilationScope, EmittedInstruction
<1>9. Returns(x, n, new, d)
  <2> SUFFICES ASSUME NEW r \in Starts(new, d) PROVE Exists(x, n, OpAt(new, r), ArgsAt(new, r))
    BY <1>7 DEF Returns
  <2>1. CASE r = p
    BY <1>7, <2>1 DEF Exists
  <2>2. CASE r # p
    BY <1>1, <1>7, <2>2 DEF SameAt
  <2> QED BY <2>1, <2>2
<1> HIDE DEF t
<1>10. Advances(x, y, n, t) /\ OnlyScope(x, y, t)
  <2>1. Advances(x, x, n, s)
    BY NoAdvance
  <2>2. /\ Advances(x, y, n, t) /\ CurrentScope(y) = t
        /\ y.constants = x.constants /\ y.tables = x.tables
    BY <1>1, <1>5, <1>8, <2>1, ScopeAdvances
  <2> QED BY <2>2 DEF OnlyScope
<1> QED BY <1>6, <1>9, <1>10 DEF Finishes

(* The body ended in a return.                                             *)
LEMMA FinishReturned ==
  ASSUME NEW x, NEW lists, NEW ds, Good(x, lists, ds), NEW n, n = Len(lists), NEW s, s = x.scopes[n],
         NEW d, BodyDone(x, n, s, d), LastInstructionIs(x, "OpReturnValue")
  PROVE  Finishes(x, x, n, s)
<1> DEFINE ins == s.ins
           p == s.last.pos
<1>1. /\ CurrentScope(x) = s /\ CodeOK(ins, d, {})
      /\ \A q \in Starts(ins, d) : Exists(x, n, OpAt(ins, q), ArgsAt(ins, q))
      /\ s.last.op \notin {"OpPop", "OpReturnValue"} \/ LastIsTrue(s, d, {})
  BY DEF BodyDone
<1>2. s.last.op = "OpReturnValue"
  BY <1>1 DEF LastInstructionIs
<1>3. /\ p \in Starts(ins, d) /\ OpAt(ins, p) = "OpReturnValue"
      /\ \A r \in Starts(ins, d) \ {p} : Len(ins) \notin Successors(ins, r)
  BY <1>1, <1>2 DEF LastIsTrue
<1>4. p \in Nat /\ p < Len(ins) /\ Len(ins) \in Nat
  BY <1>1, <1>3, StartFacts, CodeFacts
<1>5. Successors(ins, p) = {}
  BY <1>3 DEF Successors
<1>6. Closed(ins, d)
  BY <1>1, <1>3, <1>4, <1>5 DEF Closed
<1>7. Advances(x, x, n, s) /\ OnlyScope(x, x, s)
  BY <1>1, NoAdvance DEF OnlyScope
<1> QED BY <1>1, <1>6, <1>7 DEF Finishes, Returns

(* compiler.go:283-285: nothing is returned, and that by an instruction.   *)
LEMMA FinishNothing ==
  ASSUME NEW x, NEW lists, NEW ds, Good(x, lists, ds), NEW n, n = Len(lists), NEW s, s = x.scopes[n],
         NEW d, BodyDone(x, n, s, d), NEW y, y = Emit(x, "OpReturn", << >>)
  PROVE  \E t : Finishes(x, y, n, t)
<1> DEFINE ins == s.ins
           m == Len(ins)
           new == ins \o Make("OpReturn", << >>)
           e == Marks(d, Len(new), 0)
           t == EmittedScope(s, "OpReturn", << >>)
<1>1. /\ CodeOK(ins, d, {}) /\ \A q \in Starts(ins, d) : Exists(x, n, OpAt(ins, q), ArgsAt(ins, q))
  BY DEF BodyDone
<1>2. /\ "OpReturn" \in OpcodeNames /\ << >> \in Seq(Nat)
      /\ Len(<< >>) = Len(OperandWidths("OpReturn"))
  BY DEF OpcodeNames, Opcodes, OperandWidths
<1>3. Advances(x, y, n, t) /\ OnlyScope(x, y, t)
  <2>1. Advances(x, x, n, x.scopes[n])
    BY NoAdvance
  <2>2. Advances(x, y, n, EmittedScope(x.scopes[n], "OpReturn", << >>))
    BY <1>2, <2>1, EmitAdvances
  <2>3. OnlyScope(x, y, EmittedScope(x.scopes[n], "OpReturn", << >>))
    BY <1>2, <2>1, EmitAdvances
  <2> QED BY <2>2, <2>3
<1>4. t.ins = new
  BY DEF EmittedScope
<1> HIDE DEF t, ins
<1>5. /\ ins \in Seq(ByteValues) /\ m \in Nat /\ m \in DOMAIN d /\ \A q \in DOMAIN d : q <= m /\ d[q] \in Nat
  BY <1>1, CodeFacts
<1>6. /\ new \in Seq(ByteValues) /\ \A i \in 1..m : new[i] = ins[i]
      /\ WholeInstruction(new, m) /\ OpAt(new, m) = "OpReturn" /\ After(new, m) = Len(new)
  BY <1>2, <1>5, EmitReads
<1>7. Len(new) \in Nat /\ Len(new) > m
  BY <1>6, InstructionFacts
<1>8. Takes(new, m) = 0 /\ Successors(new, m) = {}
  BY <1>6 DEF Takes, TakenBy, Successors
<1>9. Leads(new, e, m)
  BY <1>8 DEF Leads
<1> HIDE DEF new
<1>10. /\ CodeOK(new, e, {}) /\ Starts(new, e) = Starts(ins, d) \cup {m}
       /\ \A p \in Starts(ins, d) : SameAt(ins, new, p)
  <2>1. Takes(new, m) <= d[m] /\ 0 \in Nat /\ {} \subseteq {} \cup {m} /\ m \notin {}
    BY <1>5, <1>8
  <2> HIDE DEF m
  <2>2. /\ Takes(new, Len(ins)) <= d[Len(ins)] /\ Len(new) > Len(ins)
        /\ \A i \in 1..Len(ins) : new[i] = ins[i]
        /\ WholeInstruction(new, Len(ins)) /\ After(new, Len(ins)) = Len(new)
        /\ Leads(new, Marks(d, Len(new), 0), Len(ins))
    BY <1>6, <1>7, <1>9, <2>1 DEF m
  <2> QED BY <1>1, <1>6, <2>2, EmitCode DEF m
<1> HIDE DEF e
<1>11. ASSUME NEW p \in Starts(new, e) PROVE Len(new) \notin Successors(new, p)
  <2>1. CASE p = m
    BY <1>8, <2>1
  <2>2. CASE p \in Starts(ins, d)
    <3>1. Leads(ins, d, p) /\ SameAt(ins, new, p)
      BY <1>1, <1>10, <2>2 DEF CodeOK
    <3>2. \A q \in Successors(ins, p) : q <= m
      BY <1>5, <3>1 DEF Leads
    <3> QED BY <1>5, <1>7, <3>1, <3>2 DEF SameAt
  <2> QED BY <1>10, <2>1, <2>2
<1>12. Closed(new, e)
  BY <1>5, <1>7, <1>10, <1>11 DEF Closed
<1>13. Returns(x, n, new, e)
  BY <1>1, <1>6, <1>10, <1>12 DEF Returns, SameAt
<1> QED BY <1>3, <1>4, <1>13 DEF Finishes

(* compiler.go:278-285: whatever the body ends in, the code returns.       *)
LEMMA FinishReturns ==
  ASSUME NEW x, NEW lists, NEW ds, Good(x, lists, ds), NEW n, n = Len(lists), NEW s, s = x.scopes[n],
         NEW d, BodyDone(x, n, s, d), NEW y, y = ReturnLastValue(x)
  PROVE  \E t : Finishes(x, y, n, t)
<1>1. CASE LastInstructionIs(x, "OpPop")
  BY <1>1, FinishPopped
<1>2. CASE LastInstructionIs(x, "OpReturnValue")
  <2>1. ~ LastInstructionIs(x, "OpPop")
    BY <1>2 DEF LastInstructionIs
  <2>2. y = x
    BY <1>2, <2>1 DEF ReturnLastValue
  <2>3. Finishes(x, x, n, s)
    BY <1>2, FinishReturned
  <2> QED BY <2>2, <2>3
<1>3. CASE ~ LastInstructionIs(x, "OpPop") /\ ~ LastInstructionIs(x, "OpReturnValue")
  <2>1. y = Emit(x, "OpReturn", << >>)
    BY <1>3 DEF ReturnLastValue
  <2> QED BY <2>1, FinishNothing
<1> QED BY <1>1, <1>2, <1>3

(* Code that returns on every path and addresses what exists is certified. *)
LEMMA FunctionIsCertified ==
  ASSUME NEW x, NEW lists, NEW ds, Good(x, lists, ds), NEW n, n = Len(lists), n > 1,
         NEW ins, NEW e, Returns(x, n, ins, e),
         NEW fn, fn.ins = ins, fn.numLocals = x.tables[n].num
  PROVE  FunctionFits(x.constants, fn) /\ FreeSuffices(ins, Len(x.tables[n].free))
<1> DEFINE cs == x.constants
           ids == [i \in 1..Len(cs) |-> i]
<1>1. /\ CodeOK(ins, e, {}) /\ Closed(ins, e)
      /\ \A p \in Starts(ins, e) : OpAt(ins, p) = "OpReturn" \/ Exists(x, n, OpAt(ins, p), ArgsAt(ins, p))
  BY DEF Returns, Closed
<1>2. /\ Balanced(ins, Depths(ins)) /\ Reached(ins) \subseteq Starts(ins, e)
      /\ Len(ins) \notin DOMAIN Depths(ins)
  <2>1. Balanced(ins, Depths(ins))
    BY <1>1, CodeIsBalanced
  <2>2. Reached(ins) \subseteq Starts(ins, e)
    BY <1>1, CodeIsBalanced
  <2>3. Len(ins) \notin DOMAIN Depths(ins)
    BY <1>1, CodeIsBalanced
  <2> QED BY <2>1, <2>2, <2>3
<1>3. x.tables[1].num <= GlobalsSize /\ x.tables[1].num \in Nat /\ Len(cs) \in Nat /\ GlobalsSize \in Nat
  <2>1. 1 \in 1..Len(lists) /\ x.tables[1].num <= GlobalsSize
    BY CompilerFields
  <2>2. TableGrows(x.tables[1], x.tables[1])
    BY <2>1, CompilerFields
  <2>3. Len(cs) \in Nat
    BY TopFacts
  <2> QED BY <2>1, <2>2, <2>3, SizesAssumption DEF TableGrows
<1> HIDE DEF cs
<1>4. Len(ids) = Len(cs) /\ \A i \in 1..Len(cs) : ids[i] = i
  BY <1>3
<1>5. ASSUME NEW p \in Starts(ins, e)
      PROVE  /\ OpAt(ins, p) \in OpcodeNames /\ ArgsAt(ins, p) \in Seq(Nat)
             /\ Len(ArgsAt(ins, p)) = Len(OperandWidths(OpAt(ins, p)))
  BY <1>1, StartFacts
<1>6. FreeSuffices(ins, Len(x.tables[n].free))
  <2> SUFFICES ASSUME NEW p \in Reached(ins), OpAt(ins, p) = "OpGetFree"
               PROVE  ArgsAt(ins, p)[1] < Len(x.tables[n].free)
    BY DEF FreeSuffices
  <2>1. Exists(x, n, OpAt(ins, p), ArgsAt(ins, p))
    BY <1>1, <1>2
  <2> QED BY <2>1 DEF Exists
<1> HIDE DEF ids
<1>7. ASSUME NEW p \in Reached(ins) PROVE Addresses(cs, ids, fn, p)
  <2> DEFINE op == OpAt(ins, p)
             args == ArgsAt(ins, p)
  <2>1. op = "OpReturn" \/ Exists(x, n, op, args)
    BY <1>1, <1>2
  <2>2. op \in OpcodeNames /\ args \in Seq(Nat) /\ Len(args) = Len(OperandWidths(op))
    BY <1>2, <1>5
  <2>3. op = OpAt(fn.ins, p) /\ args = ArgsAt(fn.ins, p)
    OBVIOUS
  <2> HIDE DEF op, args
  <2>4. ASSUME op \in {"OpGetLocal", "OpSetLocal", "OpGetGlobal", "OpSetGlobal", "OpGetBuiltin",
                       "OpGetFree", "OpConstant", "OpClosure", "OpHash"}
        PROVE  args[1] \in Nat /\ Exists(x, n, op, args)
    <3>1. Len(OperandWidths(op)) \in {1, 2}
      BY <2>4, AddressingOpcodes
    <3> QED BY <2>1, <2>2, <2>4, <3>1
  <2>5. op \in {"OpGetLocal", "OpSetLocal"} => args[1] < fn.numLocals
    BY <2>4 DEF Exists
  <2>6. op \in {"OpGetGlobal", "OpSetGlobal"} => args[1] < GlobalsSize
    BY <1>3, <2>4 DEF Exists
  <2>7. op = "OpGetBuiltin" => args[1] < Len(BuiltinNames)
    BY <2>4 DEF Exists
  <2>8. op = "OpHash" => args[1] % 2 = 0
    BY <2>4 DEF Exists
  <2>9. ASSUME op \in {"OpConstant", "OpClosure"}
        PROVE  args[1] < Len(ids) /\ ids[args[1] + 1] = args[1] + 1 /\ args[1] + 1 # Nil
    <3>1. args[1] \in Nat /\ args[1] < Len(cs)
      BY <2>4, <2>9 DEF Exists, cs
    <3> QED BY <1>3, <1>4, <3>1 DEF Nil
  <2>10. ASSUME op = "OpClosure"
         PROVE  /\ Is(cs, ids[args[1] + 1], "COMPILED_FUNCTION")
                /\ FreeSuffices(cs[ids[args[1] + 1]].ins, args[2])
    BY <2>4, <2>9, <2>10 DEF Exists, Is, cs
  <2> QED BY <2>3, <2>5, <2>6, <2>7, <2>8, <2>9, <2>10 DEF Addresses
<1>8. ins \in Seq(ByteValues)
  BY <1>1 DEF CodeOK
<1> QED BY <1>2, <1>6, <1>7, <1>8 DEF FunctionFits, CertifiedFunction, CertifiedCode, ids, cs

(* z, with the tasks lists2 and the depths ds2, is x without its last      *)
(* scope.                                                                  *)
Outside(x, lists, n, z, lists2, ds2) ==
  /\ Good(z, lists2, ds2) /\ Len(lists2) = n - 1
  /\ z.constants = x.constants /\ z.tables = SubSeq(x.tables, 1, n - 1)
  /\ lists2[n - 1] = lists[n - 1]

(* A scope is left: those outside of it are as they were.                  *)
LEMMA ScopePopped ==
  ASSUME NEW x, NEW lists, NEW ds, Good(x, lists, ds), NEW n, n = Len(lists), n > 1,
         NEW y, NEW s, Finishes(x, y, n, s), NEW z, z = LeaveScope(y),
         NEW lists2, lists2 = SubSeq(lists, 1, n - 1), NEW ds2, ds2 = SubSeq(ds, 1, n - 1)
  PROVE  Outside(x, lists, n, z, lists2, ds2)
<1> DEFINE scopes2 == SubSeq(y.scopes, 1, n - 1)
           tables2 == SubSeq(x.tables, 1, n - 1)
           m == n - 1
<1>1. /\ n \in Nat /\ Len(x.scopes) = n /\ Len(ds) = n /\ Len(x.tables) = n
      /\ IsCompiler(x) /\ IsSeq(lists) /\ IsSeq(ds) /\ IsSeq(x.scopes) /\ IsSeq(x.constants)
      /\ n \in 1..Len(x.scopes)
  BY TopFacts
<1>2. /\ ChainOK(x.tables) /\ \A k \in 1..n : TableGrows(x.tables[k], x.tables[k])
      /\ Longer(x.constants, x.constants)
      /\ x.tables[1].num <= GlobalsSize /\ ConstantsFit(x.constants)
  BY CompilerFields
<1>3. /\ IsRecord(y) /\ y.constants = x.constants /\ y.tables = x.tables
      /\ y.scopes = Put(x.scopes, n, s) /\ y.scopes \in Seq(CompilationScope)
  BY DEF Finishes, Advances, OnlyScope, IsCompiler
<1>4. Len(y.scopes) = n /\ \A i \in 1..n : i # n => y.scopes[i] = x.scopes[i]
  BY <1>1, <1>3, Updated
<1>5. z = [y EXCEPT !.scopes = scopes2, !.tables = tables2]
  BY <1>1, <1>3, <1>4 DEF LeaveScope
<1>6. scopes2 \in Seq(CompilationScope)
  BY <1>1, <1>3, <1>4
<1> HIDE DEF scopes2, tables2
<1>7. IsRecord(z) /\ z.constants = x.constants /\ z.tables = tables2 /\ z.scopes = scopes2
  <2>1. Rescoped(y, scopes2, tables2, z)
    BY <1>3, <1>5, TwoFields
  <2> QED BY <1>3, <2>1 DEF Rescoped
<1>8. m \in Nat /\ m >= 1 /\ 1 \in 1..m /\ 1 \in 1..n /\ \A k \in 1..m : k \in 1..n /\ k # n
  BY <1>1
<1> HIDE DEF m
<1>9. Len(scopes2) = m /\ \A i \in 1..m : scopes2[i] = x.scopes[i]
  <2>1. n = Len(y.scopes) /\ n >= 1 /\ scopes2 = SubSeq(y.scopes, 1, n - 1) /\ IsSeq(y.scopes)
    BY <1>1, <1>3, <1>4 DEF scopes2, IsSeq
  <2>2. Shortens(y.scopes, n, scopes2)
    BY <2>1, Shorter
  <2>3. Len(scopes2) = m /\ \A i \in 1..m : scopes2[i] = y.scopes[i]
    BY <2>2 DEF Shortens, m
  <2> QED BY <1>4, <1>8, <2>3
<1>10. ChainOK(tables2) /\ Len(tables2) = m /\ \A i \in 1..m : tables2[i] = x.tables[i]
  <2>1. Len(x.tables) > 1 /\ tables2 = SubSeq(x.tables, 1, Len(x.tables) - 1) /\ m = Len(x.tables) - 1
    BY <1>1 DEF tables2, m
  <2> QED BY <1>2, <2>1, LeaveKeepsChain
<1>11. IsSeq(lists2) /\ Len(lists2) = m /\ \A i \in 1..m : lists2[i] = lists[i]
  <2>1. n >= 1
    BY <1>1
  <2>2. Shortens(lists, n, lists2)
    BY <1>1, <2>1, Shorter
  <2> QED BY <2>2 DEF Shortens, m
<1>12. IsSeq(ds2) /\ Len(ds2) = m /\ \A i \in 1..m : ds2[i] = ds[i]
  <2>1. n >= 1 /\ n = Len(ds)
    BY <1>1
  <2>2. Shortens(ds, n, ds2)
    BY <1>1, <2>1, Shorter
  <2> QED BY <2>2 DEF Shortens, m
<1>13. IsCompiler(z)
  <2>1. z.tables[1] = x.tables[1]
    BY <1>7, <1>8, <1>10
  <2> QED BY <1>1, <1>6, <1>7, <1>10, <2>1 DEF IsCompiler
<1>14. ASSUME NEW k \in 1..m PROVE IsSeq(lists2[k]) /\ ScopeOK(z, k, z.scopes[k], ds2[k], lists2[k])
  <2>1. IsSeq(lists[k]) /\ ScopeOK(x, k, x.scopes[k], ds[k], lists[k])
    BY <1>8 DEF Good, ScopesOK
  <2>2. Grows(x, z, k)
    BY <1>2, <1>7, <1>8, <1>10 DEF Grows
  <2>3. ScopeOK(z, k, x.scopes[k], ds[k], lists[k])
    BY <2>1, <2>2, ScopeGrows
  <2> QED BY <1>7, <1>9, <1>11, <1>12, <2>1, <2>3
<1>15. \A k \in 1..(m - 1) : /\ lists2[k] # << >> /\ lists2[k][1].do = "expression"
                             /\ lists2[k][1].node.node = "FunctionLiteral"
  <2>1. \A k \in 1..(m - 1) : k \in 1..m /\ k \in 1..(n - 1)
    BY <1>8 DEF m
  <2>2. \A k \in 1..(n - 1) : /\ lists[k] # << >> /\ lists[k][1].do = "expression"
                              /\ lists[k][1].node.node = "FunctionLiteral"
    BY DEF Good, ScopesOK
  <2> QED BY <1>11, <2>1, <2>2
<1>16. z.tables[1].num <= GlobalsSize
  BY <1>2, <1>7, <1>8, <1>10
<1>17. ScopesOK(z, lists2, ds2)
  BY <1>2, <1>7, <1>8, <1>9, <1>10, <1>11, <1>12, <1>14, <1>15, <1>16 DEF ScopesOK, ConstantsFit
<1>18. m \in 1..m
  BY <1>8
<1> QED BY <1>7, <1>11, <1>12, <1>13, <1>14, <1>17, <1>18 DEF Outside, Good, tables2, m

(* What a function captured is loaded, and then its closure is made.       *)
AreCaptures(x, k, ins, d, list, at) ==
  /\ IsSeq(list) /\ list # << >> /\ TasksOK(x, k, ins, d, list) /\ JumpsOf(list) = {}
  /\ list[1].at = at /\ list[1].do \in {"emit", "closure"} /\ ~ TakesValue(list[1])
  /\ list[Len(list)].to = at + 1 /\ list[Len(list)].do = "closure"

(* These tasks are in order, and leave one value more than there was.      *)
LEMMA CaptureTasks ==
  ASSUME NEW symbols \in Seq(Symbol), NEW at \in Nat, NEW x, NEW k, NEW ins, NEW d,
         \A i \in 1..Len(symbols) : Exists(x, k, LoadOpcode(symbols[i]), LoadOperands(symbols[i])),
         NEW fn, fn.t = "COMPILED_FUNCTION", FunctionFits(x.constants, fn),
         FreeSuffices(fn.ins, Len(symbols))
  PROVE  AreCaptures(x, k, ins, d,
           DoLoads(symbols, at) \o << DoClosure(fn, Len(symbols), at + Len(symbols)) >>, at)
<1> DEFINE m == Len(symbols)
           a == DoLoads(symbols, at)
           t == DoClosure(fn, m, at + m)
           b == << t >>
           both == a \o b
<1>1. AreLoads(x, k, ins, d, a, at, m)
  BY LoadTasks
<1>2. m \in Nat
  OBVIOUS
<1>3. t.do = "closure" /\ t.fn = fn /\ t.free = m /\ t.at = at + m /\ t.to = at + m - m + 1
  BY DEF DoClosure
<1>4. FreeSuffices(fn.ins, m)
  OBVIOUS
<1> HIDE DEF a, t, m
<1>5. t.to = at + 1 /\ t.at \in Nat /\ t.to \in Nat /\ m \in 0..t.at /\ t.to = t.at - m + 1
  BY <1>2, <1>3
<1>6. TaskOK(x, k, ins, d, t) /\ ~ Jumps(t)
  <2>1. ClosureOK(x, t)
    BY <1>3, <1>4, <1>5 DEF ClosureOK
  <2> QED BY <1>3, <1>5, <2>1 DEF TaskOK, Jumps
<1>7. /\ IsSeq(b) /\ b # << >> /\ Len(b) = 1 /\ b[1] = t /\ TasksOK(x, k, ins, d, b) /\ JumpsOf(b) = {}
  BY <1>6, OneTask
<1> HIDE DEF b
<1>8. /\ IsSeq(a) /\ TasksOK(x, k, ins, d, a) /\ JumpsOf(a) = {} /\ Len(a) = m
      /\ a # << >> => /\ a[1].at = at /\ a[1].do = "emit" /\ ~ TakesValue(a[1])
                      /\ a[Len(a)].to = at + m /\ a[Len(a)].do = "emit"
  BY <1>1 DEF AreLoads
<1>9. a # << >> => Follows(a[Len(a)], b[1])
  BY <1>3, <1>7, <1>8 DEF Follows, TakesValue
<1>10. Behind(x, k, ins, d, a, b, both)
  BY <1>7, <1>8, <1>9, TasksBehind
<1>11. a = << >> => t.at = at
  BY <1>2, <1>3, <1>8, NoElements
<1> HIDE DEF both
<1>12. /\ IsSeq(both) /\ both # << >> /\ TasksOK(x, k, ins, d, both) /\ JumpsOf(both) = {}
       /\ both[Len(both)] = t /\ both[1] = IF a = << >> THEN t ELSE a[1]
  BY <1>7, <1>10 DEF Behind
<1>13. both[1].at = at /\ both[1].do \in {"emit", "closure"} /\ ~ TakesValue(both[1])
  BY <1>3, <1>8, <1>11, <1>12 DEF TakesValue
<1> QED BY <1>3, <1>5, <1>12, <1>13 DEF AreCaptures, both, a, b, t, m

(* compiler.go:278-304: the function is finished, and outside of it what   *)
(* it captured is loaded.                                                  *)
LEMMA FinishStep ==
  ASSUME Good(c, todo, depth), Finish
  PROVE  Good(c', todo', depth')
<1> DEFINE n == Len(todo)
           done == ReturnLastValue(c)
           z == LeaveScope(done)
           m == n - 1
           open == SubSeq(todo, 1, m)
           ds == SubSeq(depth, 1, m)
           free == c.tables[n].free
           at == Head(open[Len(open)]).at
           fn == FunctionConstant(done, Node)
           tasks == DoLoads(free, at) \o << DoClosure(fn, Len(free), at + Len(free)) >>
<1>1. Has("finish")
  BY DEF Finish
<1>2. BodyDone(c, n, c.scopes[n], depth[n])
  BY <1>1, FinishFacts
<1>3. n \in Nat /\ n > 1
  BY <1>2 DEF BodyDone
<1>4. PICK s : Finishes(c, done, n, s)
  BY <1>2, FinishReturns
<1>5. PICK e : Returns(c, n, s.ins, e)
  BY <1>4 DEF Finishes
<1>6. /\ Len(c.tables) = n /\ Len(depth) = n /\ IsSeq(todo)
      /\ ChainOK(c.tables)
  BY TopFacts, CompilerFields
<1>7. done.tables = c.tables /\ done.constants = c.constants /\ CurrentScope(done) = s
  BY <1>4 DEF Finishes, OnlyScope
<1>8. /\ c' = z /\ depth' = ds /\ todo' = Replaced(open, tasks)
  <2>1. Current(done.tables).free = free
    BY <1>6, <1>7 DEF Current
  <2> QED BY <1>3, <1>6, <2>1 DEF Finish
<1>9. /\ Good(z, open, ds) /\ Len(open) = m
      /\ z.constants = c.constants /\ z.tables = SubSeq(c.tables, 1, m)
      /\ open[m] = todo[m]
  <2>1. z = LeaveScope(done) /\ open = SubSeq(todo, 1, n - 1) /\ ds = SubSeq(depth, 1, n - 1)
    BY <1>6
  <2> HIDE DEF z, open, ds, done
  <2>2. n = Len(todo)
    OBVIOUS
  <2> HIDE DEF n
  <2>3. Outside(c, todo, n, z, open, ds)
    BY <1>3, <1>4, <2>1, <2>2, ScopePopped
  <2> QED BY <2>3 DEF Outside
<1>10. fn.t = "COMPILED_FUNCTION" /\ fn.ins = s.ins /\ fn.numLocals = c.tables[n].num
  BY <1>6, <1>7 DEF FunctionConstant, CompiledFunction, Current
<1> HIDE DEF fn
<1>11. FunctionFits(c.constants, fn) /\ FreeSuffices(s.ins, Len(free))
  BY <1>3, <1>5, <1>10, FunctionIsCertified
<1> HIDE DEF z, ds, done
<1>12. open[m] # << >> /\ open[m][1].do = "expression"
  <2>1. m \in 1..(Len(todo) - 1)
    BY <1>3
  <2> QED BY <1>9, <2>1 DEF Good, ScopesOK
<1>13. /\ free \in Seq(Symbol)
       /\ \A i \in 1..Len(free) : Exists(z, m, LoadOpcode(free[i]), LoadOperands(free[i]))
  <2>1. n \in 1..Len(c.tables) /\ Len(c.tables) > 1 /\ Current(c.tables).free = free
    BY <1>3, <1>6 DEF Current
  <2>2. free \in Seq(Symbol)
    BY <1>6, <2>1, TableFields DEF ChainOK
  <2>3. ASSUME NEW i \in 1..Len(free)
        PROVE  /\ free[i] \in Symbol /\ AddressableIn(z.tables, free[i])
               /\ free[i].scope \in {"LOCAL", "FREE", "FUNCTION"}
    <3> HIDE DEF free
    <3>1. i \in 1..Len(Current(c.tables).free)
      BY <2>1
    <3>2. /\ Current(c.tables).free[i] \in Symbol
          /\ AddressableIn(SubSeq(c.tables, 1, Len(c.tables) - 1), Current(c.tables).free[i])
          /\ Current(c.tables).free[i].scope \in {"LOCAL", "FREE", "FUNCTION"}
      BY <1>6, <2>1, <3>1, CapturesAreAddressable
    <3> QED BY <1>6, <1>9, <2>1, <3>2
  <2>4. m = Len(z.tables) /\ m \in Nat /\ m > 0
    BY <1>3, <1>6, <1>9, <2>1, LeaveKeepsChain
  <2>5. ASSUME NEW i \in 1..Len(free) PROVE Exists(z, m, LoadOpcode(free[i]), LoadOperands(free[i]))
    <3>1. free[i].scope = "BUILTIN" => free[i].index < Len(BuiltinNames)
      BY <2>3
    <3> HIDE DEF m, free
    <3> QED BY <2>3, <2>4, <3>1, LoadExists
  <2> QED BY <2>2, <2>5
<1> HIDE DEF free
<1>14. TaskOK(z, m, z.scopes[m].ins, ds[m], open[m][1]) /\ Head(open[m]) = open[m][1]
  <2>1. m = Len(open) /\ Good(z, open, ds)
    BY <1>9
  <2> HIDE DEF m, open
  <2>2. IsSeq(open[m]) /\ TaskOK(z, m, z.scopes[m].ins, ds[m], open[m][1])
    BY <1>12, <2>1, HeadFacts
  <2> QED BY <1>12, <2>2, Rest
<1>15. at = open[m][1].at /\ at \in Nat /\ open[m][1].to = at + 1
  BY <1>9, <1>12, <1>14 DEF TaskOK
<1> HIDE DEF at, open, m
<1>16. AreCaptures(z, m, z.scopes[m].ins, ds[m], tasks, at)
  <2>1. FunctionFits(z.constants, fn) /\ FreeSuffices(fn.ins, Len(free))
    BY <1>9, <1>10, <1>11
  <2> QED BY <1>10, <1>13, <1>15, <2>1, CaptureTasks
<1> HIDE DEF tasks
<1>17. /\ IsSeq(tasks) /\ tasks # << >> /\ TasksOK(z, m, z.scopes[m].ins, ds[m], tasks)
       /\ JumpsOf(tasks) = {}
       /\ tasks[1].at = at /\ tasks[1].do \in {"emit", "closure"} /\ ~ TakesValue(tasks[1])
       /\ tasks[Len(tasks)].to = at + 1 /\ tasks[Len(tasks)].do = "closure"
  BY <1>16 DEF AreCaptures
<1>18. /\ ~ EndsStatement(open[m][1]) /\ ~ EndsStatement(tasks[Len(tasks)])
       /\ ~ Jumps(open[m][1]) /\ open[m][1].do # "finish"
  BY <1>12, <1>17 DEF EndsStatement, Jumps
<1>19. Advances(z, z, m, z.scopes[m]) /\ m = Len(open)
  BY <1>9, NoAdvance
<1>20. Good(z, Replaced(open, tasks), ds)
  BY <1>9, <1>12, <1>15, <1>17, <1>18, <1>19, CallsSplit
<1> QED BY <1>8, <1>20

-----------------------------------------------------------------------------
(* What is true of the code so far, always.                                *)

(* As long as nothing is in doubt.                                         *)
Inv == NoDoubt => Good(c, todo, depth)

(* The compiler that New returns knows the builtins.                       *)
LEMMA NewCompilerIs ==
  /\ IsCompiler(NewCompiler) /\ Len(NewCompiler.tables) = 1 /\ Len(NewCompiler.scopes) = 1
  /\ NewCompiler.scopes[1] = NewCompilationScope /\ NewCompiler.tables[1].num = 0
  /\ Len(NewCompiler.constants) = 0
<1> DEFINE builtins == BuiltinNames
           table == BuiltinTable(builtins)
           x == NewCompiler
<1>1. builtins \in Seq(Names) /\ Len(builtins) = 7
  <2>1. Len(builtins) = 7 /\ DOMAIN builtins = 1..7
    BY DEF BuiltinNames
  <2>2. \A i \in DOMAIN builtins : builtins[i] \in Names
    BY BuiltinsAssumption
  <2>3. \A i \in 1..7 : builtins[i] \in Names
    BY <2>1, <2>2
  <2>4. builtins \in Seq(Names)
    BY <2>3 DEF BuiltinNames
  <2> QED BY <2>1, <2>4
<1>2. /\ x.constants = << >> /\ x.tables = << table >> /\ x.scopes = << NewCompilationScope >>
      /\ IsRecord(x)
  BY DEF NewCompiler, IsRecord
<1>3. ChainOK(<< table >>)
  <2> HIDE DEF builtins
  <2> QED BY <1>1, BuiltinChain
<1>4. ASSUME NEW name \in Names, table.store[name].scope = "BUILTIN"
      PROVE  table.store[name].index < Len(BuiltinNames)
  <2> DEFINE position == CHOOSE i \in DOMAIN builtins : builtins[i] = name
             symbol == [name |-> name, scope |-> "BUILTIN", index |-> position - 1]
  <2> HIDE DEF builtins
  <2>1. table.store[name] = IF \E i \in DOMAIN builtins : builtins[i] = name THEN symbol ELSE Absent
    BY DEF BuiltinTable
  <2>2. \E i \in DOMAIN builtins : builtins[i] = name
    <3>1. table.store[name].scope = "BUILTIN" /\ Absent.scope # "BUILTIN"
      BY <1>4 DEF Absent
    <3> HIDE DEF table, symbol
    <3> QED BY <2>1, <3>1
  <2>3. position \in DOMAIN builtins
    BY <2>2
  <2> HIDE DEF position
  <2>4. position \in 1..7
    BY <1>1, <2>3
  <2>5. table.store[name].index = position - 1
    BY <2>1, <2>2
  <2> HIDE DEF table
  <2> QED BY <1>1, <2>4, <2>5 DEF builtins
<1>5. table.num = 0
  BY DEF BuiltinTable
<1> HIDE DEF table, x, builtins
<1>6. /\ Len(<< table >>) = 1 /\ << table >>[1] = table
      /\ Len(<< NewCompilationScope >>) = 1 /\ << NewCompilationScope >>[1] = NewCompilationScope
  OBVIOUS
<1>7. NewCompilationScope \in CompilationScope
  <2>1. NoInstruction \in EmittedInstruction
    <3>1. "OpConstant" \in OpcodeNames
      BY DEF OpcodeNames, Opcodes
    <3> QED BY <3>1 DEF NoInstruction, EmittedInstruction
  <2>2. << >> \in Seq(ByteValues)
    OBVIOUS
  <2> QED BY <2>1, <2>2 DEF NewCompilationScope, CompilationScope
<1>8. << NewCompilationScope >> \in Seq(CompilationScope)
  BY <1>7
<1>9. IsSeq(x.constants) /\ Len(x.constants) = 0
  BY <1>2 DEF IsSeq
<1>10. IsCompiler(x)
  BY <1>2, <1>3, <1>4, <1>6, <1>8, <1>9 DEF IsCompiler
<1> QED BY <1>2, <1>5, <1>6, <1>9, <1>10 DEF x

(* Nothing is compiled yet.                                                *)
LEMMA InitIsGood ==
  ASSUME Init
  PROVE  Good(c, todo, depth)
<1> DEFINE list == DoStatements(source, 0)
<1>1. c = NewCompiler /\ todo = << list >> /\ depth = << Start >> /\ source \in Seq(Statements)
  BY TreesAssumption DEF Init, Start
<1>2. /\ IsCompiler(c) /\ Len(c.tables) = 1 /\ Len(c.scopes) = 1
      /\ c.scopes[1] = NewCompilationScope /\ c.tables[1].num = 0 /\ Len(c.constants) = 0
  BY <1>1, NewCompilerIs
<1>3. AreStatements(c, 1, << >>, Start, list, 0)
  BY <1>1, StatementTasks
<1> HIDE DEF list
<1>4. /\ IsSeq(list) /\ TasksOK(c, 1, << >>, Start, list) /\ JumpsOf(list) = {}
      /\ list # << >> => /\ list[1].at = 0 /\ list[1].do = "statement"
                         /\ list[Len(list)].to = 0 /\ list[Len(list)].do = "statement"
  BY <1>3 DEF AreStatements
<1>5. Scheduled(1, list, 0)
  BY <1>4 DEF Scheduled
<1>6. ScopeOK(c, 1, NewCompilationScope, Start, list)
  <2>1. list # << >> => ~ TakesValue(list[1])
    BY <1>4 DEF TakesValue
  <2> QED BY <1>4, <1>5, <2>1, NewScope
<1>7. /\ IsSeq(todo) /\ Len(todo) = 1 /\ todo[1] = list
      /\ IsSeq(depth) /\ Len(depth) = 1 /\ depth[1] = Start
  <2>1. << list >> \in Seq({list}) /\ << Start >> \in Seq({Start})
    OBVIOUS
  <2> QED BY <1>1, <2>1 DEF IsSeq
<1>8. 1..Len(todo) = {1} /\ 1..(Len(todo) - 1) = {} /\ 1..Len(c.constants) = {}
  BY <1>2, <1>7
<1>9. c.tables[1].num <= GlobalsSize
  BY <1>2, SizesAssumption
<1>10. ScopesOK(c, todo, depth)
  BY <1>2, <1>6, <1>7, <1>8, <1>9 DEF ScopesOK
<1> QED BY <1>2, <1>4, <1>7, <1>8, <1>10 DEF Good

(* Each case keeps it.                                                     *)
LEMMA NextIsGood ==
  ASSUME Inv, [Next]_vars
  PROVE  Inv'
<1> SUFFICES ASSUME NoDoubt' PROVE Good(c', todo', depth')
  BY DEF Inv
<1>1. doubts' = {} /\ ~ c'.err
  BY DEF NoDoubt
<1>2. ASSUME NoDoubt PROVE Good(c, todo, depth)
  BY <1>2 DEF Inv
<1>3. CASE OnExpressionStatement
  <2>1. NoDoubt
    BY <1>1, <1>3 DEF OnExpressionStatement, Calls, Meets, NoDoubt
  <2> QED BY <1>2, <1>3, <2>1, ExpressionStatementStep
<1>4. CASE OnLetStatement
  <2>1. NoDoubt
    BY <1>1, <1>4 DEF OnLetStatement, Meets, NoDoubt
  <2> QED BY <1>1, <1>2, <1>4, <2>1, LetStatementStep
<1>5. CASE OnReturnStatement
  <2>1. NoDoubt
    BY <1>1, <1>5 DEF OnReturnStatement, Calls, Meets, NoDoubt
  <2> QED BY <1>2, <1>5, <2>1, ReturnStatementStep
<1>6. CASE OnOperation
  <2>1. NoDoubt
    BY <1>1, <1>6 DEF OnOperation, Calls, Meets, NoDoubt
  <2> QED BY <1>2, <1>6, <2>1, OperationStep
<1>7. CASE OnLiteral
  <2>1. NoDoubt
    BY <1>1, <1>7 DEF OnLiteral, Emits, Meets, NoDoubt
  <2> QED BY <1>1, <1>2, <1>7, <2>1, LiteralStep
<1>8. CASE OnBoolean
  <2>1. NoDoubt
    BY <1>1, <1>8 DEF OnBoolean, Emits, Meets, NoDoubt
  <2> QED BY <1>1, <1>2, <1>8, <2>1, BooleanStep
<1>9. CASE OnIdentifier
  <2>1. NoDoubt
    BY <1>1, <1>9 DEF OnIdentifier, Emits, Meets, NoDoubt
  <2> QED BY <1>1, <1>2, <1>9, <2>1, IdentifierStep
<1>10. CASE OnUnknownIdentifier
  <2>1. NoDoubt /\ c' = [c EXCEPT !.err = TRUE]
    BY <1>1, <1>10 DEF OnUnknownIdentifier, Meets, NoDoubt
  <2>2. IsRecord(c)
    BY <1>2, <2>1, CompilerFields
  <2>3. c'.err
    BY <2>1, <2>2 DEF IsRecord
  <2> QED BY <1>1, <2>3
<1>11. CASE OnIf
  <2>1. NoDoubt
    BY <1>1, <1>11 DEF OnIf, Calls, Meets, NoDoubt
  <2> QED BY <1>2, <1>11, <2>1, IfStep
<1>12. CASE Branch
  <2>1. NoDoubt
    BY <1>1, <1>12 DEF Branch, Has, NoDoubt
  <2> QED BY <1>2, <1>12, <2>1, BranchStep
<1>13. CASE Else
  <2>1. NoDoubt
    BY <1>1, <1>13 DEF Else, Has, NoDoubt
  <2> QED BY <1>1, <1>2, <1>13, <2>1, ElseStep
<1>14. CASE End
  <2>1. NoDoubt
    BY <1>1, <1>14 DEF End, Has, NoDoubt
  <2> QED BY <1>1, <1>2, <1>14, <2>1, EndStep
<1>15. CASE Keep
  <2>1. NoDoubt
    BY <1>1, <1>15 DEF Keep, Has, NoDoubt
  <2> QED BY <1>1, <1>2, <1>15, <2>1, KeepStep
<1>16. CASE OnFunction
  <2>1. NoDoubt
    BY <1>1, <1>16 DEF OnFunction, Meets, NoDoubt
  <2> QED BY <1>2, <1>16, <2>1, FunctionStep
<1>17. CASE Finish
  <2>1. NoDoubt
    BY <1>1, <1>17 DEF Finish, Has, NoDoubt
  <2> QED BY <1>2, <1>17, <2>1, FinishStep
<1>18. CASE MakeClosure
  <2>1. NoDoubt
    BY <1>1, <1>18 DEF MakeClosure, Emits, Has, NoDoubt
  <2> QED BY <1>1, <1>2, <1>18, <2>1, MakeClosureStep
<1>19. CASE EmitTask
  <2>1. NoDoubt
    BY <1>1, <1>19 DEF EmitTask, Emits, Has, NoDoubt
  <2> QED BY <1>1, <1>2, <1>19, <2>1, EmitTaskStep
<1>20. CASE NoCase
  BY <1>1, <1>20 DEF NoCase
<1>21. CASE Returned \/ UNCHANGED vars
  <2>1. c' = c /\ todo' = todo /\ depth' = depth /\ doubts' = doubts
    BY <1>21 DEF Returned, vars
  <2>2. NoDoubt
    BY <1>1, <2>1 DEF NoDoubt
  <2> QED BY <1>2, <2>1, <2>2
<1> QED BY <1>3, <1>4, <1>5, <1>6, <1>7, <1>8, <1>9, <1>10, <1>11, <1>12, <1>13, <1>14, <1>15,
           <1>16, <1>17, <1>18, <1>19, <1>20, <1>21 DEF Next

(* The invariant holds in every reachable state.                           *)
LEMMA AlwaysInv == Spec => []Inv
<1>1. Init => Inv
  BY InitIsGood DEF Inv
<1>2. Inv /\ [Next]_vars => Inv'
  BY NextIsGood
<1> QED BY <1>1, <1>2, PTL DEF Spec

(* The code so far: as long as nothing is in doubt, the instructions of    *)
(* every open scope lie end to end, each finds its operands whichever way  *)
(* control came and addresses what exists, what is still to be done fits   *)
(* on, and every function among the constants is certified (Compile of     *)
(* compiler.go).                                                           *)
THEOREM CodeSoFarIsRight == Spec => []CodeSoFar
<1>1. Inv => CodeSoFar
  BY DEF Inv, CodeSoFar, Good
<1> QED BY <1>1, AlwaysInv, PTL

(* The code of the program when nothing is left to be done.                *)
LEMMA ProgramIsCertified ==
  ASSUME NEW x, NEW lists, NEW ds, Good(x, lists, ds), lists = << << >> >>
  PROVE  CertifiedBytecode(BytecodeOf(x))
<1> DEFINE s == x.scopes[1]
           d == ds[1]
           ins == s.ins
           cs == x.constants
           ids == [i \in 1..Len(cs) |-> i]
           fn == CompiledFunction(ins, 0, 0)
           D == Depths(ins)
<1>1. Len(lists) = 1 /\ lists[1] = << >> /\ JumpsOf(<< >>) = {}
  BY NoJumps
<1>2. ScopeOK(x, 1, s, d, << >>) /\ CurrentScope(x) = s /\ Len(cs) \in Nat /\ Len(x.tables) = 1
  BY <1>1, TopFacts
<1>3. /\ CodeOK(ins, d, {}) /\ d[Len(ins)] = 0
      /\ \A p \in Starts(ins, d) : Exists(x, 1, OpAt(ins, p), ArgsAt(ins, p))
  BY <1>1, <1>2 DEF ScopeOK, Scheduled
<1>4. /\ x.tables[1].num <= GlobalsSize /\ ConstantsFit(cs) /\ ChainOK(x.tables)
      /\ x.tables[1].num \in Nat /\ GlobalsSize \in Nat
  <2>1. 1 \in 1..Len(lists) /\ x.tables[1].num <= GlobalsSize /\ ConstantsFit(cs) /\ ChainOK(x.tables)
    BY CompilerFields
  <2>2. TableGrows(x.tables[1], x.tables[1])
    BY <2>1, CompilerFields
  <2> QED BY <2>1, <2>2, SizesAssumption DEF TableGrows
<1>5. BytecodeOf(x) = [instructions |-> ins, constants |-> cs]
  BY <1>2 DEF BytecodeOf
<1>6. fn.ins = ins /\ fn.numLocals = 0
  BY DEF CompiledFunction
<1> HIDE DEF s, d, ins, cs, fn
<1>7. Len(x.tables[1].free) = 0
  <2>1. 1 \in 1..Len(x.tables)
    BY <1>2
  <2>2. FaithfulIn(x.tables, 1) /\ x.tables[1].free \in Seq(Symbol)
    BY <1>4, <2>1, TableFields DEF ChainOK
  <2>3. \A j \in 1..Len(x.tables[1].free) : FALSE
    BY <2>2 DEF FaithfulIn
  <2>4. Len(x.tables[1].free) \in Nat
    BY <2>2
  <2> QED BY <2>3, <2>4
<1>8. /\ Balanced(ins, D) /\ Reached(ins) \subseteq Starts(ins, d)
      /\ Len(ins) \in DOMAIN D => D[Len(ins)] = 0
  <2>1. Balanced(ins, Depths(ins))
    BY <1>3, CodeIsBalanced
  <2>2. Reached(ins) \subseteq Starts(ins, d)
    BY <1>3, CodeIsBalanced
  <2>3. Len(ins) \in DOMAIN Depths(ins) => Depths(ins)[Len(ins)] = d[Len(ins)]
    BY <1>3, CodeIsBalanced
  <2> QED BY <1>3, <2>1, <2>2, <2>3
<1> HIDE DEF D
<1>9. Len(ids) = Len(cs) /\ \A i \in 1..Len(cs) : ids[i] = i
  BY <1>2
<1> HIDE DEF ids
<1>10. ASSUME NEW p \in Reached(ins)
       PROVE  /\ Addresses(cs, ids, fn, p) /\ OpAt(ins, p) \notin {"OpReturn", "OpCurrentClosure"}
              /\ OpAt(ins, p) = "OpGetFree" => ArgsAt(ins, p)[1] < 0
  <2> DEFINE op == OpAt(ins, p)
             args == ArgsAt(ins, p)
  <2>1. Exists(x, 1, op, args)
    BY <1>3, <1>8
  <2>2. op \in OpcodeNames /\ args \in Seq(Nat) /\ Len(args) = Len(OperandWidths(op))
    BY <1>3, <1>8, StartFacts
  <2>3. op = OpAt(fn.ins, p) /\ args = ArgsAt(fn.ins, p)
    BY <1>6
  <2> HIDE DEF op, args
  <2>4. ASSUME op \in {"OpGetLocal", "OpSetLocal", "OpGetGlobal", "OpSetGlobal", "OpGetBuiltin",
                       "OpGetFree", "OpConstant", "OpClosure", "OpHash"}
        PROVE  args[1] \in Nat
    <3>1. Len(OperandWidths(op)) \in {1, 2}
      BY <2>4, AddressingOpcodes
    <3> QED BY <2>2, <3>1
  <2>5. op \notin {"OpGetLocal", "OpSetLocal", "OpReturn", "OpCurrentClosure"}
    BY <2>1 DEF Exists
  <2>6. op \in {"OpGetGlobal", "OpSetGlobal"} => args[1] < GlobalsSize
    BY <1>4, <2>1, <2>4 DEF Exists
  <2>7. op = "OpGetBuiltin" => args[1] < Len(BuiltinNames)
    BY <2>1 DEF Exists
  <2>8. op = "OpHash" => args[1] % 2 = 0
    BY <2>1 DEF Exists
  <2>9. ASSUME op \in {"OpConstant", "OpClosure"}
        PROVE  args[1] < Len(ids) /\ ids[args[1] + 1] = args[1] + 1 /\ args[1] + 1 # Nil
    <3>1. args[1] \in Nat /\ args[1] < Len(cs)
      BY <2>1, <2>4, <2>9 DEF Exists, cs
    <3> QED BY <1>2, <1>9, <3>1 DEF Nil
  <2>10. ASSUME op = "OpClosure"
         PROVE  /\ Is(cs, ids[args[1] + 1], "COMPILED_FUNCTION")
                /\ FreeSuffices(cs[ids[args[1] + 1]].ins, args[2])
    BY <2>1, <2>9, <2>10 DEF Exists, Is, cs
  <2>11. op = "OpGetFree" => args[1] < 0
    BY <1>7, <2>1 DEF Exists
  <2>12. Addresses(cs, ids, fn, p)
    BY <2>3, <2>5, <2>6, <2>7, <2>8, <2>9, <2>10 DEF Addresses
  <2> QED BY <2>5, <2>11, <2>12 DEF op, args
<1>11. FreeSuffices(ins, 0)
  BY <1>10 DEF FreeSuffices
<1>12. CertifiedProgram(cs, ids, fn)
  BY <1>6, <1>8, <1>10, <1>11 DEF CertifiedProgram, CertifiedCode, D
<1>13. \A i \in 1..Len(cs) : cs[i].t = "COMPILED_FUNCTION" => CertifiedFunction(cs, ids, cs[i])
  BY <1>4 DEF ConstantsFit, FunctionFits, ids
<1> QED BY <1>5, <1>12, <1>13 DEF CertifiedBytecode, fn, ids

(* What Compile returns without an error, and without cutting off an       *)
(* operand, running out of slots for globals, finding a block that leaves  *)
(* no value or a node it has no case for, the machine can run.             *)
THEOREM CompiledIsCertified == Spec => []CompilesCertified
<1>1. Inv => CompilesCertified
  BY ProgramIsCertified DEF Inv, CompilesCertified, Done
<1> QED BY <1>1, AlwaysInv, PTL
=============================================================================

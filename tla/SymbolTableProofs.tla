-------------------------- MODULE SymbolTableProofs --------------------------
(***************************************************************************)
(* What the operations of a chain of symbol tables keep, for every set of  *)
(* names: the symbols of a table have slots of their own, what a function  *)
(* captured is what its name denotes outside, and what Resolve and Define  *)
(* return can be addressed.                                                *)
(***************************************************************************)
EXTENDS SymbolTable, Numbers, SequenceTheorems, TLAPS

(* The invariants as predicates of a chain of tables.                      *)
FaithfulIn(ts, i) ==
  \A j \in 1..Len(ts[i].free) :
    /\ i > 1
    /\ ts[i].free[j] = ts[i - 1].store[ts[i].free[j].name]
    /\ ts[i].free[j].scope \in {"LOCAL", "FREE", "FUNCTION"}

SlotExistsIn(ts, i, x) ==
  LET symbol == ts[i].store[x] IN
  /\ symbol.scope # "ABSENT" => symbol.name = x
  /\ symbol.scope \in {"GLOBAL", "BUILTIN"} => i = 1
  /\ symbol.scope \in {"LOCAL", "FREE", "FUNCTION"} => i > 1
  /\ symbol.scope \in {"GLOBAL", "LOCAL"} => symbol.index < ts[i].num
  /\ symbol.scope = "FREE" =>
       /\ symbol.index < Len(ts[i].free)
       /\ ts[i].free[symbol.index + 1].name = x

NotSharedIn(table, x, y) ==
  LET s == table.store[x]
      t == table.store[y]
  IN x # y /\ s.scope = t.scope /\ s.scope # "ABSENT" => s.index # t.index

AddressableIn(ts, symbol) ==
  /\ symbol.scope = "LOCAL" => Len(ts) > 1 /\ symbol.index < Current(ts).num
  /\ symbol.scope = "FREE" => symbol.index < Len(Current(ts).free)
  /\ symbol.scope = "FUNCTION" => Len(ts) > 1
  /\ symbol.scope = "GLOBAL" => symbol.index < ts[1].num

Chain(ts) == ts \in Seq(Table) /\ Len(ts) > 0

ChainOK(ts) ==
  /\ Chain(ts)
  /\ \A i \in 1..Len(ts) : FaithfulIn(ts, i)
  /\ \A i \in 1..Len(ts) : \A x \in Names : SlotExistsIn(ts, i, x)
  /\ \A i \in 1..Len(ts) : \A x, y \in Names : NotSharedIn(ts[i], x, y)

-----------------------------------------------------------------------------
(* Holder is the innermost table that has the name.                        *)
LEMMA HolderIsInnermost ==
  ASSUME NEW ts, Chain(ts), NEW x \in Names, Resolvable(ts, x)
  PROVE  /\ Holder(ts, x) \in 1..Len(ts)
         /\ Defined(ts[Holder(ts, x)], x)
         /\ \A j \in (Holder(ts, x) + 1)..Len(ts) : ~ Defined(ts[j], x)
<1> DEFINE T == {i \in 1..Len(ts) : Defined(ts[i], x)}
<1>1. T \subseteq 1..Len(ts) /\ T # {} /\ Len(ts) \in Nat
  BY DEF Resolvable, Chain
<1>2. PICK m \in T : \A k \in T : k <= m
  <2> HIDE DEF T
  <2> QED BY <1>1, Greatest
<1>3. /\ m \in 1..Len(ts) /\ Defined(ts[m], x)
      /\ \A j \in (m + 1)..Len(ts) : ~ Defined(ts[j], x)
  BY <1>1, <1>2
<1> QED BY <1>3 DEF Holder

(* The index of a symbol, and of the absent one, is a natural number.      *)
LEMMA SymbolIndex ==
  ASSUME NEW s \in Symbol \cup {Absent}
  PROVE  s.index \in Nat
<1>1. CASE s \in Symbol
  BY <1>1 DEF Symbol
<1>2. CASE s = Absent
  BY <1>2 DEF Absent
<1> QED BY <1>1, <1>2

(* The fields of a table of a chain.                                       *)
LEMMA TableFields ==
  ASSUME NEW ts, Chain(ts), NEW i \in 1..Len(ts)
  PROVE  /\ ts[i] \in Table
         /\ ts[i].free \in Seq(Symbol)
         /\ ts[i].num \in Nat
<1>1. ts[i] \in Table
  BY DEF Chain
<1> QED BY <1>1 DEF Table

(* The symbol of a name that a table has.                                  *)
LEMMA StoredSymbol ==
  ASSUME NEW ts, Chain(ts), NEW i \in 1..Len(ts), NEW x \in Names
  PROVE  /\ ts[i] \in Table
         /\ ts[i].store[x] \in Symbol \cup {Absent}
         /\ ts[i].store \in [Names -> Symbol \cup {Absent}]
         /\ ts[i].free \in Seq(Symbol)
         /\ ts[i].num \in Nat
         /\ Defined(ts[i], x) => ts[i].store[x] \in Symbol
         /\ ~ Defined(ts[i], x) => ts[i].store[x] = Absent
<1>1. ts[i] \in Table
  BY DEF Chain
<1>2. Absent.scope = "ABSENT" /\ \A s \in Symbol : s.scope # "ABSENT"
  BY DEF Absent, Symbol, Scope
<1> QED BY <1>1, <1>2 DEF Table, Defined

-----------------------------------------------------------------------------
(* What the tables between the holder and the current one capture.         *)
LEMMA CapturedSymbol ==
  ASSUME NEW ts, ChainOK(ts), NEW x \in Names, IsCaptured(ts, x),
         NEW i \in 1..Len(ts), Holder(ts, x) < i
  PROVE  /\ i - 1 \in 1..Len(ts)
         /\ Captured(ts, x, i) \in Symbol
         /\ Captured(ts, x, i).name = x
         /\ Captured(ts, x, i).scope \in {"LOCAL", "FREE", "FUNCTION"}
<1> DEFINE h == Holder(ts, x)
<1>1. /\ Chain(ts) /\ Len(ts) \in Nat
      /\ h \in 1..Len(ts)
      /\ Defined(ts[h], x)
      /\ ts[h].store[x].scope \notin {"GLOBAL", "BUILTIN"}
  BY HolderIsInnermost DEF IsCaptured, ChainOK, Chain
<1>2. i - 1 \in 1..Len(ts)
  BY <1>1
<1>3. CASE h = i - 1
  <2>1. ts[h].store[x] \in Symbol
    BY <1>1, StoredSymbol
  <2>2. ts[h].store[x].scope \in {"LOCAL", "FREE", "FUNCTION"}
    BY <1>1, <2>1 DEF Symbol, Scope
  <2>3. ts[h].store[x].name = x
    BY <1>1, <2>2 DEF ChainOK, SlotExistsIn
  <2> QED BY <1>2, <1>3, <2>1, <2>2, <2>3 DEF Captured
<1>4. CASE h # i - 1
  <2>1. ts[i - 1].free \in Seq(Symbol)
    BY <1>1, <1>2, StoredSymbol
  <2>2. Len(ts[i - 1].free) \in Nat
    BY <2>1
  <2>3. Captured(ts, x, i) = [name |-> x, scope |-> "FREE", index |-> Len(ts[i - 1].free)]
    BY <1>4 DEF Captured, FreeSymbol
  <2> QED BY <1>2, <2>2, <2>3 DEF Symbol, Scope
<1> QED BY <1>3, <1>4

(* A table after it captured orig.                                         *)
LEMMA DefineFreeTable ==
  ASSUME NEW table \in Table, NEW orig \in Symbol
  PROVE  LET new == DefineFree(table, orig) IN
         /\ new \in Table
         /\ new.num = table.num
         /\ new.store[orig.name] = FreeSymbol(table, orig.name)
         /\ \A y \in Names : y # orig.name => new.store[y] = table.store[y]
         /\ Len(new.free) = Len(table.free) + 1
         /\ new.free[Len(table.free) + 1] = orig
         /\ \A j \in 1..Len(table.free) : new.free[j] = table.free[j]
<1>1. /\ table.free \in Seq(Symbol) /\ Len(table.free) \in Nat
      /\ table.store \in [Names -> Symbol \cup {Absent}] /\ table.num \in Nat
  BY DEF Table
<1>2. orig.name \in Names
  BY DEF Symbol
<1>3. FreeSymbol(table, orig.name) \in Symbol
  BY <1>1, <1>2 DEF FreeSymbol, Symbol, Scope
<1>4. /\ Append(table.free, orig) \in Seq(Symbol)
      /\ Len(Append(table.free, orig)) = Len(table.free) + 1
      /\ Append(table.free, orig)[Len(table.free) + 1] = orig
      /\ \A j \in 1..Len(table.free) : Append(table.free, orig)[j] = table.free[j]
  BY <1>1, AppendProperties
<1>5. [table.store EXCEPT ![orig.name] = FreeSymbol(table, orig.name)]
        \in [Names -> Symbol \cup {Absent}]
  BY <1>1, <1>2, <1>3
<1>6. DefineFree(table, orig) \in Table
  BY <1>1, <1>4, <1>5 DEF DefineFree, Table
<1> QED BY <1>1, <1>2, <1>4, <1>6 DEF DefineFree

(* The chain after Resolve, table by table.                                *)
LEMMA ResolvedChain ==
  ASSUME NEW ts, ChainOK(ts), NEW x \in Names
  PROVE  /\ Chain(ResolvedTables(ts, x))
         /\ Len(ResolvedTables(ts, x)) = Len(ts)
         /\ \A i \in 1..Len(ts) :
              ResolvedTables(ts, x)[i] =
                IF IsCaptured(ts, x) /\ Holder(ts, x) < i
                THEN DefineFree(ts[i], Captured(ts, x, i)) ELSE ts[i]
<1> DEFINE new(i) == IF IsCaptured(ts, x) /\ Holder(ts, x) < i
                     THEN DefineFree(ts[i], Captured(ts, x, i)) ELSE ts[i]
<1>1. Chain(ts) /\ Len(ts) \in Nat /\ Len(ts) > 0
  BY DEF ChainOK, Chain
<1>2. ASSUME NEW i \in 1..Len(ts) PROVE new(i) \in Table
  <2>1. ts[i] \in Table
    BY <1>1, StoredSymbol
  <2>2. CASE IsCaptured(ts, x) /\ Holder(ts, x) < i
    BY <2>1, <2>2, CapturedSymbol, DefineFreeTable
  <2> QED BY <2>1, <2>2
<1>3. ResolvedTables(ts, x) = [i \in 1..Len(ts) |-> new(i)]
  BY DEF ResolvedTables
<1>4. ResolvedTables(ts, x) \in Seq(Table) /\ Len(ResolvedTables(ts, x)) = Len(ts)
  <2> HIDE DEF new
  <2> QED BY <1>1, <1>2, <1>3, IsASeq
<1> QED BY <1>1, <1>3, <1>4 DEF Chain

(***************************************************************************)
(* Resolve keeps the chain in order.  A table that captures x did not have *)
(* x, so by faithfulness the table after it had not captured x from it.    *)
(***************************************************************************)
LEMMA ResolveKeepsChain ==
  ASSUME NEW ts, ChainOK(ts), NEW x \in Names
  PROVE  ChainOK(ResolvedTables(ts, x))
<1> DEFINE rs == ResolvedTables(ts, x)
           captures(i) == IsCaptured(ts, x) /\ Holder(ts, x) < i
<1>1. /\ Chain(ts) /\ Len(ts) \in Nat /\ Len(ts) > 0
      /\ Chain(rs) /\ Len(rs) = Len(ts)
      /\ \A i \in 1..Len(ts) : rs[i] = IF captures(i)
                                      THEN DefineFree(ts[i], Captured(ts, x, i)) ELSE ts[i]
  BY ResolvedChain DEF ChainOK, Chain
<1>2. ASSUME NEW i \in 1..Len(ts), captures(i)
      PROVE  /\ ~ Defined(ts[i], x) /\ i > 1
             /\ Captured(ts, x, i) \in Symbol
             /\ Captured(ts, x, i).name = x
             /\ Captured(ts, x, i).scope \in {"LOCAL", "FREE", "FUNCTION"}
             /\ rs[i].num = ts[i].num
             /\ rs[i].store[x] = FreeSymbol(ts[i], x)
             /\ \A y \in Names : y # x => rs[i].store[y] = ts[i].store[y]
             /\ Len(rs[i].free) = Len(ts[i].free) + 1
             /\ rs[i].free[Len(ts[i].free) + 1] = Captured(ts, x, i)
             /\ \A j \in 1..Len(ts[i].free) : rs[i].free[j] = ts[i].free[j]
  <2>1. Resolvable(ts, x)
    BY <1>2 DEF IsCaptured
  <2>2. Holder(ts, x) \in 1..Len(ts) /\ ~ Defined(ts[i], x)
    BY <1>1, <1>2, <2>1, HolderIsInnermost
  <2>3. /\ Captured(ts, x, i) \in Symbol
        /\ Captured(ts, x, i).name = x
        /\ Captured(ts, x, i).scope \in {"LOCAL", "FREE", "FUNCTION"}
    BY <1>2, CapturedSymbol
  <2>4. ts[i] \in Table
    BY <1>1, StoredSymbol
  <2>5. rs[i] = DefineFree(ts[i], Captured(ts, x, i))
    BY <1>1, <1>2
  <2> HIDE DEF rs
  <2> QED BY <1>2, <2>2, <2>3, <2>4, <2>5, DefineFreeTable
<1>3. ASSUME NEW i \in 1..Len(ts)
      PROVE  /\ ts[i].free \in Seq(Symbol) /\ Len(ts[i].free) \in Nat
             /\ ts[i].num \in Nat
             /\ \A y \in Names : ts[i].store[y] \in Symbol \cup {Absent}
             /\ \A y \in Names : rs[i].store[y] =
                  IF captures(i) /\ y = x THEN FreeSymbol(ts[i], x) ELSE ts[i].store[y]
             /\ rs[i].num = ts[i].num
  BY <1>1, <1>2, StoredSymbol
<1>4. ASSUME NEW i \in 1..Len(rs) PROVE FaithfulIn(rs, i)
  <2> SUFFICES ASSUME NEW j \in 1..Len(rs[i].free)
               PROVE  /\ i > 1
                      /\ rs[i].free[j] = rs[i - 1].store[rs[i].free[j].name]
                      /\ rs[i].free[j].scope \in {"LOCAL", "FREE", "FUNCTION"}
    BY DEF FaithfulIn
  <2>1. i \in 1..Len(ts)
    BY <1>1
  <2>2. CASE j \in 1..Len(ts[i].free)
    <3>1. rs[i].free[j] = ts[i].free[j]
      BY <1>1, <1>2, <2>1, <2>2
    <3>2. /\ i > 1
          /\ ts[i].free[j] = ts[i - 1].store[ts[i].free[j].name]
          /\ ts[i].free[j].scope \in {"LOCAL", "FREE", "FUNCTION"}
      BY <2>1, <2>2 DEF ChainOK, FaithfulIn
    <3>3. i - 1 \in 1..Len(ts) /\ ts[i].free[j] \in Symbol /\ ts[i].free[j].name \in Names
      <4>1. ts[i].free[j] \in Symbol
        BY <1>3, <2>1, <2>2, ElementOfSeq
      <4>2. ts[i].free[j].name \in Names
        BY <4>1 DEF Symbol
      <4> QED BY <1>1, <2>1, <3>2, <4>1, <4>2
    <3>4. ~ (captures(i - 1) /\ ts[i].free[j].name = x)
      <4> SUFFICES ASSUME captures(i - 1), ts[i].free[j].name = x PROVE FALSE
        OBVIOUS
      <4>1. ts[i - 1].store[x].scope = "ABSENT"
        BY <1>2, <3>3 DEF Defined
      <4> QED BY <3>2, <4>1
    <3>5. rs[i - 1].store[ts[i].free[j].name] = ts[i - 1].store[ts[i].free[j].name]
      BY <1>3, <3>3, <3>4
    <3> QED BY <3>1, <3>2, <3>5
  <2>3. CASE j \notin 1..Len(ts[i].free)
    <3>1. captures(i) /\ j = Len(ts[i].free) + 1
      BY <1>1, <1>2, <1>3, <2>1, <2>3
    <3>2. rs[i].free[j] = Captured(ts, x, i) /\ Captured(ts, x, i).name = x
          /\ i > 1 /\ Captured(ts, x, i).scope \in {"LOCAL", "FREE", "FUNCTION"}
      BY <1>2, <2>1, <3>1
    <3>3. Holder(ts, x) \in 1..Len(ts)
      BY <1>1, <3>1, HolderIsInnermost DEF IsCaptured
    <3>4. i - 1 \in 1..Len(ts)
      BY <1>1, <2>1, <3>2
    <3>5. rs[i - 1].store[x] =
            IF captures(i - 1) THEN FreeSymbol(ts[i - 1], x) ELSE ts[i - 1].store[x]
      BY <1>3, <3>4
    <3>6. rs[i - 1].store[x] = Captured(ts, x, i)
      BY <2>1, <3>1, <3>3, <3>5 DEF Captured
    <3> QED BY <3>2, <3>6
  <2> QED BY <2>2, <2>3
<1>5. ASSUME NEW i \in 1..Len(rs), NEW y \in Names PROVE SlotExistsIn(rs, i, y)
  <2>1. i \in 1..Len(ts) /\ SlotExistsIn(ts, i, y)
    BY <1>1 DEF ChainOK
  <2>2. CASE captures(i) /\ y = x
    <3>1. rs[i].store[y] = [name |-> x, scope |-> "FREE", index |-> Len(ts[i].free)]
      BY <1>2, <2>1, <2>2 DEF FreeSymbol
    <3>2. Len(ts[i].free) < Len(rs[i].free) /\ rs[i].free[Len(ts[i].free) + 1].name = x /\ i > 1
      BY <1>2, <1>3, <2>1, <2>2
    <3> QED BY <2>2, <3>1, <3>2 DEF SlotExistsIn
  <2>3. CASE captures(i) /\ y # x
    <3>1. rs[i].store[y] = ts[i].store[y] /\ rs[i].num = ts[i].num
      BY <1>3, <2>1, <2>3
    <3>2. ts[i].store[y] \in Symbol \cup {Absent}
      BY <1>3, <2>1
    <3>3. ts[i].store[y].scope = "FREE" =>
            /\ ts[i].store[y].index + 1 \in 1..Len(ts[i].free)
            /\ ts[i].store[y].index < Len(rs[i].free)
      <4> SUFFICES ASSUME ts[i].store[y].scope = "FREE"
                   PROVE  /\ ts[i].store[y].index + 1 \in 1..Len(ts[i].free)
                          /\ ts[i].store[y].index < Len(rs[i].free)
        OBVIOUS
      <4>1. ts[i].store[y].index \in Nat
        BY <3>2, SymbolIndex
      <4>2. ts[i].store[y].index < Len(ts[i].free)
        BY <2>1 DEF SlotExistsIn
      <4>3. Len(ts[i].free) \in Nat /\ Len(rs[i].free) = Len(ts[i].free) + 1
        BY <1>2, <1>3, <2>1, <2>3
      <4> QED BY SMTT(30), <4>1, <4>2, <4>3
    <3>4. ts[i].store[y].scope = "FREE" =>
            rs[i].free[ts[i].store[y].index + 1] = ts[i].free[ts[i].store[y].index + 1]
      BY <1>2, <2>1, <2>3, <3>3
    <3> QED BY <2>1, <3>1, <3>3, <3>4 DEF SlotExistsIn
  <2>4. CASE ~ captures(i)
    <3>1. rs[i] = ts[i]
      BY <1>1, <2>1, <2>4
    <3> QED BY <2>1, <3>1 DEF SlotExistsIn
  <2> QED BY <2>2, <2>3, <2>4
<1>6. ASSUME NEW i \in 1..Len(rs), NEW y \in Names, NEW z \in Names
      PROVE  NotSharedIn(rs[i], y, z)
  <2>1. i \in 1..Len(ts) /\ NotSharedIn(ts[i], y, z)
        /\ SlotExistsIn(ts, i, y) /\ SlotExistsIn(ts, i, z)
    BY <1>1 DEF ChainOK
  <2>2. CASE captures(i)
    <3>1. ASSUME NEW w \in Names, w # x, ts[i].store[w].scope = "FREE"
          PROVE  ts[i].store[w].index # Len(ts[i].free)
      <4>1. SlotExistsIn(ts, i, w)
        BY <2>1 DEF ChainOK
      <4>2. ts[i].store[w].index < Len(ts[i].free)
        BY <3>1, <4>1 DEF SlotExistsIn
      <4>3. ts[i].store[w] \in Symbol \cup {Absent} /\ Len(ts[i].free) \in Nat
        BY <1>3, <2>1
      <4>4. ts[i].store[w].index \in Nat
        BY <4>3, SymbolIndex
      <4> QED BY <4>2, <4>3, <4>4
    <3>2. /\ rs[i].store[y] = IF y = x THEN FreeSymbol(ts[i], x) ELSE ts[i].store[y]
          /\ rs[i].store[z] = IF z = x THEN FreeSymbol(ts[i], x) ELSE ts[i].store[z]
      BY <1>3, <2>1, <2>2
    <3>3. FreeSymbol(ts[i], x).scope = "FREE" /\ FreeSymbol(ts[i], x).index = Len(ts[i].free)
      BY DEF FreeSymbol
    <3> QED BY <2>1, <3>1, <3>2, <3>3 DEF NotSharedIn
  <2>3. CASE ~ captures(i)
    BY <1>1, <2>1, <2>3
  <2> QED BY <2>2, <2>3
<1> QED BY <1>1, <1>4, <1>5, <1>6 DEF ChainOK

-----------------------------------------------------------------------------
(* A chain whose last table was replaced.                                  *)
LEMMA ReplaceLast ==
  ASSUME NEW ts, Chain(ts), NEW table \in Table
  PROVE  LET new == Append(SubSeq(ts, 1, Len(ts) - 1), table) IN
         /\ Chain(new) /\ Len(new) = Len(ts) /\ new[Len(ts)] = table
         /\ \A i \in 1..(Len(ts) - 1) : new[i] = ts[i]
<1> DEFINE front == SubSeq(ts, 1, Len(ts) - 1)
<1>1. ts \in Seq(Table) /\ Len(ts) \in Nat /\ Len(ts) > 0
  BY DEF Chain
<1>2. /\ front \in Seq(Table) /\ Len(front) = Len(ts) - 1
      /\ \A i \in 1..(Len(ts) - 1) : front[i] = ts[i]
  <2> QED BY <1>1
<1>3. /\ Append(front, table) \in Seq(Table)
      /\ Len(Append(front, table)) = Len(front) + 1
      /\ \A i \in 1..Len(front) : Append(front, table)[i] = front[i]
      /\ Append(front, table)[Len(front) + 1] = table
  <2> HIDE DEF front
  <2> QED BY <1>2, AppendProperties
<1> QED BY <1>1, <1>2, <1>3 DEF Chain

(***************************************************************************)
(* Define keeps the chain in order: the index it takes is one that no name *)
(* of the table has, and no table lies further in that could have captured *)
(* the symbol it replaces.                                                 *)
(***************************************************************************)
LEMMA DefineKeepsChain ==
  ASSUME NEW ts, ChainOK(ts), NEW x \in Names
  PROVE  /\ ChainOK(Define(ts, x))
         /\ Len(Define(ts, x)) = Len(ts)
         /\ Current(Define(ts, x)).num = Current(ts).num + 1
         /\ Current(Define(ts, x)).store[x] = DefineSymbol(ts, x)
         /\ DefineSymbol(ts, x) \in Symbol
<1> DEFINE n == Len(ts)
           ds == Define(ts, x)
           s  == DefineSymbol(ts, x)
           t  == ts[n]
           new == [store |-> [t.store EXCEPT ![x] = s], free |-> t.free, num |-> t.num + 1]
<1>1. Chain(ts) /\ n \in Nat /\ n > 0 /\ n \in 1..n
  BY DEF ChainOK, Chain
<1>2. /\ t \in Table /\ t.num \in Nat /\ t.free \in Seq(Symbol)
      /\ t.store \in [Names -> Symbol \cup {Absent}]
  BY <1>1, StoredSymbol
<1>3. /\ s = [name |-> x, scope |-> IF n = 1 THEN "GLOBAL" ELSE "LOCAL", index |-> t.num]
      /\ s \in Symbol
  BY <1>2 DEF DefineSymbol, Current, Symbol, Scope
<1>4. /\ new \in Table
      /\ new.store[x] = s
      /\ \A y \in Names : y # x => new.store[y] = t.store[y]
      /\ new.num = t.num + 1 /\ new.free = t.free
  <2> HIDE DEF s
  <2> QED BY <1>2, <1>3 DEF Table
<1>5. ds = Append(SubSeq(ts, 1, Len(ts) - 1), new)
  BY DEF Define, Current
<1>6. /\ Chain(ds) /\ Len(ds) = n /\ ds[n] = new
      /\ \A i \in 1..(n - 1) : ds[i] = ts[i]
  <2> HIDE DEF new, ds
  <2> QED BY <1>1, <1>4, <1>5, ReplaceLast
<1> HIDE DEF new, ds, s
<1>7. ASSUME NEW i \in 1..n
      PROVE  /\ FaithfulIn(ts, i) /\ i # n => ds[i] = ts[i]
             /\ ds[i].free = ts[i].free
             /\ i > 1 => ds[i - 1] = ts[i - 1]
             /\ \A y \in Names : SlotExistsIn(ts, i, y) /\ ts[i].store[y] \in Symbol \cup {Absent}
  <2>1. FaithfulIn(ts, i) /\ \A y \in Names : SlotExistsIn(ts, i, y)
    BY <1>1 DEF ChainOK
  <2>2. \A y \in Names : ts[i].store[y] \in Symbol \cup {Absent}
    BY <1>1, StoredSymbol
  <2> QED BY <1>1, <1>4, <1>6, <2>1, <2>2
<1>8. ASSUME NEW i \in 1..Len(ds) PROVE FaithfulIn(ds, i)
  <2>1. FaithfulIn(ts, i) /\ ds[i].free = ts[i].free /\ (i > 1 => ds[i - 1] = ts[i - 1])
    BY <1>1, <1>6, <1>7 DEF ChainOK
  <2> QED BY <2>1 DEF FaithfulIn
<1>9. ASSUME NEW i \in 1..Len(ds), NEW y \in Names PROVE SlotExistsIn(ds, i, y)
  <2>1. SlotExistsIn(ts, i, y) /\ ts[i].store[y] \in Symbol \cup {Absent}
    BY <1>6, <1>7
  <2>2. CASE i # n
    BY <1>6, <1>7, <2>1, <2>2 DEF SlotExistsIn
  <2>3. CASE i = n /\ y = x
    BY <1>1, <1>2, <1>3, <1>4, <1>6, <2>3 DEF SlotExistsIn
  <2>4. CASE i = n /\ y # x
    <3>1. ts[n].store[y].index \in Nat
      BY <2>1, <2>4, SymbolIndex
    <3>2. ds[n].store[y] = ts[n].store[y] /\ ds[n].num = ts[n].num + 1 /\ ds[n].free = ts[n].free
      BY <1>4, <1>6, <2>4
    <3> QED BY <1>2, <2>1, <2>4, <3>1, <3>2 DEF SlotExistsIn
  <2> QED BY <2>2, <2>3, <2>4
<1>10. ASSUME NEW i \in 1..Len(ds), NEW y \in Names, NEW z \in Names
       PROVE  NotSharedIn(ds[i], y, z)
  <2>1. NotSharedIn(ts[i], y, z) /\ SlotExistsIn(ts, i, y) /\ SlotExistsIn(ts, i, z)
    BY <1>6 DEF ChainOK
  <2>2. CASE i # n
    BY <1>6, <1>7, <2>1, <2>2
  <2>3. CASE i = n
    <3>1. ASSUME NEW w \in Names, w # x, ts[n].store[w].scope \in {"GLOBAL", "LOCAL"}
          PROVE  ts[n].store[w].index # t.num
      <4>1. ts[n].store[w].index < t.num /\ ts[n].store[w].index \in Nat
        BY <1>1, <1>7, <3>1, SymbolIndex DEF SlotExistsIn
      <4> QED BY <1>2, <4>1
    <3>2. /\ ds[n].store[y] = IF y = x THEN s ELSE ts[n].store[y]
          /\ ds[n].store[z] = IF z = x THEN s ELSE ts[n].store[z]
      BY <1>4, <1>6
    <3>3. s.scope \in {"GLOBAL", "LOCAL"} /\ s.index = t.num
      BY <1>3
    <3> QED BY <2>1, <2>3, <3>1, <3>2, <3>3 DEF NotSharedIn
  <2> QED BY <2>2, <2>3
<1>11. ChainOK(ds)
  BY <1>6, <1>8, <1>9, <1>10 DEF ChainOK
<1> QED BY <1>3, <1>4, <1>6, <1>11 DEF Current, ds, s

-----------------------------------------------------------------------------
(* The table of a function literal: what it holds for a name is the last   *)
(* parameter of that name, the function's own name, or nothing.            *)
LEMMA FunctionTableSymbols ==
  ASSUME NEW name, NEW k \in Nat, NEW parameters \in [1..k -> Names],
         NEW table, table = FunctionTable(name, parameters)
  PROVE  /\ table \in Table /\ table.free = << >> /\ table.num = k
         /\ \A x \in Names :
              /\ table.store[x].scope \in {"LOCAL", "FUNCTION", "ABSENT"}
              /\ table.store[x].scope # "ABSENT" => table.store[x].name = x
              /\ table.store[x].scope = "LOCAL" =>
                   /\ table.store[x].index + 1 \in 1..k
                   /\ parameters[table.store[x].index + 1] = x
              /\ table.store[x].scope = "FUNCTION" => x = name
<1> DEFINE last(x) == CHOOSE i \in DOMAIN parameters :
                        /\ parameters[i] = x
                        /\ \A j \in DOMAIN parameters : parameters[j] = x => j <= i
<1>1. DOMAIN parameters = 1..k /\ Len(parameters) = k
  OBVIOUS
<1>2. ASSUME NEW x \in Names, \E i \in DOMAIN parameters : parameters[i] = x
      PROVE  last(x) \in 1..k /\ parameters[last(x)] = x
  <2> DEFINE T == {i \in 1..k : parameters[i] = x}
  <2>1. T \subseteq 1..k /\ T # {}
    BY <1>1, <1>2
  <2>2. PICK m \in T : \A j \in T : j <= m
    <3> HIDE DEF T
    <3> QED BY <2>1, Greatest
  <2>3. /\ m \in DOMAIN parameters /\ parameters[m] = x
        /\ \A j \in DOMAIN parameters : parameters[j] = x => j <= m
    BY <1>1, <2>2
  <2> QED BY <1>1, <2>3
<1> HIDE DEF last
<1>3. /\ table.store = [x \in Names |->
                   IF \E i \in DOMAIN parameters : parameters[i] = x
                   THEN [name |-> x, scope |-> "LOCAL", index |-> last(x) - 1]
                   ELSE IF x = name
                   THEN [name |-> x, scope |-> "FUNCTION", index |-> FunctionIndex]
                   ELSE Absent]
      /\ table = [store |-> table.store, free |-> << >>, num |-> k]
  BY <1>1 DEF FunctionTable, last
<1>4. ASSUME NEW x \in Names
      PROVE  /\ table.store[x] \in Symbol \cup {Absent}
             /\ table.store[x].scope \in {"LOCAL", "FUNCTION", "ABSENT"}
             /\ table.store[x].scope # "ABSENT" => table.store[x].name = x
             /\ table.store[x].scope = "LOCAL" =>
                  /\ table.store[x].index + 1 \in 1..k
                  /\ parameters[table.store[x].index + 1] = x
             /\ table.store[x].scope = "FUNCTION" => x = name
  <2>1. CASE \E i \in DOMAIN parameters : parameters[i] = x
    <3>1. table.store[x] = [name |-> x, scope |-> "LOCAL", index |-> last(x) - 1]
      BY <1>3, <2>1
    <3>2. last(x) \in 1..k /\ parameters[last(x)] = x
      BY <1>2, <2>1
    <3> QED BY <3>1, <3>2 DEF Symbol, Scope
  <2>2. CASE ~ (\E i \in DOMAIN parameters : parameters[i] = x) /\ x = name
    <3>1. table.store[x] = [name |-> x, scope |-> "FUNCTION", index |-> FunctionIndex]
      BY <1>3, <2>2
    <3> QED BY <2>2, <3>1 DEF Symbol, Scope, FunctionIndex
  <2>3. CASE ~ (\E i \in DOMAIN parameters : parameters[i] = x) /\ x # name
    <3>1. table.store[x] = Absent
      BY <1>3, <2>3
    <3>2. Absent.scope = "ABSENT"
      BY DEF Absent
    <3> QED BY <3>1, <3>2
  <2> QED BY <2>1, <2>2, <2>3
<1>5. table.store \in [Names -> Symbol \cup {Absent}]
  BY <1>3, <1>4
<1>6. table \in Table
  <2>1. << >> \in Seq(Symbol)
    OBVIOUS
  <2>2. [store |-> table.store, free |-> << >>, num |-> k] \in Table
    BY <1>5, <2>1 DEF Table
  <2> QED BY <1>3, <2>2
<1>7. table.free = << >> /\ table.num = k
  BY <1>3
<1> QED BY <1>4, <1>6, <1>7

(* A function literal adds a table that captured nothing yet.              *)
LEMMA EnterKeepsChain ==
  ASSUME NEW ts, ChainOK(ts), NEW name, NEW k \in Nat, NEW parameters \in [1..k -> Names]
  PROVE  ChainOK(Append(ts, FunctionTable(name, parameters)))
<1> DEFINE n == Len(ts)
           table == FunctionTable(name, parameters)
           es == Append(ts, table)
<1>1. ts \in Seq(Table) /\ n \in Nat /\ n > 0
  BY DEF ChainOK, Chain
<1> HIDE DEF table
<1>2. /\ table \in Table /\ table.free = << >> /\ table.num = k
      /\ \A x \in Names :
           /\ table.store[x].scope \in {"LOCAL", "FUNCTION", "ABSENT"}
           /\ table.store[x].scope # "ABSENT" => table.store[x].name = x
           /\ table.store[x].scope = "LOCAL" =>
                /\ table.store[x].index + 1 \in 1..k
                /\ parameters[table.store[x].index + 1] = x
           /\ table.store[x].scope = "FUNCTION" => x = name
  BY FunctionTableSymbols DEF table
<1>3. /\ Chain(es) /\ Len(es) = n + 1 /\ es[n + 1] = table
      /\ \A i \in 1..n : es[i] = ts[i]
  BY <1>1, <1>2, AppendProperties DEF Chain
<1> HIDE DEF es
<1>4. ASSUME NEW i \in 1..n
      PROVE  /\ FaithfulIn(es, i)
             /\ \A x \in Names : SlotExistsIn(es, i, x)
             /\ \A x, y \in Names : NotSharedIn(es[i], x, y)
  <2>1. /\ FaithfulIn(ts, i)
        /\ \A x \in Names : SlotExistsIn(ts, i, x)
        /\ \A x, y \in Names : NotSharedIn(ts[i], x, y)
    BY DEF ChainOK
  <2>2. es[i] = ts[i] /\ (i > 1 => es[i - 1] = ts[i - 1])
    BY <1>1, <1>3
  <2> QED BY <2>1, <2>2 DEF FaithfulIn, SlotExistsIn
<1>5. FaithfulIn(es, n + 1)
  BY <1>2, <1>3 DEF FaithfulIn
<1>6. ASSUME NEW x \in Names PROVE SlotExistsIn(es, n + 1, x)
  <2>1. table.store[x] \in Symbol \cup {Absent}
    BY <1>2 DEF Table
  <2>2. table.store[x].index \in Nat
    BY <2>1, SymbolIndex
  <2> QED BY <1>1, <1>2, <1>3, <2>2 DEF SlotExistsIn
<1>7. ASSUME NEW x \in Names, NEW y \in Names PROVE NotSharedIn(es[n + 1], x, y)
  BY <1>2, <1>3 DEF NotSharedIn
<1>8. ASSUME NEW i \in 1..Len(es)
      PROVE  /\ FaithfulIn(es, i)
             /\ \A x \in Names : SlotExistsIn(es, i, x)
             /\ \A x, y \in Names : NotSharedIn(es[i], x, y)
  <2>1. CASE i \in 1..n
    BY <1>4, <2>1
  <2>2. CASE i = n + 1
    BY <1>5, <1>6, <1>7, <2>2
  <2> QED BY <1>1, <1>3, <2>1, <2>2
<1> QED BY <1>3, <1>8 DEF ChainOK, es, table

(* Leaving a function drops the innermost table and touches no other.      *)
LEMMA LeaveKeepsChain ==
  ASSUME NEW ts, ChainOK(ts), Len(ts) > 1
  PROVE  /\ ChainOK(SubSeq(ts, 1, Len(ts) - 1))
         /\ Len(SubSeq(ts, 1, Len(ts) - 1)) = Len(ts) - 1
         /\ \A i \in 1..(Len(ts) - 1) : SubSeq(ts, 1, Len(ts) - 1)[i] = ts[i]
<1> DEFINE ls == SubSeq(ts, 1, Len(ts) - 1)
<1>1. ts \in Seq(Table) /\ Len(ts) \in Nat
  BY DEF ChainOK, Chain
<1>2. /\ Chain(ls) /\ Len(ls) = Len(ts) - 1
      /\ \A i \in 1..(Len(ts) - 1) : ls[i] = ts[i]
  BY <1>1 DEF Chain
<1> HIDE DEF ls
<1>3. ASSUME NEW i \in 1..Len(ls)
      PROVE  /\ FaithfulIn(ls, i)
             /\ \A x \in Names : SlotExistsIn(ls, i, x)
             /\ \A x, y \in Names : NotSharedIn(ls[i], x, y)
  <2>1. i \in 1..Len(ts) /\ ls[i] = ts[i] /\ (i > 1 => ls[i - 1] = ts[i - 1])
    BY <1>1, <1>2
  <2>2. /\ FaithfulIn(ts, i)
        /\ \A x \in Names : SlotExistsIn(ts, i, x)
        /\ \A x, y \in Names : NotSharedIn(ts[i], x, y)
    BY <2>1 DEF ChainOK
  <2> QED BY <2>1, <2>2 DEF FaithfulIn, SlotExistsIn
<1> QED BY <1>2, <1>3 DEF ChainOK, ls

(* The program's table before anything is compiled.                        *)
LEMMA BuiltinChain ==
  ASSUME NEW builtins \in Seq(Names)
  PROVE  ChainOK(<< BuiltinTable(builtins) >>)
<1> DEFINE table == BuiltinTable(builtins)
           position(x) == CHOOSE i \in DOMAIN builtins : builtins[i] = x
<1>1. builtins \in Seq(Names)
  OBVIOUS
<1>2. /\ table.store = [x \in Names |->
                   IF \E i \in DOMAIN builtins : builtins[i] = x
                   THEN [name |-> x, scope |-> "BUILTIN", index |-> position(x) - 1]
                   ELSE Absent]
      /\ table = [store |-> table.store, free |-> << >>, num |-> 0]
      /\ table.free = << >> /\ table.num = 0
  BY DEF BuiltinTable
<1>3. ASSUME NEW x \in Names, \E i \in DOMAIN builtins : builtins[i] = x
      PROVE  /\ position(x) - 1 \in Nat /\ (position(x) - 1) + 1 = position(x)
             /\ builtins[position(x)] = x
  <2>1. position(x) \in DOMAIN builtins /\ builtins[position(x)] = x
    BY <1>3
  <2> HIDE DEF position
  <2> QED BY <1>1, <2>1
<1> HIDE DEF table, position
<1>4. ASSUME NEW x \in Names
      PROVE  /\ table.store[x] \in Symbol \cup {Absent}
             /\ table.store[x].scope \in {"BUILTIN", "ABSENT"}
             /\ table.store[x].scope # "ABSENT" =>
                  table.store[x].name = x /\ builtins[table.store[x].index + 1] = x
  <2>1. CASE \E i \in DOMAIN builtins : builtins[i] = x
    <3>1. table.store[x] = [name |-> x, scope |-> "BUILTIN", index |-> position(x) - 1]
      BY <1>2, <2>1
    <3> QED BY <1>3, <2>1, <3>1 DEF Symbol, Scope
  <2>2. CASE ~ \E i \in DOMAIN builtins : builtins[i] = x
    <3>1. table.store[x] = Absent
      BY <1>2, <2>2
    <3>2. Absent.scope = "ABSENT"
      BY DEF Absent
    <3> QED BY <3>1, <3>2
  <2> QED BY <2>1, <2>2
<1>5. table \in Table
  <2>1. table.store \in [Names -> Symbol \cup {Absent}]
    BY <1>2, <1>4
  <2>2. << >> \in Seq(Symbol)
    OBVIOUS
  <2>3. [store |-> table.store, free |-> << >>, num |-> 0] \in Table
    BY <2>1, <2>2 DEF Table
  <2> QED BY <1>2, <2>3
<1>6. Chain(<< table >>) /\ Len(<< table >>) = 1 /\ << table >>[1] = table
  BY <1>5 DEF Chain
<1>7. FaithfulIn(<< table >>, 1)
  BY <1>2, <1>6 DEF FaithfulIn
<1>8. ASSUME NEW x \in Names PROVE SlotExistsIn(<< table >>, 1, x)
  BY <1>4, <1>6 DEF SlotExistsIn
<1>9. ASSUME NEW x \in Names, NEW y \in Names PROVE NotSharedIn(<< table >>[1], x, y)
  BY <1>4, <1>6 DEF NotSharedIn
<1>10. \A i \in 1..Len(<< table >>) : i = 1
  BY <1>6
<1> QED BY <1>6, <1>7, <1>8, <1>9, <1>10 DEF ChainOK, table

-----------------------------------------------------------------------------
(* What Resolve returns can be addressed in the chain that it leaves.      *)
LEMMA ResolvedIsAddressable ==
  ASSUME NEW ts, ChainOK(ts), NEW x \in Names, Resolvable(ts, x)
  PROVE  /\ ResolvedSymbol(ts, x) \in Symbol
         /\ AddressableIn(ResolvedTables(ts, x), ResolvedSymbol(ts, x))
<1> DEFINE n == Len(ts)
           h == Holder(ts, x)
           rs == ResolvedTables(ts, x)
           s == ResolvedSymbol(ts, x)
<1>1. /\ Chain(ts) /\ n \in Nat /\ n > 0 /\ h \in 1..n /\ Defined(ts[h], x)
      /\ Chain(rs) /\ Len(rs) = n
      /\ \A i \in 1..n : rs[i] = IF IsCaptured(ts, x) /\ h < i
                                THEN DefineFree(ts[i], Captured(ts, x, i)) ELSE ts[i]
  BY HolderIsInnermost, ResolvedChain DEF ChainOK, Chain
<1>2. /\ ts[n] \in Table /\ Len(ts[n].free) \in Nat /\ Current(ts) = ts[n]
      /\ Current(rs) = rs[n] /\ ts[h].store[x] \in Symbol
      /\ SlotExistsIn(ts, h, x)
  <2>1. n \in 1..n
    BY <1>1
  <2>2. ts[n] \in Table /\ ts[n].free \in Seq(Symbol) /\ ts[h].store[x] \in Symbol
    BY <1>1, <2>1, StoredSymbol
  <2> QED BY <1>1, <2>2 DEF Current, ChainOK
<1> HIDE DEF rs, h
<1>3. CASE IsCaptured(ts, x) /\ h < n
  <2>1. s = [name |-> x, scope |-> "FREE", index |-> Len(ts[n].free)]
    BY <1>2, <1>3 DEF ResolvedSymbol, FreeSymbol, h, IsCaptured
  <2>2. Captured(ts, x, n) \in Symbol
    BY <1>1, <1>3, CapturedSymbol DEF h
  <2>3. rs[n] = DefineFree(ts[n], Captured(ts, x, n))
    BY <1>1, <1>3
  <2>4. Len(rs[n].free) = Len(ts[n].free) + 1
    BY <1>2, <2>2, <2>3, DefineFreeTable
  <2>5. s \in Symbol
    BY <1>2, <2>1 DEF Symbol, Scope
  <2> HIDE DEF s
  <2>6. AddressableIn(rs, s)
    BY <1>2, <2>1, <2>4 DEF AddressableIn
  <2> QED BY <2>5, <2>6 DEF rs, s
<1>4. CASE ~ (IsCaptured(ts, x) /\ h < n)
  <2>1. s = ts[h].store[x]
    BY <1>4 DEF ResolvedSymbol, h
  <2>2. rs[h] = ts[h]
    BY <1>1
  <2> HIDE DEF s
  <2>3. CASE h = n
    BY <1>1, <1>2, <2>1, <2>2, <2>3 DEF AddressableIn, SlotExistsIn, rs, s
  <2>4. CASE h # n
    <3>1. s.scope \in {"GLOBAL", "BUILTIN"}
      BY <1>1, <1>4, <2>1, <2>4 DEF IsCaptured, h
    <3> QED BY <1>2, <2>1, <2>2, <3>1 DEF AddressableIn, SlotExistsIn, rs, s
  <2> QED BY <2>3, <2>4
<1> QED BY <1>3, <1>4

(* What Define returns can be addressed in the chain that it leaves.       *)
LEMMA DefinedIsAddressable ==
  ASSUME NEW ts, ChainOK(ts), NEW x \in Names
  PROVE  AddressableIn(Define(ts, x), DefineSymbol(ts, x))
<1>1. /\ ChainOK(Define(ts, x)) /\ Len(Define(ts, x)) = Len(ts)
      /\ Current(Define(ts, x)).num = Current(ts).num + 1
  BY DefineKeepsChain
<1>2. Len(ts) \in Nat /\ Len(ts) > 0 /\ Current(ts).num \in Nat
  <2>1. Chain(ts) /\ Len(ts) \in Nat /\ Len(ts) > 0 /\ Len(ts) \in 1..Len(ts)
    BY DEF ChainOK, Chain
  <2> QED BY <2>1, StoredSymbol DEF Current
<1>3. DefineSymbol(ts, x) = [name |-> x, scope |-> IF Len(ts) = 1 THEN "GLOBAL" ELSE "LOCAL",
                             index |-> Current(ts).num]
  BY DEF DefineSymbol
<1>4. CASE Len(ts) = 1
  <2>1. Define(ts, x)[1].num = Current(ts).num + 1
    BY <1>1, <1>4 DEF Current
  <2> QED BY <1>2, <1>3, <1>4, <2>1 DEF AddressableIn
<1>5. CASE Len(ts) > 1
  BY <1>1, <1>2, <1>3, <1>5 DEF AddressableIn
<1> QED BY <1>2, <1>4, <1>5

(* The values loaded for OpClosure belong to the enclosing function.       *)
LEMMA CapturesAreAddressable ==
  ASSUME NEW ts, ChainOK(ts), Len(ts) > 1, NEW j \in 1..Len(Current(ts).free)
  PROVE  /\ Current(ts).free[j] \in Symbol
         /\ AddressableIn(SubSeq(ts, 1, Len(ts) - 1), Current(ts).free[j])
         /\ Current(ts).free[j].scope \in {"LOCAL", "FREE", "FUNCTION"}
<1> DEFINE n == Len(ts)
           ls == SubSeq(ts, 1, n - 1)
           s == ts[n].free[j]
<1>1. /\ Chain(ts) /\ n \in Nat /\ n \in 1..n /\ n - 1 \in 1..n
      /\ Current(ts) = ts[n] /\ j \in 1..Len(ts[n].free)
  BY DEF ChainOK, Chain, Current
<1>2. /\ s = ts[n - 1].store[s.name]
      /\ s.scope \in {"LOCAL", "FREE", "FUNCTION"}
  BY <1>1 DEF ChainOK, FaithfulIn
<1>3. s \in Symbol
  <2>1. ts[n].free \in Seq(Symbol)
    BY <1>1, TableFields
  <2> QED BY <1>1, <2>1, ElementOfSeq
<1>4. s.name \in Names
  BY <1>3 DEF Symbol
<1>5. SlotExistsIn(ts, n - 1, s.name)
  BY <1>1, <1>4 DEF ChainOK
<1>6. Len(ls) = n - 1 /\ ls[n - 1] = ts[n - 1] /\ Current(ls) = ts[n - 1]
  <2>1. Len(ls) = n - 1 /\ \A i \in 1..(n - 1) : ls[i] = ts[i]
    BY LeaveKeepsChain
  <2>2. n - 1 \in 1..(n - 1)
    BY <1>1
  <2> QED BY <2>1, <2>2 DEF Current
<1> HIDE DEF ls, s
<1>7. AddressableIn(ls, s)
  BY <1>1, <1>2, <1>5, <1>6 DEF AddressableIn, SlotExistsIn
<1> QED BY <1>1, <1>2, <1>3, <1>7 DEF ls, s
==============================================================================

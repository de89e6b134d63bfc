---------------------------- MODULE ScopesProofs ----------------------------
(***************************************************************************)
(* The invariants of Scopes for every set of names, every list of builtins *)
(* and every bound, and that Scopes implements LexicalScoping: whatever    *)
(* was captured, shadowed or redefined before, a compiled use of a name    *)
(* reads the binding of the innermost open function that binds it.         *)
(*                                                                         *)
(* The invariants only hold together: what a function captured stays what  *)
(* its name denotes outside because a name that was captured is defined in *)
(* every table in between, so that no later Resolve gives it another       *)
(* symbol there.                                                           *)
(***************************************************************************)
EXTENDS Scopes, SymbolTableProofs

(* The inductive invariant.                                                *)
Inv == TypeOK /\ ChainOK(tables) /\ AccessIsAddressable

-----------------------------------------------------------------------------
(* A step that loads or stores one symbol.                                 *)
LEMMA OneAccess ==
  ASSUME NEW kind \in {"let", "use"}, NEW x \in Names, NEW s \in Symbol,
         ChainOK(tables'), AddressableIn(tables', s), access' = Access(kind, x, << s >>)
  PROVE  Inv'
<1>1. << s >> \in Seq(Symbol) /\ Len(<< s >>) = 1 /\ << s >>[1] = s
  OBVIOUS
<1>2. access'.symbols = << s >> /\ access'.kind = kind
  BY DEF Access
<1>3. TypeOK'
  BY <1>1 DEF TypeOK, ChainOK, Chain, Access
<1>4. AccessIsAddressable'
  BY <1>1, <1>2 DEF AccessIsAddressable, AddressableIn
<1> QED BY <1>3, <1>4 DEF Inv

(* The invariants hold of the empty global table.                          *)
LEMMA InitInv == Init => Inv
<1> SUFFICES ASSUME Init PROVE Inv
  OBVIOUS
<1>1. ChainOK(tables) /\ access = Access("none", "", << >>)
  BY BuiltinChain, NamesAssumption DEF Init
<1>2. << >> \in Seq(Symbol)
  OBVIOUS
<1>3. TypeOK
  BY <1>1, <1>2 DEF TypeOK, ChainOK, Chain, Access
<1>4. AccessIsAddressable
  <2>1. access.symbols = << >>
    BY <1>1 DEF Access
  <2> QED BY <2>1 DEF AccessIsAddressable
<1> QED BY <1>1, <1>3, <1>4 DEF Inv

(* Every step of the compiler keeps the invariant.                         *)
LEMMA NextInv == Inv /\ [Next]_vars => Inv'
<1> SUFFICES ASSUME Inv, [Next]_vars PROVE Inv'
  OBVIOUS
<1>1. ChainOK(tables) /\ Len(tables) \in Nat /\ Len(tables) > 0
  BY DEF Inv, ChainOK, Chain
<1>2. ASSUME NEW x \in Names, Let(x) PROVE Inv'
  <2>1. ChainOK(ResolvedTables(tables, x))
    BY <1>1, ResolveKeepsChain
  <2>2. CASE ResolvedSymbol(tables, x).scope = "LOCAL"
    <3>1. Resolvable(tables, x)
      BY <2>2 DEF ResolvedSymbol, Absent
    <3>2. /\ tables' = ResolvedTables(tables, x)
          /\ access' = Access("let", x, << ResolvedSymbol(tables, x) >>)
      BY <1>2, <2>2 DEF Let
    <3> QED BY <1>1, <2>1, <3>1, <3>2, ResolvedIsAddressable, OneAccess
  <2>3. CASE ResolvedSymbol(tables, x).scope # "LOCAL"
    <3> DEFINE rs == ResolvedTables(tables, x)
    <3>1. tables' = Define(rs, x) /\ access' = Access("let", x, << DefineSymbol(rs, x) >>)
      BY <1>2, <2>3 DEF Let
    <3> HIDE DEF rs
    <3>2. ChainOK(rs)
      BY <2>1 DEF rs
    <3> QED BY <3>1, <3>2, DefineKeepsChain, DefinedIsAddressable, OneAccess
  <2> QED BY <2>2, <2>3
<1>3. ASSUME NEW x \in Names, Use(x) PROVE Inv'
  BY <1>1, <1>3, ResolveKeepsChain, ResolvedIsAddressable, OneAccess DEF Use
<1>4. ASSUME NEW name, NEW k \in Nat,
             NEW parameters \in [1..k -> Names], EnterFunction(name, parameters)
      PROVE  Inv'
  <2>1. ChainOK(tables')
    BY <1>1, <1>4, EnterKeepsChain DEF EnterFunction
  <2>2. access' = Access("enter", "", << >>)
    BY <1>4 DEF EnterFunction
  <2>3. << >> \in Seq(Symbol)
    OBVIOUS
  <2>4. TypeOK'
    BY <2>1, <2>2, <2>3 DEF TypeOK, ChainOK, Chain, Access
  <2>5. AccessIsAddressable'
    <3>1. access'.symbols = << >>
      BY <2>2 DEF Access
    <3>2. Len(access'.symbols) = 0
      BY <3>1
    <3> QED BY <3>2 DEF AccessIsAddressable
  <2> QED BY <2>1, <2>4, <2>5 DEF Inv
<1>5. CASE LeaveFunction
  <2> DEFINE ls == SubSeq(tables, 1, Len(tables) - 1)
             captured == Current(tables).free
  <2>1. tables' = ls /\ access' = Access("leave", "", captured) /\ Len(tables) > 1
    BY <1>5 DEF LeaveFunction
  <2>2. ChainOK(ls)
    BY <1>1, <2>1, LeaveKeepsChain
  <2>3. captured \in Seq(Symbol)
    <3>1. Chain(tables) /\ Len(tables) \in 1..Len(tables)
      BY <1>1 DEF ChainOK
    <3> QED BY <3>1, TableFields DEF Current
  <2>4. ASSUME NEW j \in 1..Len(captured)
        PROVE  /\ AddressableIn(ls, captured[j])
               /\ captured[j].scope \in {"LOCAL", "FREE", "FUNCTION"}
    BY <1>1, <2>1, CapturesAreAddressable
  <2> HIDE DEF ls, captured
  <2>5. access'.kind = "leave" /\ access'.symbols = captured
    BY <2>1 DEF Access
  <2>6. TypeOK'
    BY <2>1, <2>2, <2>3 DEF TypeOK, ChainOK, Chain, Access
  <2>7. AccessIsAddressable'
    BY <2>1, <2>4, <2>5 DEF AccessIsAddressable, AddressableIn
  <2> QED BY <2>1, <2>2, <2>6, <2>7 DEF Inv
<1>6. CASE UNCHANGED vars
  <2>1. tables' = tables /\ access' = access
    BY <1>6 DEF vars
  <2>2. TypeOK' /\ AccessIsAddressable'
    BY <2>1 DEF Inv, TypeOK, AccessIsAddressable
  <2> QED BY <1>1, <2>1, <2>2 DEF Inv
<1>7. \A k \in 0..MaxParameters : k \in Nat
  <2>1. MaxParameters \in Nat
    BY Zenon, NamesAssumption
  <2> QED BY <2>1
<1> QED BY <1>2, <1>3, <1>4, <1>5, <1>6, <1>7 DEF Next

(* The invariants hold together in every reachable state of the compiler's *)
(* symbol tables.                                                          *)
THEOREM Invariance == Spec => []Inv
<1> QED BY InitInv, NextInv, PTL DEF Spec

(* The chain of symbol tables stays well-formed (symbol_table.go).         *)
THEOREM TypeCorrect == Spec => []TypeOK
<1>1. Inv => TypeOK
  BY DEF Inv
<1> QED BY <1>1, Invariance, PTL

(* What a closure copies when it is made is what the captured names denote *)
(* in the enclosing function (defineFree, compiler.go:292-298).            *)
THEOREM CapturesFaithful == Spec => []CapturesAreFaithful
<1>1. Inv => CapturesAreFaithful
  BY DEF Inv, ChainOK, FaithfulIn, CapturesAreFaithful
<1> QED BY <1>1, Invariance, PTL

(* The index of a symbol is that of a slot that exists.                    *)
THEOREM SlotsAllExist == Spec => []SlotsExist
<1>1. Inv => SlotsExist
  BY DEF Inv, ChainOK, SlotExistsIn, SlotsExist
<1> QED BY <1>1, Invariance, PTL

(* Two names of a function never get one slot.                             *)
THEOREM SlotsAreDistinct == Spec => []SlotsAreNotShared
<1>1. Inv => SlotsAreNotShared
  BY DEF Inv, ChainOK, NotSharedIn, SlotsAreNotShared
<1> QED BY <1>1, Invariance, PTL

(* Every load and store the compiler emits has a slot in the function it   *)
(* is emitted into, the loads before OpClosure included.                   *)
THEOREM AccessesAreAddressable == Spec => []AccessIsAddressable
<1>1. Inv => AccessIsAddressable
  BY DEF Inv
<1> QED BY <1>1, Invariance, PTL

-----------------------------------------------------------------------------
(* The abstract state of a chain, and the level of its innermost binding   *)
(* of a name.                                                              *)
Bound(ts) == [i \in 1..Len(ts) |-> Binds(ts[i])]

Innermost(ts, x, h) ==
  /\ h \in 1..Len(ts) /\ x \in Binds(ts[h])
  /\ \A k \in (h + 1)..Len(ts) : x \notin Binds(ts[k])

(* One turn of the recursion of Origins, given the bindings further out.   *)
OriginsAt(ts, origins, i) ==
  [j \in 1..Len(ts[i].free) |->
     IF ts[i].free[j].scope = "FREE"
     THEN origins[i - 1][ts[i].free[j].index + 1]
     ELSE << i - 1, Owner(ts[i - 1], ts[i].free[j]) >>]

OriginsTo(ts, n, origins) == origins = [i \in 1..n |-> OriginsAt(ts, origins, i)]

-----------------------------------------------------------------------------
(* A slot that a name has in a table is that name's and no other's.        *)
LEMMA OwnSlot ==
  ASSUME NEW ts, ChainOK(ts), NEW i \in 1..Len(ts), NEW x \in Names,
         ts[i].store[x].scope # "ABSENT"
  PROVE  Owner(ts[i], ts[i].store[x]) = x
<1> DEFINE s == ts[i].store[x]
           owners == { y \in Names : ts[i].store[y].scope = s.scope /\ ts[i].store[y].index = s.index }
<1>1. \A y \in Names : NotSharedIn(ts[i], x, y)
  BY DEF ChainOK
<1>2. owners = {x}
  BY <1>1 DEF NotSharedIn
<1> HIDE DEF s
<1>3. Owner(ts[i], s) = IF owners = {} THEN "" ELSE CHOOSE y \in owners : TRUE
  BY DEF Owner
<1> HIDE DEF owners
<1> QED BY <1>2, <1>3 DEF s

(* The recursion is well-founded: there is a function that satisfies it.   *)
LEMMA OriginsExist ==
  ASSUME NEW ts, ChainOK(ts)
  PROVE  Origins(ts) = [i \in 1..Len(ts) |-> OriginsAt(ts, Origins(ts), i)]
<1> DEFINE T == {n \in 0..Len(ts) : ~ \E origins : OriginsTo(ts, n, origins)}
<1>1. Len(ts) \in Nat /\ Len(ts[1].free) = 0
  <2>1. Chain(ts) /\ Len(ts) \in Nat /\ 1 \in 1..Len(ts)
    BY DEF ChainOK, Chain
  <2>2. ts[1].free \in Seq(Symbol)
    BY <2>1, TableFields
  <2>3. \A j \in 1..Len(ts[1].free) : FALSE
    BY <2>1 DEF ChainOK, FaithfulIn
  <2> QED BY <2>1, <2>2, <2>3
<1>2. ASSUME NEW n \in 0..Len(ts), n \in T
      PROVE  \E m \in T : m < n
  <2>1. n # 0
    <3>1. OriginsTo(ts, 0, << >>)
      BY DEF OriginsTo
    <3> QED BY <1>2, <3>1
  <2>2. n - 1 \in 0..Len(ts)
    BY <1>1, <2>1
  <2>3. ASSUME NEW origins, OriginsTo(ts, n - 1, origins)
        PROVE  FALSE
    <3> DEFINE longer == [i \in 1..n |-> IF i = n THEN OriginsAt(ts, origins, n) ELSE origins[i]]
    <3>1. ASSUME NEW i \in 1..n
          PROVE  OriginsAt(ts, longer, i) = OriginsAt(ts, origins, i)
      <4>1. CASE i = 1
        <5>1. 1..Len(ts[i].free) = {}
          BY <1>1, <4>1
        <5> QED BY <5>1 DEF OriginsAt
      <4>2. CASE i # 1
        <5>1. longer[i - 1] = origins[i - 1]
          BY <1>1, <2>2, <4>2
        <5> HIDE DEF longer
        <5> QED BY <5>1 DEF OriginsAt
      <4> QED BY <4>1, <4>2
    <3>2. ASSUME NEW i \in 1..n
          PROVE  longer[i] = OriginsAt(ts, longer, i)
      <4>1. i # n => origins[i] = OriginsAt(ts, origins, i)
        BY <2>2, <2>3 DEF OriginsTo
      <4> QED BY <3>1, <4>1
    <3>3. OriginsTo(ts, n, longer)
      <4>1. longer = [i \in 1..n |-> longer[i]]
        OBVIOUS
      <4> HIDE DEF longer
      <4> QED BY <3>2, <4>1 DEF OriginsTo
    <3> QED BY <1>2, <3>3
  <2> QED BY <2>1, <2>2, <2>3
<1>3. T = {}
  <2>1. T \subseteq Nat
    BY <1>1
  <2> HIDE DEF T
  <2>2. ASSUME T # {} PROVE FALSE
    <3>1. PICK n \in T : \A m \in T : n <= m
      BY <2>1, <2>2, Least
    <3>2. PICK m \in T : m < n
      BY <1>2, <3>1 DEF T
    <3> QED BY <2>1, <3>1, <3>2
  <2> QED BY <2>2
<1>4. \E origins : OriginsTo(ts, Len(ts), origins)
  BY <1>1, <1>3
<1>5. Origins(ts) = CHOOSE origins : OriginsTo(ts, Len(ts), origins)
  BY DEF Origins, OriginsTo, OriginsAt
<1>6. OriginsTo(ts, Len(ts), Origins(ts))
  BY <1>4, <1>5
<1> QED BY <1>6 DEF OriginsTo

(* A captured value is, from Free list to Free list, a copy of what the    *)
(* innermost function around it that binds its name has for this name.     *)
LEMMA FollowsToBinder ==
  ASSUME NEW ts, ChainOK(ts),
         NEW i \in 1..Len(ts), NEW j \in 1..Len(ts[i].free)
  PROVE  LET x == ts[i].free[j].name IN
         \E h \in 1..(i - 1) :
           /\ Origins(ts)[i][j] = << h, x >> /\ x \in Names /\ x \in Binds(ts[h])
           /\ \A k \in (h + 1)..(i - 1) : x \notin Binds(ts[k])
<1> DEFINE name(a, b) == ts[a].free[b].name
           leads(a, b) ==
             \E h \in 1..(a - 1) :
               /\ Origins(ts)[a][b] = << h, name(a, b) >>
               /\ name(a, b) \in Names /\ name(a, b) \in Binds(ts[h])
               /\ \A k \in (h + 1)..(a - 1) : name(a, b) \notin Binds(ts[k])
           T == {a \in 1..Len(ts) : \E b \in 1..Len(ts[a].free) : ~ leads(a, b)}
<1>1. Chain(ts) /\ Len(ts) \in Nat
  BY DEF ChainOK, Chain
<1>2. ASSUME NEW a \in 1..Len(ts), \A c \in 1..(a - 1) : c \notin T,
             NEW b \in 1..Len(ts[a].free)
      PROVE  leads(a, b)
  <2> DEFINE x == name(a, b)
             s == ts[a - 1].store[x]
  <2>1. a - 1 \in 1..Len(ts) /\ ts[a].free[b] = s /\ s.scope \in {"LOCAL", "FREE", "FUNCTION"}
    BY <1>1 DEF ChainOK, FaithfulIn
  <2>2. x \in Names
    <3>1. ts[a].free \in Seq(Symbol)
      BY <1>1, TableFields
    <3>2. ts[a].free[b] \in Symbol
      BY <3>1, ElementOfSeq
    <3> QED BY <3>2 DEF Symbol
  <2>3. Origins(ts)[a][b] = IF s.scope = "FREE" THEN Origins(ts)[a - 1][s.index + 1]
                            ELSE << a - 1, Owner(ts[a - 1], s) >>
    <3>1. Origins(ts)[a] = OriginsAt(ts, Origins(ts), a)
      BY OriginsExist
    <3> QED BY <2>1, <3>1 DEF OriginsAt
  <2>4. CASE s.scope # "FREE"
    <3>1. x \in Binds(ts[a - 1])
      BY <2>1, <2>2, <2>4 DEF Binds
    <3>2. Origins(ts)[a][b] = << a - 1, x >>
      <4>1. Owner(ts[a - 1], s) = x
        <5>1. s.scope # "ABSENT"
          BY <2>1
        <5>2. s = ts[a - 1].store[x]
          OBVIOUS
        <5> HIDE DEF s, x
        <5> QED BY <2>1, <2>2, <5>1, <5>2, OwnSlot
      <4> QED BY <2>3, <2>4, <4>1
    <3>3. a - 1 \in 1..(a - 1) /\ ((a - 1) + 1)..(a - 1) = {}
      BY <1>1, <2>1
    <3> HIDE DEF x, s
    <3>4. name(a, b) = x
      BY DEF x
    <3> HIDE DEF name
    <3> QED BY <2>2, <3>1, <3>2, <3>3, <3>4
  <2>5. CASE s.scope = "FREE"
    <3> DEFINE b1 == s.index + 1
    <3>1. /\ SlotExistsIn(ts, a - 1, x)
          /\ s \in Symbol \cup {Absent} /\ Len(ts[a - 1].free) \in Nat
      BY <1>1, <2>1, <2>2, StoredSymbol DEF ChainOK
    <3>2. b1 \in 1..Len(ts[a - 1].free) /\ name(a - 1, b1) = x
      <4>1. s.index \in Nat
        BY <3>1, SymbolIndex
      <4>2. s.index < Len(ts[a - 1].free) /\ ts[a - 1].free[s.index + 1].name = x
        <5>1. s = ts[a - 1].store[x]
          OBVIOUS
        <5> HIDE DEF s, x
        <5> QED BY <2>5, <3>1, <5>1 DEF SlotExistsIn
      <4> HIDE DEF s, x
      <4> QED BY <3>1, <4>1, <4>2
    <3>3. leads(a - 1, b1)
      <4>1. a - 1 \notin T
        <5>1. a - 1 \in 1..(a - 1)
          BY <1>1, <2>1
        <5> HIDE DEF T
        <5> QED BY <1>2, <5>1
      <4> HIDE DEF leads, b1
      <4> QED BY <2>1, <3>2, <4>1
    <3>4. x \notin Binds(ts[a - 1])
      BY <2>5 DEF Binds
    <3>5. PICK l \in 1..(a - 2) :
            /\ Origins(ts)[a - 1][b1] = << l, x >> /\ x \in Binds(ts[l])
            /\ \A k \in (l + 1)..(a - 2) : x \notin Binds(ts[k])
      <4> HIDE DEF b1, x
      <4> QED BY <1>1, <3>2, <3>3
    <3>6. Origins(ts)[a][b] = << l, x >>
      BY <2>3, <2>5, <3>5
    <3>7. /\ l \in 1..(a - 1)
          /\ \A k \in (l + 1)..(a - 1) : k = a - 1 \/ k \in (l + 1)..(a - 2)
      <4>1. l \in 1..(a - 2) /\ a \in Int
        BY <1>1
      <4> QED BY <4>1
    <3>8. \A k \in (l + 1)..(a - 1) : x \notin Binds(ts[k])
      BY <3>4, <3>5, <3>7
    <3> QED BY <2>2, <3>5, <3>6, <3>7, <3>8
  <2> QED BY <2>4, <2>5
<1>3. T = {}
  <2>1. T \subseteq Nat /\ T \subseteq 1..Len(ts)
    BY <1>1
  <2>2. ASSUME NEW a \in T, \A c \in T : a <= c PROVE FALSE
    <3>1. \A c \in 1..(a - 1) : c \notin T
      <4> HIDE DEF T
      <4> QED BY <2>1, <2>2
    <3>2. PICK b \in 1..Len(ts[a].free) : ~ leads(a, b)
      BY <2>2
    <3> HIDE DEF leads
    <3> QED BY <1>2, <2>1, <3>1, <3>2
  <2> HIDE DEF T
  <2> QED BY <2>1, <2>2, Least
<1>4. leads(i, j)
  <2> HIDE DEF leads
  <2> QED BY <1>3
<1> QED BY <1>4

(* Capturing binds nothing: what a chain binds is what it bound before.    *)
LEMMA ResolveBindsNothing ==
  ASSUME NEW ts, ChainOK(ts), NEW x \in Names
  PROVE  Bound(ResolvedTables(ts, x)) = Bound(ts)
<1> DEFINE rs == ResolvedTables(ts, x)
<1>1. /\ Chain(ts) /\ Len(ts) \in Nat /\ Len(rs) = Len(ts)
      /\ \A i \in 1..Len(ts) :
           rs[i] = IF IsCaptured(ts, x) /\ Holder(ts, x) < i
                   THEN DefineFree(ts[i], Captured(ts, x, i)) ELSE ts[i]
  BY ResolvedChain DEF ChainOK, Chain
<1>2. ASSUME NEW i \in 1..Len(ts) PROVE Binds(rs[i]) = Binds(ts[i])
  <2>1. CASE IsCaptured(ts, x) /\ Holder(ts, x) < i
    <3>1. /\ Captured(ts, x, i) \in Symbol /\ Captured(ts, x, i).name = x
          /\ ts[i] \in Table /\ rs[i] = DefineFree(ts[i], Captured(ts, x, i))
      BY <1>1, <2>1, CapturedSymbol, StoredSymbol
    <3>2. /\ rs[i].store[x] = FreeSymbol(ts[i], x)
          /\ \A y \in Names : y # x => rs[i].store[y] = ts[i].store[y]
      BY <3>1, DefineFreeTable
    <3>3. ts[i].store[x].scope = "ABSENT"
      BY <1>1, <2>1, HolderIsInnermost DEF IsCaptured, Defined
    <3>4. rs[i].store[x].scope = "FREE"
      BY <3>2 DEF FreeSymbol
    <3> HIDE DEF rs
    <3> QED BY <3>2, <3>3, <3>4 DEF Binds
  <2>2. CASE ~ (IsCaptured(ts, x) /\ Holder(ts, x) < i)
    BY <1>1, <2>2
  <2> QED BY <2>1, <2>2
<1> QED BY <1>1, <1>2 DEF Bound

(* What Resolve returns stands for the innermost binding of the name.      *)
LEMMA ResolvedBinding ==
  ASSUME NEW ts, ChainOK(ts), NEW x \in Names, Resolvable(ts, x)
  PROVE  \E l : /\ Innermost(ts, x, l)
               /\ Binding(ResolvedTables(ts, x), ResolvedSymbol(ts, x)) = << l, x >>
<1> DEFINE n == Len(ts)
           h == Holder(ts, x)
           rs == ResolvedTables(ts, x)
           s == ResolvedSymbol(ts, x)
<1>1. /\ Chain(ts) /\ n \in Nat /\ n \in 1..n /\ h \in 1..n
      /\ ts[h].store[x] \in Symbol
      /\ \A k \in (h + 1)..n : ts[k].store[x].scope = "ABSENT"
      /\ ChainOK(rs) /\ Len(rs) = n
      /\ \A i \in 1..n : rs[i] = IF IsCaptured(ts, x) /\ h < i
                                THEN DefineFree(ts[i], Captured(ts, x, i)) ELSE ts[i]
  BY HolderIsInnermost, StoredSymbol, ResolvedChain, ResolveKeepsChain
  DEF ChainOK, Chain, Defined
<1>2. SlotExistsIn(ts, h, x)
  BY <1>1 DEF ChainOK
<1>3. s \in Symbol
  BY ResolvedIsAddressable
<1> HIDE DEF h
<1>4. CASE s.scope \in {"GLOBAL", "BUILTIN"}
  <2>1. s = ts[h].store[x]
    BY <1>4 DEF ResolvedSymbol, FreeSymbol, h
  <2>2. h = 1
    BY <1>2, <1>4, <2>1 DEF SlotExistsIn
  <2>3. x \in Binds(ts[1])
    BY <1>4, <2>1, <2>2 DEF Binds
  <2>4. \A k \in 2..n : x \notin Binds(ts[k])
    BY <1>1, <2>2 DEF Binds
  <2>5. Binding(rs, s) = << 1, x >>
    <3>1. rs[1] = ts[1]
      BY <1>1, <2>2
    <3>2. Owner(ts[1], s) = x
      <4>1. ts[1].store[x].scope # "ABSENT"
        BY <1>4, <2>1, <2>2
      <4>2. Owner(ts[1], ts[1].store[x]) = x
        BY <1>1, <2>2, <4>1, OwnSlot
      <4> QED BY <2>1, <2>2, <4>2
    <3> HIDE DEF rs, s
    <3> QED BY <1>4, <3>1, <3>2 DEF Binding
  <2>6. Innermost(ts, x, 1)
    BY <1>1, <2>3, <2>4 DEF Innermost
  <2> QED BY <2>5, <2>6
<1>5. CASE s.scope \notin {"GLOBAL", "BUILTIN"}
  <2>1. rs[n].store[x] = s
    <3>1. CASE IsCaptured(ts, x) /\ h < n
      <4>1. Captured(ts, x, n) \in Symbol /\ Captured(ts, x, n).name = x /\ ts[n] \in Table
        BY <1>1, <3>1, CapturedSymbol, StoredSymbol DEF h
      <4>2. rs[n] = DefineFree(ts[n], Captured(ts, x, n))
        BY <1>1, <3>1
      <4>3. rs[n].store[x] = FreeSymbol(ts[n], x)
        BY <4>1, <4>2, DefineFreeTable
      <4>4. s = FreeSymbol(ts[n], x)
        BY <3>1 DEF ResolvedSymbol, Current, h
      <4> QED BY <4>3, <4>4
    <3>2. CASE ~ (IsCaptured(ts, x) /\ h < n)
      <4>1. s = ts[h].store[x]
        BY <3>2 DEF ResolvedSymbol, h
      <4>2. IsCaptured(ts, x)
        BY <1>5, <4>1 DEF IsCaptured, h
      <4>3. h = n
        BY <1>1, <3>2, <4>2
      <4> QED BY <1>1, <3>2, <4>1, <4>3
    <3> QED BY <3>1, <3>2
  <2>2. Bound(rs) = Bound(ts)
    BY ResolveBindsNothing
  <2> HIDE DEF rs, s
  <2>3. ASSUME NEW i \in 1..n PROVE Binds(rs[i]) = Binds(ts[i])
    <3>1. Bound(rs)[i] = Bound(ts)[i]
      BY <2>2
    <3> QED BY <1>1, <3>1 DEF Bound
  <2>4. CASE s.scope = "FREE"
    <3> DEFINE j == s.index + 1
    <3>1. SlotExistsIn(rs, n, x) /\ Chain(rs) /\ s.index \in Nat
      BY <1>1, <1>3 DEF ChainOK, Symbol
    <3>2. Len(rs[n].free) \in Nat
      BY <1>1, <3>1, StoredSymbol
    <3>3. j \in 1..Len(rs[n].free) /\ rs[n].free[j].name = x
      BY <2>1, <2>4, <3>1, <3>2 DEF SlotExistsIn
    <3>4. Binding(rs, s) = Origins(rs)[n][j]
      BY <1>1, <2>4 DEF Binding
    <3> HIDE DEF j
    <3>5. PICK l \in 1..(n - 1) :
            /\ Origins(rs)[n][j] = << l, x >> /\ x \in Binds(rs[l])
            /\ \A k \in (l + 1)..(n - 1) : x \notin Binds(rs[k])
      BY <1>1, <3>3, FollowsToBinder
    <3>6. x \notin Binds(rs[n])
      BY <2>1, <2>4 DEF Binds
    <3>7. l \in 1..n /\ \A k \in (l + 1)..n : k = n \/ k \in (l + 1)..(n - 1)
      BY <1>1, <3>5
    <3>8. Innermost(ts, x, l)
      BY <1>1, <2>3, <3>5, <3>6, <3>7 DEF Innermost
    <3> QED BY <3>4, <3>5, <3>8 DEF rs, s
  <2>5. CASE s.scope # "FREE"
    <3>1. s.scope \in {"LOCAL", "FUNCTION"}
      BY <1>3, <1>5, <2>5 DEF Symbol, Scope
    <3>2. Binding(rs, s) = << n, x >>
      <4>1. Owner(rs[n], s) = x
        BY <1>1, <2>1, <3>1, OwnSlot
      <4> QED BY <1>1, <3>1, <4>1 DEF Binding, Current
    <3>3. x \in Binds(rs[n])
      BY <2>1, <3>1 DEF Binds
    <3>4. Innermost(ts, x, n)
      BY <1>1, <2>3, <3>3 DEF Innermost
    <3> QED BY <3>2, <3>4 DEF rs, s
  <2> QED BY <2>4, <2>5
<1> QED BY <1>4, <1>5

-----------------------------------------------------------------------------
(* A name has one innermost binding, and Lexical's BindingLevel is it.     *)
LEMMA InnermostIsUnique ==
  ASSUME NEW ts, Chain(ts), NEW x, NEW h, Innermost(ts, x, h)
  PROVE  /\ h = CHOOSE i \in 1..Len(Bound(ts)) :
                  x \in Bound(ts)[i] /\ \A j \in (i + 1)..Len(Bound(ts)) : x \notin Bound(ts)[j]
         /\ \E i \in 1..Len(Bound(ts)) : x \in Bound(ts)[i]
<1> DEFINE bound == Bound(ts)
           here(i) == x \in bound[i] /\ \A j \in (i + 1)..Len(bound) : x \notin bound[j]
<1>1. Len(ts) \in Nat /\ Len(bound) = Len(ts) /\ \A i \in 1..Len(ts) : bound[i] = Binds(ts[i])
  BY DEF Bound, Chain
<1> HIDE DEF bound
<1>2. h \in 1..Len(bound) /\ here(h)
  BY <1>1 DEF Innermost
<1>3. \A i \in 1..Len(bound) : here(i) => i = h
  <2> SUFFICES ASSUME NEW i \in 1..Len(bound), here(i) PROVE i = h
    OBVIOUS
  <2>1. ~ (i < h)
    BY <1>1, <1>2
  <2>2. ~ (h < i)
    BY <1>1, <1>2
  <2> QED BY <1>1, <1>2, <2>1, <2>2
<1> HIDE DEF here
<1>4. (CHOOSE i \in 1..Len(bound) : here(i)) = h
  BY <1>2, <1>3
<1>5. \E i \in 1..Len(bound) : x \in bound[i]
  BY <1>2 DEF here
<1> QED BY <1>4, <1>5 DEF here, bound

(* Defining a name binds it in the innermost function and nowhere else.    *)
LEMMA DefineBinds ==
  ASSUME NEW ts, ChainOK(ts), NEW x \in Names
  PROVE  Bound(Define(ts, x)) = [Bound(ts) EXCEPT ![Len(Bound(ts))] = @ \cup {x}]
<1> DEFINE n == Len(ts)
           t == ts[n]
           s == DefineSymbol(ts, x)
           new == [store |-> [t.store EXCEPT ![x] = s], free |-> t.free, num |-> t.num + 1]
           ds == Define(ts, x)
<1>1. Chain(ts) /\ n \in Nat /\ n \in 1..n /\ Len(ds) = n /\ s \in Symbol
  BY DefineKeepsChain DEF ChainOK, Chain
<1>2. t \in Table /\ t.num \in Nat /\ t.free \in Seq(Symbol)
      /\ t.store \in [Names -> Symbol \cup {Absent}]
  BY <1>1, StoredSymbol
<1>3. new \in Table
  <2> HIDE DEF s
  <2> QED BY <1>1, <1>2 DEF Table
<1>4. ds[n] = new /\ \A i \in 1..(n - 1) : ds[i] = ts[i]
  <2>1. ds = Append(SubSeq(ts, 1, Len(ts) - 1), new)
    BY DEF Define, Current
  <2> HIDE DEF new, ds
  <2> QED BY <1>1, <1>3, <2>1, ReplaceLast
<1>5. Binds(new) = Binds(t) \cup {x}
  <2>1. s.scope \notin {"ABSENT", "FREE"}
    BY DEF DefineSymbol
  <2>2. new.store[x] = s /\ \A y \in Names : y # x => new.store[y] = t.store[y]
    <3> HIDE DEF s
    <3> QED BY <1>2
  <2> HIDE DEF new, s, t
  <2> QED BY <2>1, <2>2 DEF Binds
<1>6. Len(Bound(ts)) = n
  BY <1>1 DEF Bound
<1> HIDE DEF ds, new
<1>7. ASSUME NEW i \in 1..n
      PROVE  Binds(ds[i]) = IF i = n THEN Binds(t) \cup {x} ELSE Binds(ts[i])
  <2>1. i = n \/ i \in 1..(n - 1)
    BY <1>1
  <2> HIDE DEF n
  <2> QED BY <1>4, <1>5, <2>1
<1> QED BY <1>1, <1>6, <1>7 DEF Bound, ds

(* What Define returns stands for the binding it has made.                 *)
LEMMA DefinedBinding ==
  ASSUME NEW ts, ChainOK(ts), NEW x \in Names
  PROVE  Binding(Define(ts, x), DefineSymbol(ts, x)) = << Len(ts), x >>
<1> DEFINE n == Len(ts)
           ds == Define(ts, x)
           s == DefineSymbol(ts, x)
<1>1. ChainOK(ds) /\ Len(ds) = n /\ s \in Symbol /\ n \in Nat /\ n \in 1..n
  BY DefineKeepsChain DEF ChainOK, Chain
<1>2. ds[n].store[x] = s
  BY <1>1, DefineKeepsChain DEF Current
<1>3. s.scope = (IF n = 1 THEN "GLOBAL" ELSE "LOCAL")
  BY DEF DefineSymbol
<1> HIDE DEF ds, s
<1>4. Owner(ds[n], s) = x
  BY <1>1, <1>2, <1>3, OwnSlot
<1> QED BY <1>1, <1>3, <1>4 DEF Binding, Current, ds, s

(* A function literal binds what its table holds when its body starts:     *)
(* its name and its parameters.                                            *)
LEMMA EnterBinds ==
  ASSUME NEW ts, Chain(ts), NEW table \in Table
  PROVE  Bound(Append(ts, table)) = Append(Bound(ts), Binds(table))
<1>1. ts \in Seq(Table) /\ Len(ts) \in Nat
  BY DEF Chain
<1>2. /\ Len(Append(ts, table)) = Len(ts) + 1
      /\ \A i \in 1..Len(ts) : Append(ts, table)[i] = ts[i]
      /\ Append(ts, table)[Len(ts) + 1] = table
  BY <1>1, AppendProperties
<1>3. Bound(ts) \in Seq(SUBSET Names) /\ Len(Bound(ts)) = Len(ts)
  BY <1>1 DEF Bound, Binds
<1>4. Bound(Append(ts, table)) \in Seq(SUBSET Names) /\ Len(Bound(Append(ts, table))) = Len(ts) + 1
  BY <1>1, <1>2 DEF Bound, Binds
<1>5. /\ Len(Append(Bound(ts), Binds(table))) = Len(ts) + 1
      /\ Append(Bound(ts), Binds(table)) \in Seq(SUBSET Names)
      /\ \A i \in 1..Len(ts) : Append(Bound(ts), Binds(table))[i] = Bound(ts)[i]
      /\ Append(Bound(ts), Binds(table))[Len(ts) + 1] = Binds(table)
  <2>1. Binds(table) \in SUBSET Names
    BY DEF Binds
  <2> QED BY <1>3, <2>1, AppendProperties
<1>6. \A i \in 1..(Len(ts) + 1) :
        Bound(Append(ts, table))[i] = Append(Bound(ts), Binds(table))[i]
  <2> TAKE i \in 1..(Len(ts) + 1)
  <2>1. Bound(Append(ts, table))[i] = Binds(Append(ts, table)[i])
    BY <1>2 DEF Bound
  <2>2. i \in 1..Len(ts) => Bound(ts)[i] = Binds(ts[i])
    BY DEF Bound
  <2>3. i \in 1..Len(ts) \/ i = Len(ts) + 1
    BY <1>1
  <2> QED BY <1>2, <1>5, <2>1, <2>2, <2>3
<1> QED BY <1>4, <1>5, <1>6, SeqEqual

(* Leaving a function forgets its bindings and no other.                   *)
LEMMA LeaveBinds ==
  ASSUME NEW ts, ChainOK(ts), Len(ts) > 1
  PROVE  /\ Len(Bound(ts)) = Len(ts)
         /\ Bound(SubSeq(ts, 1, Len(ts) - 1)) = SubSeq(Bound(ts), 1, Len(Bound(ts)) - 1)
<1> DEFINE ls == SubSeq(ts, 1, Len(ts) - 1)
<1>1. /\ Len(ts) \in Nat /\ Len(ls) = Len(ts) - 1
      /\ \A i \in 1..(Len(ts) - 1) : ls[i] = ts[i]
  BY LeaveKeepsChain DEF ChainOK, Chain
<1> HIDE DEF ls
<1>2. Bound(ts) \in Seq(SUBSET Names) /\ Len(Bound(ts)) = Len(ts)
  BY <1>1 DEF Bound, Binds
<1>3. SubSeq(Bound(ts), 1, Len(ts) - 1) = [i \in 1..(Len(ts) - 1) |-> Bound(ts)[i]]
  BY <1>1, <1>2
<1>4. \A i \in 1..(Len(ts) - 1) : Bound(ts)[i] = Binds(ls[i])
  BY <1>1 DEF Bound
<1>5. Bound(ls) = [i \in 1..(Len(ts) - 1) |-> Binds(ls[i])]
  BY <1>1 DEF Bound
<1> QED BY <1>2, <1>3, <1>4, <1>5 DEF ls

-----------------------------------------------------------------------------
(* The program starts with the builtins bound and no use compiled.         *)
LEMMA InitRefines == Init => Lexical!Init
<1> SUFFICES ASSUME Init PROVE Lexical!Init
  OBVIOUS
<1> DEFINE table == BuiltinTable(Builtins)
<1>1. tables = << table >> /\ access = Access("none", "", << >>)
  BY DEF Init
<1>2. ASSUME NEW x \in Names PROVE table.store[x].scope # "FREE"
  BY DEF BuiltinTable, Absent
<1> HIDE DEF table
<1>3. Binds(table) = {x \in Names : Defined(table, x)}
  BY <1>2 DEF Binds, Defined
<1>4. [i \in 1..Len(tables) |-> Binds(tables[i])] = << Binds(table) >>
  <2>1. Len(tables) = 1 /\ tables[1] = table
    BY <1>1
  <2> QED BY <2>1
<1>5. access.kind \notin {"let", "use"}
  BY <1>1 DEF Access
<1> QED BY <1>3, <1>4, <1>5 DEF Lexical!Init, Lexical!Nothing, table

(* Every node the compiler meets opens or closes a function, binds a name, *)
(* denotes the innermost binding of one, or changes nothing of this.       *)
LEMMA NextRefines == Inv /\ [Next]_vars => [Lexical!Next]_(Lexical!vars)
<1> SUFFICES ASSUME Inv, [Next]_vars PROVE [Lexical!Next]_(Lexical!vars)
  OBVIOUS
<1>1. ChainOK(tables) /\ Chain(tables) /\ Len(tables) \in Nat /\ Len(tables) > 0
  BY DEF Inv, ChainOK, Chain
<1>2. ASSUME NEW x \in Names, Let(x) PROVE Lexical!Bind(x)
  <2> DEFINE rs == ResolvedTables(tables, x)
  <2>1. ChainOK(rs) /\ Bound(rs) = Bound(tables)
    BY <1>1, ResolveKeepsChain, ResolveBindsNothing
  <2>2. access'.kind = "let" /\ access'.name = x
    BY <1>2 DEF Let, Access
  <2>3. /\ Bound(tables') = [Bound(tables) EXCEPT ![Len(Bound(tables))] = @ \cup {x}]
        /\ Binding(tables', access'.symbols[1]) = << Len(Bound(tables)), x >>
    <3>1. CASE ResolvedSymbol(tables, x).scope = "LOCAL"
      <4>1. tables' = rs /\ access'.symbols[1] = ResolvedSymbol(tables, x)
        BY <1>2, <3>1 DEF Let, Access
      <4>2. Resolvable(tables, x)
        BY <3>1 DEF ResolvedSymbol, Absent
      <4>3. PICK l : Innermost(tables, x, l) /\ Binding(rs, ResolvedSymbol(tables, x)) = << l, x >>
        BY <1>1, <4>2, ResolvedBinding
      <4>4. l = Len(rs) /\ Len(rs) = Len(tables)
        <5>1. Binding(rs, ResolvedSymbol(tables, x)) =
                << Len(rs), Owner(Current(rs), ResolvedSymbol(tables, x)) >>
          BY <3>1 DEF Binding
        <5> QED BY <1>1, <4>3, <5>1, ResolvedChain
      <4>5. x \in Binds(tables[Len(tables)])
        <5> HIDE DEF rs
        <5> QED BY <4>3, <4>4 DEF Innermost
      <4>6. Len(Bound(tables)) = Len(tables) /\ Bound(tables)[Len(tables)] = Binds(tables[Len(tables)])
            /\ Bound(tables) = [i \in 1..Len(tables) |-> Bound(tables)[i]]
        BY <1>1 DEF Bound
      <4> HIDE DEF rs
      <4> QED BY <1>1, <2>1, <4>1, <4>3, <4>4, <4>5, <4>6
    <3>2. CASE ResolvedSymbol(tables, x).scope # "LOCAL"
      <4>1. tables' = Define(rs, x) /\ access'.symbols[1] = DefineSymbol(rs, x)
        BY <1>2, <3>2 DEF Let, Access
      <4>2. Len(rs) = Len(tables)
        BY <1>1, ResolvedChain
      <4> HIDE DEF rs
      <4>3. Len(Bound(rs)) = Len(rs)
        BY <2>1, <1>1, <4>2 DEF Bound
      <4> QED BY <2>1, <4>1, <4>2, <4>3, DefineBinds, DefinedBinding
    <3> QED BY <3>1, <3>2
  <2> QED BY <2>2, <2>3 DEF Lexical!Bind, Lexical!Denotes, Bound
<1>3. ASSUME NEW x \in Names, Use(x) PROVE Lexical!Denote(x)
  <2> DEFINE rs == ResolvedTables(tables, x)
             s == ResolvedSymbol(tables, x)
  <2>1. Resolvable(tables, x) /\ tables' = rs /\ access' = Access("use", x, << s >>)
    BY <1>3 DEF Use
  <2>2. Bound(rs) = Bound(tables)
    BY <1>1, ResolveBindsNothing
  <2>7. PICK l : Innermost(tables, x, l) /\ Binding(rs, s) = << l, x >>
    BY <1>1, <2>1, ResolvedBinding
  <2> HIDE DEF rs, s
  <2>3. access'.kind = "use" /\ access'.name = x /\ access'.symbols[1] = s
    BY <2>1 DEF Access
  <2>4. Bound(tables') = Bound(tables)
    BY <2>1, <2>2
  <2>5. << access'.name, Binding(tables', access'.symbols[1]) >> = << x, << l, x >> >>
    BY <2>1, <2>3, <2>7
  <2>6. /\ l =
              CHOOSE i \in 1..Len(Bound(tables)) :
                x \in Bound(tables)[i] /\ \A j \in (i + 1)..Len(Bound(tables)) : x \notin Bound(tables)[j]
        /\ \E i \in 1..Len(Bound(tables)) : x \in Bound(tables)[i]
    BY <1>1, <2>7, InnermostIsUnique
  <2> QED BY <2>3, <2>4, <2>5, <2>6
          DEF Lexical!Denote, Lexical!Denotes, Lexical!BindingLevel, Bound
<1>4. ASSUME NEW name, NEW k \in Nat,
             NEW parameters \in [1..k -> Names], EnterFunction(name, parameters)
      PROVE  \E names \in SUBSET Names : Lexical!Open(names)
  <2> DEFINE table == FunctionTable(name, parameters)
  <2>1. tables' = Append(tables, table) /\ access'.kind = "enter"
    BY <1>4 DEF EnterFunction, Access
  <2>2. table \in Table
    <3> HIDE DEF table
    <3> QED BY FunctionTableSymbols DEF table
  <2> HIDE DEF table
  <2>3. Bound(tables') = Append(Bound(tables), Binds(table)) /\ Binds(table) \in SUBSET Names
    BY <1>1, <2>1, <2>2, EnterBinds DEF Binds
  <2> QED BY <2>1, <2>3 DEF Lexical!Open, Lexical!Nothing, Bound
<1>5. CASE LeaveFunction
  <2>1. /\ Len(tables) > 1 /\ tables' = SubSeq(tables, 1, Len(tables) - 1)
        /\ access'.kind = "leave"
    BY <1>5 DEF LeaveFunction, Access
  <2>2. Len(Bound(tables)) > 1 /\ Bound(tables') = SubSeq(Bound(tables), 1, Len(Bound(tables)) - 1)
    BY <1>1, <2>1, LeaveBinds
  <2> QED BY <2>1, <2>2 DEF Lexical!Close, Lexical!Nothing, Lexical!Next, Bound
<1>6. CASE UNCHANGED vars
  <2>1. tables' = tables /\ access' = access
    BY <1>6 DEF vars
  <2> QED BY <2>1 DEF Lexical!vars
<1>7. \A k \in 0..MaxParameters : k \in Nat
  <2>1. MaxParameters \in Nat
    BY Zenon, NamesAssumption
  <2> QED BY <2>1
<1> QED BY <1>2, <1>3, <1>4, <1>5, <1>6, <1>7 DEF Next, Lexical!Next

(* A compiled use of a name reads the binding of the innermost function    *)
(* open at that point that binds it: the symbol tables implement lexical   *)
(* scoping (symbol_table.go, and its use in compiler.go).                  *)
THEOREM Scoping == Spec => UsesFollowLexicalScoping
<1> QED BY InitRefines, NextRefines, Invariance, PTL DEF Spec, UsesFollowLexicalScoping, Lexical!Spec
==============================================================================

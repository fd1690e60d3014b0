------------------------- MODULE HleDispatchProofs -------------------------
(***************************************************************************)
(* The dispatch of guest calls, for every import table and every list of   *)
(* HLE modules: the map that main resolves agrees with the stubs that the  *)
(* loader patched, and a call runs a function of the NID in its stub.      *)
(***************************************************************************)
EXTENDS HleDispatch, SequenceTheorems, NaturalsInduction, WellFoundedInduction,
        TLAPS

-----------------------------------------------------------------------------
(* Numbers and flattened sequences *)

\* A nonempty set of natural numbers has a least element.
LEMMA LeastPlace ==
    ASSUME NEW S \in SUBSET Nat, S # {}
    PROVE  \E n \in S : \A m \in S : n <= m
<1> DEFINE R == {ss \in Nat \X Nat : ss[1] < ss[2]}
<1>1. IsWellFoundedOn(R, Nat)
  <2>1. R = OpToRel(<, Nat)
    BY DEF OpToRel
  <2> QED
    BY <2>1, NatLessThanWellFounded, Zenon
<1>2. PICK n \in S : \A m \in S : ~ (<<m, n>> \in R)
  BY <1>1, WFMin, Zenon
<1>3. ASSUME NEW m \in S
      PROVE  n <= m
  <2>1. <<m, n>> \in Nat \X Nat /\ <<m, n>> \notin R
    BY <1>2, Zenon
  <2> QED
    BY <2>1
<1> QED
  BY <1>3

\* The running value of FlattenSeq: what it has after i sequences is a sequence.
LEMMA FlattenTrace ==
    ASSUME NEW S, NEW s \in Seq(Seq(S)), s # <<>>
    PROVE  \E f : /\ FlattenSeq(s) = f[Len(s)]
                  /\ \A i \in 1 .. Len(s) :
                       /\ f[i] = IF i = 1 THEN s[i] ELSE f[i - 1] \o s[i]
                       /\ f[i] \in Seq(S)
<1> DEFINE Step(f, i) == IF i = 1 THEN s[i] ELSE f[i - 1] \o s[i]
           Trace(f, n) == /\ f = [i \in 1 .. n |-> f[i]]
                          /\ \A i \in 1 .. n : f[i] = Step(f, i)
           flatten == CHOOSE f : f = [i \in 1 .. Len(s) |-> Step(f, i)]
           Without == { n \in Nat : n <= Len(s) /\ ~ \E f : Trace(f, n) }
<1>1. Len(s) \in Nat /\ Len(s) >= 1
  BY EmptySeq, LenProperties
<1>2. Without = {}
  <2> SUFFICES ASSUME Without # {}
               PROVE  FALSE
    OBVIOUS
  <2>1. PICK n \in Without : \A m \in Without : n <= m
    <3>1. Without \in SUBSET Nat
      OBVIOUS
    <3> HIDE DEF Without
    <3> QED
      BY <3>1, LeastPlace
  <2>2. n \in Nat /\ n <= Len(s)
    OBVIOUS
  <2>3. CASE n = 0
    <3> DEFINE f == [i \in 1 .. 0 |-> 0]
    <3>1. Trace(f, 0)
      OBVIOUS
    <3> QED
      BY <2>3, <3>1
  <2>4. CASE n # 0
    <3>1. n - 1 \in Nat /\ n - 1 <= Len(s) /\ n - 1 \notin Without
      <4>1. n - 1 \in Nat /\ n - 1 <= Len(s) /\ ~ (n <= n - 1)
        BY <1>1, <2>2, <2>4
      <4> HIDE DEF Without
      <4> QED
        BY <2>1, <4>1
    <3>2. PICK g : Trace(g, n - 1)
      BY <3>1
    <3> DEFINE last == IF n = 1 THEN s[n] ELSE g[n - 1] \o s[n]
               f == [i \in 1 .. n |-> IF i < n THEN g[i] ELSE last]
    <3>3. f = [i \in 1 .. n |-> f[i]]
      OBVIOUS
    <3>4. ASSUME NEW i \in 1 .. n
          PROVE  f[i] = Step(f, i)
      <4>1. CASE i = n
        <5>1. f[n] = last /\ (n # 1 => f[n - 1] = g[n - 1])
          BY <2>2, <2>4
        <5> HIDE DEF f
        <5> QED
          BY <2>2, <2>4, <4>1, <5>1
      <4>2. CASE i < n
        <5>1. i \in 1 .. n - 1
          BY <2>2, <4>2
        <5>2. g[i] = Step(g, i)
          BY <3>2, <5>1
        <5>3. f[i] = g[i] /\ (i # 1 => f[i - 1] = g[i - 1])
          BY <2>2, <4>2, <5>1
        <5> HIDE DEF f
        <5> QED
          BY <5>2, <5>3
      <4> QED
        BY <2>2, <4>1, <4>2
    <3> HIDE DEF f
    <3>5. Trace(f, n)
      BY <3>3, <3>4
    <3> QED
      BY <3>5
  <2> QED
    BY <2>3, <2>4
<1>3. PICK f : Trace(f, Len(s))
  <2>1. Len(s) \notin Without
    <3> HIDE DEF Without
    <3> QED
      BY <1>2
  <2>2. Len(s) \in Nat /\ Len(s) <= Len(s)
    BY <1>1
  <2> HIDE DEF Trace
  <2> QED
    BY <2>1, <2>2
<1>4. f = [i \in 1 .. Len(s) |-> Step(f, i)]
  BY <1>3
<1>5. flatten = [i \in 1 .. Len(s) |-> Step(flatten, i)]
  BY <1>4
<1>6. FlattenSeq(s) = flatten[Len(s)]
  BY <1>1 DEF FlattenSeq
<1> HIDE DEF flatten
<1>7. \A i \in 1 .. Len(s) : flatten[i] = Step(flatten, i)
  BY <1>5
<1> DEFINE Wrong == { n \in Nat : n \in 1 .. Len(s) /\ flatten[n] \notin Seq(S) }
<1>8. Wrong = {}
  <2> SUFFICES ASSUME Wrong # {}
               PROVE  FALSE
    OBVIOUS
  <2>1. PICK n \in Wrong : \A m \in Wrong : n <= m
    <3>1. Wrong \in SUBSET Nat
      OBVIOUS
    <3> HIDE DEF Wrong
    <3> QED
      BY <3>1, LeastPlace
  <2>2. n \in 1 .. Len(s) /\ flatten[n] \notin Seq(S) /\ s[n] \in Seq(S)
    BY ElementOfSeq
  <2>3. CASE n = 1
    BY <1>7, <2>2, <2>3
  <2>4. CASE n # 1
    <3>1. n - 1 \in 1 .. Len(s) /\ ~ (n <= n - 1)
      BY <1>1, <2>2, <2>4
    <3>2. flatten[n - 1] \in Seq(S)
      BY <2>1, <3>1
    <3>3. flatten[n] = flatten[n - 1] \o s[n]
      BY <1>7, <2>2, <2>4
    <3> QED
      BY <2>2, <3>2, <3>3, ConcatProperties
  <2> QED
    BY <2>3, <2>4
<1> HIDE DEF Step, Trace, Without
<1>9. ASSUME NEW i \in 1 .. Len(s)
      PROVE  flatten[i] \in Seq(S)
  <2>1. i \in Nat
    BY <1>1
  <2>2. i \notin Wrong
    <3> HIDE DEF Wrong
    <3> QED
      BY <1>8
  <2> QED
    BY <2>1, <2>2
<1> WITNESS flatten
<1>10. \A i \in 1 .. Len(s) :
         flatten[i] = IF i = 1 THEN s[i] ELSE flatten[i - 1] \o s[i]
  BY <1>7 DEF Step
<1> QED
  BY <1>6, <1>9, <1>10

\* The concatenation of sequences over S is a sequence over S.
LEMMA FlattenType ==
    ASSUME NEW S, NEW s \in Seq(Seq(S))
    PROVE  FlattenSeq(s) \in Seq(S)
<1>1. CASE s = <<>>
  BY <1>1, EmptySeq DEF FlattenSeq
<1>2. CASE s # <<>>
  <2>1. PICK f : /\ FlattenSeq(s) = f[Len(s)]
                 /\ \A i \in 1 .. Len(s) : f[i] \in Seq(S)
    BY <1>2, FlattenTrace
  <2>2. Len(s) \in 1 .. Len(s)
    BY <1>2, EmptySeq, LenProperties
  <2> QED
    BY <2>1, <2>2
<1> QED
  BY <1>1, <1>2

\* One more sequence goes to the end.
LEMMA FlattenAppend ==
    ASSUME NEW S, NEW s \in Seq(Seq(S)), NEW t \in Seq(S)
    PROVE  FlattenSeq(Append(s, t)) = FlattenSeq(s) \o t
<1> DEFINE a == Append(s, t)
           n == Len(s)
<1>1. /\ a \in Seq(Seq(S)) /\ a # <<>> /\ Len(a) = n + 1 /\ n \in Nat
      /\ \A i \in 1 .. n : a[i] = s[i]
      /\ a[n + 1] = t
  BY AppendProperties, LenProperties
<1> HIDE DEF a
<1>2. PICK g : /\ FlattenSeq(a) = g[n + 1]
               /\ \A i \in 1 .. n + 1 :
                    g[i] = IF i = 1 THEN a[i] ELSE g[i - 1] \o a[i]
  BY <1>1, FlattenTrace, SMTT(30)
<1>3. CASE s = <<>>
  <2>1. n = 0 /\ FlattenSeq(s) = <<>>
    BY <1>3, EmptySeq DEF FlattenSeq
  <2>2. g[1] = a[1] /\ a[1] = t
    BY <1>1, <1>2, <2>1
  <2>3. <<>> \o t = t
    BY ConcatEmptySeq
  <2> QED
    BY <1>2, <2>1, <2>2, <2>3 DEF a
<1>4. CASE s # <<>>
  <2>1. n >= 1
    BY <1>1, <1>4, EmptySeq
  <2>2. PICK f : /\ FlattenSeq(s) = f[n]
                 /\ \A i \in 1 .. n :
                      f[i] = IF i = 1 THEN s[i] ELSE f[i - 1] \o s[i]
    BY <1>4, FlattenTrace
  <2> DEFINE Differ == { i \in Nat : i \in 1 .. n /\ f[i] # g[i] }
  <2>3. Differ = {}
    <3> SUFFICES ASSUME Differ # {}
                 PROVE  FALSE
      OBVIOUS
    <3>1. PICK i \in Differ : \A j \in Differ : i <= j
      <4>1. Differ \in SUBSET Nat
        OBVIOUS
      <4> HIDE DEF Differ
      <4> QED
        BY <4>1, LeastPlace
    <3>2. i \in 1 .. n /\ f[i] # g[i]
      OBVIOUS
    <3>3. /\ f[i] = IF i = 1 THEN s[i] ELSE f[i - 1] \o s[i]
          /\ g[i] = IF i = 1 THEN s[i] ELSE g[i - 1] \o s[i]
      BY <1>1, <1>2, <2>2, <3>2
    <3>4. i # 1 => i - 1 \in 1 .. n /\ ~ (i <= i - 1)
      BY <1>1, <3>2
    <3>5. i # 1 => f[i - 1] = g[i - 1]
      BY <3>1, <3>4
    <3> QED
      BY <3>2, <3>3, <3>5
  <2>4. f[n] = g[n]
    <3>1. n \notin Differ
      <4> HIDE DEF Differ
      <4> QED
        BY <2>3
    <3>2. n \in Nat /\ n \in 1 .. n
      BY <1>1, <2>1
    <3> QED
      BY <3>1, <3>2
  <2>5. g[n + 1] = g[n] \o a[n + 1]
    <3>1. n + 1 \in 1 .. n + 1 /\ n + 1 # 1 /\ (n + 1) - 1 = n
      BY <1>1, <2>1
    <3> QED
      BY <1>2, <3>1
  <2> QED
    BY <1>1, <1>2, <2>2, <2>4, <2>5 DEF a
<1> QED
  BY <1>3, <1>4

-----------------------------------------------------------------------------
(* The search for a function *)

\* A set of functions has a first one in the order of the two loops, and a
\* function is never the null pointer.
LEMMA FirstFunction ==
    ASSUME NEW list, NEW found \in SUBSET Functions(list), found # {}
    PROVE  \E f \in found :
             \A g \in found : f[1] < g[1] \/ (f[1] = g[1] /\ f[2] <= g[2])
<1>1. \A f \in Functions(list) : f[1] \in Nat /\ f[2] \in Nat
  BY DEF Functions
<1> DEFINE Rows == { f[1] : f \in found }
<1>2. PICK a \in Rows : \A b \in Rows : a <= b
  <2>1. Rows \in SUBSET Nat /\ Rows # {}
    BY <1>1
  <2> HIDE DEF Rows
  <2> QED
    BY <2>1, LeastPlace
<1> DEFINE Columns == { f[2] : f \in { g \in found : g[1] = a } }
<1>3. PICK c \in Columns : \A d \in Columns : c <= d
  <2>1. Columns \in SUBSET Nat /\ Columns # {}
    BY <1>1
  <2> HIDE DEF Columns
  <2> QED
    BY <2>1, LeastPlace
<1>4. PICK f \in found : f[1] = a /\ f[2] = c
  OBVIOUS
<1>5. ASSUME NEW g \in found
      PROVE  f[1] < g[1] \/ (f[1] = g[1] /\ f[2] <= g[2])
  <2>1. a <= g[1] /\ (g[1] = a => c <= g[2])
    BY <1>2, <1>3
  <2> QED
    BY <1>1, <1>4, <2>1
<1> QED
  BY <1>5

\* get_function_from_module_list finds a function of the NID, or there is none.
LEMMA FunctionForProperties ==
    ASSUME NEW nid
    PROVE  /\ FunctionFor(nid) # NoFunction =>
                /\ FunctionFor(nid) \in Functions(module_list)
                /\ module_list[FunctionFor(nid)[1]][FunctionFor(nid)[2]] = nid
           /\ FunctionFor(nid) = NoFunction =>
                \A f \in Functions(module_list) : module_list[f[1]][f[2]] # nid
<1> DEFINE found == { f \in Functions(module_list) : module_list[f[1]][f[2]] = nid }
<1>1. CASE found = {}
  BY <1>1 DEF FunctionFor
<1>2. CASE found # {}
  <2>1. FunctionFor(nid) = CHOOSE f \in found :
          \A g \in found : f[1] < g[1] \/ (f[1] = g[1] /\ f[2] <= g[2])
    BY <1>2 DEF FunctionFor
  <2>2. FunctionFor(nid) \in found
    <3>1. found \in SUBSET Functions(module_list)
      OBVIOUS
    <3> HIDE DEF found
    <3>2. \E f \in found :
            \A g \in found : f[1] < g[1] \/ (f[1] = g[1] /\ f[2] <= g[2])
      BY <1>2, <3>1, FirstFunction
    <3> QED
      BY <2>1, <3>2
  <2>3. NoFunction \notin Functions(module_list)
    BY DEF NoFunction, Functions
  <2> QED
    BY <2>2, <2>3
<1> QED
  BY <1>1, <1>2

-----------------------------------------------------------------------------
(* The invariant *)

\* The stub's NID is that of the last record for it; or no record is for it.
LastFor(list, e, nid) ==
    \E i \in 1 .. Len(list) :
        /\ list[i].entry = e /\ list[i].nid = nid
        /\ \A j \in i + 1 .. Len(list) : list[j].entry # e

Unnamed(list, e) == \A i \in 1 .. Len(list) : list[i].entry # e

\* The imports whose stubs were patched, in that order.
PatchedSoFar == FlattenSeq(libraries) \o function_imports

StubsHoldLast ==
    \A e \in Entries :
        IF stubs[e] = NoNid THEN Unnamed(PatchedSoFar, e)
        ELSE LastFor(PatchedSoFar, e, stubs[e])

\* A module that was loaded is listed with all that was patched.
LoadedIsListed ==
    /\ phase = "importing" =>
         /\ ~ loaded /\ runtime_module_list = <<>>
         /\ Len(libraries) = Len(program) => function_imports = <<>>
    /\ loaded => runtime_module_list = <<libraries>> /\ function_imports = <<>>

\* From when the map is resolved it holds the stubs' NIDs and their functions.
MapIsResolved ==
    /\ phase \in {"importing", "loaded"} => module_list = <<>>
    /\ phase \in {"importing", "loaded", "initialised"} =>
         DOMAIN nid_to_address_map = {}
    /\ phase \notin {"importing", "loaded"} => module_list = HleModules
    /\ phase = "running" => loaded
    /\ phase \in {"resolved", "running", "stopped"} =>
         /\ loaded =>
              \A e \in Entries :
                IF stubs[e] = NoNid THEN e \notin DOMAIN nid_to_address_map
                ELSE /\ e \in DOMAIN nid_to_address_map
                     /\ nid_to_address_map[e].nid = stubs[e]
         /\ \A e \in DOMAIN nid_to_address_map :
              nid_to_address_map[e].function = FunctionFor(nid_to_address_map[e].nid)

CallWasKnown ==
    called # NoCall =>
        /\ phase \in {"running", "stopped"}
        /\ called.entry \in Entries /\ stubs[called.entry] # NoNid
        /\ called.function \in Functions(HleModules)

HleInv ==
    /\ TypeOK
    /\ StubsHoldLast
    /\ LoadedIsListed
    /\ MapIsResolved
    /\ CallWasKnown
    /\ CallsReachTheirFunction

\* Before the first import nothing is patched, recorded or registered.
LEMMA HleInvInit ==
    Init => HleInv
<1> SUFFICES ASSUME Init
             PROVE  HleInv
  OBVIOUS
<1>1. DOMAIN nid_to_address_map = {}
  BY EmptySeq DEF Init
<1>2. program \in Seq(Seq(Import))
  BY ProgramsAssumption DEF Init
<1>3. TypeOK
  BY <1>1, EmptySeq DEF Init, TypeOK
<1>4. PatchedSoFar = <<>>
  <2>1. FlattenSeq(libraries) = <<>> /\ function_imports = <<>>
    BY EmptySeq DEF Init, FlattenSeq
  <2> QED
    BY <2>1, ConcatEmptySeq, EmptySeq DEF PatchedSoFar
<1>5. StubsHoldLast
  BY <1>4, EmptySeq DEF Init, StubsHoldLast, Unnamed
<1>6. LoadedIsListed /\ MapIsResolved /\ CallWasKnown /\ CallsReachTheirFunction
  BY <1>1 DEF Init, LoadedIsListed, MapIsResolved, CallWasKnown,
              CallsReachTheirFunction
<1> QED
  BY <1>3, <1>5, <1>6 DEF HleInv

\* A stub that is patched once more holds the record that came last.
LEMMA AppendedRecord ==
    ASSUME NEW list \in Seq(Import), NEW x \in Import, NEW e
    PROVE  /\ x.entry = e => LastFor(Append(list, x), e, x.nid)
           /\ x.entry # e /\ Unnamed(list, e) => Unnamed(Append(list, x), e)
           /\ \A nid : x.entry # e /\ LastFor(list, e, nid) =>
                LastFor(Append(list, x), e, nid)
<1> DEFINE a == Append(list, x)
<1>1. /\ Len(list) \in Nat /\ Len(a) = Len(list) + 1
      /\ \A i \in 1 .. Len(list) : a[i] = list[i]
      /\ a[Len(list) + 1] = x
  BY AppendProperties, LenProperties
<1> HIDE DEF a
<1>2. /\ Len(list) + 1 \in 1 .. Len(a)
      /\ \A i \in 1 .. Len(a) : i \in 1 .. Len(list) \/ i = Len(list) + 1
      /\ \A i \in 1 .. Len(list) : i \in 1 .. Len(a)
  BY <1>1
<1>3. ASSUME x.entry = e
      PROVE  LastFor(a, e, x.nid)
  <2>1. \A j \in Len(list) + 1 + 1 .. Len(a) : FALSE
    BY <1>1
  <2> QED
    BY <1>1, <1>2, <1>3, <2>1 DEF LastFor
<1>4. x.entry # e /\ Unnamed(list, e) => Unnamed(a, e)
  BY <1>1, <1>2 DEF Unnamed
<1>5. ASSUME NEW nid, x.entry # e, LastFor(list, e, nid)
      PROVE  LastFor(a, e, nid)
  <2>1. PICK i \in 1 .. Len(list) :
          /\ list[i].entry = e /\ list[i].nid = nid
          /\ \A j \in i + 1 .. Len(list) : list[j].entry # e
    BY <1>5 DEF LastFor
  <2>2. \A j \in i + 1 .. Len(a) : j \in i + 1 .. Len(list) \/ j = Len(list) + 1
    BY <1>1
  <2>3. \A j \in i + 1 .. Len(list) : j \in 1 .. Len(list)
    BY <1>1
  <2>4. \A j \in i + 1 .. Len(a) : a[j].entry # e
    BY <1>1, <1>5, <2>1, <2>2, <2>3
  <2> QED
    BY <1>1, <1>2, <2>1, <2>4 DEF LastFor
<1> QED
  BY <1>3, <1>4, <1>5 DEF a

\* The patched records are records.
LEMMA PatchedType ==
    ASSUME TypeOK
    PROVE  /\ FlattenSeq(libraries) \in Seq(Import)
           /\ PatchedSoFar \in Seq(Import)
<1>1. FlattenSeq(libraries) \in Seq(Import)
  BY FlattenType DEF TypeOK
<1> QED
  BY <1>1, ConcatProperties DEF TypeOK, PatchedSoFar

\* One import patched and recorded.
LEMMA ImportFunctionStep ==
    ASSUME HleInv, ImportFunction
    PROVE  HleInv'
<1> DEFINE x == Library[Len(function_imports) + 1]
<1>1. x \in Import
  <2>1. program \in Seq(Seq(Import)) /\ Len(libraries) \in Nat
        /\ Len(function_imports) \in Nat
    BY ProgramsAssumption, LenProperties DEF HleInv, TypeOK
  <2>2. Len(libraries) + 1 \in 1 .. Len(program) /\ Len(program) \in Nat
    BY <2>1, LenProperties DEF ImportFunction
  <2>3. Library \in Seq(Import)
    BY <2>1, <2>2, ElementOfSeq DEF Library
  <2>4. Len(function_imports) + 1 \in 1 .. Len(Library)
    BY <2>1, <2>3, LenProperties DEF ImportFunction
  <2> QED
    BY <2>3, <2>4, ElementOfSeq
<1>2. /\ phase = "importing" /\ Len(libraries) # Len(program)
      /\ stubs' = [stubs EXCEPT ![x.entry] = x.nid]
      /\ function_imports' = Append(function_imports, x)
      /\ UNCHANGED <<phase, loaded, program, libraries, runtime_module_list,
                     module_list, nid_to_address_map, called>>
  <2>1. Len(libraries) \in Nat
    BY LenProperties DEF HleInv, TypeOK
  <2> QED
    BY <2>1 DEF ImportFunction
<1> HIDE DEF x
<1>3. x.entry \in Entries /\ x.nid \in Nids /\ x.nid # NoNid
  BY <1>1, NoNidAssumption DEF Import
<1>4. TypeOK'
  BY <1>1, <1>2, <1>3, AppendProperties DEF HleInv, TypeOK
<1>5. PatchedSoFar' = Append(PatchedSoFar, x)
  <2>1. /\ FlattenSeq(libraries) \in Seq(Import)
        /\ function_imports \in Seq(Import) /\ <<x>> \in Seq(Import)
        /\ PatchedSoFar \in Seq(Import)
    BY <1>1, PatchedType DEF HleInv, TypeOK
  <2>2. Append(function_imports, x) = function_imports \o <<x>>
    BY <1>1, <2>1, AppendIsConcat
  <2>3. Append(PatchedSoFar, x) = PatchedSoFar \o <<x>>
    BY <1>1, <2>1, AppendIsConcat
  <2>4. FlattenSeq(libraries) \o (function_imports \o <<x>>)
          = (FlattenSeq(libraries) \o function_imports) \o <<x>>
    BY <2>1, ConcatAssociative
  <2> QED
    BY <1>2, <2>2, <2>3, <2>4 DEF PatchedSoFar
<1>6. StubsHoldLast'
  <2> SUFFICES ASSUME NEW e \in Entries
               PROVE  IF stubs'[e] = NoNid THEN Unnamed(PatchedSoFar', e)
                      ELSE LastFor(PatchedSoFar', e, stubs'[e])
    BY DEF StubsHoldLast, Unnamed, LastFor
  <2>1. PatchedSoFar \in Seq(Import) /\ stubs \in [Entries -> Nids \cup {NoNid}]
    BY PatchedType DEF HleInv, TypeOK
  <2>2. CASE e = x.entry
    <3>1. stubs'[e] = x.nid
      BY <1>2, <1>3, <2>1, <2>2
    <3> QED
      BY <1>1, <1>3, <1>5, <2>1, <2>2, <3>1, AppendedRecord
  <2>3. CASE e # x.entry
    <3>1. stubs'[e] = stubs[e]
      BY <1>2, <2>1, <2>3
    <3> QED
      BY <1>1, <1>5, <2>1, <2>3, <3>1, AppendedRecord DEF HleInv, StubsHoldLast
  <2> QED
    BY <2>2, <2>3
<1>7. LoadedIsListed'
  BY <1>2 DEF HleInv, LoadedIsListed
<1>8. MapIsResolved'
  BY <1>2 DEF HleInv, MapIsResolved
<1>9. CallWasKnown' /\ CallsReachTheirFunction'
  BY <1>2 DEF HleInv, CallWasKnown, CallsReachTheirFunction
<1> QED
  BY <1>4, <1>6, <1>7, <1>8, <1>9 DEF HleInv

\* What was patched does not change when a library's imports are listed.
LEMMA FinishLibraryStep ==
    ASSUME HleInv, FinishLibrary
    PROVE  HleInv'
<1>1. TypeOK'
  BY AppendProperties, EmptySeq DEF HleInv, TypeOK, FinishLibrary
<1>2. PatchedSoFar' = PatchedSoFar
  <2>1. libraries \in Seq(Seq(Import)) /\ function_imports \in Seq(Import)
    BY DEF HleInv, TypeOK
  <2>2. FlattenSeq(libraries') = FlattenSeq(libraries) \o function_imports
    BY <2>1, FlattenAppend DEF FinishLibrary
  <2>3. PatchedSoFar \in Seq(Import) /\ PatchedSoFar' = PatchedSoFar \o <<>>
    BY <2>2, PatchedType DEF HleInv, PatchedSoFar, FinishLibrary
  <2> QED
    BY <2>3, ConcatEmptySeq
<1>3. StubsHoldLast'
  BY <1>2 DEF HleInv, StubsHoldLast, Unnamed, LastFor, FinishLibrary
<1>4. LoadedIsListed'
  BY DEF HleInv, LoadedIsListed, FinishLibrary
<1>5. MapIsResolved' /\ CallWasKnown' /\ CallsReachTheirFunction'
  BY DEF HleInv, MapIsResolved, CallWasKnown, CallsReachTheirFunction, FinishLibrary
<1> QED
  BY <1>1, <1>3, <1>4, <1>5 DEF HleInv

\* A step that touches neither the stubs nor what was patched.
LEMMA SamePatched ==
    ASSUME HleInv, UNCHANGED <<stubs, libraries, function_imports>>
    PROVE  StubsHoldLast'
<1>1. PatchedSoFar' = PatchedSoFar
  BY DEF PatchedSoFar
<1> QED
  BY <1>1 DEF HleInv, StubsHoldLast, Unnamed, LastFor

\* A load that is given up keeps the stubs it has patched and the modules it has added.
LEMMA ImportFailsStep ==
    ASSUME HleInv, ImportFails
    PROVE  HleInv'
<1>1. TypeOK' /\ StubsHoldLast'
  BY SamePatched DEF HleInv, TypeOK, ImportFails
<1>2. LoadedIsListed' /\ MapIsResolved' /\ CallWasKnown' /\ CallsReachTheirFunction'
  BY DEF HleInv, LoadedIsListed, MapIsResolved, CallWasKnown,
         CallsReachTheirFunction, ImportFails
<1> QED
  BY <1>1, <1>2 DEF HleInv

\* The module is listed with every library it has.
LEMMA FinishModuleStep ==
    ASSUME HleInv, FinishModule
    PROVE  HleInv'
<1>1. /\ libraries \in Seq(Seq(Import)) /\ runtime_module_list = <<>>
      /\ function_imports = <<>>
  BY DEF HleInv, TypeOK, LoadedIsListed, FinishModule
<1>2. runtime_module_list' = <<libraries>>
  BY <1>1 DEF FinishModule
<1>3. TypeOK'
  BY <1>1, <1>2 DEF HleInv, TypeOK, FinishModule
<1>4. StubsHoldLast'
  BY SamePatched DEF FinishModule
<1>5. LoadedIsListed'
  BY <1>1, <1>2 DEF LoadedIsListed, FinishModule
<1>6. MapIsResolved' /\ CallWasKnown' /\ CallsReachTheirFunction'
  BY DEF HleInv, TypeOK, LoadedIsListed, MapIsResolved, CallWasKnown,
         CallsReachTheirFunction, FinishModule
<1> QED
  BY <1>3, <1>4, <1>5, <1>6 DEF HleInv

\* init_modules fills the list of modules and changes nothing else.
LEMMA InitModulesStep ==
    ASSUME HleInv, InitModules
    PROVE  HleInv'
<1>1. module_list' = HleModules
  <2>1. module_list = <<>>
    BY DEF HleInv, MapIsResolved, InitModules
  <2> QED
    BY <2>1, HleModulesAssumption, ConcatEmptySeq DEF InitModules
<1>2. DOMAIN nid_to_address_map = {} /\ called = NoCall
  BY DEF HleInv, MapIsResolved, CallWasKnown, InitModules
<1>3. TypeOK'
  BY <1>1, <1>2, HleModulesAssumption DEF HleInv, TypeOK, InitModules
<1>4. StubsHoldLast'
  BY SamePatched DEF InitModules
<1>5. LoadedIsListed' /\ MapIsResolved' /\ CallWasKnown' /\ CallsReachTheirFunction'
  BY <1>1, <1>2 DEF HleInv, LoadedIsListed, MapIsResolved, CallWasKnown,
                    CallsReachTheirFunction, InitModules
<1> QED
  BY <1>3, <1>4, <1>5 DEF HleInv

\* Every record the loops visit is an import; if the module was loaded they are
\* those that were patched, in the same order.
LEMMA RecordedProperties ==
    ASSUME HleInv
    PROVE  /\ Recorded \in Seq(Import)
           /\ loaded => Recorded = PatchedSoFar
<1>1. FlattenSeq(runtime_module_list) \in Seq(Seq(Import))
  BY FlattenType DEF HleInv, TypeOK
<1>2. Recorded \in Seq(Import)
  BY <1>1, FlattenType DEF Recorded
<1>3. ASSUME loaded
      PROVE  Recorded = PatchedSoFar
  <2>1. runtime_module_list = Append(<<>>, libraries) /\ function_imports = <<>>
    <3>1. Append(<<>>, libraries) = <<libraries>>
      BY AppendIsConcat, ConcatEmptySeq
    <3> QED
      BY <1>3, <3>1 DEF HleInv, LoadedIsListed
  <2>2. libraries \in Seq(Seq(Import)) /\ <<>> \in Seq(Seq(Seq(Import)))
    BY EmptySeq DEF HleInv, TypeOK
  <2>3. FlattenSeq(runtime_module_list) = FlattenSeq(<<>>) \o libraries
    BY <2>1, <2>2, FlattenAppend
  <2>4. FlattenSeq(<<>>) = <<>>
    BY EmptySeq DEF FlattenSeq
  <2>5. FlattenSeq(runtime_module_list) = libraries
    BY <2>2, <2>3, <2>4, ConcatEmptySeq
  <2>6. PatchedSoFar = FlattenSeq(libraries)
    BY <2>1, <2>2, FlattenType, ConcatEmptySeq DEF PatchedSoFar
  <2> QED
    BY <2>5, <2>6 DEF Recorded
<1> QED
  BY <1>2, <1>3

\* The map is filled with the last record of each stub.
LEMMA ResolvedMap ==
    ASSUME HleInv, ResolveRuntimeModules
    PROVE  LET map == nid_to_address_map'
           IN  /\ DOMAIN map \subseteq Entries
               /\ \A e \in DOMAIN map :
                    /\ LastFor(Recorded, e, map[e].nid)
                    /\ map[e].nid \in Nids /\ map[e].function = FunctionFor(map[e].nid)
               /\ \A e : e \notin DOMAIN map => Unnamed(Recorded, e)
<1> DEFINE map == nid_to_address_map'
           Places(e) == { i \in 1 .. Len(Recorded) : Recorded[i].entry = e }
           Final(e) == CHOOSE i \in Places(e) : \A j \in Places(e) : j <= i
<1>1. Recorded \in Seq(Import) /\ Len(Recorded) \in Nat
  BY RecordedProperties, LenProperties
<1>2. /\ DOMAIN map = { Recorded[i].entry : i \in 1 .. Len(Recorded) }
      /\ \A e \in DOMAIN map : Places(e) # {} =>
           map[e] = [nid |-> Recorded[Final(e)].nid,
                     function |-> FunctionFor(Recorded[Final(e)].nid)]
  <2>1. DOMAIN nid_to_address_map = {}
    BY DEF HleInv, MapIsResolved, ResolveRuntimeModules
  <2> QED
    BY <2>1 DEF ResolveRuntimeModules
<1>3. \A i \in 1 .. Len(Recorded) : Recorded[i].entry \in Entries /\ Recorded[i].nid \in Nids
  <2>1. \A i \in 1 .. Len(Recorded) : Recorded[i] \in Import
    BY <1>1, ElementOfSeq
  <2> QED
    BY <2>1 DEF Import
<1>4. ASSUME NEW e \in DOMAIN map
      PROVE  /\ LastFor(Recorded, e, map[e].nid)
             /\ map[e].nid \in Nids /\ map[e].function = FunctionFor(map[e].nid)
  <2>1. Places(e) # {} /\ Places(e) \in SUBSET (1 .. Len(Recorded))
    BY <1>2
  <2>2. Final(e) \in Places(e) /\ \A j \in Places(e) : j <= Final(e)
    <3>1. \E i \in Places(e) : \A j \in Places(e) : j <= i
      <4> DEFINE Distances == { Len(Recorded) - i : i \in Places(e) }
      <4>1. Distances \in SUBSET Nat /\ Distances # {}
        BY <1>1, <2>1
      <4>2. PICK d \in Distances : \A c \in Distances : d <= c
        <5> HIDE DEF Distances
        <5> QED
          BY <4>1, LeastPlace
      <4>3. PICK i \in Places(e) : d = Len(Recorded) - i
        OBVIOUS
      <4>4. ASSUME NEW j \in Places(e)
            PROVE  j <= i
        <5>1. d <= Len(Recorded) - j
          BY <4>2
        <5> QED
          BY <1>1, <2>1, <4>3, <5>1
      <4> QED
        BY <4>4
    <3> HIDE DEF Places
    <3> QED
      BY <3>1
  <2> DEFINE n == Final(e)
  <2>3. n \in 1 .. Len(Recorded) /\ Recorded[n].entry = e
    <3> HIDE DEF Final
    <3> QED
      BY <2>2
  <2>4. /\ map[e].nid = Recorded[n].nid
        /\ map[e].function = FunctionFor(Recorded[n].nid)
    <3> HIDE DEF Final, Places, map
    <3>1. map[e] = [nid |-> Recorded[n].nid, function |-> FunctionFor(Recorded[n].nid)]
      BY <1>2, <2>1
    <3> QED
      BY <3>1
  <2>5. \A j \in n + 1 .. Len(Recorded) : Recorded[j].entry # e
    <3>1. \A j \in Places(e) : j <= n
      BY <2>2
    <3> HIDE DEF Final
    <3> QED
      BY <1>1, <2>3, <3>1
  <2> HIDE DEF n
  <2> QED
    BY <1>3, <2>3, <2>4, <2>5 DEF LastFor
<1>5. DOMAIN map \subseteq Entries
  BY <1>2, <1>3
<1>6. \A e : e \notin DOMAIN map => Unnamed(Recorded, e)
  BY <1>2 DEF Unnamed
<1> QED
  BY <1>4, <1>5, <1>6

\* There is one last record of a stub.
LEMMA OneLast ==
    ASSUME NEW list \in Seq(Import), NEW e, NEW a, NEW b
    PROVE  /\ LastFor(list, e, a) /\ LastFor(list, e, b) => a = b
           /\ ~ (LastFor(list, e, a) /\ Unnamed(list, e))
<1>1. Len(list) \in Nat
  BY LenProperties
<1>2. ASSUME LastFor(list, e, a), LastFor(list, e, b)
      PROVE  a = b
  <2>1. PICK i \in 1 .. Len(list) :
          /\ list[i].entry = e /\ list[i].nid = a
          /\ \A k \in i + 1 .. Len(list) : list[k].entry # e
    BY <1>2 DEF LastFor
  <2>2. PICK j \in 1 .. Len(list) :
          /\ list[j].entry = e /\ list[j].nid = b
          /\ \A k \in j + 1 .. Len(list) : list[k].entry # e
    BY <1>2 DEF LastFor
  <2>3. i = j
    BY <1>1, <2>1, <2>2
  <2> QED
    BY <2>1, <2>2, <2>3
<1> QED
  BY <1>2 DEF LastFor, Unnamed

\* resolve_runtime_modules maps each recorded stub to a function of its last NID.
LEMMA ResolveStep ==
    ASSUME HleInv, ResolveRuntimeModules
    PROVE  HleInv'
<1> DEFINE map == nid_to_address_map'
<1>1. /\ DOMAIN map \subseteq Entries
      /\ \A e \in DOMAIN map :
           /\ LastFor(Recorded, e, map[e].nid)
           /\ map[e].nid \in Nids /\ map[e].function = FunctionFor(map[e].nid)
      /\ \A e : e \notin DOMAIN map => Unnamed(Recorded, e)
  BY ResolvedMap
<1>2. /\ phase = "initialised" /\ phase' = "resolved" /\ called = NoCall
      /\ module_list = HleModules
      /\ UNCHANGED <<loaded, program, stubs, libraries, function_imports,
                     runtime_module_list, module_list, called>>
  BY DEF HleInv, CallWasKnown, MapIsResolved, ResolveRuntimeModules
<1> HIDE DEF map
<1>3. TypeOK'
  <2>1. \A e \in DOMAIN map : map[e].function \in Functions(module_list) \cup {NoFunction}
    BY <1>1, FunctionForProperties
  <2> QED
    BY <1>1, <1>2, <2>1 DEF HleInv, TypeOK, map
<1>4. StubsHoldLast'
  BY <1>2, SamePatched
<1>5. ASSUME loaded, NEW e \in Entries
      PROVE  IF stubs[e] = NoNid THEN e \notin DOMAIN map
             ELSE e \in DOMAIN map /\ map[e].nid = stubs[e]
  <2>1. Recorded = PatchedSoFar /\ Recorded \in Seq(Import)
    BY <1>5, RecordedProperties
  <2>2. IF stubs[e] = NoNid THEN Unnamed(Recorded, e)
        ELSE LastFor(Recorded, e, stubs[e])
    BY <2>1 DEF HleInv, StubsHoldLast
  <2> QED
    BY <1>1, <2>1, <2>2, OneLast
<1>6. \A n : FunctionFor(n)' = FunctionFor(n)
  BY <1>2 DEF FunctionFor
<1>7. MapIsResolved'
  BY <1>1, <1>2, <1>5, <1>6 DEF MapIsResolved, map
<1>8. LoadedIsListed' /\ CallWasKnown' /\ CallsReachTheirFunction'
  BY <1>2 DEF HleInv, LoadedIsListed, CallWasKnown, CallsReachTheirFunction
<1> QED
  BY <1>3, <1>4, <1>7, <1>8 DEF HleInv

\* Starting the program makes no call yet.
LEMMA RunProgramStep ==
    ASSUME HleInv, RunProgram
    PROVE  HleInv'
<1>1. called = NoCall
  BY DEF HleInv, CallWasKnown, RunProgram
<1>2. TypeOK' /\ StubsHoldLast'
  BY SamePatched DEF HleInv, TypeOK, RunProgram
<1>3. \A nid : FunctionFor(nid)' = FunctionFor(nid)
  BY DEF FunctionFor, RunProgram
<1>4. MapIsResolved'
  BY <1>3 DEF HleInv, MapIsResolved, RunProgram
<1>5. LoadedIsListed' /\ CallWasKnown' /\ CallsReachTheirFunction'
  BY <1>1 DEF HleInv, LoadedIsListed, CallWasKnown, CallsReachTheirFunction,
              RunProgram
<1> QED
  BY <1>2, <1>4, <1>5 DEF HleInv

\* A NID for which no function is found is exported by no module.
LEMMA NoFunctionFor ==
    ASSUME NEW nid, module_list = HleModules, FunctionFor(nid) = NoFunction,
           NEW i \in 1 .. Len(HleModules)
    PROVE  ~ Contains(HleModules[i], nid)
<1>1. ASSUME NEW j \in 1 .. Len(HleModules[i])
      PROVE  HleModules[i][j] # nid
  <2>1. <<i, j>> \in Functions(HleModules)
    BY DEF Functions
  <2> QED
    BY <2>1, FunctionForProperties
<1> QED
  BY <1>1 DEF Contains

\* A call runs the function of the stub's NID; without one, no module has it.
LEMMA GuestCallsStep ==
    ASSUME HleInv, NEW entry \in Entries, GuestCalls(entry)
    PROVE  HleInv'
<1> DEFINE nid == stubs[entry]
           f == nid_to_address_map[entry].function
<1>1. /\ phase = "running" /\ loaded /\ nid # NoNid /\ module_list = HleModules
      /\ entry \in DOMAIN nid_to_address_map
      /\ f = FunctionFor(nid)
      /\ UNCHANGED <<loaded, program, stubs, libraries, function_imports,
                     runtime_module_list, module_list, nid_to_address_map>>
  BY DEF HleInv, MapIsResolved, GuestCalls
<1>2. /\ f # NoFunction => f \in Functions(HleModules) /\ HleModules[f[1]][f[2]] = nid
      /\ f = NoFunction =>
           \A g \in Functions(HleModules) : HleModules[g[1]][g[2]] # nid
  BY <1>1, FunctionForProperties
<1>3. \/ /\ f # NoFunction
         /\ called' = [entry |-> entry, function |-> f] /\ phase' = phase
      \/ f = NoFunction /\ phase' = "stopped" /\ called' = called
  BY <1>1 DEF GuestCalls
<1> HIDE DEF f
<1>4. TypeOK' /\ StubsHoldLast'
  BY <1>1, <1>3, SamePatched DEF HleInv, TypeOK
<1>5. \A n : FunctionFor(n)' = FunctionFor(n)
  BY <1>1 DEF FunctionFor
<1>6. MapIsResolved'
  BY <1>1, <1>3, <1>5 DEF HleInv, MapIsResolved
<1>7. LoadedIsListed'
  BY <1>1, <1>3 DEF HleInv, LoadedIsListed
<1>8. CallWasKnown'
  BY <1>1, <1>2, <1>3 DEF HleInv, CallWasKnown
<1>9. CallsReachTheirFunction'
  <2>1. CASE f # NoFunction
    BY <1>1, <1>2, <1>3, <2>1 DEF CallsReachTheirFunction
  <2>2. CASE f = NoFunction
    <3>1. ASSUME NEW i \in 1 .. Len(HleModules)
          PROVE  ~ Contains(HleModules[i], nid)
      BY <1>1, <2>2, NoFunctionFor DEF f
    <3> QED
      BY <1>1, <1>3, <2>2, <3>1 DEF HleInv, CallsReachTheirFunction
  <2> QED
    BY <2>1, <2>2
<1> QED
  BY <1>4, <1>6, <1>7, <1>8, <1>9 DEF HleInv

\* Every step keeps the invariant.
LEMMA HleInvNext ==
    ASSUME HleInv, [Next]_vars
    PROVE  HleInv'
<1>1. CASE ImportFunction
  BY <1>1, ImportFunctionStep
<1>2. CASE FinishLibrary
  BY <1>2, FinishLibraryStep
<1>3. CASE ImportFails
  BY <1>3, ImportFailsStep
<1>4. CASE FinishModule
  BY <1>4, FinishModuleStep
<1>5. CASE InitModules
  BY <1>5, InitModulesStep
<1>6. CASE ResolveRuntimeModules
  BY <1>6, ResolveStep
<1>7. CASE RunProgram
  BY <1>7, RunProgramStep
<1>8. CASE \E entry \in Entries : GuestCalls(entry)
  BY <1>8, GuestCallsStep
<1>9. CASE UNCHANGED vars
  <2>1. TypeOK' /\ StubsHoldLast'
    BY <1>9, SamePatched DEF HleInv, TypeOK, vars
  <2>2. \A n : FunctionFor(n)' = FunctionFor(n)
    BY <1>9 DEF FunctionFor, vars
  <2>3. MapIsResolved'
    BY <1>9, <2>2 DEF HleInv, MapIsResolved, vars
  <2>4. LoadedIsListed' /\ CallWasKnown' /\ CallsReachTheirFunction'
    BY <1>9 DEF HleInv, LoadedIsListed, CallWasKnown, CallsReachTheirFunction, vars
  <2> QED
    BY <2>1, <2>3, <2>4 DEF HleInv
<1> QED
  BY <1>1, <1>2, <1>3, <1>4, <1>5, <1>6, <1>7, <1>8, <1>9 DEF Next

-----------------------------------------------------------------------------
(* The theorems *)

\* The registry's invariant holds from the first import to the last call of the
\* program.
THEOREM HleInvAlways == Spec => []HleInv
<1>1. HleInv /\ [Next]_vars => HleInv'
  BY HleInvNext
<1> QED
  BY <1>1, HleInvInit, PTL DEF Spec

\* Type correctness: the records, the lists and the map of supervisor calls hold
\* what add_module_imports and resolve_runtime_modules put there.
THEOREM HleTypeCorrect == Spec => []TypeOK
<1>1. HleInv => TypeOK
  BY DEF HleInv
<1> QED
  BY <1>1, HleInvAlways, PTL

\* resolve_runtime_modules leaves the map in agreement with guest memory, for
\* every import table, also when two imports share a stub, and with a function
\* for every NID that a module exports.
THEOREM StubsAreKnownAlways == Spec => []StubsAreKnown
<1>1. HleInv => StubsAreKnown
  <2> SUFFICES ASSUME HleInv, phase = "running", NEW e \in Entries
               PROVE  IF stubs[e] = NoNid
                      THEN e \notin DOMAIN nid_to_address_map
                      ELSE /\ e \in DOMAIN nid_to_address_map
                           /\ nid_to_address_map[e].nid = stubs[e]
                           /\ nid_to_address_map[e].function = NoFunction =>
                                \A i \in 1 .. Len(HleModules) :
                                  ~ Contains(HleModules[i], stubs[e])
    BY DEF StubsAreKnown
  <2>1. MapIsResolved /\ loaded /\ module_list = HleModules
    BY DEF HleInv, MapIsResolved
  <2>2. IF stubs[e] = NoNid THEN e \notin DOMAIN nid_to_address_map
        ELSE /\ e \in DOMAIN nid_to_address_map
             /\ nid_to_address_map[e].nid = stubs[e]
             /\ nid_to_address_map[e].function = FunctionFor(stubs[e])
    BY <2>1 DEF MapIsResolved
  <2> QED
    BY <2>1, <2>2, NoFunctionFor
<1> QED
  BY <1>1, HleInvAlways, PTL

\* handle_svc runs a host function of the NID patched into the stub, and stops
\* only a program that names a NID no HLE module exports.
THEOREM CallsReachAlways == Spec => []CallsReachTheirFunction
<1>1. HleInv => CallsReachTheirFunction
  BY DEF HleInv
<1> QED
  BY <1>1, HleInvAlways, PTL
=============================================================================

---------------------------- MODULE KernelProofs ----------------------------
(***************************************************************************)
(* The kernel's threads and its scheduler, for any number of threads, of   *)
(* guest steps and of memory maps: the object table and the thread list    *)
(* agree, a dispatch takes the youngest READY thread, a supervisor call is *)
(* answered for the thread that runs, switches keep every thread's work,   *)
(* and stacks and thread-local blocks belong to one thread each.           *)
(***************************************************************************)
EXTENDS Kernel, MemoryMapTheorems

-----------------------------------------------------------------------------
(* The list helpers *)

\* What Selected is when it has seen n elements of the list: members of the
\* set, the last of them the last there is.
Chosen(s, list, n, U, set) ==
    /\ s \in Seq(U)
    /\ \A j \in 1 .. Len(s) : s[j] \in set
    /\ IF s = <<>> THEN \A k \in 1 .. n : list[k] \notin set
       ELSE \E i \in 1 .. n :
              /\ list[i] = s[Len(s)]
              /\ \A k \in i + 1 .. n : list[k] \notin set

\* One more element of the list keeps it so.
LEMMA ChosenStep ==
    ASSUME NEW U, NEW list \in Seq(U), NEW set, NEW n \in 1 .. Len(list),
           NEW s, Chosen(s, list, n - 1, U, set)
    PROVE  Chosen(IF list[n] \in set THEN Append(s, list[n]) ELSE s, list, n, U, set)
<1>1. list[n] \in U /\ s \in Seq(U) /\ Len(s) \in Nat
  BY ElementOfSeq, LenProperties DEF Chosen
<1>2. CASE list[n] \in set
  <2> DEFINE t == Append(s, list[n])
  <2>1. /\ t \in Seq(U) /\ t # <<>>
        /\ Len(t) = Len(s) + 1
        /\ \A i \in 1 .. Len(s) : t[i] = s[i]
        /\ t[Len(s) + 1] = list[n]
    BY <1>1, AppendProperties
  <2> HIDE DEF t
  <2>2. \A j \in 1 .. Len(t) : t[j] \in set
    BY <1>1, <1>2, <2>1 DEF Chosen
  <2>3. list[n] = t[Len(t)] /\ \A k \in n + 1 .. n : list[k] \notin set
    BY <2>1
  <2>4. n \in 1 .. n
    OBVIOUS
  <2>5. Chosen(t, list, n, U, set)
    BY <2>1, <2>2, <2>3, <2>4 DEF Chosen
  <2> QED
    BY <1>2, <2>5 DEF t
<1>3. CASE list[n] \notin set
  <2>1. CASE s = <<>>
    <3>1. \A k \in 1 .. n : k = n \/ k \in 1 .. n - 1
      OBVIOUS
    <3> QED
      BY <1>3, <2>1, <3>1 DEF Chosen
  <2>2. CASE s # <<>>
    <3>1. PICK i \in 1 .. n - 1 :
            /\ list[i] = s[Len(s)]
            /\ \A k \in i + 1 .. n - 1 : list[k] \notin set
      BY <2>2 DEF Chosen
    <3>2. \A k \in i + 1 .. n : k = n \/ k \in i + 1 .. n - 1
      OBVIOUS
    <3>3. i \in 1 .. n /\ \A k \in i + 1 .. n : list[k] \notin set
      BY <1>3, <3>1, <3>2
    <3> QED
      BY <1>3, <2>2, <3>1, <3>3 DEF Chosen
  <2> QED
    BY <2>1, <2>2
<1> QED
  BY <1>2, <1>3

\* Selected takes members of the set only, misses none if it comes back empty,
\* and ends with the last one in the list.
LEMMA SelectedProperties ==
    ASSUME NEW U, NEW list \in Seq(U), NEW set
    PROVE  Chosen(Selected(list, set), list, Len(list), U, set)
<1> DEFINE Step(f, i) == IF i = 0 THEN <<>>
                         ELSE IF list[i] \in set THEN Append(f[i - 1], list[i])
                         ELSE f[i - 1]
           Trace(f, n) == /\ f = [i \in 0 .. n |-> f[i]]
                          /\ \A i \in 0 .. n : f[i] = Step(f, i)
           selected == CHOOSE f : f = [i \in 0 .. Len(list) |-> Step(f, i)]
           Without == { n \in Nat : n <= Len(list) /\ ~ \E f : Trace(f, n) }
<1>1. Len(list) \in Nat
  BY LenProperties
<1>2. Without = {}
  <2> SUFFICES ASSUME Without # {}
               PROVE  FALSE
    OBVIOUS
  <2>1. PICK n \in Without : \A m \in Without : n <= m
    <3>1. Without \in SUBSET Nat
      OBVIOUS
    <3> HIDE DEF Without
    <3> QED
      BY <3>1, LeastNat
  <2>2. n \in Nat /\ n <= Len(list)
    OBVIOUS
  <2>3. CASE n = 0
    <3> DEFINE f == [i \in 0 .. 0 |-> <<>>]
    <3>1. Trace(f, 0)
      OBVIOUS
    <3> QED
      BY <2>3, <3>1
  <2>4. CASE n # 0
    <3>1. n - 1 \in Nat /\ n - 1 <= Len(list) /\ n - 1 \notin Without
      <4>1. n - 1 \in Nat /\ n - 1 <= Len(list) /\ ~ (n <= n - 1)
        BY <1>1, <2>2, <2>4
      <4> HIDE DEF Without
      <4> QED
        BY <2>1, <4>1
    <3>2. PICK g : Trace(g, n - 1)
      BY <3>1
    <3> DEFINE last == IF list[n] \in set THEN Append(g[n - 1], list[n]) ELSE g[n - 1]
               f == [i \in 0 .. n |-> IF i < n THEN g[i] ELSE last]
    <3>3. f = [i \in 0 .. n |-> f[i]]
      OBVIOUS
    <3>4. ASSUME NEW i \in 0 .. n
          PROVE  f[i] = Step(f, i)
      <4>1. CASE i = n
        <5>1. f[n] = last /\ f[n - 1] = g[n - 1]
          BY <2>2, <2>4
        <5> HIDE DEF f
        <5> QED
          BY <2>2, <2>4, <4>1, <5>1
      <4>2. CASE i < n
        <5>1. i \in 0 .. n - 1
          BY <2>2, <4>2
        <5>2. g[i] = Step(g, i)
          BY <3>2, <5>1
        <5>3. f[i] = g[i] /\ (i # 0 => f[i - 1] = g[i - 1])
          BY <2>2, <4>2, <5>1
        <5> HIDE DEF f
        <5> QED
          BY <5>2, <5>3
      <4> QED
        BY <2>2, <4>1, <4>2
    <3> HIDE DEF f
    <3>5. Trace(f, n)
      BY <3>3, <3>4
    <3> QED
      BY <3>5
  <2> QED
    BY <2>3, <2>4
<1>3. PICK f : Trace(f, Len(list))
  BY <1>1, <1>2
<1>4. f = [i \in 0 .. Len(list) |-> Step(f, i)]
  BY <1>3
<1>5. selected = [i \in 0 .. Len(list) |-> Step(selected, i)]
  BY <1>4
<1>6. Selected(list, set) = selected[Len(list)]
  BY DEF Selected
<1> HIDE DEF selected
<1>7. \A i \in 0 .. Len(list) : selected[i] = Step(selected, i)
  BY <1>5
<1> DEFINE Wrong == { n \in Nat : n <= Len(list)
                                    /\ ~ Chosen(selected[n], list, n, U, set) }
<1>8. Wrong = {}
  <2> SUFFICES ASSUME Wrong # {}
               PROVE  FALSE
    OBVIOUS
  <2>1. PICK n \in Wrong : \A m \in Wrong : n <= m
    <3>1. Wrong \in SUBSET Nat
      OBVIOUS
    <3> HIDE DEF Wrong
    <3> QED
      BY <3>1, LeastNat
  <2>2. n \in Nat /\ n <= Len(list) /\ ~ Chosen(selected[n], list, n, U, set)
    OBVIOUS
  <2>3. n # 0
    <3>1. selected[0] = <<>>
      BY <1>1, <1>7
    <3>2. Chosen(<<>>, list, 0, U, set)
      BY EmptySeq DEF Chosen
    <3> QED
      BY <2>2, <3>1, <3>2
  <2>4. Chosen(selected[n - 1], list, n - 1, U, set)
    BY <1>1, <2>1, <2>2, <2>3
  <2>5. selected[n] = Step(selected, n) /\ n \in 1 .. Len(list)
    BY <1>1, <1>7, <2>2, <2>3
  <2> QED
    BY <2>2, <2>3, <2>4, <2>5, ChosenStep
<1> QED
  BY <1>1, <1>6, <1>8

\* A list of UIDs in order of creation.
Increasing(list) ==
    \A i, j \in 1 .. Len(list) : i < j => list[i] < list[j]

Members(list) == { list[i] : i \in 1 .. Len(list) }

\* RemoveUid takes the one UID out of a list and keeps the order of the rest.
LEMMA RemoveUidProperties ==
    ASSUME NEW list \in Seq(Uid), Increasing(list), NEW uid \in Members(list)
    PROVE  /\ RemoveUid(list, uid) \in Seq(Uid)
           /\ Increasing(RemoveUid(list, uid))
           /\ Members(RemoveUid(list, uid)) = Members(list) \ {uid}
<1>1. PICK i \in 1 .. Len(list) : list[i] = uid
  BY DEF Members
<1>2. Len(list) \in Nat /\ \A j \in 1 .. Len(list) : list[j] \in Int
  BY ElementOfSeq, LenProperties, KernelAssumption DEF Uid
<1>3. \A j \in 1 .. Len(list) : j # i => list[j] # uid
  BY <1>1, <1>2 DEF Increasing
<1> DEFINE c == CHOOSE k \in 1 .. Len(list) :
                  /\ list[k] = uid
                  /\ \A j \in 1 .. k - 1 : list[j] # uid
           s == SubSeq(list, 1, i - 1)
           t == SubSeq(list, i + 1, Len(list))
           r == s \o t
<1>4. c = i
  <2>1. \A j \in 1 .. i - 1 : list[j] # uid
    BY <1>2, <1>3
  <2> QED
    BY <1>1, <1>3, <2>1
<1>5. RemoveUid(list, uid) = r
  <2>1. Contains(list, uid)
    BY <1>1 DEF Contains
  <2> HIDE DEF c, s, t
  <2>2. RemoveUid(list, uid) = RemoveAt(list, c)
    BY <2>1 DEF RemoveUid, c
  <2> QED
    BY <1>4, <2>2 DEF RemoveAt, s, t
<1>6. /\ s \in Seq(Uid) /\ Len(s) = i - 1
      /\ \A j \in 1 .. i - 1 : s[j] = list[j]
  <2>1. \A j \in 1 .. i - 1 : list[j] \in Uid
    BY <1>2, ElementOfSeq
  <2> QED
    BY <1>2, <2>1, SubSeqProperties
<1>7. /\ t \in Seq(Uid) /\ Len(t) = Len(list) - i
      /\ \A j \in 1 .. Len(list) - i : t[j] = list[i + j]
  <2>1. \A j \in i + 1 .. Len(list) : list[j] \in Uid
    BY <1>2, ElementOfSeq
  <2>2. /\ SubSeq(list, i + 1, Len(list)) \in Seq(Uid)
        /\ Len(SubSeq(list, i + 1, Len(list)))
             = IF i + 1 <= Len(list) THEN Len(list) - (i + 1) + 1 ELSE 0
        /\ \A j \in 1 .. Len(list) - (i + 1) + 1 :
              SubSeq(list, i + 1, Len(list))[j] = list[i + 1 + j - 1]
    BY <1>2, <2>1, SubSeqProperties
  <2> QED
    BY <1>2, <2>2
<1> HIDE DEF s, t
<1>8. /\ r \in Seq(Uid) /\ Len(r) = Len(list) - 1
      /\ \A j \in 1 .. Len(r) : r[j] = IF j < i THEN list[j] ELSE list[j + 1]
  <2>1. /\ r \in Seq(Uid)
        /\ Len(r) = Len(s) + Len(t)
        /\ \A j \in 1 .. Len(s) + Len(t) :
              r[j] = IF j <= Len(s) THEN s[j] ELSE t[j - Len(s)]
    BY <1>6, <1>7, ConcatProperties
  <2> HIDE DEF r
  <2>2. Len(r) = Len(list) - 1
    BY <1>2, <1>6, <1>7, <2>1
  <2>3. ASSUME NEW j \in 1 .. Len(r)
        PROVE  r[j] = IF j < i THEN list[j] ELSE list[j + 1]
    <3>1. CASE j < i
      BY <1>2, <1>6, <2>1, <2>2, <3>1
    <3>2. CASE ~ (j < i)
      <4>1. j - (i - 1) \in 1 .. Len(list) - i /\ ~ (j <= i - 1)
        BY <1>2, <2>2, <3>2
      <4>2. t[j - (i - 1)] = list[i + (j - (i - 1))]
        BY <1>7, <4>1
      <4>3. i + (j - (i - 1)) = j + 1
        BY <1>2, <2>2
      <4> QED
        BY <1>2, <1>6, <1>7, <2>1, <2>2, <3>2, <4>1, <4>2, <4>3
    <3> QED
      BY <3>1, <3>2
  <2> QED
    BY <2>1, <2>2, <2>3
<1> HIDE DEF r
<1>9. Increasing(r)
  <2> DEFINE At(j) == IF j < i THEN j ELSE j + 1
  <2> SUFFICES ASSUME NEW j \in 1 .. Len(r), NEW k \in 1 .. Len(r), j < k
               PROVE  r[j] < r[k]
    BY DEF Increasing
  <2>1. At(j) \in 1 .. Len(list) /\ At(k) \in 1 .. Len(list) /\ At(j) < At(k)
    BY <1>2, <1>8
  <2>2. r[j] = list[At(j)] /\ r[k] = list[At(k)]
    BY <1>8
  <2> HIDE DEF At
  <2> QED
    BY <2>1, <2>2 DEF Increasing
<1>10. Members(r) = Members(list) \ {uid}
  <2>1. ASSUME NEW j \in 1 .. Len(r)
        PROVE  r[j] \in Members(list) \ {uid}
    BY <1>2, <1>3, <1>8, <2>1 DEF Members
  <2>2. ASSUME NEW j \in 1 .. Len(list), list[j] # uid
        PROVE  \E k \in 1 .. Len(r) : r[k] = list[j]
    <3>1. CASE j < i
      <4>1. j \in 1 .. Len(r)
        BY <1>2, <1>8, <3>1
      <4> QED
        BY <1>8, <3>1, <4>1
    <3>2. CASE j > i
      <4>1. j - 1 \in 1 .. Len(r) /\ ~ (j - 1 < i) /\ (j - 1) + 1 = j
        BY <1>2, <1>8, <3>2
      <4> QED
        BY <1>8, <4>1
    <3> QED
      BY <1>1, <1>2, <2>2, <3>1, <3>2
  <2> DEFINE rest == Members(list) \ {uid}
  <2>3. ASSUME NEW x \in rest
        PROVE  x \in Members(r)
    <3>1. PICK j \in 1 .. Len(list) : list[j] = x
      BY DEF Members
    <3>2. PICK k \in 1 .. Len(r) : r[k] = x
      BY <2>2, <3>1
    <3> QED
      BY <3>2 DEF Members
  <2> HIDE DEF rest
  <2>4. ASSUME NEW x \in Members(r)
        PROVE  x \in rest
    BY <2>1 DEF Members, rest
  <2>5. Members(r) = rest
    BY <2>3, <2>4
  <2> QED
    BY <2>5 DEF rest
<1> QED
  BY <1>5, <1>8, <1>9, <1>10

-----------------------------------------------------------------------------
(* Allocations *)

\* Whatever allocate_stack or allocate_heap comes back with, the list is a list
\* of maps and the address is a page, also when it wrapped.
LEMMA AllocationsType ==
    ASSUME NEW list \in Seq(Map), NEW kind \in Kind, NEW k \in Page,
           NEW r \in Allocations(list, kind, k)
    PROVE  r[1] \in Seq(Map) /\ r[2] \in Page
<1> DEFINE n     == MemorySize(k)
           first == MoreMemory(list, n)
<1>1. n \in Nat
  BY Wrap DEF MemorySize, Page
<1>2. first \in (Page \ {0}) \cup {NoAddress}
  BY <1>1, MoreMemoryType
<1>3. CASE first = NoAddress
  <2>1. r = <<list, 0>>
    BY <1>3 DEF Allocations
  <2> QED
    BY <2>1, PagesAssumption DEF Page
<1>4. CASE first # NoAddress
  <2>1. first \in Page /\ Block(kind, first, n) \in Map
    BY <1>1, <1>2, <1>4, BlockType
  <2>2. (first + n) % Pages \in Page
    BY <1>1, <2>1, Wrap DEF Page
  <2>3. r \in MapMemory(list, Block(kind, first, n))
                 \X { IF kind = "stack" THEN (first + n) % Pages ELSE first }
    BY <1>4 DEF Allocations
  <2> HIDE DEF n, first
  <2>4. /\ r[1] \in MapMemory(list, Block(kind, first, n))
        /\ r[2] = IF kind = "stack" THEN (first + n) % Pages ELSE first
    BY <2>3
  <2> QED
    BY <2>1, <2>2, <2>4, MapMemoryProperties
<1> QED
  BY <1>3, <1>4

-----------------------------------------------------------------------------
(* The invariant *)

\* Every dispatch leaves the ready queue empty.
QueueDrained == ready_threads_queue = <<>>

UidsAreUsed == \A u \in DOMAIN objects : u < uid_value

NoneRunsOutside ==
    host # "running" => \A u \in DOMAIN objects : objects[u].status # "running"

KernelInv ==
    /\ TypeOK
    /\ ListMatchesObjects
    /\ QueueDrained
    /\ UidsAreUsed
    /\ SvcSeesItsThread
    /\ NoneRunsOutside
    /\ NoWorkLost

\* ListMatchesObjects in the words of the lemmas above.
LEMMA ListMatches ==
    ListMatchesObjects <=> DOMAIN objects = Members(thread_list) /\ Increasing(thread_list)
BY DEF ListMatchesObjects, Members, Increasing

\* What fetch_ready_thread finds: the youngest READY thread, or none if there is
\* none, and nothing is left in the queue.
LEMMA FetchedProperties ==
    ASSUME KernelInv
    PROVE  /\ QueueAfterFetch = <<>>
           /\ Fetched = None => \A u \in DOMAIN objects : objects[u].status # "ready"
           /\ Fetched # None =>
                 /\ Fetched \in DOMAIN objects
                 /\ objects[Fetched].status = "ready"
                 /\ \A u \in DOMAIN objects : objects[u].status = "ready" => u <= Fetched
<1> DEFINE ready == { u \in DOMAIN objects : objects[u].status = "ready" }
           R == ReadyList
<1>1. Refilled = R
  BY DEF KernelInv, QueueDrained, Refilled
<1>2. thread_list \in Seq(Uid) /\ Len(thread_list) \in Nat
  BY LenProperties DEF KernelInv, TypeOK
<1>3. DOMAIN objects = Members(thread_list) /\ Increasing(thread_list)
  BY ListMatches DEF KernelInv
<1>4. Chosen(R, thread_list, Len(thread_list), Uid, ready)
  BY <1>2, SelectedProperties DEF ReadyList
<1> HIDE DEF R
<1>5. R \in Seq(Uid) /\ Len(R) \in Nat
  BY <1>4, LenProperties DEF Chosen
<1>6. LastPopped(R) = Len(R)
  BY <1>4 DEF LastPopped, Chosen
<1>7. QueueAfterFetch = <<>>
  <2>1. SubSeq(R, Len(R) + 1, Len(R)) = <<>>
    BY <1>5, SubSeqEmpty
  <2> QED
    BY <1>1, <1>6, <2>1 DEF QueueAfterFetch
<1>8. CASE R = <<>>
  <2>1. Fetched = None
    BY <1>1, <1>8 DEF Fetched
  <2>2. \A k \in 1 .. Len(thread_list) : thread_list[k] \notin ready
    BY <1>4, <1>8 DEF Chosen
  <2> QED
    BY <1>3, <1>7, <2>1, <2>2 DEF Members
<1>9. CASE R # <<>>
  <2>1. Len(R) \in 1 .. Len(R)
    BY <1>5, <1>9, EmptySeq
  <2>2. R[Len(R)] \in ready /\ R[Len(R)] \in Uid
    BY <1>4, <1>5, <2>1, ElementOfSeq DEF Chosen
  <2>3. Fetched = R[Len(R)] /\ Fetched # None
    BY <1>1, <1>6, <1>9, <2>2, KernelAssumption DEF Fetched, Uid, None
  <2>4. PICK i \in 1 .. Len(thread_list) :
          /\ thread_list[i] = Fetched
          /\ \A k \in i + 1 .. Len(thread_list) : thread_list[k] \notin ready
    BY <1>4, <1>9, <2>3 DEF Chosen
  <2>5. ASSUME NEW u \in ready
        PROVE  u <= Fetched
    <3>1. PICK k \in 1 .. Len(thread_list) : thread_list[k] = u
      BY <1>3 DEF Members
    <3>2. k <= i
      BY <1>2, <2>4, <3>1
    <3>3. thread_list[i] \in Int /\ thread_list[k] \in Int
      BY <1>2, ElementOfSeq, KernelAssumption DEF Uid
    <3> QED
      BY <1>3, <2>4, <3>1, <3>2, <3>3 DEF Increasing
  <2> QED
    BY <1>7, <2>2, <2>3, <2>5
<1> QED
  BY <1>8, <1>9

\* The initial state.
LEMMA KernelInvInit ==
    Init => KernelInv
<1> SUFFICES ASSUME Init
             PROVE  KernelInv
  OBVIOUS
<1>1. DOMAIN objects = {}
  BY EmptySeq DEF Init
<1>2. Cleared \in Context
  BY KernelAssumption DEF Cleared, Context, NoValue, Value
<1>3. TypeOK
  BY <1>1, <1>2, KernelAssumption, EmptySeq DEF Init, TypeOK, Thread
<1>4. ListMatchesObjects
  BY <1>1, EmptySeq DEF Init, ListMatchesObjects
<1> QED
  BY <1>1, <1>3, <1>4
     DEF Init, KernelInv, QueueDrained, UidsAreUsed, SvcSeesItsThread,
         NoneRunsOutside, NoWorkLost

\* Creating a thread: its UID is new, and greater than those in the list.
LEMMA CreateThreadStep ==
    ASSUME KernelInv, CreateThread
    PROVE  KernelInv'
<1>1. /\ uid_value \in Uid /\ uid_value \notin DOMAIN objects
      /\ DOMAIN objects' = DOMAIN objects \cup {uid_value}
  BY KernelAssumption DEF KernelInv, TypeOK, UidsAreUsed, CreateThread, Uid
<1>2. \A u \in DOMAIN objects : objects'[u] = objects[u]
  BY <1>1 DEF CreateThread
<1>3. objects'[uid_value].status = "stagnant" /\ objects'[uid_value] \in Thread
  <2>1. Cleared \in Context
    BY KernelAssumption DEF Cleared, Context, NoValue, Value
  <2>2. 0 \in Page
    BY PagesAssumption DEF Page
  <2> QED
    BY <1>1, <2>1, <2>2 DEF CreateThread, Thread
<1>4. TypeOK'
  <2>1. objects' \in [DOMAIN objects' -> Thread]
    <3>1. \A u \in DOMAIN objects' : objects'[u] \in Thread
      BY <1>1, <1>2, <1>3 DEF KernelInv, TypeOK
    <3>2. objects' = [u \in DOMAIN objects' |-> objects'[u]]
      BY DEF CreateThread
    <3> QED
      BY <3>1, <3>2
  <2>2. thread_list' \in Seq(Uid)
    BY <1>1, AppendProperties DEF KernelInv, TypeOK, CreateThread
  <2>3. uid_value' \in FirstUid .. MaxUid
    BY KernelAssumption DEF KernelInv, TypeOK, CreateThread
  <2> QED
    BY <1>1, <2>1, <2>2, <2>3 DEF KernelInv, TypeOK, CreateThread
<1>5. ListMatchesObjects'
  <2>1. thread_list \in Seq(Uid) /\ Len(thread_list) \in Nat
    BY LenProperties DEF KernelInv, TypeOK
  <2>2. /\ thread_list' \in Seq(Uid)
        /\ Len(thread_list') = Len(thread_list) + 1
        /\ \A i \in 1 .. Len(thread_list) : thread_list'[i] = thread_list[i]
        /\ thread_list'[Len(thread_list) + 1] = uid_value
    BY <1>1, <2>1, AppendProperties DEF CreateThread
  <2>3. /\ DOMAIN objects = { thread_list[i] : i \in 1 .. Len(thread_list) }
        /\ \A i, j \in 1 .. Len(thread_list) : i < j => thread_list[i] < thread_list[j]
    BY DEF KernelInv, ListMatchesObjects
  <2>4. \A i \in 1 .. Len(thread_list) : thread_list[i] < uid_value
    BY <2>3 DEF KernelInv, UidsAreUsed
  <2>5. DOMAIN objects' = { thread_list'[i] : i \in 1 .. Len(thread_list') }
    <3>1. \A i \in 1 .. Len(thread_list') :
            i \in 1 .. Len(thread_list) \/ i = Len(thread_list) + 1
      BY <2>1, <2>2
    <3>2. Len(thread_list) + 1 \in 1 .. Len(thread_list')
      BY <2>1, <2>2
    <3>3. \A i \in 1 .. Len(thread_list) : i \in 1 .. Len(thread_list')
      BY <2>1, <2>2
    <3> QED
      BY <1>1, <2>2, <2>3, <3>1, <3>2, <3>3
  <2>6. ASSUME NEW i \in 1 .. Len(thread_list'), NEW j \in 1 .. Len(thread_list'), i < j
        PROVE  thread_list'[i] < thread_list'[j]
    BY <2>1, <2>2, <2>3, <2>4, <2>6
  <2> QED
    BY <2>5, <2>6 DEF ListMatchesObjects
<1>6. UidsAreUsed'
  BY <1>1, KernelAssumption DEF KernelInv, TypeOK, UidsAreUsed, CreateThread, Uid
<1>7. NoneRunsOutside'
  BY <1>1, <1>2, <1>3 DEF KernelInv, NoneRunsOutside, CreateThread
<1>8. NoWorkLost'
  BY <1>1, <1>2, <1>3 DEF KernelInv, NoWorkLost, CreateThread
<1> QED
  BY <1>4, <1>5, <1>6, <1>7, <1>8
     DEF KernelInv, QueueDrained, SvcSeesItsThread, CreateThread

\* Destroying a thread: one UID leaves both records.
LEMMA DestroyThreadStep ==
    ASSUME KernelInv, NEW uid \in Uid, DestroyThread(uid)
    PROVE  KernelInv'
<1>1. /\ DOMAIN objects' = DOMAIN objects \ {uid}
      /\ \A u \in DOMAIN objects' : objects'[u] = objects[u]
      /\ objects' = [u \in DOMAIN objects' |-> objects'[u]]
  BY DEF DestroyThread
<1>2. /\ thread_list' \in Seq(Uid)
      /\ Increasing(thread_list')
      /\ Members(thread_list') = Members(thread_list) \ {uid}
  <2>1. thread_list \in Seq(Uid) /\ Increasing(thread_list) /\ uid \in Members(thread_list)
    BY ListMatches DEF KernelInv, TypeOK, DestroyThread
  <2> QED
    BY <2>1, RemoveUidProperties DEF DestroyThread
<1>3. TypeOK'
  <2>1. objects' \in [DOMAIN objects' -> Thread]
    <3>1. \A u \in DOMAIN objects' : objects'[u] \in Thread
      BY <1>1 DEF KernelInv, TypeOK
    <3> QED
      BY <1>1, <3>1
  <2> QED
    BY <1>1, <1>2, <2>1 DEF KernelInv, TypeOK, DestroyThread
<1>4. ListMatchesObjects'
  <2>1. DOMAIN objects = Members(thread_list)
    BY ListMatches DEF KernelInv
  <2> QED
    BY <1>1, <1>2, <2>1 DEF ListMatchesObjects, Members, Increasing
<1>5. UidsAreUsed' /\ NoneRunsOutside' /\ NoWorkLost'
  BY <1>1 DEF KernelInv, UidsAreUsed, NoneRunsOutside, NoWorkLost, DestroyThread
<1> QED
  BY <1>3, <1>4, <1>5
     DEF KernelInv, QueueDrained, SvcSeesItsThread, DestroyThread

\* What a start makes of a thread, with a list of maps and nothing else changed.
LEMMA StartedThread ==
    ASSUME KernelInv, NEW uid \in Uid, StartThread(uid)
    PROVE  /\ uid \in DOMAIN objects
           /\ objects' = [objects EXCEPT ![uid] = objects'[uid]]
           /\ objects'[uid] \in Thread
           /\ objects'[uid].status = "ready"
           /\ objects'[uid].context.owner = uid
           /\ objects'[uid].context.steps = 0
           /\ maps' \in Seq(Map)
<1>0. PICK stack \in Allocations(maps, "stack", objects[uid].stackSize) :
        \E tls \in Allocations(stack[1], "heap", TlsSize) :
          /\ maps' = tls[1]
          /\ objects' = [objects EXCEPT
               ![uid].status = "ready",
               ![uid].stackTop = stack[2],
               ![uid].tlsLowAddress = tls[2],
               ![uid].context.owner = uid,
               ![uid].context.steps = 0,
               ![uid].context.returned = FALSE]
  BY DEF StartThread
<1>1. PICK tls \in Allocations(stack[1], "heap", TlsSize) :
        /\ maps' = tls[1]
        /\ objects' = [objects EXCEPT
             ![uid].status = "ready",
             ![uid].stackTop = stack[2],
             ![uid].tlsLowAddress = tls[2],
             ![uid].context.owner = uid,
             ![uid].context.steps = 0,
             ![uid].context.returned = FALSE]
  BY <1>0
<1>2. uid \in DOMAIN objects /\ objects[uid] \in Thread
  BY DEF KernelInv, TypeOK, StartThread
<1>3. stack[1] \in Seq(Map) /\ stack[2] \in Page
  <2>1. maps \in Seq(Map) /\ objects[uid].stackSize \in Page
    BY <1>2, KernelAssumption DEF KernelInv, TypeOK, Thread
  <2> QED
    BY <2>1, AllocationsType DEF Kind
<1>4. tls[1] \in Seq(Map) /\ tls[2] \in Page
  <2>1. TlsSize \in Page
    BY PagesAssumption DEF TlsSize, Page
  <2> QED
    BY <1>3, <2>1, AllocationsType DEF Kind
<1> DEFINE t1 == [objects[uid] EXCEPT !.status = "ready"]
           t2 == [t1 EXCEPT !.stackTop = stack[2]]
           t3 == [t2 EXCEPT !.tlsLowAddress = tls[2]]
           t4 == [t3 EXCEPT !.context.owner = uid]
           t5 == [t4 EXCEPT !.context.steps = 0]
           t  == [t5 EXCEPT !.context.returned = FALSE]
<1>5. objects' = [objects EXCEPT ![uid] = t]
  BY <1>1, <1>2 DEF KernelInv, TypeOK, Thread
<1>6. /\ t \in Thread /\ t.status = "ready"
      /\ t.context.owner = uid /\ t.context.steps = 0
  <2>1. t1 \in Thread /\ t1.status = "ready"
    BY <1>2 DEF Thread
  <2> HIDE DEF t1
  <2>2. t2 \in Thread /\ t2.status = "ready"
    BY <1>3, <2>1 DEF Thread
  <2> HIDE DEF t2
  <2>3. t3 \in Thread /\ t3.status = "ready"
    BY <1>4, <2>2 DEF Thread
  <2> HIDE DEF t3
  <2>4. t4 \in Thread /\ t4.status = "ready" /\ t4.context.owner = uid
    BY <2>3 DEF Thread, Context
  <2> HIDE DEF t4
  <2>5. /\ t5 \in Thread /\ t5.status = "ready"
        /\ t5.context.owner = uid /\ t5.context.steps = 0
    BY <2>4, KernelAssumption DEF Thread, Context
  <2> HIDE DEF t5
  <2> QED
    BY <2>5 DEF Thread, Context
<1> HIDE DEF t
<1>7. objects'[uid] = t
  BY <1>2, <1>5 DEF KernelInv, TypeOK
<1> QED
  BY <1>1, <1>2, <1>4, <1>5, <1>6, <1>7

\* Starting a thread: new blocks, new registers, no work done.
LEMMA StartThreadStep ==
    ASSUME KernelInv, NEW uid \in Uid, StartThread(uid)
    PROVE  KernelInv'
<1>1. /\ DOMAIN objects' = DOMAIN objects
      /\ \A u \in DOMAIN objects \ {uid} : objects'[u] = objects[u]
  BY StartedThread DEF KernelInv, TypeOK
<1>2. UNCHANGED <<thread_list, ready_threads_queue, uid_value, current_thread,
                  host, regs>>
  BY DEF StartThread
<1>3. /\ work' \in [Uid -> 0 .. MaxSteps]
      /\ work'[uid] = 0
      /\ \A u \in Uid \ {uid} : work'[u] = work[u]
  BY KernelAssumption DEF KernelInv, TypeOK, StartThread
<1>4. TypeOK'
  <2>1. objects' \in [DOMAIN objects' -> Thread]
    BY <1>1, StartedThread DEF KernelInv, TypeOK
  <2> QED
    BY <1>1, <1>2, <1>3, <2>1, StartedThread DEF KernelInv, TypeOK
<1>5. NoneRunsOutside'
  <2>1. host = "idle" /\ objects'[uid].status = "ready"
    BY StartedThread DEF StartThread
  <2> QED
    BY <1>1, <2>1 DEF KernelInv, NoneRunsOutside
<1>6. NoWorkLost'
  <2> SUFFICES ASSUME NEW u \in DOMAIN objects, objects'[u].status # "stagnant"
               PROVE  IF objects'[u].status = "running"
                      THEN regs'.owner = u /\ regs'.steps = work'[u]
                      ELSE /\ objects'[u].context.owner = u
                           /\ objects'[u].context.steps = work'[u]
    BY <1>1 DEF NoWorkLost
  <2>1. CASE u = uid
    BY <1>3, <2>1, StartedThread
  <2>2. CASE u # uid
    BY <1>1, <1>2, <1>3, <2>2 DEF KernelInv, TypeOK, NoWorkLost
  <2> QED
    BY <2>1, <2>2
<1>7. SvcSeesItsThread'
  BY <1>2 DEF SvcSeesItsThread, StartThread
<1> QED
  BY <1>1, <1>2, <1>4, <1>5, <1>6, <1>7
     DEF KernelInv, ListMatchesObjects, QueueDrained, UidsAreUsed

\* A thread that runs has its own registers in the processor: what a dispatch
\* loads is what the thread's work amounts to.
LEMMA DispatchStep ==
    ASSUME KernelInv, Dispatch
    PROVE  KernelInv'
<1>1. ready_threads_queue' = <<>>
  BY FetchedProperties DEF Dispatch
<1>2. CASE Fetched = None
  <2>1. UNCHANGED <<objects, thread_list, uid_value, current_thread, host, regs,
                    maps, work>>
    BY <1>2 DEF Dispatch
  <2>2. TypeOK'
    BY <1>1, <2>1, EmptySeq DEF KernelInv, TypeOK
  <2>3. ListMatchesObjects' /\ UidsAreUsed' /\ SvcSeesItsThread'
    BY <2>1 DEF KernelInv, ListMatchesObjects, UidsAreUsed, SvcSeesItsThread
  <2>4. NoneRunsOutside' /\ NoWorkLost'
    BY <2>1 DEF KernelInv, NoneRunsOutside, NoWorkLost
  <2> QED
    BY <1>1, <2>2, <2>3, <2>4 DEF KernelInv, QueueDrained
<1>3. CASE Fetched # None
  <2> DEFINE f == Fetched
  <2>1. /\ f \in DOMAIN objects /\ f \in Uid
        /\ objects[f].status = "ready" /\ objects[f] \in Thread
    BY <1>3, FetchedProperties DEF KernelInv, TypeOK
  <2>2. /\ host = "idle" /\ host' = "running" /\ current_thread' = f
        /\ objects' = [objects EXCEPT ![f].status = "running"]
        /\ regs' = objects[f].context
        /\ UNCHANGED <<thread_list, uid_value, maps, work>>
    BY <1>3 DEF Dispatch
  <2> HIDE DEF f
  <2>3. /\ DOMAIN objects' = DOMAIN objects
        /\ objects'[f] = [objects[f] EXCEPT !.status = "running"]
        /\ \A u \in DOMAIN objects \ {f} : objects'[u] = objects[u]
    BY <2>1, <2>2 DEF KernelInv, TypeOK
  <2>4. objects'[f] \in Thread /\ objects'[f].status = "running"
    BY <2>1, <2>3 DEF Thread
  <2>5. regs' \in Context /\ regs'.owner = f /\ regs'.steps = work[f]
    BY <2>1, <2>2 DEF KernelInv, NoWorkLost, Thread
  <2>6. TypeOK'
    <3>1. objects' \in [DOMAIN objects' -> Thread]
      BY <2>2, <2>3, <2>4 DEF KernelInv, TypeOK
    <3> QED
      BY <1>1, <2>1, <2>2, <2>3, <2>5, <3>1, EmptySeq DEF KernelInv, TypeOK
  <2>7. SvcSeesItsThread'
    BY <2>1, <2>2, <2>3, <2>4, <2>5 DEF KernelInv, NoneRunsOutside, SvcSeesItsThread
  <2>8. NoWorkLost'
    BY <2>2, <2>3, <2>4, <2>5, <2>7 DEF KernelInv, NoWorkLost, SvcSeesItsThread
  <2> QED
    BY <1>1, <2>2, <2>3, <2>6, <2>7, <2>8
       DEF KernelInv, ListMatchesObjects, QueueDrained, UidsAreUsed, NoneRunsOutside
<1> QED
  BY <1>2, <1>3

\* Leaving a thread: the registers go into the context of the one that owns them.
LEMMA StopStep ==
    ASSUME KernelInv, Stop
    PROVE  KernelInv'
<1> DEFINE c == current_thread
<1>1. /\ c \in DOMAIN objects /\ c \in Uid /\ objects[c] \in Thread
      /\ objects[c].status = "running" /\ regs \in Context
      /\ regs.owner = c /\ regs.steps = work[c]
  BY DEF KernelInv, TypeOK, SvcSeesItsThread, NoWorkLost, Stop
<1>2. objects' = [objects EXCEPT ![c] =
                    [objects[c] EXCEPT !.context = regs, !.status = "ready"]]
  BY <1>1 DEF KernelInv, TypeOK, Stop, Thread
<1> HIDE DEF c
<1>3. /\ DOMAIN objects' = DOMAIN objects
      /\ objects'[c] = [objects[c] EXCEPT !.context = regs, !.status = "ready"]
      /\ \A u \in DOMAIN objects \ {c} : objects'[u] = objects[u]
  BY <1>1, <1>2 DEF KernelInv, TypeOK
<1>4. /\ objects'[c] \in Thread /\ objects'[c].status = "ready"
      /\ objects'[c].context = regs
  BY <1>1, <1>3 DEF Thread
<1>5. TypeOK'
  <2>1. objects' \in [DOMAIN objects' -> Thread]
    BY <1>2, <1>3, <1>4 DEF KernelInv, TypeOK
  <2> QED
    BY <1>3, <2>1 DEF KernelInv, TypeOK, Stop
<1>6. NoneRunsOutside'
  BY <1>3, <1>4 DEF KernelInv, SvcSeesItsThread, NoneRunsOutside, Stop, c
<1>7. NoWorkLost'
  BY <1>1, <1>3, <1>4, <1>6 DEF KernelInv, NoWorkLost, NoneRunsOutside, Stop
<1> QED
  BY <1>3, <1>5, <1>6, <1>7
     DEF KernelInv, ListMatchesObjects, QueueDrained, UidsAreUsed,
         SvcSeesItsThread, Stop

\* What the guest does while it runs changes no more than its registers, its
\* own work and the maps.
LEMMA GuestKeeps ==
    ASSUME KernelInv, GuestRuns,
           UNCHANGED <<objects, thread_list, ready_threads_queue, uid_value,
                       current_thread, host>>,
           regs' \in Context, regs'.owner = regs.owner,
           work' \in [Uid -> 0 .. MaxSteps],
           regs'.steps = work'[current_thread],
           \A u \in Uid \ {current_thread} : work'[u] = work[u],
           maps' \in Seq(Map)
    PROVE  KernelInv'
<1>1. TypeOK'
  BY DEF KernelInv, TypeOK
<1>2. SvcSeesItsThread'
  BY DEF KernelInv, SvcSeesItsThread
<1>3. NoWorkLost'
  BY <1>2 DEF KernelInv, TypeOK, NoWorkLost, SvcSeesItsThread, GuestRuns
<1> QED
  BY <1>1, <1>2, <1>3
     DEF KernelInv, ListMatchesObjects, QueueDrained, UidsAreUsed, NoneRunsOutside

\* The thread that runs, in the terms of the lemma above.
LEMMA RunningThread ==
    ASSUME KernelInv, GuestRuns
    PROVE  /\ regs \in Context /\ regs.owner = current_thread
           /\ current_thread \in Uid /\ objects[current_thread] \in Thread
           /\ work \in [Uid -> 0 .. MaxSteps] /\ regs.steps = work[current_thread]
           /\ maps \in Seq(Map)
BY DEF KernelInv, TypeOK, SvcSeesItsThread, NoWorkLost, GuestRuns

\* A guest instruction adds one step of work to the registers in the processor.
LEMMA GuestStepStep ==
    ASSUME KernelInv, GuestStep
    PROVE  KernelInv'
<1>1. GuestRuns
  BY DEF GuestStep
<1>2. /\ regs' \in Context /\ regs'.owner = regs.owner
      /\ regs'.steps = regs.steps + 1
  BY <1>1, RunningThread, KernelAssumption DEF GuestStep, Context
<1>3. /\ work' \in [Uid -> 0 .. MaxSteps]
      /\ work'[current_thread] = work[current_thread] + 1
      /\ \A u \in Uid \ {current_thread} : work'[u] = work[u]
  BY <1>1, RunningThread, KernelAssumption DEF GuestStep, Context
<1> QED
  BY <1>1, <1>2, <1>3, RunningThread, GuestKeeps DEF GuestStep

\* The jump to the return address marks the registers and ends the run.
LEMMA GuestReturnStep ==
    ASSUME KernelInv, GuestReturn
    PROVE  KernelInv'
<1>1. GuestRuns
  BY DEF GuestReturn
<1>2. regs' \in Context /\ regs'.owner = regs.owner /\ regs'.steps = regs.steps
  BY <1>1, RunningThread DEF GuestReturn, Context
<1> QED
  BY <1>1, <1>2, RunningThread, GuestKeeps DEF GuestReturn

\* A supervisor call's answer is in r0 alone.
LEMMA AnswerStep ==
    ASSUME KernelInv, GuestRuns,
           NEW kind \in {"none", "uid", "tls"}, NEW value \in Nat,
           Answer(kind, value), maps' \in Seq(Map)
    PROVE  KernelInv'
<1>1. regs' \in Context /\ regs'.owner = regs.owner /\ regs'.steps = regs.steps
  BY RunningThread DEF Answer, Context, Value
<1> QED
  BY <1>1, RunningThread, GuestKeeps DEF Answer

\* Deleting the kernel leaves no object and no UID.
LEMMA ShutdownStep ==
    ASSUME KernelInv, Shutdown
    PROVE  KernelInv'
<1> DEFINE s == Selected(thread_list, Uid \ DOMAIN objects)
<1>1. thread_list \in Seq(Uid) /\ Len(thread_list) \in Nat
  BY LenProperties DEF KernelInv, TypeOK
<1>2. Chosen(s, thread_list, Len(thread_list), Uid, Uid \ DOMAIN objects)
  BY <1>1, SelectedProperties
<1>3. DOMAIN objects = Members(thread_list)
  BY ListMatches DEF KernelInv
<1>4. thread_list' = s
  BY DEF Shutdown
<1> HIDE DEF s
<1>5. s = <<>>
  <2> SUFFICES ASSUME s # <<>>
               PROVE  FALSE
    OBVIOUS
  <2>1. s \in Seq(Uid) /\ Len(s) \in 1 .. Len(s)
    BY <1>2, LenProperties, EmptySeq DEF Chosen
  <2>2. s[Len(s)] \notin DOMAIN objects
    BY <1>2, <2>1 DEF Chosen
  <2>3. \E i \in 1 .. Len(thread_list) : thread_list[i] = s[Len(s)]
    BY <1>2 DEF Chosen
  <2> QED
    BY <1>3, <2>2, <2>3 DEF Members
<1>6. DOMAIN objects' = {}
  BY EmptySeq DEF Shutdown
<1>7. TypeOK'
  BY <1>4, <1>5, <1>6, EmptySeq DEF KernelInv, TypeOK, Shutdown
<1>8. ListMatchesObjects'
  BY <1>4, <1>5, <1>6, EmptySeq DEF ListMatchesObjects
<1> QED
  BY <1>6, <1>7, <1>8
     DEF KernelInv, QueueDrained, UidsAreUsed, SvcSeesItsThread, NoneRunsOutside,
         NoWorkLost, Shutdown

-----------------------------------------------------------------------------
(* The theorems *)

\* Every step keeps the invariant.
LEMMA KernelInvNext ==
    ASSUME KernelInv, [Next]_vars
    PROVE  KernelInv'
<1>1. CASE CreateThread
  BY <1>1, CreateThreadStep
<1>2. CASE \E uid \in Uid : DestroyThread(uid)
  BY <1>2, DestroyThreadStep
<1>3. CASE \E uid \in Uid : StartThread(uid)
  BY <1>3, StartThreadStep
<1>4. CASE \E uid \in Uid : StartThreadWithArguments(uid)
  BY <1>4
     DEF KernelInv, TypeOK, ListMatchesObjects, QueueDrained, UidsAreUsed,
         SvcSeesItsThread, NoneRunsOutside, NoWorkLost, StartThreadWithArguments
<1>5. CASE Dispatch
  BY <1>5, DispatchStep
<1>6. CASE Stop
  BY <1>6, StopStep
<1>7. CASE GuestStep
  BY <1>7, GuestStepStep
<1>8. CASE GuestReturn
  BY <1>8, GuestReturnStep
<1>9. CASE SvcGetThreadId
  <2>1. GuestRuns /\ Answer("uid", current_thread) /\ maps' = maps
    BY <1>9 DEF SvcGetThreadId
  <2>2. current_thread \in Nat /\ maps \in Seq(Map)
    BY <2>1, RunningThread, KernelAssumption DEF Uid
  <2> QED
    BY <2>1, <2>2, AnswerStep
<1>10. CASE SvcGetTLSAddr
  <2>1. GuestRuns /\ maps' = maps
    BY <1>10 DEF SvcGetTLSAddr
  <2>2. objects[current_thread].tlsLowAddress \in Nat /\ maps \in Seq(Map)
    BY <2>1, RunningThread DEF Thread, Page
  <2>3. CASE Answer("tls", objects[current_thread].tlsLowAddress)
    BY <2>1, <2>2, <2>3, AnswerStep
  <2>4. CASE Answer("none", 0)
    BY <2>1, <2>2, <2>4, AnswerStep
  <2> QED
    BY <1>10, <2>3, <2>4 DEF SvcGetTLSAddr
<1>11. CASE SvcAllocMemBlock
  <2>1. GuestRuns /\ Answer("none", 0)
    BY <1>11 DEF SvcAllocMemBlock
  <2>2. maps' \in Seq(Map)
    <3>1. PICK k \in HeapSizes : \E heap \in Allocations(maps, "heap", k) : maps' = heap[1]
      BY <1>11 DEF SvcAllocMemBlock
    <3>2. k \in Page /\ maps \in Seq(Map)
      BY KernelAssumption DEF KernelInv, TypeOK
    <3> QED
      BY <3>1, <3>2, AllocationsType DEF Kind
  <2> QED
    BY <2>1, <2>2, AnswerStep
<1>12. CASE Shutdown
  BY <1>12, ShutdownStep
<1>13. CASE UNCHANGED vars
  BY <1>13
     DEF KernelInv, TypeOK, ListMatchesObjects, QueueDrained, UidsAreUsed,
         SvcSeesItsThread, NoneRunsOutside, NoWorkLost, vars
<1> QED
  BY <1>1, <1>2, <1>3, <1>4, <1>5, <1>6, <1>7, <1>8, <1>9, <1>10, <1>11, <1>12,
     <1>13 DEF Next

\* The kernel is always in a state of KernelInv, with any number of threads.
THEOREM KernelInvAlways == Spec => []KernelInv
<1>1. KernelInv /\ [Next]_vars => KernelInv'
  BY KernelInvNext
<1> QED
  BY <1>1, KernelInvInit, PTL DEF Spec

\* Type correctness: every field of every thread, the queue, the registers and
\* the maps stay what the kernel's C++ types and its own code make of them.
THEOREM KernelTypeCorrect == Spec => []TypeOK
<1>1. KernelInv => TypeOK
  BY DEF KernelInv
<1> QED
  BY <1>1, KernelInvAlways, PTL

\* create_kernel_object, destroy_kernel_object and the destructor keep the thread
\* list and the object table in step: the same UIDs, in order of creation.
THEOREM ListMatchesAlways == Spec => []ListMatchesObjects
<1>1. KernelInv => ListMatchesObjects
  BY DEF KernelInv
<1> QED
  BY <1>1, KernelInvAlways, PTL

\* fetch_ready_thread gets a live READY thread, and none only if none is READY.
THEOREM FetchFindsReadyAlways == Spec => []FetchFindsReady
<1>1. KernelInv => FetchFindsReady
  BY FetchedProperties DEF FetchFindsReady
<1> QED
  BY <1>1, KernelInvAlways, PTL

\* A supervisor call finds the thread that made it behind get_current_thread.
THEOREM SvcSeesItsThreadAlways == Spec => []SvcSeesItsThread
<1>1. KernelInv => SvcSeesItsThread
  BY DEF KernelInv
<1> QED
  BY <1>1, KernelInvAlways, PTL

\* run_single_thread_with_events saves and loads registers so that no guest step
\* is lost or made twice.
THEOREM NoWorkLostAlways == Spec => []NoWorkLost
<1>1. KernelInv => NoWorkLost
  BY DEF KernelInv
<1> QED
  BY <1>1, KernelInvAlways, PTL

-----------------------------------------------------------------------------
(* The refinement *)

\* The status function that the scheduler's specification is about.
Statuses == [u \in DOMAIN objects |-> objects[u].status]

\* An empty kernel is an empty scheduler.
LEMMA YoungestInit ==
    ASSUME Init
    PROVE  Youngest!Init
<1>1. objects = << >> /\ DOMAIN objects = {} /\ uid_value = FirstUid
  BY EmptySeq DEF Init
<1>2. Statuses = << >>
  BY <1>1 DEF Statuses
<1> QED
  BY <1>1, <1>2 DEF Youngest!Init, Statuses

\* Every step of the kernel is a step of the scheduler, or leaves its threads alone.
LEMMA YoungestNext ==
    ASSUME KernelInv, [Next]_vars
    PROVE  [Youngest!Next]_(Youngest!vars)
<1>1. CASE CreateThread
  <2>1. Youngest!Create
    BY <1>1 DEF CreateThread, KernelInv, NoneRunsOutside, TypeOK, UidsAreUsed,
                Youngest!Create, Youngest!Idle, Youngest!Threads
  <2> QED
    BY <2>1 DEF Youngest!Next
<1>2. CASE \E uid \in Uid : DestroyThread(uid)
  <2>1. PICK uid \in Uid : DestroyThread(uid)
    BY <1>2
  <2>2. /\ host = "idle" /\ uid \in DOMAIN objects /\ uid_value' = uid_value
        /\ Statuses' = [u \in DOMAIN Statuses \ {uid} |-> Statuses[u]]
    BY <2>1 DEF DestroyThread, Statuses
  <2>3. Youngest!Remove
    BY <2>2 DEF KernelInv, NoneRunsOutside, Statuses,
                Youngest!Remove, Youngest!Idle, Youngest!Threads
  <2> QED
    BY <2>3 DEF Youngest!Next
<1>3. CASE \E uid \in Uid : StartThread(uid)
  <2>1. PICK uid \in Uid : StartThread(uid)
    BY <1>3
  <2>2. /\ host = "idle" /\ uid \in DOMAIN objects /\ uid_value' = uid_value
        /\ Statuses' = [Statuses EXCEPT ![uid] = "ready"]
    <3>1. /\ uid \in DOMAIN objects /\ objects'[uid].status = "ready"
          /\ objects' = [objects EXCEPT ![uid] = objects'[uid]]
      BY <2>1, StartedThread
    <3>2. /\ DOMAIN objects' = DOMAIN objects
          /\ \A u \in DOMAIN objects \ {uid} : objects'[u] = objects[u]
      BY <3>1 DEF KernelInv, TypeOK
    <3>3. Statuses' = [Statuses EXCEPT ![uid] = "ready"]
      BY <3>1, <3>2 DEF Statuses
    <3> QED
      BY <2>1, <3>1, <3>3 DEF StartThread
  <2>3. Youngest!Start
    BY <2>2 DEF KernelInv, NoneRunsOutside, Statuses,
                Youngest!Start, Youngest!Idle, Youngest!Threads
  <2> QED
    BY <2>3 DEF Youngest!Next
<1>4. CASE Dispatch
  <2>1. CASE Fetched = None
    BY <1>4, <2>1 DEF Dispatch, Youngest!vars
  <2>2. CASE Fetched # None
    <3> DEFINE f == Fetched
    <3>1. /\ f \in DOMAIN objects /\ objects[f].status = "ready"
          /\ \A u \in DOMAIN objects : objects[u].status = "ready" => u <= f
      BY <2>2, FetchedProperties
    <3>2. /\ host = "idle" /\ uid_value' = uid_value
          /\ objects' = [objects EXCEPT ![f].status = "running"]
      BY <1>4, <2>2 DEF Dispatch
    <3> HIDE DEF f
    <3>3. Statuses' = [Statuses EXCEPT ![f] = "running"]
      BY <3>1, <3>2 DEF Statuses, KernelInv, TypeOK, Thread
    <3>4. Youngest!Dispatch
      BY <3>1, <3>2, <3>3
         DEF KernelInv, NoneRunsOutside, Statuses,
             Youngest!Dispatch, Youngest!Idle, Youngest!Threads, Youngest!Ready
    <3> QED
      BY <3>4 DEF Youngest!Next
  <2> QED
    BY <2>1, <2>2
<1>5. CASE Stop
  <2> DEFINE c == current_thread
  <2>1. /\ c \in DOMAIN objects /\ objects[c].status = "running"
        /\ uid_value' = uid_value
    BY <1>5 DEF Stop, KernelInv, SvcSeesItsThread
  <2>2. objects' = [objects EXCEPT ![c].context = regs, ![c].status = "ready"]
    BY <1>5, <2>1 DEF Stop, KernelInv, TypeOK, Thread
  <2> HIDE DEF c
  <2>3. Statuses' = [Statuses EXCEPT ![c] = "ready"]
    BY <2>1, <2>2 DEF Statuses, KernelInv, TypeOK, Thread
  <2>4. Youngest!Yield
    BY <2>1, <2>3 DEF Statuses, Youngest!Yield, Youngest!Threads
  <2> QED
    BY <2>4 DEF Youngest!Next
<1>6. CASE Shutdown
  <2>1. Youngest!Remove
    BY <1>6 DEF Shutdown, KernelInv, NoneRunsOutside,
                Youngest!Remove, Youngest!Idle, Youngest!Threads
  <2> QED
    BY <2>1 DEF Youngest!Next
<1>7. CASE UNCHANGED <<objects, uid_value>>
  BY <1>7 DEF Youngest!vars
<1> QED
  BY <1>1, <1>2, <1>3, <1>4, <1>5, <1>6, <1>7
     DEF Next, vars, StartThreadWithArguments, GuestStep, GuestReturn,
         SvcGetThreadId, SvcGetTLSAddr, SvcAllocMemBlock, Answer

\* The kernel implements the scheduler of the specification: whatever is created,
\* destroyed or started between two dispatches, the youngest READY thread runs.
THEOREM RunsTheYoungestAlways == Spec => RunsTheYoungest
<1>1. Init => Youngest!Init
  BY YoungestInit
<1>2. KernelInv /\ [Next]_vars => [Youngest!Next]_(Youngest!vars)
  BY YoungestNext
<1> QED
  BY <1>1, <1>2, KernelInvAlways, PTL DEF Spec, RunsTheYoungest, Youngest!Spec

-----------------------------------------------------------------------------
(* Sound lists and the blocks taken from them *)

\* m is a map of the list.
Listed(list, m) == \E i \in 1 .. Len(list) : list[i] = m

\* The bounds of a list that AddressSpace's SoundList is about.
Sound(list) == SortedByEnd(list) /\ (WellPlaced(list) => Disjoint(list))

\* The map behind an address that was handed out.
BlockAt(kind, a, n) ==
    [ kind |-> kind, start |-> IF kind = "stack" THEN a - n ELSE a,
      end |-> IF kind = "stack" THEN a - 1 ELSE a + n - 1, protection |-> ReadWrite ]

\* An allocation adds a block that shares no page with a map before it, or
\* nothing and the answer is 0; until the space runs out.
LEMMA AllocationsSound ==
    ASSUME NEW list \in Seq(Map), Sound(list), NEW kind \in {"stack", "heap"},
           NEW k \in Page, MemorySize(k) <= Pages \div 2 - 2,
           NEW r \in Allocations(list, kind, k)
    PROVE  /\ r[1] \in Seq(Map) /\ r[2] \in Page
           /\ Sound(r[1])
           /\ WellPlaced(r[1]) => WellPlaced(list)
           /\ \A m : Listed(list, m) => Listed(r[1], m)
           /\ WellPlaced(r[1]) /\ r[2] # 0 =>
                LET b == BlockAt(kind, r[2], MemorySize(k))
                IN  /\ Listed(r[1], b)
                    /\ 0 < b.start /\ b.start <= b.end
                    /\ \A i \in 1 .. Len(list) :
                         list[i].end < b.start \/ b.end < list[i].start
<1> DEFINE n     == MemorySize(k)
           first == MoreMemory(list, n)
           m     == Block(kind, first, n)
<1>1. r[1] \in Seq(Map) /\ r[2] \in Page
  BY AllocationsType DEF Kind
<1>2. n \in Nat /\ kind \in Kind
  BY Wrap DEF MemorySize, Page, Kind
<1>3. CASE first = NoAddress
  <2>1. r = <<list, 0>>
    BY <1>3 DEF Allocations
  <2> HIDE DEF n, first
  <2> QED
    BY <1>1, <2>1
<1>4. CASE first # NoAddress
  <2>1. first \in Page \ {0} /\ m \in Map
    BY <1>2, <1>4, MoreMemoryType, BlockType
  <2>2. r \in MapMemory(list, m)
                \X { IF kind = "stack" THEN (first + n) % Pages ELSE first }
    BY <1>4 DEF Allocations
  <2>3. /\ r[1] \in MapMemory(list, m)
        /\ r[2] = IF kind = "stack" THEN (first + n) % Pages ELSE first
    <3> HIDE DEF m, n, first
    <3> QED
      BY <2>2
  <2>4. Sound(r[1])
    BY <1>2, <1>4, <2>3, MapBlockSound DEF Sound
  <2>5. \A x : Listed(list, x) => Listed(r[1], x)
    BY <2>1, <2>3, MapMemoryElements, SMTT(30) DEF Listed
  <2>6. WellPlaced(r[1]) => WellPlaced(list)
    BY <2>1, <2>3, WellPlacedBefore
  <2>7. ASSUME WellPlaced(r[1])
        PROVE  LET b == BlockAt(kind, r[2], n)
               IN  /\ Listed(r[1], b)
                   /\ 0 < b.start /\ b.start <= b.end
                   /\ \A i \in 1 .. Len(list) :
                        list[i].end < b.start \/ b.end < list[i].start
    <3>1. WellPlaced(list) /\ m.start <= m.end /\ m.end < Pages - 1
      BY <2>1, <2>3, <2>7, WellPlacedBefore
    <3>2. n >= 1 /\ m.end = first + n - 1 /\ m.start = first
      BY <1>2, <2>1, <3>1, BlockBounds DEF Block
    <3>3. \A i \in 1 .. Len(list) : list[i].end < m.start \/ m.end < list[i].start
      <4>1. CASE list = <<>>
        BY <4>1
      <4>2. CASE list # <<>>
        BY <1>2, <1>4, <3>1, <4>2, MoreMemoryIsFree DEF Sound
      <4> QED
        BY <4>1, <4>2
    <3>4. Listed(r[1], m)
      BY <2>1, <2>3, MapMemoryElements DEF Listed
    <3>5. m = BlockAt(kind, r[2], n)
      <4>1. m = [kind |-> kind, start |-> first, end |-> first + n - 1,
                 protection |-> ReadWrite]
        BY <3>2 DEF Block
      <4>2. CASE kind = "stack"
        <5>1. first + n \in Page
          BY <1>2, <2>1, <3>1, <3>2, PagesAssumption DEF Page
        <5>2. r[2] = first + n
          BY <2>3, <4>2, <5>1, Wrap
        <5> HIDE DEF first, n, m
        <5>3. first \in Int /\ n \in Int
          BY <1>2, <2>1 DEF Page
        <5> QED
          BY <4>1, <4>2, <5>2, <5>3 DEF BlockAt
      <4>3. CASE kind = "heap"
        <5> HIDE DEF first, n, m
        <5> QED
          BY <2>3, <4>1, <4>3 DEF BlockAt
      <4> QED
        BY <4>2, <4>3
    <3>6. m.start > 0
      BY <2>1, <3>2 DEF Page
    <3> HIDE DEF m, n, first
    <3> QED
      BY <3>1, <3>3, <3>4, <3>5, <3>6
  <2> QED
    BY <1>1, <2>4, <2>5, <2>6, <2>7
<1> QED
  BY <1>3, <1>4

-----------------------------------------------------------------------------
(* The blocks of the threads *)

\* The maps behind a thread's stack and TLS block.
StackBlock(t) == BlockAt("stack", t.stackTop, MemorySize(t.stackSize))
TlsBlock(t)   == BlockAt("heap", t.tlsLowAddress, MemorySize(TlsSize))

\* Every block a thread was given is a map of its own.
BlocksAreMaps ==
    WellPlaced(maps) =>
        \A u \in DOMAIN objects :
            LET t == objects[u]
            IN  /\ t.stackTop # 0 => StackBlock(t).start > 0 /\ Listed(maps, StackBlock(t))
                /\ t.tlsLowAddress # 0 => Listed(maps, TlsBlock(t))

BlocksDiffer ==
    WellPlaced(maps) =>
        \A u, v \in DOMAIN objects : u # v =>
            /\ objects[u].stackTop # 0 => objects[u].stackTop # objects[v].stackTop
            /\ objects[u].tlsLowAddress # 0
                 => objects[u].tlsLowAddress # objects[v].tlsLowAddress

\* The r0 of a thread, in the processor while it runs.
R0(u) == IF objects[u].status = "running" THEN regs.r0 ELSE objects[u].context.r0

\* The TLS address a thread was told may be that of an earlier block of its own,
\* which is still mapped and was never given to another.
AnswersAreKnown ==
    \A u \in DOMAIN objects :
        /\ R0(u).kind = "uid" => R0(u).value = u
        /\ WellPlaced(maps) /\ R0(u).kind = "tls" /\ R0(u).value # 0 =>
              /\ \E i \in 1 .. Len(maps) :
                   maps[i].kind = "heap" /\ maps[i].start = R0(u).value
              /\ \A v \in DOMAIN objects \ {u} :
                   objects[v].tlsLowAddress # R0(u).value

MemoryInv == Sound(maps) /\ BlocksAreMaps /\ BlocksDiffer /\ AnswersAreKnown

\* What main hands to the kernel is a sound list, as SoundListAlways says of
\* AddressSpace, and no block asked for comes near half of the space.
ModestStart ==
    /\ Sound(InitialMaps)
    /\ \A k \in StackSizes \cup HeapSizes : MemorySize(k) <= Pages \div 2 - 2

\* A step keeps the invariant if it takes no map away, gives no thread a block
\* and no thread an answer.
LEMMA MemoryKept ==
    ASSUME MemoryInv, Sound(maps'), WellPlaced(maps') => WellPlaced(maps),
           \A m : Listed(maps, m) => Listed(maps', m),
           DOMAIN objects' \subseteq DOMAIN objects,
           \A u \in DOMAIN objects' :
             /\ objects'[u].stackSize = objects[u].stackSize
             /\ objects'[u].stackTop = objects[u].stackTop
             /\ objects'[u].tlsLowAddress = objects[u].tlsLowAddress
             /\ R0(u)' = R0(u) \/ R0(u)'.kind = "none"
    PROVE  MemoryInv'
<1>1. BlocksAreMaps'
  <2> SUFFICES ASSUME WellPlaced(maps'), NEW u \in DOMAIN objects'
               PROVE  LET t == objects'[u]
                      IN  /\ t.stackTop # 0 =>
                               StackBlock(t).start > 0 /\ Listed(maps', StackBlock(t))
                          /\ t.tlsLowAddress # 0 => Listed(maps', TlsBlock(t))
    BY DEF BlocksAreMaps, StackBlock, TlsBlock
  <2>1. /\ StackBlock(objects'[u]) = StackBlock(objects[u])
        /\ TlsBlock(objects'[u]) = TlsBlock(objects[u])
    BY DEF StackBlock, TlsBlock
  <2> QED
    BY <2>1 DEF MemoryInv, BlocksAreMaps
<1>2. BlocksDiffer'
  BY DEF MemoryInv, BlocksDiffer
<1>3. AnswersAreKnown'
  <2> SUFFICES ASSUME NEW u \in DOMAIN objects', R0(u)' = R0(u)
               PROVE  /\ R0(u)'.kind = "uid" => R0(u)'.value = u
                      /\ WellPlaced(maps') /\ R0(u)'.kind = "tls" /\ R0(u)'.value # 0 =>
                            /\ \E i \in 1 .. Len(maps') :
                                 maps'[i].kind = "heap" /\ maps'[i].start = R0(u)'.value
                            /\ \A v \in DOMAIN objects' \ {u} :
                                 objects'[v].tlsLowAddress # R0(u)'.value
    BY DEF AnswersAreKnown
  <2>1. R0(u)'.kind = "uid" => R0(u)'.value = u
    BY DEF MemoryInv, AnswersAreKnown
  <2>2. ASSUME WellPlaced(maps'), R0(u)'.kind = "tls", R0(u)'.value # 0
        PROVE  /\ \E i \in 1 .. Len(maps') :
                    maps'[i].kind = "heap" /\ maps'[i].start = R0(u)'.value
               /\ \A v \in DOMAIN objects' \ {u} :
                    objects'[v].tlsLowAddress # R0(u)'.value
    <3>1. PICK i \in 1 .. Len(maps) :
            maps[i].kind = "heap" /\ maps[i].start = R0(u)'.value
      BY <2>2 DEF MemoryInv, AnswersAreKnown
    <3>2. Listed(maps', maps[i])
      BY DEF Listed
    <3>3. \A v \in DOMAIN objects \ {u} : objects[v].tlsLowAddress # R0(u)'.value
      BY <2>2 DEF MemoryInv, AnswersAreKnown
    <3> QED
      BY <3>1, <3>2, <3>3 DEF Listed
  <2> QED
    BY <2>1, <2>2
<1> QED
  BY <1>1, <1>2, <1>3 DEF MemoryInv

\* The thread that runs has its r0 in the processor.
LEMMA RunningR0 ==
    ASSUME KernelInv, GuestRuns
    PROVE  /\ current_thread \in DOMAIN objects
           /\ R0(current_thread) = regs.r0
           /\ \A u \in DOMAIN objects \ {current_thread} :
                R0(u) = objects[u].context.r0
BY DEF KernelInv, SvcSeesItsThread, GuestRuns, R0

\* Creating a thread: it has no block, and nobody has answered it.
LEMMA CreateThreadMemory ==
    ASSUME KernelInv, MemoryInv, CreateThread
    PROVE  MemoryInv'
<1>0. PICK n : n = uid_value
  OBVIOUS
<1>1. /\ n \notin DOMAIN objects /\ DOMAIN objects' = DOMAIN objects \cup {n}
      /\ \A u \in DOMAIN objects : objects'[u] = objects[u]
      /\ maps' = maps /\ regs' = regs
  BY <1>0 DEF KernelInv, TypeOK, UidsAreUsed, CreateThread
<1>2. /\ objects'[n].status = "stagnant" /\ objects'[n].stackTop = 0
      /\ objects'[n].tlsLowAddress = 0 /\ objects'[n].context.r0.kind = "none"
  BY <1>0, <1>1 DEF CreateThread, Cleared, NoValue
<1>3. /\ \A u \in DOMAIN objects : R0(u)' = R0(u)
      /\ R0(n)'.kind = "none"
  BY <1>1, <1>2 DEF R0
<1>4. BlocksAreMaps'
  BY <1>1, <1>2 DEF MemoryInv, BlocksAreMaps, StackBlock, TlsBlock
<1>5. BlocksDiffer'
  BY <1>1, <1>2 DEF MemoryInv, BlocksDiffer
<1>6. AnswersAreKnown'
  BY <1>1, <1>2, <1>3 DEF MemoryInv, AnswersAreKnown
<1> QED
  BY <1>1, <1>4, <1>5, <1>6 DEF MemoryInv

\* A step that lets the blocks and the maps alone, and the answers too.
LEMMA SameBlocks ==
    ASSUME MemoryInv, maps' = maps,
           DOMAIN objects' \subseteq DOMAIN objects,
           \A u \in DOMAIN objects' :
             /\ objects'[u].stackSize = objects[u].stackSize
             /\ objects'[u].stackTop = objects[u].stackTop
             /\ objects'[u].tlsLowAddress = objects[u].tlsLowAddress
             /\ R0(u)' = R0(u)
    PROVE  MemoryInv'
BY MemoryKept DEF MemoryInv

\* A destroyed thread takes its claim to its blocks along; the maps stay.
LEMMA DestroyThreadMemory ==
    ASSUME MemoryInv, NEW uid \in Uid, DestroyThread(uid)
    PROVE  MemoryInv'
<1>1. /\ DOMAIN objects' \subseteq DOMAIN objects
      /\ \A u \in DOMAIN objects' : objects'[u] = objects[u]
      /\ maps' = maps /\ regs' = regs
  BY DEF DestroyThread
<1>2. \A u \in DOMAIN objects' : R0(u)' = R0(u)
  BY <1>1 DEF R0
<1> QED
  BY <1>1, <1>2, SameBlocks

\* A dispatch moves an r0 from a context into the processor.
LEMMA DispatchMemory ==
    ASSUME KernelInv, MemoryInv, Dispatch
    PROVE  MemoryInv'
<1>1. CASE Fetched = None
  <2>1. UNCHANGED <<objects, regs, maps>>
    BY <1>1 DEF Dispatch
  <2>2. \A u \in DOMAIN objects : R0(u)' = R0(u)
    BY <2>1 DEF R0
  <2> QED
    BY <2>1, <2>2, SameBlocks
<1>2. CASE Fetched # None
  <2> DEFINE f == Fetched
  <2>1. /\ f \in DOMAIN objects /\ objects[f] \in Thread
        /\ objects[f].status = "ready"
    BY <1>2, FetchedProperties DEF KernelInv, TypeOK
  <2>2. /\ host = "idle" /\ maps' = maps
        /\ objects' = [objects EXCEPT ![f].status = "running"]
        /\ regs' = objects[f].context
    BY <1>2 DEF Dispatch
  <2> HIDE DEF f
  <2>3. /\ DOMAIN objects' = DOMAIN objects
        /\ objects'[f] = [objects[f] EXCEPT !.status = "running"]
        /\ \A u \in DOMAIN objects \ {f} : objects'[u] = objects[u]
    BY <2>1, <2>2 DEF KernelInv, TypeOK
  <2>4. /\ objects'[f].status = "running"
        /\ objects'[f].stackSize = objects[f].stackSize
        /\ objects'[f].stackTop = objects[f].stackTop
        /\ objects'[f].tlsLowAddress = objects[f].tlsLowAddress
    BY <2>1, <2>3 DEF Thread
  <2>5. \A u \in DOMAIN objects : objects[u].status # "running"
    BY <2>2 DEF KernelInv, NoneRunsOutside
  <2>6. \A u \in DOMAIN objects : R0(u)' = R0(u)
    BY <2>1, <2>2, <2>3, <2>4, <2>5 DEF R0
  <2> QED
    BY <2>2, <2>3, <2>4, <2>6, SameBlocks
<1> QED
  BY <1>1, <1>2

\* Leaving a thread moves its r0 back.
LEMMA StopMemory ==
    ASSUME KernelInv, MemoryInv, Stop
    PROVE  MemoryInv'
<1> DEFINE c == current_thread
<1>1. /\ c \in DOMAIN objects /\ objects[c] \in Thread
      /\ objects[c].status = "running" /\ regs \in Context
      /\ \A u \in DOMAIN objects \ {c} : objects[u].status # "running"
  BY DEF KernelInv, TypeOK, SvcSeesItsThread, Stop
<1>2. /\ objects' = [objects EXCEPT ![c] =
                       [objects[c] EXCEPT !.context = regs, !.status = "ready"]]
      /\ maps' = maps
  BY <1>1 DEF KernelInv, TypeOK, Stop, Thread
<1> HIDE DEF c
<1>3. /\ DOMAIN objects' = DOMAIN objects
      /\ objects'[c] = [objects[c] EXCEPT !.context = regs, !.status = "ready"]
      /\ \A u \in DOMAIN objects \ {c} : objects'[u] = objects[u]
  BY <1>1, <1>2 DEF KernelInv, TypeOK
<1>4. /\ objects'[c].status = "ready" /\ objects'[c].context = regs
      /\ objects'[c].stackSize = objects[c].stackSize
      /\ objects'[c].stackTop = objects[c].stackTop
      /\ objects'[c].tlsLowAddress = objects[c].tlsLowAddress
  BY <1>1, <1>3 DEF Thread
<1>5. \A u \in DOMAIN objects : R0(u)' = R0(u)
  BY <1>1, <1>3, <1>4 DEF R0
<1> QED
  BY <1>2, <1>3, <1>4, <1>5, SameBlocks

\* The guest runs on: its r0 stays, or is overwritten with nobody's address.
LEMMA GuestRunsMemory ==
    ASSUME KernelInv, MemoryInv, GuestRuns, UNCHANGED objects,
           Sound(maps'), WellPlaced(maps') => WellPlaced(maps),
           \A m : Listed(maps, m) => Listed(maps', m),
           regs'.r0 = regs.r0 \/ regs'.r0.kind = "none"
    PROVE  MemoryInv'
<1>1. \A u \in DOMAIN objects : R0(u)' = R0(u) \/ R0(u)'.kind = "none"
  BY DEF R0
<1> QED
  BY <1>1, MemoryKept

\* A thread told its UID or its TLS address is told its own.
LEMMA AnswerMemory ==
    ASSUME KernelInv, MemoryInv, GuestRuns, UNCHANGED <<objects, maps>>,
           \/ regs'.r0 = [kind |-> "uid", value |-> current_thread]
           \/ regs'.r0 = [kind  |-> "tls",
                          value |-> objects[current_thread].tlsLowAddress]
    PROVE  MemoryInv'
<1>0. PICK c : c = current_thread
  OBVIOUS
<1>1. /\ c \in DOMAIN objects /\ objects[c].status = "running"
      /\ \A u \in DOMAIN objects \ {c} : objects[u].status # "running"
  BY <1>0 DEF KernelInv, SvcSeesItsThread, GuestRuns
<1>2. R0(c)' = regs'.r0 /\ \A u \in DOMAIN objects \ {c} : R0(u)' = R0(u)
  BY <1>1 DEF R0
<1>3. BlocksAreMaps' /\ BlocksDiffer'
  BY DEF MemoryInv, BlocksAreMaps, BlocksDiffer, StackBlock, TlsBlock
<1>4. ASSUME WellPlaced(maps), regs'.r0.kind = "tls", regs'.r0.value # 0
      PROVE  /\ \E i \in 1 .. Len(maps) :
                  maps[i].kind = "heap" /\ maps[i].start = regs'.r0.value
             /\ \A v \in DOMAIN objects \ {c} :
                  objects[v].tlsLowAddress # regs'.r0.value
  <2>1. regs'.r0.value = objects[c].tlsLowAddress
    BY <1>0, <1>4
  <2>2. Listed(maps, TlsBlock(objects[c]))
    BY <1>1, <1>4, <2>1 DEF MemoryInv, BlocksAreMaps
  <2>3. /\ TlsBlock(objects[c]).kind = "heap"
        /\ TlsBlock(objects[c]).start = objects[c].tlsLowAddress
    BY DEF TlsBlock, BlockAt
  <2>4. \A v \in DOMAIN objects \ {c} :
          objects[v].tlsLowAddress # objects[c].tlsLowAddress
    BY <1>1, <1>4, <2>1 DEF MemoryInv, BlocksDiffer
  <2> QED
    BY <2>1, <2>2, <2>3, <2>4 DEF Listed
<1>5. AnswersAreKnown'
  <2> SUFFICES ASSUME NEW u \in DOMAIN objects
               PROVE  /\ R0(u)'.kind = "uid" => R0(u)'.value = u
                      /\ WellPlaced(maps) /\ R0(u)'.kind = "tls" /\ R0(u)'.value # 0 =>
                            /\ \E i \in 1 .. Len(maps) :
                                 maps[i].kind = "heap" /\ maps[i].start = R0(u)'.value
                            /\ \A v \in DOMAIN objects \ {u} :
                                 objects[v].tlsLowAddress # R0(u)'.value
    BY DEF AnswersAreKnown
  <2>1. CASE u = c
    BY <1>0, <1>2, <1>4, <2>1
  <2>2. CASE u # c
    <3>1. R0(u)' = R0(u)
      BY <1>2, <2>2
    <3> QED
      BY <3>1 DEF MemoryInv, AnswersAreKnown
  <2> QED
    BY <2>1, <2>2
<1> QED
  BY <1>3, <1>5 DEF MemoryInv

\* The bounds of a thread's blocks are numbers, whatever wrapped.
LEMMA BlockNumbers ==
    ASSUME NEW t \in Thread
    PROVE  /\ StackBlock(t).start \in Int /\ StackBlock(t).end \in Int
           /\ TlsBlock(t).start \in Int /\ TlsBlock(t).end \in Int
<1>1. /\ t.stackSize \in Page /\ t.stackTop \in Page /\ t.tlsLowAddress \in Page
      /\ TlsSize \in Int
  BY KernelAssumption DEF Thread, TlsSize
<1>2. MemorySize(t.stackSize) \in Int /\ MemorySize(TlsSize) \in Int
  BY <1>1, Wrap DEF MemorySize, Page
<1> HIDE DEF MemorySize
<1> QED
  BY <1>1, <1>2 DEF StackBlock, TlsBlock, BlockAt, Page

\* What a start does to the list and the thread's blocks, one allocation after
\* the other.
LEMMA StartedBlocks ==
    ASSUME KernelInv, MemoryInv, ModestStart, NEW uid \in Uid, StartThread(uid)
    PROVE  LET t == objects'[uid]
               old == objects[uid]
           IN  /\ uid \in DOMAIN objects
               /\ DOMAIN objects' = DOMAIN objects
               /\ \A u \in DOMAIN objects \ {uid} : objects'[u] = objects[u]
               /\ t.status = "ready" /\ old.status # "running"
               /\ t.context.r0 = old.context.r0
               /\ Sound(maps')
               /\ WellPlaced(maps') => WellPlaced(maps)
               /\ \A m : Listed(maps, m) => Listed(maps', m)
               /\ WellPlaced(maps') =>
                    \A b : ( \/ t.stackTop # 0 /\ b = StackBlock(t)
                             \/ t.tlsLowAddress # 0 /\ b = TlsBlock(t) ) =>
                        /\ Listed(maps', b) /\ 0 < b.start /\ b.start <= b.end
                        /\ \A i \in 1 .. Len(maps) :
                             maps[i].end < b.start \/ b.end < maps[i].start
<1>1. uid \in DOMAIN objects /\ objects[uid] \in Thread /\ host = "idle"
  BY DEF StartThread, KernelInv, TypeOK
<1> DEFINE size == objects[uid].stackSize
<1>2. PICK stack \in Allocations(maps, "stack", size) :
        \E tls \in Allocations(stack[1], "heap", TlsSize) :
          /\ maps' = tls[1]
          /\ objects' = [objects EXCEPT
               ![uid].status = "ready",
               ![uid].stackTop = stack[2],
               ![uid].tlsLowAddress = tls[2],
               ![uid].context.owner = uid,
               ![uid].context.steps = 0,
               ![uid].context.returned = FALSE]
  BY DEF StartThread
<1>3. PICK tls \in Allocations(stack[1], "heap", TlsSize) :
        /\ maps' = tls[1]
        /\ objects' = [objects EXCEPT
             ![uid].status = "ready",
             ![uid].stackTop = stack[2],
             ![uid].tlsLowAddress = tls[2],
             ![uid].context.owner = uid,
             ![uid].context.steps = 0,
             ![uid].context.returned = FALSE]
  BY <1>2
<1> DEFINE t1 == [objects[uid] EXCEPT !.status = "ready"]
           t2 == [t1 EXCEPT !.stackTop = stack[2]]
           t3 == [t2 EXCEPT !.tlsLowAddress = tls[2]]
           t4 == [t3 EXCEPT !.context.owner = uid]
           t5 == [t4 EXCEPT !.context.steps = 0]
           t  == [t5 EXCEPT !.context.returned = FALSE]
<1>4. objects' = [objects EXCEPT ![uid] = t]
  BY <1>1, <1>3 DEF KernelInv, TypeOK, Thread
<1>5. /\ t.status = "ready" /\ t.stackSize = size
      /\ t.stackTop = stack[2] /\ t.tlsLowAddress = tls[2]
      /\ t.context.r0 = objects[uid].context.r0
  <2>1. /\ DOMAIN objects[uid] = {"status", "stackSize", "stackTop", "tlsLowAddress",
                                  "context"}
        /\ DOMAIN objects[uid].context = {"owner", "steps", "returned", "r0"}
    BY <1>1 DEF Thread, Context
  <2> QED
    BY <2>1
<1> HIDE DEF t
<1>6. /\ DOMAIN objects' = DOMAIN objects /\ objects'[uid] = t
      /\ \A u \in DOMAIN objects \ {uid} : objects'[u] = objects[u]
  BY <1>1, <1>4 DEF KernelInv, TypeOK
<1>7. objects[uid].status # "running"
  BY <1>1 DEF KernelInv, NoneRunsOutside
<1>8. /\ stack[1] \in Seq(Map) /\ stack[2] \in Page /\ Sound(stack[1])
      /\ WellPlaced(stack[1]) => WellPlaced(maps)
      /\ \A m : Listed(maps, m) => Listed(stack[1], m)
      /\ WellPlaced(stack[1]) /\ stack[2] # 0 =>
           LET b == BlockAt("stack", stack[2], MemorySize(size))
           IN  /\ Listed(stack[1], b)
               /\ 0 < b.start /\ b.start <= b.end
               /\ \A i \in 1 .. Len(maps) :
                    maps[i].end < b.start \/ b.end < maps[i].start
  <2>1. /\ maps \in Seq(Map) /\ Sound(maps)
        /\ size \in StackSizes /\ size \in Page
        /\ MemorySize(size) <= Pages \div 2 - 2
    BY <1>1, KernelAssumption DEF KernelInv, TypeOK, MemoryInv, ModestStart, Thread
  <2> HIDE DEF size
  <2> QED
    BY <2>1, AllocationsSound
<1>9. /\ tls[1] \in Seq(Map) /\ tls[2] \in Page /\ Sound(tls[1])
      /\ WellPlaced(tls[1]) => WellPlaced(stack[1])
      /\ \A m : Listed(stack[1], m) => Listed(tls[1], m)
      /\ WellPlaced(tls[1]) /\ tls[2] # 0 =>
           LET b == BlockAt("heap", tls[2], MemorySize(TlsSize))
           IN  /\ Listed(tls[1], b)
               /\ 0 < b.start /\ b.start <= b.end
               /\ \A i \in 1 .. Len(stack[1]) :
                    stack[1][i].end < b.start \/ b.end < stack[1][i].start
  <2>1. TlsSize \in Page /\ MemorySize(TlsSize) <= Pages \div 2 - 2
    BY PagesAssumption DEF TlsSize, Page, MemorySize
  <2> QED
    BY <1>8, <2>1, AllocationsSound
<1> HIDE DEF size
<1>10. ASSUME WellPlaced(maps'), t.stackTop # 0
       PROVE  LET b == StackBlock(t)
              IN  /\ Listed(maps', b) /\ 0 < b.start /\ b.start <= b.end
                  /\ \A i \in 1 .. Len(maps) :
                       maps[i].end < b.start \/ b.end < maps[i].start
  <2> DEFINE b == BlockAt("stack", stack[2], MemorySize(size))
  <2>1. b = StackBlock(t)
    BY <1>5 DEF StackBlock
  <2>2. WellPlaced(tls[1]) /\ stack[2] # 0
    BY <1>3, <1>5, <1>10
  <2>3. /\ Listed(tls[1], b) /\ 0 < b.start /\ b.start <= b.end
        /\ \A i \in 1 .. Len(maps) :
             maps[i].end < b.start \/ b.end < maps[i].start
    BY <1>8, <1>9, <2>2
  <2> HIDE DEF b
  <2> QED
    BY <1>3, <2>1, <2>3
<1>11. ASSUME WellPlaced(maps'), t.tlsLowAddress # 0
       PROVE  LET b == TlsBlock(t)
              IN  /\ Listed(maps', b) /\ 0 < b.start /\ b.start <= b.end
                  /\ \A i \in 1 .. Len(maps) :
                       maps[i].end < b.start \/ b.end < maps[i].start
  <2> DEFINE b == BlockAt("heap", tls[2], MemorySize(TlsSize))
  <2>1. b = TlsBlock(t)
    BY <1>5 DEF TlsBlock
  <2>2. WellPlaced(tls[1]) /\ tls[2] # 0
    BY <1>3, <1>5, <1>11
  <2>3. /\ Listed(tls[1], b) /\ 0 < b.start /\ b.start <= b.end
        /\ \A i \in 1 .. Len(stack[1]) :
             stack[1][i].end < b.start \/ b.end < stack[1][i].start
    BY <1>9, <2>2
  <2> HIDE DEF b
  <2>4. ASSUME NEW i \in 1 .. Len(maps)
        PROVE  maps[i].end < b.start \/ b.end < maps[i].start
    <3>1. Listed(stack[1], maps[i])
      BY <1>8 DEF Listed
    <3> QED
      BY <2>3, <3>1 DEF Listed
  <2> QED
    BY <1>3, <2>1, <2>3, <2>4
<1>12. /\ Sound(maps')
       /\ WellPlaced(maps') => WellPlaced(maps)
       /\ \A m : Listed(maps, m) => Listed(maps', m)
  BY <1>3, <1>8, <1>9
<1> QED
  BY <1>1, <1>5, <1>6, <1>7, <1>10, <1>11, <1>12

\* Starting a thread: its new blocks are maps that no thread had before.
LEMMA StartThreadMemory ==
    ASSUME KernelInv, MemoryInv, ModestStart, NEW uid \in Uid, StartThread(uid)
    PROVE  MemoryInv'
<1>1. /\ uid \in DOMAIN objects
      /\ DOMAIN objects' = DOMAIN objects
      /\ \A u \in DOMAIN objects \ {uid} : objects'[u] = objects[u]
      /\ objects'[uid].status = "ready" /\ objects[uid].status # "running"
      /\ objects'[uid].context.r0 = objects[uid].context.r0
      /\ Sound(maps')
      /\ WellPlaced(maps') => WellPlaced(maps)
      /\ \A m : Listed(maps, m) => Listed(maps', m)
  BY StartedBlocks
<1>2. ASSUME WellPlaced(maps'), objects'[uid].stackTop # 0
      PROVE  LET b == StackBlock(objects'[uid])
             IN  /\ Listed(maps', b) /\ 0 < b.start /\ b.start <= b.end
                 /\ \A i \in 1 .. Len(maps) :
                      maps[i].end < b.start \/ b.end < maps[i].start
  BY <1>2, StartedBlocks
<1>3. ASSUME WellPlaced(maps'), objects'[uid].tlsLowAddress # 0
      PROVE  LET b == TlsBlock(objects'[uid])
             IN  /\ Listed(maps', b) /\ 0 < b.start /\ b.start <= b.end
                 /\ \A i \in 1 .. Len(maps) :
                      maps[i].end < b.start \/ b.end < maps[i].start
  BY <1>3, StartedBlocks
<1>4. \A u \in DOMAIN objects : R0(u)' = R0(u)
  <2>1. regs' = regs
    BY DEF StartThread
  <2> QED
    BY <1>1, <2>1 DEF R0
<1>5. BlocksAreMaps'
  <2> SUFFICES ASSUME WellPlaced(maps'), NEW u \in DOMAIN objects
               PROVE  LET t == objects'[u]
                      IN  /\ t.stackTop # 0 =>
                               StackBlock(t).start > 0 /\ Listed(maps', StackBlock(t))
                          /\ t.tlsLowAddress # 0 => Listed(maps', TlsBlock(t))
    BY <1>1 DEF BlocksAreMaps, StackBlock, TlsBlock
  <2>1. CASE u = uid
    <3> DEFINE b == StackBlock(objects'[uid])
    <3>1. objects'[uid].stackTop # 0 => Listed(maps', b) /\ 0 < b.start /\ b.start <= b.end
      BY <1>2
    <3>2. b.start \in Int
      BY StartedThread, BlockNumbers
    <3> HIDE DEF b
    <3>3. objects'[uid].stackTop # 0 => Listed(maps', b) /\ b.start > 0
      BY <3>1, <3>2
    <3> QED
      BY <1>3, <2>1, <3>3 DEF b
  <2>2. CASE u # uid
    BY <1>1, <2>2 DEF MemoryInv, BlocksAreMaps
  <2> QED
    BY <2>1, <2>2
<1>6. ASSUME WellPlaced(maps'), NEW v \in DOMAIN objects \ {uid}
      PROVE  /\ objects'[uid].stackTop # 0
                  => objects'[uid].stackTop # objects'[v].stackTop
             /\ objects'[uid].tlsLowAddress # 0
                  => objects'[uid].tlsLowAddress # objects'[v].tlsLowAddress
  <2>1. objects'[v] = objects[v]
    BY <1>1
  <2>2. ASSUME objects'[uid].stackTop # 0,
               objects'[uid].stackTop = objects[v].stackTop
        PROVE  FALSE
    <3> DEFINE b == StackBlock(objects'[uid])
               c == StackBlock(objects[v])
    <3>1. Listed(maps, c)
      BY <1>1, <1>6, <2>2 DEF MemoryInv, BlocksAreMaps
    <3>2. b.end = c.end
      BY <2>2 DEF StackBlock, BlockAt
    <3>3. /\ 0 < b.start /\ b.start <= b.end
          /\ c.end < b.start \/ b.end < c.start
      BY <1>2, <1>6, <2>2, <3>1 DEF Listed
    <3>4. b.start \in Int /\ b.end \in Int
      BY StartedThread, BlockNumbers
    <3>5. c.start <= c.end /\ c.start \in Int
      <4> HIDE DEF c
      <4>1. maps \in Seq(Map) /\ WellPlaced(maps)
        BY <1>1, <1>6 DEF KernelInv, TypeOK
      <4> QED
        BY <3>1, <4>1, MapBounds DEF Listed, WellPlaced, Page
    <3> HIDE DEF b, c
    <3> QED
      BY <3>2, <3>3, <3>4, <3>5
  <2>3. ASSUME objects'[uid].tlsLowAddress # 0,
               objects'[uid].tlsLowAddress = objects[v].tlsLowAddress
        PROVE  FALSE
    <3> DEFINE b == TlsBlock(objects'[uid])
               c == TlsBlock(objects[v])
    <3>1. Listed(maps, c)
      BY <1>1, <1>6, <2>3 DEF MemoryInv, BlocksAreMaps
    <3>2. b = c
      BY <2>3 DEF TlsBlock
    <3>3. /\ b.start <= b.end
          /\ c.end < b.start \/ b.end < c.start
      BY <1>3, <1>6, <2>3, <3>1 DEF Listed
    <3>4. b.start \in Int /\ b.end \in Int
      BY StartedThread, BlockNumbers
    <3> HIDE DEF b, c
    <3> QED
      BY <3>2, <3>3, <3>4
  <2> QED
    BY <2>1, <2>2, <2>3
<1>7. BlocksDiffer'
  <2> SUFFICES ASSUME WellPlaced(maps'), NEW u \in DOMAIN objects,
                      NEW v \in DOMAIN objects, u # v
               PROVE  /\ objects'[u].stackTop # 0
                           => objects'[u].stackTop # objects'[v].stackTop
                      /\ objects'[u].tlsLowAddress # 0
                           => objects'[u].tlsLowAddress # objects'[v].tlsLowAddress
    BY <1>1 DEF BlocksDiffer
  <2>1. CASE u = uid
    BY <1>6, <2>1
  <2>2. CASE v = uid
    BY <1>6, <2>2
  <2>3. CASE u # uid /\ v # uid
    BY <1>1, <2>3 DEF MemoryInv, BlocksDiffer
  <2> QED
    BY <2>1, <2>2, <2>3
<1>8. AnswersAreKnown'
  <2> SUFFICES ASSUME NEW u \in DOMAIN objects
               PROVE  /\ R0(u).kind = "uid" => R0(u).value = u
                      /\ WellPlaced(maps') /\ R0(u).kind = "tls" /\ R0(u).value # 0 =>
                            /\ \E i \in 1 .. Len(maps') :
                                 maps'[i].kind = "heap" /\ maps'[i].start = R0(u).value
                            /\ \A v \in DOMAIN objects \ {u} :
                                 objects'[v].tlsLowAddress # R0(u).value
    BY <1>1, <1>4 DEF AnswersAreKnown
  <2>1. ASSUME WellPlaced(maps'), R0(u).kind = "tls", R0(u).value # 0
        PROVE  /\ \E i \in 1 .. Len(maps') :
                    maps'[i].kind = "heap" /\ maps'[i].start = R0(u).value
               /\ \A v \in DOMAIN objects \ {u} :
                    objects'[v].tlsLowAddress # R0(u).value
    <3>1. PICK i \in 1 .. Len(maps) :
            maps[i].kind = "heap" /\ maps[i].start = R0(u).value
      BY <1>1, <2>1 DEF MemoryInv, AnswersAreKnown
    <3>2. Listed(maps, maps[i])
      BY DEF Listed
    <3>3. \A v \in DOMAIN objects \ {u} : objects[v].tlsLowAddress # R0(u).value
      BY <1>1, <2>1 DEF MemoryInv, AnswersAreKnown
    <3>4. ASSUME objects'[uid].tlsLowAddress = R0(u).value
          PROVE  FALSE
      <4> DEFINE b == TlsBlock(objects'[uid])
      <4>1. b.start = maps[i].start
        BY <3>1, <3>4 DEF TlsBlock, BlockAt
      <4>2. b.start <= b.end /\ (maps[i].end < b.start \/ b.end < maps[i].start)
        BY <1>3, <2>1, <3>4
      <4>3. b.start \in Int /\ b.end \in Int
        BY StartedThread, BlockNumbers
      <4>4. maps[i].start <= maps[i].end /\ maps[i].end \in Int
        <5>1. maps \in Seq(Map) /\ WellPlaced(maps)
          BY <1>1, <2>1 DEF KernelInv, TypeOK
        <5> QED
          BY <5>1, MapBounds DEF WellPlaced, Page
      <4> HIDE DEF b
      <4> QED
        BY <4>1, <4>2, <4>3, <4>4
    <3>5. \A v \in DOMAIN objects \ {u} : objects'[v].tlsLowAddress # R0(u).value
      BY <1>1, <3>3, <3>4
    <3>6. Listed(maps', maps[i])
      BY <1>1, <3>2
    <3> QED
      BY <3>1, <3>5, <3>6 DEF Listed
  <2>2. R0(u).kind = "uid" => R0(u).value = u
    BY DEF MemoryInv, AnswersAreKnown
  <2> QED
    BY <2>1, <2>2
<1> QED
  BY <1>1, <1>5, <1>7, <1>8 DEF MemoryInv

\* Nothing is handed out before the first start.
LEMMA MemoryInvInit ==
    ModestStart /\ Init => MemoryInv
<1>1. Init => DOMAIN objects = {} /\ maps = InitialMaps
  BY EmptySeq DEF Init
<1> QED
  BY <1>1 DEF ModestStart, MemoryInv, BlocksAreMaps, BlocksDiffer, AnswersAreKnown

\* A guest's block is a map like the others, and no thread's.
LEMMA AllocMemBlockMemory ==
    ASSUME KernelInv, MemoryInv, ModestStart, SvcAllocMemBlock
    PROVE  MemoryInv'
<1>1. PICK k \in HeapSizes : \E heap \in Allocations(maps, "heap", k) : maps' = heap[1]
  BY DEF SvcAllocMemBlock
<1>2. PICK heap \in Allocations(maps, "heap", k) : maps' = heap[1]
  BY <1>1
<1>3. /\ maps \in Seq(Map) /\ Sound(maps) /\ k \in Page
      /\ MemorySize(k) <= Pages \div 2 - 2
  BY KernelAssumption DEF KernelInv, TypeOK, MemoryInv, ModestStart
<1>4. /\ Sound(maps') /\ (WellPlaced(maps') => WellPlaced(maps))
      /\ \A m : Listed(maps, m) => Listed(maps', m)
  BY <1>2, <1>3, AllocationsSound
<1>5. GuestRuns /\ UNCHANGED objects /\ regs'.r0.kind = "none"
  BY RunningThread DEF SvcAllocMemBlock, Answer, Context
<1> QED
  BY <1>4, <1>5, GuestRunsMemory

\* Every step keeps the invariant of the blocks.
LEMMA MemoryInvNext ==
    ASSUME KernelInv, MemoryInv, ModestStart, [Next]_vars
    PROVE  MemoryInv'
<1>1. CASE CreateThread
  BY <1>1, CreateThreadMemory
<1>2. CASE \E uid \in Uid : DestroyThread(uid)
  BY <1>2, DestroyThreadMemory
<1>3. CASE \E uid \in Uid : StartThread(uid)
  BY <1>3, StartThreadMemory
<1>4. CASE Dispatch
  BY <1>4, DispatchMemory
<1>5. CASE Stop
  BY <1>5, StopMemory
<1>6. CASE GuestStep \/ GuestReturn
  <2>1. GuestRuns /\ UNCHANGED <<objects, maps>> /\ regs'.r0 = regs.r0
    BY <1>6, RunningThread DEF GuestStep, GuestReturn, Context
  <2> QED
    BY <2>1, GuestRunsMemory DEF MemoryInv
<1>7. CASE SvcGetThreadId
  <2>1. /\ GuestRuns /\ UNCHANGED <<objects, maps>>
        /\ regs'.r0 = [kind |-> "uid", value |-> current_thread]
    BY <1>7, RunningThread DEF SvcGetThreadId, Answer, Context
  <2> QED
    BY <2>1, AnswerMemory
<1>8. CASE SvcGetTLSAddr
  <2>1. /\ GuestRuns /\ UNCHANGED <<objects, maps>>
        /\ \/ regs'.r0 = [kind  |-> "tls",
                          value |-> objects[current_thread].tlsLowAddress]
           \/ regs'.r0 = [kind |-> "none", value |-> 0]
    BY <1>8, RunningThread DEF SvcGetTLSAddr, Answer, Context
  <2>2. CASE regs'.r0 = [kind  |-> "tls",
                         value |-> objects[current_thread].tlsLowAddress]
    BY <2>1, <2>2, AnswerMemory
  <2>3. CASE regs'.r0 = [kind |-> "none", value |-> 0]
    BY <2>1, <2>3, GuestRunsMemory DEF MemoryInv
  <2> QED
    BY <2>1, <2>2, <2>3
<1>9. CASE SvcAllocMemBlock
  BY <1>9, AllocMemBlockMemory
<1>10. CASE Shutdown
  <2>1. DOMAIN objects' = {} /\ maps' = maps
    BY <1>10, EmptySeq DEF Shutdown
  <2> QED
    BY <2>1, SameBlocks
<1>11. CASE UNCHANGED <<objects, regs, maps>>
  <2>1. \A u \in DOMAIN objects : R0(u)' = R0(u)
    BY <1>11 DEF R0
  <2> QED
    BY <1>11, <2>1, SameBlocks
<1> QED
  BY <1>1, <1>2, <1>3, <1>4, <1>5, <1>6, <1>7, <1>8, <1>9, <1>10, <1>11
     DEF Next, vars, StartThreadWithArguments

\* With modest requests, maps and blocks stay sound in every reachable state.
LEMMA MemoryInvAlways ==
    ModestStart => (Spec => []MemoryInv)
<1> SUFFICES ASSUME ModestStart
             PROVE  Spec => []MemoryInv
  OBVIOUS
<1>1. Init => MemoryInv
  BY MemoryInvInit
<1>2. KernelInv /\ MemoryInv /\ [Next]_vars => MemoryInv'
  BY MemoryInvNext
<1> QED
  BY <1>1, <1>2, KernelInvAlways, PTL DEF Spec

\* The pages of a thread are those of the maps behind its blocks.
LEMMA PrivatePages ==
    ASSUME KernelInv, MemoryInv, WellPlaced(maps), NEW u \in DOMAIN objects
    PROVE  /\ \A p \in StackPages(objects[u]) :
                /\ objects[u].stackTop # 0
                /\ Listed(maps, StackBlock(objects[u])) /\ Covers(StackBlock(objects[u]), p)
           /\ \A p \in TlsPages(objects[u]) :
                /\ objects[u].tlsLowAddress # 0
                /\ Listed(maps, TlsBlock(objects[u])) /\ Covers(TlsBlock(objects[u]), p)
           /\ StackPages(objects[u]) \cup TlsPages(objects[u]) \subseteq Int \ {0}
<1> DEFINE t == objects[u]
           n == MemorySize(t.stackSize)
           k == MemorySize(TlsSize)
<1>1. t \in Thread
  BY DEF KernelInv, TypeOK
<1>2. /\ t.stackTop \in Page /\ t.tlsLowAddress \in Page
      /\ n \in Int /\ k \in Int
  <2>1. t.stackTop \in Page /\ t.tlsLowAddress \in Page /\ t.stackSize \in Page
    BY <1>1, KernelAssumption DEF Thread
  <2> HIDE DEF t
  <2> QED
    BY <2>1, Wrap DEF MemorySize, TlsSize, Page
<1>3. /\ t.stackTop # 0 => StackBlock(t).start > 0 /\ Listed(maps, StackBlock(t))
      /\ t.tlsLowAddress # 0 => Listed(maps, TlsBlock(t))
  BY DEF MemoryInv, BlocksAreMaps
<1>4. /\ StackBlock(t).start = t.stackTop - n /\ StackBlock(t).end = t.stackTop - 1
      /\ TlsBlock(t).start = t.tlsLowAddress
      /\ TlsBlock(t).end = t.tlsLowAddress + k - 1
  BY DEF StackBlock, TlsBlock, BlockAt
<1>5. /\ StackPages(t) = IF t.stackTop = 0 THEN {} ELSE t.stackTop - n .. t.stackTop - 1
      /\ TlsPages(t) = IF t.tlsLowAddress = 0 THEN {}
                       ELSE t.tlsLowAddress .. t.tlsLowAddress + k - 1
  BY DEF StackPages, TlsPages
<1> HIDE DEF t, n, k
<1>6. \A p \in StackPages(t) :
        /\ t.stackTop # 0 /\ Listed(maps, StackBlock(t)) /\ Covers(StackBlock(t), p)
        /\ p \in Int \ {0}
  BY <1>2, <1>3, <1>4, <1>5 DEF Page, Covers
<1>7. \A p \in TlsPages(t) :
        /\ t.tlsLowAddress # 0 /\ Listed(maps, TlsBlock(t)) /\ Covers(TlsBlock(t), p)
        /\ p \in Int \ {0}
  BY <1>2, <1>3, <1>4, <1>5 DEF Page, Covers
<1> QED
  BY <1>6, <1>7 DEF t

\* Maps of a sound list that cover a page are one map.
LEMMA OneMap ==
    ASSUME MemoryInv, WellPlaced(maps), TypeOK,
           NEW b, Listed(maps, b), NEW c, Listed(maps, c),
           NEW p \in Int, Covers(b, p), Covers(c, p)
    PROVE  b = c
<1>1. PICK i \in 1 .. Len(maps) : maps[i] = b
  BY DEF Listed
<1>2. PICK j \in 1 .. Len(maps) : maps[j] = c
  BY DEF Listed
<1>3. /\ maps[i].start \in Int /\ maps[i].end \in Int
      /\ maps[j].start \in Int /\ maps[j].end \in Int
  BY MapBounds DEF TypeOK, Page
<1>4. i # j => maps[i].end < maps[j].start \/ maps[j].end < maps[i].start
  BY DEF MemoryInv, Sound, Disjoint
<1>5. i = j
  BY <1>1, <1>2, <1>3, <1>4 DEF Covers
<1> QED
  BY <1>1, <1>2, <1>5

\* A page of two threads' blocks would make them one thread.
LEMMA PagesApart ==
    ASSUME KernelInv, MemoryInv, WellPlaced(maps),
           NEW u \in DOMAIN objects, NEW v \in DOMAIN objects
    PROVE  /\ StackPages(objects[u]) \cap TlsPages(objects[v]) = {}
           /\ u # v => /\ StackPages(objects[u]) \cap StackPages(objects[v]) = {}
                       /\ TlsPages(objects[u]) \cap TlsPages(objects[v]) = {}
<1>0. TypeOK /\ \A w \in DOMAIN objects : objects[w] \in Thread
  BY DEF KernelInv, TypeOK
<1>1. /\ \A t : StackBlock(t).kind = "stack" /\ StackBlock(t).end = t.stackTop - 1
      /\ \A t : TlsBlock(t).kind = "heap" /\ TlsBlock(t).start = t.tlsLowAddress
  BY DEF StackBlock, TlsBlock, BlockAt
<1>2. ASSUME NEW p \in StackPages(objects[u]), p \in TlsPages(objects[v])
      PROVE  FALSE
  <2>1. StackBlock(objects[u]) = TlsBlock(objects[v])
    BY <1>0, <1>2, PrivatePages, OneMap
  <2> QED
    BY <1>1, <2>1
<1>3. ASSUME u # v, NEW p \in StackPages(objects[u]), p \in StackPages(objects[v])
      PROVE  FALSE
  <2>1. StackBlock(objects[u]) = StackBlock(objects[v])
    BY <1>0, <1>3, PrivatePages, OneMap
  <2>2. objects[u].stackTop = objects[v].stackTop
    <3>1. objects[u].stackTop \in Int /\ objects[v].stackTop \in Int
      BY <1>0 DEF Thread, Page
    <3>2. objects[u].stackTop - 1 = objects[v].stackTop - 1
      BY <1>1, <2>1
    <3> QED
      BY <3>1, <3>2
  <2> QED
    BY <1>3, <2>2, PrivatePages DEF MemoryInv, BlocksDiffer
<1>4. ASSUME u # v, NEW p \in TlsPages(objects[u]), p \in TlsPages(objects[v])
      PROVE  FALSE
  <2>1. TlsBlock(objects[u]) = TlsBlock(objects[v])
    BY <1>0, <1>4, PrivatePages, OneMap
  <2>2. objects[u].tlsLowAddress = objects[v].tlsLowAddress
    BY <1>1, <2>1
  <2> QED
    BY <1>4, <2>2, PrivatePages DEF MemoryInv, BlocksDiffer
<1> QED
  BY <1>2, <1>3, <1>4

\* allocate_stack and allocate_heap give every thread blocks of its own, for as
\* long as no block wrapped or took the last page of the space; a guest's own
\* allocations and the threads started again since take nothing away from it.
THEOREM BlocksArePrivateAlways == ModestStart => (Spec => []BlocksArePrivate)
<1>1. KernelInv /\ MemoryInv => BlocksArePrivate
  <2> SUFFICES ASSUME KernelInv, MemoryInv, WellPlaced(maps), NEW u \in DOMAIN objects
               PROVE  /\ StackPages(objects[u]) \cap TlsPages(objects[u]) = {}
                      /\ \A v \in DOMAIN objects \ {u} : Private(u) \cap Private(v) = {}
                      /\ \A p \in Private(u) :
                           \E m \in { maps[i] : i \in Hits(maps, p) } :
                             /\ m.protection = ReadWrite
                             /\ \A i \in Hits(maps, p) : maps[i] = m
    BY DEF BlocksArePrivate
  <2>1. StackPages(objects[u]) \cap TlsPages(objects[u]) = {}
    BY PagesApart
  <2>2. \A v \in DOMAIN objects \ {u} : Private(u) \cap Private(v) = {}
    <3> SUFFICES ASSUME NEW v \in DOMAIN objects \ {u}
                 PROVE  Private(u) \cap Private(v) = {}
      OBVIOUS
    <3>1. /\ StackPages(objects[u]) \cap TlsPages(objects[v]) = {}
          /\ StackPages(objects[v]) \cap TlsPages(objects[u]) = {}
          /\ StackPages(objects[u]) \cap StackPages(objects[v]) = {}
          /\ TlsPages(objects[u]) \cap TlsPages(objects[v]) = {}
      BY PagesApart
    <3> QED
      BY <3>1 DEF Private
  <2>3. ASSUME NEW p \in Private(u)
        PROVE  \E m \in { maps[i] : i \in Hits(maps, p) } :
                 /\ m.protection = ReadWrite
                 /\ \A i \in Hits(maps, p) : maps[i] = m
    <3>1. PICK b : /\ b = StackBlock(objects[u]) \/ b = TlsBlock(objects[u])
                   /\ Listed(maps, b) /\ Covers(b, p) /\ p \in Int
      BY PrivatePages DEF Private
    <3>2. b.protection = ReadWrite
      BY <3>1 DEF StackBlock, TlsBlock, BlockAt
    <3>3. b \in { maps[i] : i \in Hits(maps, p) }
      BY <3>1 DEF Listed, Hits
    <3>4. ASSUME NEW i \in Hits(maps, p)
          PROVE  maps[i] = b
      <4>1. Listed(maps, maps[i]) /\ Covers(maps[i], p)
        BY DEF Hits, Listed
      <4> QED
        BY <3>1, <4>1, OneMap DEF KernelInv
    <3> QED
      BY <3>2, <3>3, <3>4
  <2> QED
    BY <2>1, <2>2, <2>3
<1> QED
  BY <1>1, KernelInvAlways, MemoryInvAlways, PTL

\* What a supervisor call told a thread about itself stays its own across any
\* switches, starts and allocations: its UID, and an address in no other
\* thread's block.
THEOREM AnswersAreItsOwnAlways == ModestStart => (Spec => []AnswersAreItsOwn)
<1>1. KernelInv /\ MemoryInv => AnswersAreItsOwn
  <2> SUFFICES ASSUME KernelInv, MemoryInv, WellPlaced(maps), NEW u \in DOMAIN objects
               PROVE  /\ R0(u).kind = "uid" => R0(u).value = u
                      /\ R0(u).kind = "tls" =>
                           \A v \in DOMAIN objects \ {u} : R0(u).value \notin Private(v)
    BY DEF AnswersAreItsOwn, R0
  <2>1. R0(u).kind = "uid" => R0(u).value = u
    BY DEF MemoryInv, AnswersAreKnown
  <2>2. ASSUME R0(u).kind = "tls", NEW v \in DOMAIN objects \ {u},
               R0(u).value \in Private(v)
        PROVE  FALSE
    <3> DEFINE p == R0(u).value
    <3>1. p # 0 /\ p \in Int
      BY <2>2, PrivatePages DEF Private
    <3>2. PICK i \in 1 .. Len(maps) : maps[i].kind = "heap" /\ maps[i].start = p
      BY <2>2, <3>1 DEF MemoryInv, AnswersAreKnown
    <3>3. objects[v].tlsLowAddress # p
      BY <2>2, <3>1 DEF MemoryInv, AnswersAreKnown
    <3>4. PICK b : /\ b = StackBlock(objects[v]) \/ b = TlsBlock(objects[v])
                   /\ Listed(maps, b) /\ Covers(b, p)
      BY <2>2, PrivatePages DEF Private
    <3>5. Listed(maps, maps[i]) /\ Covers(maps[i], p)
      <4>1. maps[i].start <= maps[i].end
        BY DEF WellPlaced
      <4> HIDE DEF p
      <4> QED
        BY <3>1, <3>2, <4>1 DEF Listed, Covers
    <3>6. maps[i] = b
      <4> HIDE DEF p
      <4> QED
        BY <3>1, <3>4, <3>5, OneMap DEF KernelInv
    <3> HIDE DEF p
    <3> QED
      BY <3>2, <3>3, <3>4, <3>6 DEF StackBlock, TlsBlock, BlockAt
  <2> QED
    BY <2>1, <2>2
<1> QED
  BY <1>1, KernelInvAlways, MemoryInvAlways, PTL
=============================================================================

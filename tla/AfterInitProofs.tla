-------------------------- MODULE AfterInitProofs --------------------------
(***************************************************************************)
(* Proofs about AfterInit, for every number of items, every set of hook    *)
(* names and command words and every agenda of the lifecycle calls.        *)
(***************************************************************************)
EXTENDS AfterInit, Recursion, SequenceTheorems

\* Type correctness: newItem and afterInitHook never produce a pointer that
\* is not NULL, cmdlist or the next field of an item.
THEOREM TypeCorrect == Spec => []TypeOK
  <1> USE ItemsAssumption DEF ItemsAssumption, Item, Stage, NoHook
  <1>1. Init => TypeOK
    BY DEF Init, IocInit, TypeOK, IocTypeOK, IocState
  <1>2. TypeOK /\ [Next]_vars => TypeOK'
    <2> SUFFICES ASSUME TypeOK, [Next]_vars
                 PROVE  TypeOK'
      OBVIOUS
    <2> USE DEF TypeOK, IocTypeOK
    <2>1. ASSUME NEW w \in Stage, NEW c \in Words, AtInitStageIocsh(w, c)
          PROVE  TypeOK'
      <3>1. count' \in Item /\ count' \in 0..MaxItems
        BY <2>1 DEF AtInitStageIocsh
      <3>2. link' \in [0..MaxItems -> 0..MaxItems] /\ cmdlast' \in 0..MaxItems
        <4>1. CASE IsShutdownHook(w)
          <5>1. link' = [link EXCEPT ![0] = count', ![count'] = link[0]]
            BY <2>1, <4>1 DEF AtInitStageIocsh, Prepend
          <5>2. link[0] \in 0..MaxItems
            OBVIOUS
          <5>3. cmdlast' = count' \/ cmdlast' = cmdlast
            BY <2>1, <4>1 DEF AtInitStageIocsh, Prepend
          <5>4. QED
            BY ONLY <3>1, <5>1, <5>2, <5>3, TypeOK, ItemsAssumption
              DEF TypeOK, ItemsAssumption
        <4>2. CASE ~IsShutdownHook(w)
          <5>1. link' = [link EXCEPT ![cmdlast] = count', ![count'] = 0]
            BY <2>1, <4>2 DEF AtInitStageIocsh, AppendItem
          <5>2. cmdlast' = count'
            BY <2>1, <4>2 DEF AtInitStageIocsh, AppendItem
          <5>3. QED
            <6>1. cmdlast' \in 0..MaxItems
              BY <3>1, <5>2
            <6>2. 0 \in 0..MaxItems
              OBVIOUS
            <6>3. [link EXCEPT ![cmdlast] = count'] \in [0..MaxItems -> 0..MaxItems]
              BY <3>1
            <6>4. link' \in [0..MaxItems -> 0..MaxItems]
              BY ONLY <5>1, <6>2, <6>3
            <6>5. QED
              BY <6>1, <6>4
        <4>3. QED
          BY <4>1, <4>2
      <3>3. when' \in [Item -> Stage]
        BY <2>1, <3>1 DEF AtInitStageIocsh
      <3>4. cmd' \in [Item -> Words \cup {NoCommand, "(null)"}]
        BY <2>1, <3>1 DEF AtInitStageIocsh
      <3>5. QED
        BY <2>1, <3>1, <3>2, <3>3, <3>4 DEF AtInitStageIocsh, iocVars, walkVars
    <2>2. CASE MallocFails
      BY <2>2 DEF MallocFails, iocVars, walkVars
    <2>3. CASE LifecycleCall
      <3>1. \A op \in LifecycleOp : Agenda[op] \in Seq(Announcement)
        BY AgendaAssumption
      <3>2. IocTypeOK'
        BY <2>3, <3>1 DEF LifecycleCall, IocLifecycleCall, IocCall, LifecycleOp, IocState
      <3>3. QED
        BY <2>3, <3>2 DEF LifecycleCall, listVars, walkVars
    <2>4. ASSUME NEW s \in Stage, IocAnnounce(s)
          PROVE  IocTypeOK'
      <3>1. Head(agenda) \in Announcement /\ Tail(agenda) \in Seq(Announcement)
        BY <2>4 DEF IocAnnounce
      <3>2. QED
        BY <2>4, <3>1 DEF IocAnnounce, Announcement
    <2>5. CASE AnnounceUnheard
      BY <2>4, <2>5 DEF AnnounceUnheard, listVars, walkVars
    <2>6. ASSUME NEW s \in Stage, AfterInitHook(s)
          PROVE  TypeOK'
      <3>1. IocTypeOK'
        BY <2>4, <2>6 DEF AfterInitHook
      <3>2. link[0] \in 0..MaxItems
        OBVIOUS
      <3>3. QED
        <4>1. <<>> \in Seq(Item)
          OBVIOUS
        <4>2. state' \in Stage \cup {NoHook} /\ item' \in 0..MaxItems
          BY <2>6, <3>2 DEF AfterInitHook
        <4>3. ran' \in Seq(Item) /\ known' \in 0..MaxItems
          BY <2>6, <4>1 DEF AfterInitHook
        <4>4. QED
          BY <2>6, <3>1, <4>2, <4>3 DEF AfterInitHook, listVars
    <2>7. CASE Walk
      <3>1. CASE WalkSkip
        BY <3>1 DEF WalkSkip, iocVars, listVars
      <3>2. CASE WalkRun
        <4>1. Append(ran, item) \in Seq(Item)
          BY <3>2 DEF WalkRun, InLoop
        <4>2. ran' \in Seq(Item)
          BY ONLY <3>2, <4>1 DEF WalkRun
        <4>3. QED
          BY ONLY <3>2, <4>2, TypeOK DEF TypeOK, IocTypeOK, WalkRun, iocVars, listVars
      <3>3. CASE WalkReturn
        BY <3>3 DEF WalkReturn, iocVars, listVars
      <3>4. CASE WalkDone
        BY <3>4 DEF WalkDone, iocVars, listVars
      <3>5. QED
        BY <2>7, <3>1, <3>2, <3>3, <3>4 DEF Walk
    <2>8. CASE UNCHANGED vars
      BY <2>8 DEF vars, iocVars, listVars, walkVars
    <2>9. AfterIocRunning \in Stage /\ AtBeginning \in Stage
      BY DEF AfterIocRunning, AtBeginning
    <2>10. CASE Register
      BY <2>1, <2>2, <2>9, <2>10
        DEF Register, AfterInitFunc, AtInitFunc, AtInitStageFunc
    <2>11. QED
      BY <2>3, <2>5, <2>6, <2>7, <2>8, <2>10 DEF Next
  <1>3. QED
    BY <1>1, <1>2, PTL DEF Spec

-----------------------------------------------------------------------------
(* The list.                                                               *)

\* InOrder is a strict total order on the cells.
LEMMA TotalOrder ==
  ASSUME NEW n \in Nat, NEW w
  PROVE  /\ \A i, j \in 0..n : i = j \/ InOrder(w, i, j) \/ InOrder(w, j, i)
         /\ \A i, j \in 0..n : ~(InOrder(w, i, j) /\ InOrder(w, j, i))
         /\ \A i, j, k \in 0..n : InOrder(w, i, j) /\ InOrder(w, j, k) => InOrder(w, i, k)
  <1>1. \A i : IsShutdownHook(w[i]) \in BOOLEAN
    BY DEF IsShutdownHook
  <1>2. QED
    BY ONLY <1>1 DEF InOrder

\* Only the last cell of the list holds NULL.
LEMMA OneEnd ==
  ASSUME NEW n \in Nat, NEW w, NEW next, NEW last, IsList(next, last, n, w)
  PROVE  \A i \in 0..n : next[i] = 0 => i = last
  <1> TAKE i \in 0..n
  <1> HAVE next[i] = 0
  <1>1. last \in 0..n /\ \A j \in 1..n : ~InOrder(w, i, j) /\ ~InOrder(w, last, j)
    BY DEF IsList
  <1>2. i = last \/ InOrder(w, i, last) \/ InOrder(w, last, i)
    BY <1>1, TotalOrder
  <1>3. \A j \in 0..n : ~InOrder(w, j, 0)
    BY DEF InOrder
  <1>4. QED
    BY <1>1, <1>2, <1>3

\* A new item takes a place in the order: a shutdown item before all others,
\* any other item after them.  The order of the others stays.
LEMMA NewItemInOrder ==
  ASSUME NEW n \in Nat, NEW m, m = n + 1, NEW w, NEW v,
         \A i \in 1..n : v[i] = w[i]
  PROVE  /\ \A i, j \in 0..n : InOrder(v, i, j) <=> InOrder(w, i, j)
         /\ InOrder(v, 0, m) /\ ~InOrder(v, m, m)
         /\ IsShutdownHook(v[m]) =>
              \A i \in 1..n : InOrder(v, m, i) /\ ~InOrder(v, i, m)
         /\ ~IsShutdownHook(v[m]) =>
              \A i \in 1..n : InOrder(v, i, m) /\ ~InOrder(v, m, i)
  <1>1. \A i : IsShutdownHook(w[i]) \in BOOLEAN /\ IsShutdownHook(v[i]) \in BOOLEAN
    BY DEF IsShutdownHook
  <1>2. \A i \in 1..n : IsShutdownHook(v[i]) <=> IsShutdownHook(w[i])
    OBVIOUS
  <1>3. QED
    BY ONLY <1>1, <1>2, m = n + 1, n \in Nat DEF InOrder

\* Prepending a shutdown item keeps the list.
LEMMA PrependKeepsList ==
  ASSUME NEW n \in Nat, NEW m, m = n + 1, NEW w, NEW v,
         \A i \in 1..n : v[i] = w[i], IsShutdownHook(v[m]),
         NEW next, NEW last, IsList(next, last, n, w),
         NEW nextN, NEW lastN,
         nextN[0] = m, nextN[m] = next[0], \A i \in 1..n : nextN[i] = next[i],
         lastN = IF next[0] = 0 THEN m ELSE last
  PROVE  IsList(nextN, lastN, m, v)
  <1>1. 0..m = (0..n) \cup {m} /\ 1..m = (1..n) \cup {m} /\ 0..n = {0} \cup (1..n)
        /\ last \in 0..n /\ next[last] = 0 /\ m # 0
    BY DEF IsList
  <1>2. next[0] = 0 => n = 0
    <2>1. next[0] = 0 => \A j \in 1..n : ~InOrder(w, 0, j)
      BY <1>1 DEF IsList
    <2>2. \A j \in 1..n : InOrder(w, 0, j)
      BY DEF InOrder
    <2>3. QED
      BY <2>1, <2>2
  <1>3. /\ \A i, j \in 0..n : InOrder(v, i, j) <=> InOrder(w, i, j)
        /\ InOrder(v, 0, m) /\ ~InOrder(v, m, m)
        /\ \A i \in 1..n : InOrder(v, m, i) /\ ~InOrder(v, i, m)
    BY NewItemInOrder
  <1>4. lastN \in 0..m /\ nextN[lastN] = 0
    BY <1>1, <1>2
  <1>5. \A j \in 1..m : ~InOrder(v, j, m)
    BY <1>1, <1>3
  <1>6. ASSUME NEW i \in 1..n
        PROVE  IF nextN[i] = 0 THEN \A j \in 1..m : ~InOrder(v, i, j)
               ELSE /\ nextN[i] \in 1..m
                    /\ InOrder(v, i, nextN[i])
                    /\ \A j \in 1..m : ~(InOrder(v, i, j) /\ InOrder(v, j, nextN[i]))
    BY <1>1, <1>3 DEF IsList
  <1>7. IF nextN[m] = 0 THEN \A j \in 1..m : ~InOrder(v, m, j)
        ELSE /\ nextN[m] \in 1..m
             /\ InOrder(v, m, nextN[m])
             /\ \A j \in 1..m : ~(InOrder(v, m, j) /\ InOrder(v, j, nextN[m]))
    <2>1. next[0] # 0 => next[0] \in 1..n /\ \A j \in 1..n : ~InOrder(w, j, next[0])
      <3>1. \A j \in 1..n : InOrder(w, 0, j)
        BY DEF InOrder
      <3>2. QED
        BY <1>1, <3>1 DEF IsList
    <2>2. QED
      BY <1>1, <1>2, <1>3, <2>1
  <1>8. QED
    BY <1>1, <1>3, <1>4, <1>5, <1>6, <1>7 DEF IsList

\* Appending any other item keeps the list.
LEMMA AppendKeepsList ==
  ASSUME NEW n \in Nat, NEW m, m = n + 1, NEW w, NEW v,
         \A i \in 1..n : v[i] = w[i], ~IsShutdownHook(v[m]),
         NEW next, NEW last, IsList(next, last, n, w),
         NEW nextN, nextN[last] = m, nextN[m] = 0,
         \A i \in 0..n : i # last => nextN[i] = next[i]
  PROVE  IsList(nextN, m, m, v)
  <1>1. 0..m = (0..n) \cup {m} /\ 1..m = (1..n) \cup {m} /\ 0..n = {0} \cup (1..n)
        /\ last \in 0..n /\ next[last] = 0 /\ m # 0
    BY DEF IsList
  <1>2. /\ \A i, j \in 0..n : InOrder(v, i, j) <=> InOrder(w, i, j)
        /\ InOrder(v, 0, m) /\ ~InOrder(v, m, m)
        /\ \A i \in 1..n : InOrder(v, i, m) /\ ~InOrder(v, m, i)
    BY NewItemInOrder
  <1>3. \A j \in 1..m : ~InOrder(v, m, j)
    BY <1>1, <1>2
  <1>4. ASSUME NEW i \in 0..n, i # last
        PROVE  /\ nextN[i] \in 1..m
               /\ InOrder(v, i, nextN[i])
               /\ \A j \in 1..m : ~(InOrder(v, i, j) /\ InOrder(v, j, nextN[i]))
    <2>1. next[i] # 0 /\ nextN[i] = next[i]
      BY <1>4, OneEnd
    <2>2. QED
      BY <1>1, <1>2, <2>1 DEF IsList
  <1>5. /\ InOrder(v, last, m)
        /\ \A j \in 1..m : ~(InOrder(v, last, j) /\ InOrder(v, j, m))
    <2>1. \A j \in 1..n : ~InOrder(v, last, j)
      BY <1>1, <1>2 DEF IsList
    <2>2. QED
      BY <1>1, <1>2, <2>1
  <1>6. QED
    BY <1>1, <1>3, <1>4, <1>5 DEF IsList

\* Correctness of newItem: cmdlist is one acyclic list of all items, in
\* running order, and cmdlast its end, after any sequence of registrations.
THEOREM ListCorrect == Spec => []ListInv
  <1>1. Init => ListInv
    BY ItemsAssumption DEF ItemsAssumption, Init, ListInv, IsList
  <1>2. TypeOK /\ ListInv /\ [Next]_vars => ListInv'
    <2> SUFFICES ASSUME TypeOK, ListInv, [Next]_vars
                 PROVE  ListInv'
      OBVIOUS
    <2>1. ASSUME NEW w \in Stage, NEW c \in Words, AtInitStageIocsh(w, c)
          PROVE  ListInv'
      <3>1. /\ count \in Nat /\ count' = count + 1 /\ count' \in Item
            /\ 0..count' \subseteq 0..MaxItems
        BY <2>1, ItemsAssumption DEF ItemsAssumption, AtInitStageIocsh, TypeOK, Item
      <3>2. when'[count'] = w /\ \A i \in 1..count : when'[i] = when[i]
        BY <2>1, <3>1 DEF AtInitStageIocsh, TypeOK, Item
      <3>3. /\ link \in [0..MaxItems -> 0..MaxItems] /\ cmdlast \in 0..count
            /\ IsList(link, cmdlast, count, when)
        BY DEF TypeOK, ListInv, IsList
      <3>4. PICK next, last, m, v : next = link' /\ last = cmdlast' /\ m = count' /\ v = when'
        OBVIOUS
      <3>5. count \in Nat /\ m = count + 1 /\ \A i \in 1..count : v[i] = when[i]
        BY <3>1, <3>2, <3>4
      <3>6. ASSUME IsShutdownHook(w)
            PROVE  IsList(next, last, m, v)
        <4>1. next = [link EXCEPT ![0] = m, ![m] = link[0]]
              /\ last = IF link[0] = 0 THEN m ELSE cmdlast
          BY <2>1, <3>4, <3>6 DEF AtInitStageIocsh, Prepend
        <4>2. next[0] = m /\ next[m] = link[0] /\ \A i \in 1..count : next[i] = link[i]
          BY ONLY <4>1, <3>1, <3>3, <3>4
        <4>3. IsShutdownHook(v[m]) /\ IsList(link, cmdlast, count, when)
          BY <3>2, <3>3, <3>4, <3>6
        <4>4. last = IF link[0] = 0 THEN m ELSE cmdlast
          BY <4>1
        <4>5. QED
          BY ONLY <3>5, <4>2, <4>3, <4>4, PrependKeepsList
      <3>7. ASSUME ~IsShutdownHook(w)
            PROVE  IsList(next, last, m, v)
        <4>1. next = [link EXCEPT ![cmdlast] = m, ![m] = 0] /\ last = m
          BY <2>1, <3>4, <3>7 DEF AtInitStageIocsh, AppendItem
        <4>2. next[cmdlast] = m /\ next[m] = 0
              /\ \A i \in 0..count : i # cmdlast => next[i] = link[i]
          <5>1. m \in 0..MaxItems /\ cmdlast \in 0..MaxItems /\ cmdlast # m
            BY <3>1, <3>3, <3>4
          <5>2. \A i \in 0..count : i \in 0..MaxItems /\ i # m
            BY <3>1, <3>4
          <5>3. QED
            BY ONLY <3>3, <4>1, <5>1, <5>2
        <4>3. ~IsShutdownHook(v[m]) /\ IsList(link, cmdlast, count, when)
          BY <3>2, <3>3, <3>4, <3>7
        <4>4. IsList(next, m, m, v)
          BY ONLY <3>5, <4>2, <4>3, AppendKeepsList
        <4>5. QED
          BY <4>1, <4>4
      <3>8. QED
        BY <3>4, <3>6, <3>7 DEF ListInv
    <2>2. AfterIocRunning \in Stage /\ AtBeginning \in Stage
      BY DEF AfterIocRunning, AtBeginning, Stage
    <2>3. CASE UNCHANGED listVars
      BY <2>3 DEF listVars, ListInv
    <2>4. CASE MallocFails
      BY <2>4 DEF MallocFails, ListInv
    <2>5. CASE Register
      BY <2>1, <2>2, <2>4, <2>5
        DEF Register, AfterInitFunc, AtInitFunc, AtInitStageFunc
    <2>6. QED
      BY <2>3, <2>5 DEF Next, LifecycleCall, AnnounceUnheard, AfterInitHook, Walk,
                        WalkSkip, WalkRun, WalkReturn, WalkDone, vars
  <1>3. QED
    BY <1>1, <1>2, TypeCorrect, PTL DEF Spec

-----------------------------------------------------------------------------
(* The walk.                                                               *)

\* The items before the cell next[c] are c and the items before c.
LEMMA Advance ==
  ASSUME NEW n \in Nat, NEW w, NEW next, NEW last, IsList(next, last, n, w),
         NEW c \in 1..n
  PROVE  \A i \in 1..n : (next[c] = 0 \/ InOrder(w, i, next[c])) <=> (i = c \/ InOrder(w, i, c))
  <1> TAKE i \in 1..n
  <1>1. i \in 0..n /\ c \in 0..n /\ (next[c] # 0 => next[c] \in 0..n)
    BY DEF IsList
  <1>2. i = c \/ InOrder(w, i, c) \/ InOrder(w, c, i)
    BY <1>1, TotalOrder
  <1>3. ~(InOrder(w, i, c) /\ InOrder(w, c, i)) /\ ~InOrder(w, c, c)
    BY <1>1, TotalOrder
  <1>4. CASE next[c] = 0
    BY <1>1, <1>2, <1>3, <1>4 DEF IsList
  <1>5. CASE next[c] # 0
    <2>1. InOrder(w, c, next[c]) /\ ~(InOrder(w, c, i) /\ InOrder(w, i, next[c]))
      BY <1>1, <1>5 DEF IsList
    <2>2. InOrder(w, i, c) => InOrder(w, i, next[c])
      BY <1>1, <1>5, <2>1, TotalOrder
    <2>3. QED
      BY <1>2, <1>3, <1>5, <2>1, <2>2
  <1>6. QED
    BY <1>4, <1>5

\* The first cell after cmdlist: no item is before it, and it is NULL only
\* if there is no item.
LEMMA First ==
  ASSUME NEW n \in Nat, NEW w, NEW next, NEW last, IsList(next, last, n, w)
  PROVE  /\ next[0] = 0 => n = 0
         /\ next[0] # 0 => next[0] \in 1..n
         /\ \A i \in 1..n : ~InOrder(w, i, next[0])
  <1>1. \A i \in 1..n : InOrder(w, 0, i) /\ ~InOrder(w, i, 0)
    BY DEF InOrder
  <1>2. QED
    BY <1>1 DEF IsList

WalkOK == WalkInv /\ RunInOrder

\* A registration does not disturb a walk: it puts a shutdown item behind
\* the cursor and any other item in front of it.
LEMMA RegisterKeepsWalk ==
  ASSUME TypeOK, ListInv, WalkOK, NEW w \in Stage, NEW c \in Words, AtInitStageIocsh(w, c)
  PROVE  WalkOK'
  <1>1. /\ count \in Nat /\ count' = count + 1 /\ count' \in Item
        /\ UNCHANGED <<state, item, running, ran, known>> /\ hooked' = TRUE
    BY ItemsAssumption DEF ItemsAssumption, AtInitStageIocsh, TypeOK, Item, walkVars
  <1>2. when'[count'] = w /\ \A i \in 1..count : when'[i] = when[i]
    BY <1>1 DEF AtInitStageIocsh, TypeOK, Item
  <1>3. PICK m, v : m = count' /\ v = when'
    OBVIOUS
  <1>4. m = count + 1 /\ \A i \in 1..count : v[i] = when[i]
    BY <1>1, <1>2, <1>3
  <1>5. /\ \A i, j \in 0..count : InOrder(v, i, j) <=> InOrder(when, i, j)
        /\ IsShutdownHook(v[m]) => \A i \in 1..count : ~InOrder(v, i, m)
        /\ ~IsShutdownHook(v[m]) => \A i \in 1..count : ~InOrder(v, m, i)
    BY ONLY <1>1, <1>4, NewItemInOrder
  <1>6. /\ item \in 0..count /\ Ran \subseteq 1..count
        /\ 1..m = (1..count) \cup {m} /\ 1..count \subseteq 0..count /\ m \notin 0..count
        /\ Ran' = Ran
    BY <1>1, <1>4 DEF WalkOK, WalkInv, RunInOrder, Ran
  <1>7. RunInOrder'
    <2>1. \A k \in 1..Len(ran) : ran[k] \in 0..count
      BY <1>6 DEF Ran
    <2>2. QED
      BY <1>1, <1>3, <1>5, <1>6, <2>1 DEF WalkOK, RunInOrder, Precedes
  <1>8. CASE state = NoHook
    BY <1>1, <1>7, <1>8 DEF WalkOK, WalkInv
  <1>9. CASE state # NoHook
    <2>1. running /\ item \in 1..count /\ when[item] = state /\ known \in 0..count
      BY <1>1, <1>9 DEF AtInitStageIocsh, ShellReady, WalkOK, WalkInv
    <2>2. ASSUME NEW i \in 1..count
          PROVE  i \in Ran <=> /\ v[i] = state
                               /\ item = 0 \/ InOrder(v, i, item) \/ (i = item /\ running)
                               /\ IsShutdownHook(state) => i <= known
      BY <1>4, <1>5, <1>6, <1>9, <2>1 DEF WalkOK, WalkInv, Passed, Precedes
    <2>3. ~(/\ v[m] = state
            /\ item = 0 \/ InOrder(v, m, item) \/ (m = item /\ running)
            /\ IsShutdownHook(state) => m <= known)
      BY <1>1, <1>4, <1>5, <1>6, <2>1
    <2>4. m \notin Ran
      BY <1>1, <1>4, <1>6
    <2>5. item # 0 /\ IsShutdownHook(v[item]) => item <= known
      BY <1>4, <1>9, <2>1 DEF WalkOK, WalkInv
    <2>6. item \in 0..m /\ known \in 0..m /\ v[item] = state
      BY <1>1, <1>4, <2>1
    <2>7. QED
      BY <1>1, <1>3, <1>6, <1>7, <1>9, <2>2, <2>3, <2>4, <2>5, <2>6
        DEF WalkOK, WalkInv, Passed, Precedes
  <1>10. QED
    BY <1>7, <1>8, <1>9 DEF WalkOK

\* At the announcement the cursor stands before all items of the stage.
LEMMA AnnounceKeepsWalk ==
  ASSUME TypeOK, ListInv, WalkOK, NEW s \in Stage, AfterInitHook(s)
  PROVE  WalkOK'
  <1>1. /\ state' = s /\ item' = link[0] /\ ran' = <<>> /\ known' = count
        /\ state = NoHook /\ hooked /\ UNCHANGED <<when, count, hooked, running>>
    BY DEF AfterInitHook, listVars
  <1>2. count \in Nat /\ ~running /\ s # NoHook
    BY <1>1, ItemsAssumption DEF ItemsAssumption, TypeOK, WalkOK, WalkInv, Stage, NoHook
  <1>3. /\ link[0] = 0 => count = 0
        /\ link[0] # 0 => link[0] \in 1..count
        /\ \A i \in 1..count : ~InOrder(when, i, link[0])
    BY <1>2, First DEF ListInv
  <1>4. Ran' = {} /\ Len(ran') = 0
    BY <1>1 DEF Ran
  <1>5. RunInOrder'
    BY <1>4 DEF RunInOrder, Ran
  <1>6. \A i \in 1..count : ~Passed(i)'
    BY <1>1, <1>2, <1>3 DEF Passed, Precedes
  <1>7. QED
    BY <1>1, <1>2, <1>3, <1>4, <1>5, <1>6 DEF WalkOK, WalkInv

\* Reading item->next passes the item and no other.
LEMMA StepPasses ==
  ASSUME TypeOK, ListInv, item \in 1..count, item' = link[item], ~running',
         UNCHANGED <<when, count>>
  PROVE  /\ item' \in 0..count
         /\ \A i \in 1..count : Passed(i)' <=> (i = item \/ InOrder(when, i, item))
         /\ item' # 0 => InOrder(when, item, item')
  <1>1. count \in Nat
    BY ItemsAssumption DEF ItemsAssumption, TypeOK
  <1>2. \A i \in 1..count :
          (link[item] = 0 \/ InOrder(when, i, link[item])) <=> (i = item \/ InOrder(when, i, item))
    BY <1>1, Advance DEF ListInv
  <1>3. link[item] \in 0..count /\ (link[item] # 0 => InOrder(when, item, link[item]))
    BY <1>1 DEF ListInv, IsList
  <1>4. QED
    BY <1>2, <1>3 DEF Passed, Precedes

\* A step of the walk takes the next item or none: what has run stays in the order
\* of registration.
LEMMA WalkKeepsWalk ==
  ASSUME TypeOK, ListInv, WalkOK, Walk
  PROVE  WalkOK'
  <1>1. /\ UNCHANGED <<when, count, hooked>> /\ count \in Nat
        /\ item \in 0..count /\ known \in 0..MaxItems /\ ran \in Seq(Item)
    BY ItemsAssumption DEF ItemsAssumption, TypeOK, WalkOK, WalkInv, Walk, WalkSkip, WalkRun,
                           WalkReturn, WalkDone, listVars
  <1>2. ASSUME state # NoHook, item # 0, item' = link[item], ~running', UNCHANGED <<state, ran, known>>,
               \/ running
               \/ ~running /\ when[item] # state
        PROVE  WalkOK'
    <2>1. /\ item' \in 0..count
          /\ \A i \in 1..count : Passed(i)' <=> (i = item \/ InOrder(when, i, item))
          /\ item' # 0 => InOrder(when, item, item')
      BY <1>1, <1>2, StepPasses
    <2>2. Ran' = Ran /\ RunInOrder'
      BY <1>1, <1>2 DEF WalkOK, RunInOrder, Ran, Precedes
    <2>3. item' # 0 /\ IsShutdownHook(when[item']) => item' <= known
      BY <1>1, <1>2, <2>1 DEF WalkOK, WalkInv, InOrder
    <2>4. \A i \in 1..count : when[i] = state => (Passed(i) <=> Passed(i)')
      BY <1>1, <1>2, <2>1 DEF Passed, Precedes
    <2>5. QED
      BY <1>1, <1>2, <2>1, <2>2, <2>3, <2>4 DEF WalkOK, WalkInv
  <1>3. CASE WalkSkip
    BY <1>2, <1>3 DEF WalkSkip, InLoop
  <1>4. CASE WalkReturn
    BY <1>2, <1>4 DEF WalkReturn, WalkOK, WalkInv
  <1>5. CASE WalkRun
    <2>1. /\ state # NoHook /\ item \in 1..count /\ ~running /\ when[item] = state
          /\ running' /\ ran' = Append(ran, item) /\ UNCHANGED <<state, item, known>>
      BY <1>1, <1>5 DEF WalkRun, InLoop
    <2>2. /\ Len(ran) \in Nat /\ Len(ran') = Len(ran) + 1
          /\ \A k \in 1..Len(ran) : ran'[k] = ran[k] /\ ran[k] \in Item
          /\ ran'[Len(ran) + 1] = item /\ item \in Item
      <3>1. item \in Item
        BY <1>1, <2>1 DEF TypeOK, Item
      <3>2. QED
        BY ONLY <1>1, <2>1, <3>1
    <2>3. Ran' = Ran \cup {item}
      BY <2>2 DEF Ran
    <2>4. \A k \in 1..Len(ran) : ran[k] \in 1..count /\ Precedes(ran[k], item)
      <3>1. \A i \in Ran : i \in 1..count /\ Precedes(i, item)
        BY <2>1 DEF WalkOK, WalkInv, RunInOrder, Passed
      <3>2. QED
        BY <3>1 DEF Ran
    <2>5. RunInOrder'
      BY <1>1, <2>1, <2>2, <2>3, <2>4 DEF WalkOK, RunInOrder, Precedes
    <2>6. QED
      BY <1>1, <2>1, <2>3, <2>5 DEF WalkOK, WalkInv, Passed, Precedes
  <1>6. CASE WalkDone
    BY <1>1, <1>6 DEF WalkDone, WalkOK, WalkInv, RunInOrder, Ran, listVars
  <1>7. QED
    BY <1>3, <1>4, <1>5, <1>6 DEF Walk

\* What the walks run is in order in every state.
LEMMA WalkInvariant == Spec => []WalkOK
  <1>1. Init => WalkOK
    BY DEF Init, WalkOK, WalkInv, RunInOrder, Ran
  <1>2. TypeOK /\ ListInv /\ WalkOK /\ [Next]_vars => WalkOK'
    <2> SUFFICES ASSUME TypeOK, ListInv, WalkOK, [Next]_vars
                 PROVE  WalkOK'
      OBVIOUS
    <2>1. AfterIocRunning \in Stage /\ AtBeginning \in Stage
      BY DEF AfterIocRunning, AtBeginning, Stage
    <2>2. CASE UNCHANGED <<link, cmdlast, when, cmd, count, walkVars>> /\ hooked' \in {hooked, TRUE}
      BY <2>2 DEF walkVars, WalkOK, WalkInv, RunInOrder, Ran, Passed, Precedes
    <2>3. CASE Register
      BY <2>1, <2>2, <2>3, RegisterKeepsWalk
        DEF Register, AfterInitFunc, AtInitFunc, AtInitStageFunc, MallocFails
    <2>4. CASE LifecycleCall
      BY <2>2, <2>4 DEF LifecycleCall, listVars
    <2>5. CASE AnnounceUnheard
      BY <2>2, <2>5 DEF AnnounceUnheard, listVars
    <2>6. CASE UNCHANGED vars
      BY <2>2, <2>6 DEF vars, listVars
    <2>7. QED
      BY <2>3, <2>4, <2>5, <2>6, AnnounceKeepsWalk, WalkKeepsWalk DEF Next
  <1>3. QED
    BY <1>1, <1>2, TypeCorrect, ListCorrect, PTL DEF Spec

\* Correctness of afterInitHook against commands that queue commands: it has
\* run exactly the items of its stage that it has passed.
THEOREM WalkCorrect == Spec => []WalkInv
  BY WalkInvariant, PTL DEF WalkOK

\* Commands run in the order of their queue, and at most once each time
\* their stage is announced.
THEOREM OrderCorrect == Spec => []RunInOrder
  BY WalkInvariant, PTL DEF WalkOK

\* Completeness of afterInitHook: at the end of its loop every command that
\* was queued for the stage when it was announced has been run.
THEOREM CompletenessCorrect == Spec => []NoneLeftOut
  <1>1. WalkInv /\ TypeOK => NoneLeftOut
    <2> SUFFICES ASSUME WalkInv, TypeOK, state # NoHook, item = 0,
                        NEW i \in 1..known, when[i] = state
                 PROVE  i \in Ran
      BY DEF NoneLeftOut
    <2>1. i \in 1..count /\ i <= known
      BY ItemsAssumption DEF ItemsAssumption, WalkInv, TypeOK
    <2>2. QED
      BY <2>1 DEF WalkInv, Passed
  <1>2. QED
    BY <1>1, WalkCorrect, TypeCorrect, PTL

-----------------------------------------------------------------------------
(* The queues of InitCommands.                                             *)

\* sorted is the loop of Sorted(S, s).
IsSorting(sorted, S, s) ==
  /\ sorted \in [0..MaxItems -> Seq(Nat)]
  /\ sorted[0] = <<>>
  /\ \A k \in 1..MaxItems :
       sorted[k] = IF k \in S THEN Placed(sorted[k - 1], k, s) ELSE sorted[k - 1]

\* Sorted goes through the items one by one.
LEMMA SortedLoop ==
  ASSUME NEW S, NEW s
  PROVE  \E sorted : IsSorting(sorted, S, s) /\ Sorted(S, s) = sorted[MaxItems]
  <1> DEFINE N == MaxItems
             Q == Seq(Nat)
             Turn(k, before) == IF k \in S THEN Placed(before, k, s) ELSE before
             step == [x \in (1..N) \X Q |-> Turn(x[1], x[2])]
             IsLoop(f) == f = [k \in 0..N |->
                                 IF k = 0 THEN <<>>
                                 ELSE IF k \in S THEN Placed(f[k - 1], k, s)
                                 ELSE f[k - 1]]
             sorted == CHOOSE f : IsLoop(f)
  <1>1. N \in Nat
    BY ItemsAssumption DEF ItemsAssumption
  <1>2. \A k \in 1..N, before \in Q : Turn(k, before) \in Q
    <2> SUFFICES ASSUME NEW k \in 1..N, NEW before \in Q
                 PROVE  Turn(k, before) \in Q
      OBVIOUS
    <2>1. <<k>> \in Q /\ k \in Nat
      BY <1>1
    <2>2. <<k>> \o before \in Q /\ Append(before, k) \in Q
      BY <2>1, ConcatProperties, AppendProperties
    <2>3. QED
      BY <2>2 DEF Placed
  <1>3. step \in [(1..N) \X Q -> Q] /\ <<>> \in Q
    <2>1. <<>> \in Q
      OBVIOUS
    <2> HIDE DEF Q, Turn
    <2>2. QED
      BY <1>2, <2>1
  <1>4. PICK f : IsRecursive(f, N, Q, <<>>, step)
    <2> HIDE DEF Q, step, N
    <2>1. QED
      BY <1>1, <1>3, RecursiveFunction
  <1>5. \A k \in 1..N : f[k] = Turn(k, f[k - 1])
    <2> TAKE k \in 1..N
    <2> HIDE DEF step, Q, N
    <2>1. f[k] = step[<<k, f[k - 1]>>] /\ k - 1 \in 0..N
      BY <1>1, <1>4 DEF IsRecursive
    <2>2. f[k - 1] \in Q
      BY <1>4, <2>1 DEF IsRecursive
    <2> DEFINE before == f[k - 1]
    <2> USE DEF step
    <2> HIDE DEF before, Turn
    <2>3. step[<<k, before>>] = Turn(k, before)
      BY <2>2 DEF before
    <2>4. QED
      BY <2>1, <2>3 DEF before
  <1>6. IsSorting(f, S, s)
    BY <1>4, <1>5 DEF IsSorting, IsRecursive
  <1>7. IsLoop(f)
    <2>1. f = [k \in 0..N |-> f[k]]
      BY <1>4 DEF IsRecursive
    <2>2. \A k \in 0..N : k # 0 => k \in 1..N
      BY <1>1
    <2>3. \A k \in 0..N : f[k] = IF k = 0 THEN <<>>
                                 ELSE IF k \in S THEN Placed(f[k - 1], k, s) ELSE f[k - 1]
      BY <1>6, <2>2 DEF IsSorting
    <2> HIDE DEF N
    <2>4. QED
      BY <2>1, <2>3, Zenon
  <1>8. ASSUME NEW h, IsLoop(h)
        PROVE  h = f
    <2> DEFINE T == {k \in 0..N : h[k] = f[k]}
    <2>1. 0 \in T
      BY <1>1, <1>6, <1>8 DEF IsSorting
    <2>2. \A k \in 1..N : k - 1 \in T => k \in T
      <3> TAKE k \in 1..N
      <3> HAVE k - 1 \in T
      <3>1. k \in 0..N /\ k # 0 /\ h[k - 1] = f[k - 1]
        BY <1>1
      <3>2. h[k] = Turn(k, h[k - 1])
        BY <1>8, <3>1
      <3>3. QED
        BY <1>5, <3>1, <3>2
    <2> HIDE DEF T
    <2>3. \A k \in 0..N : k \in T
      BY <1>1, <2>1, <2>2, InductionUpTo
    <2>4. \A k \in 0..N : h[k] = f[k]
      BY <2>3 DEF T
    <2>5. f = [k \in 0..N |-> f[k]]
      BY <1>4 DEF IsRecursive
    <2>6. h = [k \in 0..N |-> h[k]]
      BY <1>8
    <2>7. QED
      BY <2>4, <2>5, <2>6
  <1>9. IsLoop(sorted)
    BY <1>7
  <1> HIDE DEF IsLoop
  <1>10. sorted = f
    BY <1>8, <1>9
  <1>11. QED
    BY <1>6, <1>10 DEF Sorted, IsLoop

\* The sorted items are a sequence, empty if there are none.
LEMMA SortedEmpty ==
  ASSUME NEW S, NEW s
  PROVE  /\ Sorted(S, s) \in Seq(Nat)
         /\ S = {} => Sorted(S, s) = <<>>
  <1> DEFINE N == MaxItems
  <1>1. N \in Nat
    BY ItemsAssumption DEF ItemsAssumption
  <1>2. PICK f : IsSorting(f, S, s) /\ Sorted(S, s) = f[N]
    BY SortedLoop
  <1>3. Sorted(S, s) \in Seq(Nat)
    BY <1>1, <1>2 DEF IsSorting
  <1>4. ASSUME S = {}
        PROVE  Sorted(S, s) = <<>>
    <2> DEFINE T == {k \in 0..N : f[k] = <<>>}
    <2>1. 0 \in T /\ \A k \in 1..N : k - 1 \in T => k \in T
      BY <1>1, <1>2, <1>4 DEF IsSorting
    <2> HIDE DEF T
    <2>2. N \in T
      BY <1>1, <2>1, InductionUpTo
    <2>3. QED
      BY <1>2, <2>2 DEF T
  <1>5. QED
    BY <1>3, <1>4

\* A new item is placed where newItem puts it.
LEMMA SortedNew ==
  ASSUME NEW n \in Nat, NEW m, m = n + 1, m <= MaxItems, NEW S \in SUBSET (1..n), NEW s
  PROVE  Sorted(S \cup {m}, s) = Placed(Sorted(S, s), m, s)
  <1> DEFINE N == MaxItems
  <1>1. N \in Nat /\ m \in 1..N
    BY ItemsAssumption DEF ItemsAssumption
  <1>2. PICK f : IsSorting(f, S, s) /\ Sorted(S, s) = f[N]
    BY SortedLoop
  <1>3. PICK g : IsSorting(g, S \cup {m}, s) /\ Sorted(S \cup {m}, s) = g[N]
    BY SortedLoop
  <1> DEFINE T == {k \in 0..N : IF k <= n THEN g[k] = f[k] ELSE g[k] = Placed(f[k], m, s)}
  <1>4. 0 \in T
    BY <1>1, <1>2, <1>3 DEF IsSorting
  <1>5. ASSUME NEW k \in 1..N, k - 1 \in T
        PROVE  k \in T
    <2>1. /\ f[k] = IF k \in S THEN Placed(f[k - 1], k, s) ELSE f[k - 1]
          /\ g[k] = IF k \in S \cup {m} THEN Placed(g[k - 1], k, s) ELSE g[k - 1]
      BY <1>2, <1>3 DEF IsSorting
    <2>2. CASE k <= n
      <3>1. k - 1 <= n /\ k # m
        BY <1>1, <2>2
      <3>2. g[k - 1] = f[k - 1]
        BY <1>5, <3>1
      <3>3. g[k] = f[k]
        BY <2>1, <3>1, <3>2
      <3>4. QED
        BY <1>1, <2>2, <3>3
    <2>3. CASE k = m
      <3>1. k \notin S /\ k - 1 <= n /\ ~(k <= n)
        BY <1>1, <2>3
      <3>2. g[k - 1] = f[k - 1]
        BY <1>5, <3>1
      <3>3. g[k] = Placed(f[k], m, s)
        BY <2>1, <2>3, <3>1, <3>2
      <3>4. QED
        BY <1>1, <3>1, <3>3
    <2>4. CASE k > m
      <3>1. k \notin S /\ k # m /\ ~(k - 1 <= n) /\ ~(k <= n)
        BY <1>1, <2>4
      <3>2. g[k - 1] = Placed(f[k - 1], m, s)
        BY <1>5, <3>1
      <3>3. g[k] = Placed(f[k], m, s)
        BY <2>1, <3>1, <3>2
      <3>4. QED
        BY <1>1, <3>1, <3>3
    <2>5. QED
      BY <1>1, <2>2, <2>3, <2>4
  <1> HIDE DEF T
  <1>6. N \in T
    BY <1>1, <1>4, <1>5, InductionUpTo
  <1>7. QED
    BY <1>1, <1>2, <1>3, <1>6 DEF T

\* c is the first of S to run.
IsFirst(c, S, s) == \A i \in S : IF IsShutdownHook(s) THEN i <= c ELSE c <= i

\* The item that comes before all others is the head of the queue.
LEMMA SortedFirst ==
  ASSUME NEW S \in SUBSET (1..MaxItems), NEW c \in S, NEW s, IsFirst(c, S, s)
  PROVE  Sorted(S, s) = <<c>> \o Sorted(S \ {c}, s)
  <1> DEFINE N == MaxItems
  <1>1. N \in Nat /\ c \in 1..N
    BY ItemsAssumption DEF ItemsAssumption
  <1>2. PICK f : IsSorting(f, S, s) /\ Sorted(S, s) = f[N]
    BY SortedLoop
  <1>3. PICK g : IsSorting(g, S \ {c}, s) /\ Sorted(S \ {c}, s) = g[N]
    BY SortedLoop
  <1> DEFINE T == {k \in 0..N : IF k < c
                                THEN g[k] = f[k] /\ (~IsShutdownHook(s) => f[k] = <<>>)
                                ELSE f[k] = <<c>> \o g[k]}
  <1>4. 0 \in T
    BY <1>1, <1>2, <1>3 DEF IsSorting
  <1>5. ASSUME NEW k \in 1..N, k - 1 \in T
        PROVE  k \in T
    <2>1. /\ f[k] = IF k \in S THEN Placed(f[k - 1], k, s) ELSE f[k - 1]
          /\ g[k] = IF k \in S \ {c} THEN Placed(g[k - 1], k, s) ELSE g[k - 1]
      BY <1>2, <1>3 DEF IsSorting
    <2>2. k - 1 \in 0..N /\ k \in 0..N
      BY <1>1
    <2>3. g[k - 1] \in Seq(Nat) /\ c \in Nat
      BY <1>1, <1>3, <2>2 DEF IsSorting
    <2>4. CASE k < c
      <3>1. k - 1 < c /\ k # c /\ (~IsShutdownHook(s) => k \notin S)
        BY <1>1, <2>4 DEF IsFirst
      <3>2. g[k - 1] = f[k - 1] /\ (~IsShutdownHook(s) => f[k - 1] = <<>>)
        BY <1>5, <3>1
      <3>3. g[k] = f[k] /\ (~IsShutdownHook(s) => f[k] = <<>>)
        BY <2>1, <3>1, <3>2
      <3>4. QED
        BY <2>2, <2>4, <3>3
    <2>5. CASE k = c
      <3>1. k - 1 < c /\ ~(k < c)
        BY <1>1, <2>5
      <3>2. g[k - 1] = f[k - 1] /\ (~IsShutdownHook(s) => f[k - 1] = <<>>)
        BY <1>5, <3>1
      <3>3. g[k] = f[k - 1] /\ f[k] = Placed(f[k - 1], c, s)
        BY <2>1, <2>5, <3>2
      <3>4. Append(<<>>, c) = <<c>> \o <<>>
        OBVIOUS
      <3>5. f[k] = <<c>> \o g[k]
        BY <3>2, <3>3, <3>4 DEF Placed
      <3>6. QED
        BY <2>2, <3>1, <3>5
    <2>6. CASE k > c
      <3>1. ~(k - 1 < c) /\ ~(k < c) /\ k # c /\ (IsShutdownHook(s) => k \notin S)
        BY <1>1, <2>6 DEF IsFirst
      <3>2. f[k - 1] = <<c>> \o g[k - 1]
        BY <1>5, <3>1
      <3>3. k \in Nat
        BY <2>2
      <3> DEFINE before == g[k - 1]
      <3>4. before \in Seq(Nat)
        BY <2>3
      <3> HIDE DEF before
      <3>5. Append(<<c>> \o before, k) = <<c>> \o Append(before, k)
        BY ONLY <2>3, <3>3, <3>4
      <3>6. f[k] = <<c>> \o g[k]
        BY <2>1, <3>1, <3>2, <3>5 DEF Placed, before
      <3>7. QED
        BY <2>2, <3>1, <3>6
    <2>7. QED
      BY <1>1, <2>4, <2>5, <2>6
  <1> HIDE DEF T
  <1>6. N \in T
    BY <1>1, <1>4, <1>5, InductionUpTo
  <1>7. ~(N < c)
    BY <1>1
  <1>8. QED
    BY <1>2, <1>3, <1>6, <1>7 DEF T

\* A registration gives the item to the queue of its stage, and to the walk
\* of that stage unless it is put behind the cursor.
LEMMA RegisterGives ==
  ASSUME TypeOK, ListInv, WalkOK, NEW w \in Stage, NEW c \in Words, AtInitStageIocsh(w, c)
  PROVE  Queues!Give(w)
  <1>1. /\ count \in Nat /\ count' = count + 1 /\ count' \in Item /\ count' <= MaxItems
        /\ count < MaxItems /\ UNCHANGED <<state, item, running>>
    BY ItemsAssumption DEF ItemsAssumption, AtInitStageIocsh, TypeOK, Item, walkVars
  <1>2. when'[count'] = w /\ \A i \in 1..count : when'[i] = when[i]
    BY <1>1 DEF AtInitStageIocsh, TypeOK, Item
  <1>3. PICK m, v : m = count' /\ v = when'
    OBVIOUS
  <1>4. m = count + 1 /\ v[m] = w /\ \A i \in 1..count : v[i] = when[i]
    BY <1>1, <1>2, <1>3
  <1>5. 1..m = (1..count) \cup {m} /\ m \notin 0..count /\ 1..count \subseteq 0..count
    BY <1>1, <1>4
  <1>6. \A s : Given(s)' = IF s = w THEN Given(s) \cup {m} ELSE Given(s)
    <2>1. \A s : Given(s)' = {i \in 1..m : v[i] = s}
      BY <1>3 DEF Given
    <2>2. QED
      BY <1>4, <1>5, <2>1 DEF Given
  <1>7. NotPassed' = IF w = state /\ ~IsShutdownHook(w) THEN NotPassed \cup {m} ELSE NotPassed
    <2>1. Given(state)' = {i \in 1..m : v[i] = state}
      BY <1>1, <1>3 DEF Given
    <2>2. CASE state = NoHook
      <3>1. w # state /\ \A i \in 1..count : when[i] # state
        <4>1. NoHook \notin Stage /\ \A i \in 1..count : i \in Item
          BY <1>1, ItemsAssumption DEF ItemsAssumption, Item, Stage, NoHook
        <4>2. QED
          BY <2>2, <4>1 DEF TypeOK
      <3>2. Given(state) = {} /\ Given(state)' = {}
        BY <1>4, <1>5, <2>1, <3>1 DEF Given
      <3>3. QED
        BY <3>1, <3>2 DEF NotPassed
    <2>3. CASE state # NoHook
      <3>1. running /\ item \in 1..count /\ when[item] = state
        BY <2>3 DEF AtInitStageIocsh, ShellReady, WalkOK, WalkInv
      <3>2. /\ \A i, j \in 0..count : InOrder(v, i, j) <=> InOrder(when, i, j)
            /\ InOrder(v, m, item) <=> IsShutdownHook(w)
        BY ONLY <1>1, <1>4, <3>1, NewItemInOrder
      <3>3. \A i \in 1..count : Passed(i)' <=> Passed(i)
        BY <1>1, <1>3, <1>5, <3>1, <3>2 DEF Passed, Precedes
      <3>4. Passed(m)' <=> IsShutdownHook(w)
        BY <1>1, <1>3, <1>5, <3>1, <3>2 DEF Passed, Precedes
      <3>5. NotPassed' = {i \in Given(state)' : ~Passed(i)'}
        BY DEF NotPassed
      <3>6. Given(state)' = IF state = w THEN Given(state) \cup {m} ELSE Given(state)
        BY <1>1, <1>6
      <3>7. Given(state) \subseteq 1..count
        BY DEF Given
      <3>8. QED
        BY <1>5, <3>3, <3>4, <3>5, <3>6, <3>7 DEF NotPassed
    <2>4. QED
      BY <2>2, <2>3
  <1>8. ASSUME NEW S \in SUBSET (1..count), NEW s
        PROVE  Sorted(S \cup {m}, s) = IF IsShutdownHook(s) THEN <<m>> \o Sorted(S, s)
                                       ELSE Append(Sorted(S, s), m)
    BY <1>1, <1>3, <1>4, SortedNew DEF Placed
  <1>9. \A s : Given(s) \in SUBSET (1..count) /\ NotPassed \in SUBSET (1..count)
    BY DEF Given, NotPassed
  <1>10. [s \in Stage |-> Sorted(Given(s), s)]' =
           [[s \in Stage |-> Sorted(Given(s), s)] EXCEPT ![w] =
              IF w \in {s \in Stage : IsShutdownHook(s)} THEN <<count'>> \o @ ELSE Append(@, count')]
    <2> DEFINE QueueOf(s) == Sorted(Given(s), s)
    <2>1. \A s \in Stage : QueueOf(s)' = IF s # w THEN QueueOf(s)
                                         ELSE IF IsShutdownHook(w) THEN <<m>> \o QueueOf(w)
                                         ELSE Append(QueueOf(w), m)
      BY <1>6, <1>8, <1>9
    <2> HIDE DEF QueueOf
    <2>2. [s \in Stage |-> QueueOf(s)]' = [s \in Stage |-> QueueOf(s)']
      OBVIOUS
    <2>3. [s \in Stage |-> QueueOf(s)]' =
            [[s \in Stage |-> QueueOf(s)] EXCEPT ![w] =
               IF w \in {s \in Stage : IsShutdownHook(s)} THEN <<count'>> \o @ ELSE Append(@, count')]
      BY <1>3, <2>1, <2>2
    <2>4. QED
      BY <2>3 DEF QueueOf
  <1>11. Sorted(NotPassed, state)' =
           IF w = state /\ w \notin {s \in Stage : IsShutdownHook(s)}
           THEN Append(Sorted(NotPassed, state), count') ELSE Sorted(NotPassed, state)
    BY <1>1, <1>3, <1>7, <1>8, <1>9
  <1>12. state = NoHook \/ (IF running THEN item ELSE 0) # 0
    BY DEF AtInitStageIocsh, ShellReady, WalkOK, WalkInv
  <1>13. QED
    BY <1>1, <1>10, <1>11, <1>12 DEF Queues!Give

\* An announcement that finds the hook registered takes over the queue.
LEMMA HookAnnounces ==
  ASSUME TypeOK, ListInv, WalkOK, NEW s \in Stage, AfterInitHook(s)
  PROVE  Queues!Announce(s)
  <1>1. /\ state' = s /\ item' = link[0] /\ state = NoHook
        /\ UNCHANGED <<when, count, running>> /\ count \in Nat
    BY ItemsAssumption DEF ItemsAssumption, TypeOK, AfterInitHook, listVars
  <1>2. ~running
    BY <1>1 DEF WalkOK, WalkInv
  <1>3. /\ link[0] = 0 => count = 0
        /\ \A i \in 1..count : ~InOrder(when, i, link[0])
    BY <1>1, First DEF ListInv
  <1>4. \A i \in 1..count : ~Passed(i)'
    BY <1>1, <1>2, <1>3 DEF Passed, Precedes
  <1>5. \A t : Given(t)' = Given(t)
    BY <1>1 DEF Given
  <1>6. NotPassed' = Given(s)
    BY <1>1, <1>4, <1>5 DEF NotPassed, Given
  <1>7. QED
    BY <1>1, <1>2, <1>5, <1>6 DEF Queues!Announce

\* Skipping is not seen, running takes the first of the queue, returning
\* ends the command and the end of the loop finds the queue empty.
LEMMA WalkRunsQueue ==
  ASSUME TypeOK, ListInv, WalkOK, Walk
  PROVE  Queues!RunNext \/ Queues!Return \/ Queues!Finish \/ UNCHANGED Queues!vars
  <1>1. /\ UNCHANGED <<when, count>> /\ count \in Nat /\ item \in 0..count
        /\ 1..count \subseteq 1..MaxItems
    BY ItemsAssumption DEF ItemsAssumption, TypeOK, WalkOK, WalkInv, Walk, WalkSkip, WalkRun,
                           WalkReturn, WalkDone, listVars
  <1>2. \A s : Given(s)' = Given(s)
    BY <1>1 DEF Given
  <1>3. CASE WalkSkip
    <2>1. /\ item \in 1..count /\ item' = link[item] /\ when[item] # state /\ ~running
          /\ UNCHANGED <<state, running>>
      BY <1>1, <1>3 DEF WalkSkip, InLoop
    <2>2. \A i \in 1..count : Passed(i)' <=> (i = item \/ Passed(i))
      BY <1>1, <2>1, StepPasses DEF Passed, Precedes
    <2>3. NotPassed' = NotPassed
      BY <1>2, <2>1, <2>2 DEF NotPassed, Given
    <2>4. QED
      BY <1>1, <1>2, <2>1, <2>3 DEF Queues!vars
  <1>4. CASE WalkReturn
    <2>1. /\ item \in 1..count /\ item' = link[item] /\ running /\ ~running'
          /\ UNCHANGED state
      BY <1>1, <1>4 DEF WalkReturn, WalkOK, WalkInv
    <2>2. \A i \in 1..count : Passed(i)' <=> Passed(i)
      BY <1>1, <2>1, StepPasses DEF Passed, Precedes
    <2>3. NotPassed' = NotPassed
      BY <1>2, <2>1, <2>2 DEF NotPassed, Given
    <2>4. QED
      BY <1>1, <1>2, <2>1, <2>3 DEF Queues!Return
  <1>5. CASE WalkRun
    <2>1. /\ item \in 1..count /\ state # NoHook /\ ~running /\ running' /\ when[item] = state
          /\ UNCHANGED <<state, item>>
      BY <1>1, <1>5 DEF WalkRun, InLoop
    <2>2. ~InOrder(when, item, item)
         /\ \A i \in 1..count : i = item \/ InOrder(when, i, item) \/ InOrder(when, item, i)
      BY <1>1, TotalOrder
    <2>3. item \in NotPassed /\ NotPassed \in SUBSET (1..MaxItems)
      BY <1>1, <2>1, <2>2 DEF NotPassed, Given, Passed, Precedes
    <2>4. NotPassed' = NotPassed \ {item}
      BY <1>1, <1>2, <2>1, <2>2 DEF NotPassed, Given, Passed, Precedes
    <2>5. IsFirst(item, NotPassed, state)
      <3>1. \A i \in NotPassed : i \in 1..count /\ when[i] = state /\ (i = item \/ InOrder(when, item, i))
        BY <2>1, <2>2 DEF NotPassed, Given, Passed, Precedes
      <3>2. QED
        BY <1>1, <2>1, <3>1 DEF IsFirst, InOrder
    <2>6. Sorted(NotPassed, state) = <<item>> \o Sorted(NotPassed', state)
      BY <2>3, <2>4, <2>5, SortedFirst
    <2>7. Sorted(NotPassed', state) \in Seq(Nat) /\ item \in Nat
      BY <1>1, SortedEmpty
    <2> DEFINE rest == Sorted(NotPassed', state)
    <2> HIDE DEF rest
    <2>8. /\ <<item>> \o rest # <<>>
          /\ Head(<<item>> \o rest) = item
          /\ Tail(<<item>> \o rest) = rest
      BY <2>7 DEF rest
    <2>9. QED
      BY <1>1, <1>2, <2>1, <2>6, <2>8 DEF Queues!RunNext, rest
  <1>6. CASE WalkDone
    <2>1. /\ state # NoHook /\ item = 0 /\ state' = NoHook /\ UNCHANGED <<item, running>>
          /\ ~running
      BY <1>6 DEF WalkDone, WalkOK, WalkInv
    <2>2. NotPassed = {}
      BY <2>1 DEF NotPassed, Passed
    <2>3. NotPassed' = {}
      BY <2>1 DEF NotPassed, Passed
    <2>4. QED
      BY <1>1, <1>2, <2>1, <2>2, <2>3, SortedEmpty DEF Queues!Finish
  <1>7. QED
    BY <1>3, <1>4, <1>5, <1>6 DEF Walk

\* The linked list with its in-place walk is one queue for every stage, run
\* in order at every announcement: every step of afterInit.c, commands that
\* queue commands included, is a step of InitCommands or not seen by it.
THEOREM QueuesCorrect == Spec => Queues!Safety
  <1>1. Init => Queues!Init
    <2> SUFFICES ASSUME Init PROVE Queues!Init
      OBVIOUS
    <2>1. (\A s : Given(s) = {}) /\ NotPassed = {}
      BY DEF Init, Given, NotPassed
    <2>2. QED
      BY <2>1, SortedEmpty DEF Init, Queues!Init
  <1>2. TypeOK /\ ListInv /\ WalkOK /\ [Next]_vars => [Queues!Next]_(Queues!vars)
    <2> SUFFICES ASSUME TypeOK, ListInv, WalkOK, [Next]_vars
                 PROVE  Queues!Next \/ UNCHANGED Queues!vars
      OBVIOUS
    <2>1. CASE UNCHANGED <<when, count, state, item, running>>
      <3>1. \A s : Given(s)' = Given(s)
        BY <2>1 DEF Given
      <3>2. NotPassed' = NotPassed
        BY <2>1, <3>1 DEF NotPassed, Passed, Precedes
      <3>3. QED
        BY <2>1, <3>1, <3>2 DEF Queues!vars
    <2>2. AfterIocRunning \in Stage /\ AtBeginning \in Stage
      BY DEF AfterIocRunning, AtBeginning, Stage
    <2>3. CASE Register
      BY <2>1, <2>2, <2>3, RegisterGives
        DEF Register, AfterInitFunc, AtInitFunc, AtInitStageFunc, MallocFails, walkVars, Queues!Next
    <2>4. CASE LifecycleCall \/ AnnounceUnheard \/ UNCHANGED vars
      BY <2>1, <2>4 DEF LifecycleCall, AnnounceUnheard, vars, listVars, walkVars
    <2>5. CASE \E s \in Stage : AfterInitHook(s)
      BY <2>5, HookAnnounces DEF Queues!Next
    <2>6. CASE Walk
      BY <2>6, WalkRunsQueue DEF Queues!Next
    <2>7. QED
      BY <2>3, <2>4, <2>5, <2>6 DEF Next
  <1>3. QED
    BY <1>1, <1>2, TypeCorrect, ListCorrect, WalkInvariant, PTL DEF Spec, Queues!Safety
=============================================================================

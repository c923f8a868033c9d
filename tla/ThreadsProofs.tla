---------------------------- MODULE ThreadsProofs ----------------------------
(***************************************************************************)
(* Proofs about the shell functions for threads, for any number of shells, *)
(* threads and CPUs and any affinity lists: types, the list of CPUs that   *)
(* is printed and read again, what a call leaves behind.                   *)
(***************************************************************************)
EXTENDS Threads, Recursion, SequenceTheorems

Elements == [sign : {"", "+", "-"}, first : Nat, last : Int]

-----------------------------------------------------------------------------
(* Reading a list.                                                         *)

Results == SUBSET [sign : {"", "+", "-"}, set : SUBSET Cpu]

\* An element makes results of results.
LEMMA AppliedIsResults ==
  ASSUME NEW cpulist \in Seq(Elements), NEW k \in 1..Len(cpulist), NEW results \in Results
  PROVE  Applied(cpulist, k, results) \in Results
<1>1. cpulist[k] \in Elements
  OBVIOUS
<1>2. \A range \in Ranges(cpulist, k) : range \in SUBSET Cpu
  BY DEF Ranges
<1>3. ASSUME NEW p \in results, NEW kept \in BOOLEAN, NEW range \in Ranges(cpulist, k)
      PROVE  After(cpulist[k], p, kept, range) \in [sign : {"", "+", "-"}, set : SUBSET Cpu]
  <2> DEFINE old == IF kept THEN p.sign ELSE ""
             sign == IF cpulist[k].sign = "" THEN old ELSE cpulist[k].sign
  <2>1. p.sign \in {"", "+", "-"} /\ p.set \in SUBSET Cpu
    BY DEF Results
  <2>2. sign \in {"", "+", "-"}
    BY <1>1, <2>1 DEF Elements
  <2>3. After(cpulist[k], p, kept, range) = [sign |-> sign, set |-> Effect(sign, range, p.set)]
    BY DEF After
  <2> HIDE DEF sign
  <2> DEFINE set == Effect(sign, range, p.set)
  <2>4. set \in SUBSET Cpu
    BY <1>2, <2>1 DEF Effect
  <2> HIDE DEF set
  <2>5. [sign |-> sign, set |-> set] \in [sign : {"", "+", "-"}, set : SUBSET Cpu]
    BY <2>2, <2>4
  <2> QED BY <2>3, <2>5 DEF set
<1> DEFINE R == [sign : {"", "+", "-"}, set : SUBSET Cpu]
<1>4. \A x \in Applied(cpulist, k, results) : x \in R
  <2> HIDE DEF R
  <2>1. \A p \in results, kept \in BOOLEAN, range \in Ranges(cpulist, k) :
          After(cpulist[k], p, kept, range) \in R
    BY <1>3 DEF R
  <2> QED BY <2>1 DEF Applied
<1> QED BY <1>4 DEF Results

\* The results after each element
Start(cpulist, cpuset) == {[sign |-> "", set |-> IF cpulist[1].sign = "" THEN {} ELSE cpuset]}

IsParse(run, cpulist, cpuset) ==
  /\ run \in [0..Len(cpulist) -> Results]
  /\ run[0] = Start(cpulist, cpuset)
  /\ \A k \in 1..Len(cpulist) : run[k] = Applied(cpulist, k, run[k - 1])

\* epicsThreadParseAffinityList goes through the list element by element.
LEMMA ParseByElement ==
  ASSUME NEW cpulist \in Seq(Elements), NEW cpuset \in SUBSET Cpu
  PROVE  \E run : /\ IsParse(run, cpulist, cpuset)
                  /\ ParseAffinityList(cpulist, cpuset) = {p.set : p \in run[Len(cpulist)]}
<1> DEFINE n == Len(cpulist)
           start == Start(cpulist, cpuset)
           step == [x \in (1..n) \X Results |-> Applied(cpulist, x[1], x[2])]
           IsRun(f) == f = [k \in 0..n |-> IF k = 0 THEN start ELSE Applied(cpulist, k, f[k - 1])]
           run == CHOOSE f : IsRun(f)
<1>1. n \in Nat
  OBVIOUS
<1>2. start \in Results /\ step \in [(1..n) \X Results -> Results]
  <2>1. start \in Results
    <3> DEFINE set == IF cpulist[1].sign = "" THEN {} ELSE cpuset
    <3>1. set \in SUBSET Cpu
      OBVIOUS
    <3> HIDE DEF set
    <3>2. {[sign |-> "", set |-> set]} \in Results
      BY <3>1 DEF Results
    <3> QED BY <3>2 DEF Start, set
  <2>2. \A k \in 1..n, r \in Results : Applied(cpulist, k, r) \in Results
    BY AppliedIsResults
  <2> QED BY <2>1, <2>2
<1>3. PICK f : IsRecursive(f, n, Results, start, step)
  <2> HIDE DEF start, step, n
  <2> QED BY <1>1, <1>2, RecursiveFunction
<1>4. \A k \in 1..n : f[k] = Applied(cpulist, k, f[k - 1])
  <2> TAKE k \in 1..n
  <2>1. f[k] = step[<<k, f[k - 1]>>]
    BY <1>3 DEF IsRecursive
  <2>2. k - 1 \in 0..n
    BY <1>1
  <2>3. f[k - 1] \in Results
    BY <1>3, <2>2 DEF IsRecursive
  <2> DEFINE r == f[k - 1]
  <2> HIDE DEF r, n
  <2>4. step[<<k, r>>] = Applied(cpulist, k, r)
    BY <2>3 DEF r
  <2> QED BY <2>1, <2>4 DEF r
<1>5. f \in [0..n -> Results] /\ f[0] = start
  BY <1>3 DEF IsRecursive
<1>6. IsRun(f)
  <2>1. \A k \in 0..n : k = 0 \/ k \in 1..n
    BY <1>1
  <2> HIDE DEF n, start
  <2> QED BY <1>4, <1>5, <2>1
<1>7. IsRun(run)
  <2> HIDE DEF IsRun
  <2> QED BY <1>6
<1>8. ParseAffinityList(cpulist, cpuset) = {p.set : p \in run[n]}
  BY DEF ParseAffinityList, Start
<1> HIDE DEF run
<1>9. \A k \in 0..n : run[k] \in Results
  <2> DEFINE T == {k \in 0..n : run[k] \in Results}
  <2>1. 0 \in T
    BY <1>1, <1>2, <1>7
  <2>2. \A k \in 1..n : k - 1 \in T => k \in T
    <3> TAKE k \in 1..n
    <3>1. k \in 0..n /\ k # 0
      BY <1>1
    <3> HAVE k - 1 \in T
    <3> HIDE DEF start
    <3>2. run[k] = Applied(cpulist, k, run[k - 1]) /\ run[k - 1] \in Results
      BY <1>7, <3>1
    <3> QED BY <3>1, <3>2, AppliedIsResults
  <2>3. \A k \in 0..n : k \in T
    <3> HIDE DEF T, n
    <3> QED BY <1>1, <2>1, <2>2, InductionUpTo
  <2> QED BY <2>3
<1>10. IsParse(run, cpulist, cpuset)
  <2>1. 0 \in 0..n /\ \A k \in 1..n : k \in 0..n /\ k # 0
    BY <1>1
  <2> HIDE DEF start
  <2>2. run \in [0..n -> Results]
    BY <1>7, <1>9
  <2>3. run[0] = start /\ \A k \in 1..n : run[k] = Applied(cpulist, k, run[k - 1])
    BY <1>7, <2>1
  <2> QED BY <2>2, <2>3 DEF IsParse, start
<1> QED BY <1>8, <1>10

\* Whatever the list, only existing CPUs are in the set.
LEMMA ParsedSetsOfCpus ==
  ASSUME NEW cpulist \in Seq(Elements), NEW cpuset \in SUBSET Cpu,
         NEW s \in ParseAffinityList(cpulist, cpuset)
  PROVE  s \in SUBSET Cpu
<1>1. PICK run : /\ IsParse(run, cpulist, cpuset)
                 /\ ParseAffinityList(cpulist, cpuset) = {p.set : p \in run[Len(cpulist)]}
  BY ParseByElement
<1>2. Len(cpulist) \in 0..Len(cpulist)
  OBVIOUS
<1>3. run[Len(cpulist)] \in Results
  BY <1>1, <1>2 DEF IsParse
<1> QED BY <1>1, <1>3 DEF Results
-----------------------------------------------------------------------------
(* Printing a list.                                                        *)

\* The CPUs from one that is in the set to the last before one that is not
LEMMA RangeFromIs ==
  ASSUME NEW cpuset \in SUBSET Cpu, NEW first \in cpuset
  PROVE  /\ RangeFrom(cpuset, first) \in first..(NCpu - 1)
         /\ first..RangeFrom(cpuset, first) \subseteq cpuset
         /\ RangeFrom(cpuset, first) + 1 \notin cpuset
<1> DEFINE T == {last \in Nat : first <= last /\ last + 1 \notin cpuset}
<1>1. NCpu \in Nat \ {0} /\ first \in 0..(NCpu - 1)
  BY ThreadsAssumption DEF Cpu
<1>2. NCpu - 1 \in T
  BY <1>1 DEF Cpu
<1>3. PICK m \in T : \A k \in T : m <= k
  <2>1. T \in SUBSET Nat /\ T # {}
    BY <1>2
  <2> HIDE DEF T
  <2> QED BY <2>1, LeastNat
<1>4. m \in first..(NCpu - 1) /\ m + 1 \notin cpuset
  BY <1>1, <1>2, <1>3
<1>5. ASSUME NEW x \in first..m
      PROVE  x \in cpuset
  <2>1. CASE x # first
    <3>1. x - 1 \in Nat /\ first <= x - 1 /\ ~(m <= x - 1) /\ (x - 1) + 1 = x
      BY <1>1, <1>4, <2>1
    <3> QED BY <1>3, <3>1
  <2> QED BY <2>1
<1> DEFINE IsLast(last) == first..last \subseteq cpuset /\ last + 1 \notin cpuset
<1>6. IsLast(m)
  BY <1>4, <1>5
<1>7. RangeFrom(cpuset, first) = CHOOSE last \in first..(NCpu - 1) : IsLast(last)
  BY DEF RangeFrom
<1> HIDE DEF IsLast
<1>8. RangeFrom(cpuset, first) \in first..(NCpu - 1) /\ IsLast(RangeFrom(cpuset, first))
  BY <1>4, <1>6, <1>7
<1> QED BY <1>8 DEF IsLast

\* The list has only runs of the set, and those that begin before n.
ListsRuns(list, cpuset, n) ==
  /\ \A k \in 1..Len(list) :
       \E cpu \in Cpu : StartsRun(cpuset, cpu) /\ list[k] = RunAt(cpuset, cpu)
  /\ \A cpu \in 0..(n - 1) :
       StartsRun(cpuset, cpu) => \E k \in 1..Len(list) : list[k] = RunAt(cpuset, cpu)

\* What is printed is an element of a list.
LEMMA RunIsElement ==
  ASSUME NEW cpuset \in SUBSET Cpu, NEW cpu \in Cpu, StartsRun(cpuset, cpu)
  PROVE  RunAt(cpuset, cpu) \in Elements
<1>1. NCpu \in Nat
  BY ThreadsAssumption
<1>2. RangeFrom(cpuset, cpu) \in Int /\ cpu \in Nat
  BY <1>1, RangeFromIs DEF StartsRun, Cpu
<1> QED BY <1>2 DEF RunAt, Element, Elements

\* epicsThreadPrintAffinityList prints the runs of the set.
LEMMA PrintsRuns ==
  ASSUME NEW cpuset \in SUBSET Cpu
  PROVE  /\ PrintAffinityList(cpuset) \in Seq(Elements)
         /\ ListsRuns(PrintAffinityList(cpuset), cpuset, NCpu)
<1> DEFINE S == Seq(Elements)
           Next1(n, before) == IF StartsRun(cpuset, n - 1) THEN Append(before, RunAt(cpuset, n - 1))
                               ELSE before
           step == [x \in (1..NCpu) \X S |-> Next1(x[1], x[2])]
           IsList(f) == f = [n \in 0..NCpu |-> IF n = 0 THEN <<>> ELSE Next1(n, f[n - 1])]
           list == CHOOSE f : IsList(f)
<1>1. NCpu \in Nat
  BY ThreadsAssumption
<1>2. \A n \in 1..NCpu : n - 1 \in Cpu /\ n - 1 \in 0..NCpu /\ n \in 0..NCpu /\ n # 0
  BY <1>1 DEF Cpu
<1>3. ASSUME NEW n \in 1..NCpu, NEW before \in S
      PROVE  Next1(n, before) \in S
  BY <1>2, <1>3, RunIsElement
<1>4. step \in [(1..NCpu) \X S -> S] /\ <<>> \in S
  <2>1. <<>> \in S
    OBVIOUS
  <2> HIDE DEF S, Next1
  <2> QED BY <1>3, <2>1
<1>5. PICK f : IsRecursive(f, NCpu, S, <<>>, step)
  <2> HIDE DEF S, step
  <2> QED BY <1>1, <1>4, RecursiveFunction
<1>6. \A n \in 1..NCpu : f[n] = Next1(n, f[n - 1])
  <2> TAKE n \in 1..NCpu
  <2>1. f[n] = step[<<n, f[n - 1]>>]
    BY <1>5 DEF IsRecursive
  <2>2. f[n - 1] \in S
    BY <1>2, <1>5 DEF IsRecursive
  <2> DEFINE r == f[n - 1]
  <2> HIDE DEF r, Next1, S
  <2>3. step[<<n, r>>] = Next1(n, r)
    BY <2>2 DEF r
  <2> QED BY <2>1, <2>3 DEF r
<1>7. f \in [0..NCpu -> S] /\ f[0] = <<>>
  BY <1>5 DEF IsRecursive
<1>8. IsList(f)
  <2>1. \A n \in 0..NCpu : n = 0 \/ n \in 1..NCpu
    BY <1>1
  <2> HIDE DEF Next1, S
  <2> QED BY <1>6, <1>7, <2>1
<1>9. IsList(list)
  <2> HIDE DEF IsList
  <2> QED BY <1>8
<1>10. PrintAffinityList(cpuset) = list[NCpu]
  BY DEF PrintAffinityList
<1> HIDE DEF list
<1> DEFINE T == {n \in 0..NCpu : list[n] \in S /\ ListsRuns(list[n], cpuset, n)}
<1>11. 0 \in T
  <2>1. list[0] = <<>> /\ 0 \in 0..NCpu
    BY <1>1, <1>9
  <2>2. \A k : k \notin 1..Len(<<>>) /\ k \notin 0..(0 - 1)
    OBVIOUS
  <2>3. ListsRuns(<<>>, cpuset, 0)
    BY <2>2 DEF ListsRuns
  <2> QED BY <1>4, <2>1, <2>3
<1>12. ASSUME NEW n \in 1..NCpu, n - 1 \in T
       PROVE  n \in T
  <2> DEFINE before == list[n - 1]
  <2>1. before \in S /\ ListsRuns(before, cpuset, n - 1)
    BY <1>12
  <2>2. list[n] = Next1(n, before)
    <3> HIDE DEF Next1
    <3> QED BY <1>2, <1>9
  <2> HIDE DEF before
  <2>3. /\ \A cpu \in 0..(n - 1) : cpu = n - 1 \/ cpu \in 0..(n - 1 - 1)
        /\ n \in 0..NCpu
    BY <1>1
  <2>4. CASE StartsRun(cpuset, n - 1)
    <3> DEFINE e == RunAt(cpuset, n - 1)
    <3>1. e \in Elements
      BY <1>2, <2>4, RunIsElement
    <3>2. list[n] = Append(before, e)
      BY <2>2, <2>4
    <3> HIDE DEF e
    <3>3. /\ list[n] \in S /\ Len(list[n]) = Len(before) + 1 /\ list[n][Len(before) + 1] = e
          /\ \A k \in 1..Len(before) : list[n][k] = before[k]
          /\ Len(before) \in Nat
      BY <2>1, <3>1, <3>2
    <3>4. \A k \in 1..Len(list[n]) : k = Len(before) + 1 \/ k \in 1..Len(before)
      BY <3>3
    <3>5. /\ \A k \in 1..Len(before) : k \in 1..Len(list[n])
          /\ Len(before) + 1 \in 1..Len(list[n])
      BY <3>3
    <3>6. \A k \in 1..Len(list[n]) :
            \E cpu \in Cpu : StartsRun(cpuset, cpu) /\ list[n][k] = RunAt(cpuset, cpu)
      BY <1>2, <2>1, <2>4, <3>3, <3>4 DEF ListsRuns, e
    <3>7. \A cpu \in 0..(n - 1) :
            StartsRun(cpuset, cpu) => \E k \in 1..Len(list[n]) : list[n][k] = RunAt(cpuset, cpu)
      BY <2>1, <2>3, <3>3, <3>5 DEF ListsRuns, e
    <3> QED BY <2>3, <3>3, <3>6, <3>7 DEF ListsRuns
  <2>5. CASE ~StartsRun(cpuset, n - 1)
    <3>1. list[n] = before
      BY <2>2, <2>5
    <3> QED BY <2>1, <2>3, <2>5, <3>1 DEF ListsRuns
  <2> QED BY <2>4, <2>5
<1>13. NCpu \in T
  <2>1. \A n \in 1..NCpu : n - 1 \in T => n \in T
    BY <1>12
  <2>2. NCpu \in 0..NCpu
    BY <1>1
  <2> HIDE DEF T
  <2> QED BY <1>1, <1>11, <2>1, <2>2, InductionUpTo
<1> QED BY <1>10, <1>13

\* What is printed of a run: its first CPU and its last
LEMMA FieldsOfRun ==
  ASSUME NEW cpuset, NEW cpu
  PROVE  /\ RunAt(cpuset, cpu).sign = "" /\ RunAt(cpuset, cpu).first = cpu
         /\ RunAt(cpuset, cpu).last = RangeFrom(cpuset, cpu)
<1> DEFINE to == RangeFrom(cpuset, cpu)
<1>1. RunAt(cpuset, cpu) = [sign |-> "", first |-> cpu, last |-> to]
  BY DEF RunAt, Element
<1> HIDE DEF to
<1> DEFINE run == [sign |-> "", first |-> cpu, last |-> to]
<1>2. run.sign = "" /\ run.first = cpu /\ run.last = to
  OBVIOUS
<1> HIDE DEF run
<1>3. RunAt(cpuset, cpu) = run
  BY <1>1 DEF run
<1> QED BY <1>2, <1>3 DEF to

\* Every CPU of the set is in one of its runs.
LEMMA InSomeRun ==
  ASSUME NEW cpuset \in SUBSET Cpu, NEW cpu \in cpuset
  PROVE  \E first \in Cpu : StartsRun(cpuset, first) /\ cpu \in first..RangeFrom(cpuset, first)
<1> DEFINE T == {c \in Nat : c <= cpu /\ c..cpu \subseteq cpuset}
<1>1. NCpu \in Nat /\ cpu \in 0..(NCpu - 1)
  BY ThreadsAssumption DEF Cpu
<1>2. cpu \in T
  BY <1>1
<1>3. PICK first \in T : \A k \in T : first <= k
  <2>1. T \in SUBSET Nat /\ T # {}
    BY <1>2
  <2> HIDE DEF T
  <2> QED BY <2>1, LeastNat
<1>4. first \in Nat /\ first <= cpu /\ first..cpu \subseteq cpuset /\ first \in cpuset /\ first \in Cpu
  BY <1>1, <1>3 DEF Cpu
<1>5. first - 1 \notin cpuset
  <2> SUFFICES ASSUME first - 1 \in cpuset PROVE FALSE
    OBVIOUS
  <2>1. first - 1 \in Nat /\ first - 1 <= cpu
    BY <1>1, <1>4 DEF Cpu
  <2>2. \A x \in (first - 1)..cpu : x = first - 1 \/ x \in first..cpu
    BY <1>1, <1>4
  <2>3. first - 1 \in T
    BY <1>4, <2>1, <2>2
  <2>4. ~(first <= first - 1)
    BY <1>4
  <2> QED BY <1>3, <2>3, <2>4
<1>6. cpu <= RangeFrom(cpuset, first)
  <2> DEFINE last == RangeFrom(cpuset, first)
  <2>1. last \in first..(NCpu - 1) /\ last + 1 \notin cpuset
    BY <1>4, RangeFromIs
  <2> HIDE DEF last
  <2>2. last + 1 \notin first..cpu
    BY <1>4, <2>1
  <2>3. last \in Int /\ first <= last
    BY <1>1, <1>4, <2>1
  <2>4. cpu <= last
    BY <1>1, <1>4, <2>2, <2>3
  <2> QED BY <2>4 DEF last
<1>7. RangeFrom(cpuset, first) \in Int
  BY <1>1, <1>4, RangeFromIs
<1> QED BY <1>1, <1>4, <1>5, <1>6, <1>7 DEF StartsRun

\* The CPUs of the first k elements
CpusOf(list, k) == UNION {list[j].first..list[j].last : j \in 1..k}

\* The elements of a printed list have no signs and none is empty; together
\* they stand for the set.
LEMMA PrintedListStands ==
  ASSUME NEW cpuset \in SUBSET Cpu
  PROVE  LET list == PrintAffinityList(cpuset) IN
           /\ \A k \in 1..Len(list) : /\ list[k].sign = "" /\ HasNumber(list[k])
                                      /\ list[k].first..list[k].last \subseteq Cpu
           /\ CpusOf(list, Len(list)) = cpuset
           /\ cpuset # {} => list # <<>>
<1> DEFINE list == PrintAffinityList(cpuset)
<1>1. list \in Seq(Elements) /\ ListsRuns(list, cpuset, NCpu) /\ NCpu \in Nat
  BY PrintsRuns, ThreadsAssumption
<1> HIDE DEF list
<1>2. ASSUME NEW k \in 1..Len(list)
      PROVE  /\ list[k].sign = "" /\ HasNumber(list[k])
             /\ list[k].first..list[k].last \subseteq cpuset
  <2>1. PICK cpu \in Cpu : StartsRun(cpuset, cpu) /\ list[k] = RunAt(cpuset, cpu)
    BY <1>1 DEF ListsRuns
  <2>2. list[k].sign = "" /\ list[k].first = cpu /\ list[k].last = RangeFrom(cpuset, cpu)
    <3>1. list[k] = RunAt(cpuset, cpu)
      BY <2>1
    <3> DEFINE run == RunAt(cpuset, cpu)
    <3>2. run.sign = "" /\ run.first = cpu /\ run.last = RangeFrom(cpuset, cpu)
      BY FieldsOfRun
    <3> HIDE DEF run
    <3>3. list[k] = run
      BY <3>1 DEF run
    <3> QED BY <3>2, <3>3
  <2> DEFINE to == RangeFrom(cpuset, cpu)
  <2>3. to \in cpu..(NCpu - 1) /\ cpu..to \subseteq cpuset /\ cpu \in Nat
    BY <1>1, <2>1, RangeFromIs DEF StartsRun, Cpu
  <2>4. list[k].last = to
    BY <2>2
  <2> HIDE DEF to
  <2>5. to # -1
    BY <1>1, <2>3
  <2>6. HasNumber(list[k])
    BY <2>4, <2>5 DEF HasNumber
  <2> QED BY <2>2, <2>3, <2>4, <2>6
<1>3. ASSUME NEW cpu \in cpuset
      PROVE  \E k \in 1..Len(list) : cpu \in list[k].first..list[k].last
  <2>1. PICK first \in Cpu : StartsRun(cpuset, first) /\ cpu \in first..RangeFrom(cpuset, first)
    BY InSomeRun
  <2>2. first \in 0..(NCpu - 1)
    BY DEF Cpu
  <2>3. PICK k \in 1..Len(list) : list[k] = RunAt(cpuset, first)
    BY <1>1, <2>1, <2>2 DEF ListsRuns
  <2> QED BY <2>1, <2>3, FieldsOfRun
<1>4. CpusOf(list, Len(list)) = cpuset
  BY <1>2, <1>3 DEF CpusOf
<1>5. cpuset # {} => list # <<>>
  BY <1>3
<1> QED BY <1>2, <1>4, <1>5 DEF list

-----------------------------------------------------------------------------
(* Reading back what was printed.                                          *)

\* No element has a sign or is empty, none goes beyond the last CPU.
IsPlain(list) ==
  \A k \in 1..Len(list) : /\ list[k].sign = "" /\ HasNumber(list[k])
                         /\ list[k].first..list[k].last \subseteq Cpu

\* One result: no sign, and a set
Plain(cpus) == [sign |-> "", set |-> cpus]

\* The set of a single result
LEMMA PlainSet == ASSUME NEW cpus PROVE {r.set : r \in {Plain(cpus)}} = {cpus}
<1>1. Plain(cpus).set = cpus
  BY DEF Plain
<1> QED BY <1>1

\* An element without a sign adds its CPUs.
LEMMA PlainElementAdds ==
  ASSUME NEW list \in Seq(Elements), NEW k \in 1..Len(list), IsPlain(list), NEW cpus
  PROVE  Applied(list, k, {Plain(cpus)}) = {Plain(cpus \cup (list[k].first..list[k].last))}
<1> DEFINE range == list[k].first..list[k].last
           r == Plain(cpus)
<1>1. Ranges(list, k) = {range}
  <2>1. range \cap Cpu = range /\ HasNumber(list[k])
    BY DEF IsPlain
  <2> QED BY <2>1 DEF Ranges
<1>2. list[k].sign = "" /\ r.sign = "" /\ r.set = cpus
  BY DEF IsPlain, Plain
<1> HIDE DEF range, r
<1>3. \A kept \in BOOLEAN : After(list[k], r, kept, range) = Plain(cpus \cup range)
  BY <1>2 DEF After, Effect, Plain
<1>4. Applied(list, k, {r}) = {After(list[k], r, kept, range) : kept \in BOOLEAN}
  BY <1>1 DEF Applied
<1>5. Applied(list, k, {r}) = {Plain(cpus \cup range)}
  BY <1>3, <1>4
<1> QED BY <1>5 DEF range, r

\* A list without signs and without empty elements stands for all the CPUs of
\* its elements, whatever the affinity was before.
LEMMA PlainListStands ==
  ASSUME NEW list \in Seq(Elements), list # <<>>, NEW cpuset \in SUBSET Cpu, IsPlain(list)
  PROVE  ParseAffinityList(list, cpuset) = {CpusOf(list, Len(list))}
<1> DEFINE n == Len(list)
<1>1. n \in Nat \ {0} /\ 1 \in 1..n /\ n \in 0..n
  OBVIOUS
<1>2. PICK run : /\ IsParse(run, list, cpuset)
                 /\ ParseAffinityList(list, cpuset) = {p.set : p \in run[n]}
  BY ParseByElement
<1> DEFINE T == {k \in 0..n : run[k] = {Plain(CpusOf(list, k))}}
<1>3. 0 \in T
  <2>1. run[0] = Start(list, cpuset) /\ 0 \in 0..n
    BY <1>1, <1>2 DEF IsParse
  <2>2. list[1].sign = ""
    BY <1>1 DEF IsPlain
  <2>3. CpusOf(list, 0) = {}
    BY DEF CpusOf
  <2>4. Start(list, cpuset) = {Plain({})}
    BY <2>2 DEF Start, Plain
  <2> QED BY <2>1, <2>3, <2>4
<1>4. ASSUME NEW k \in 1..n, k - 1 \in T
      PROVE  k \in T
  <2>1. run[k] = Applied(list, k, {Plain(CpusOf(list, k - 1))})
    BY <1>2, <1>4 DEF IsParse
  <2>2. CpusOf(list, k) = CpusOf(list, k - 1) \cup (list[k].first..list[k].last)
    <3>1. \A j \in 1..k : j = k \/ j \in 1..(k - 1)
      BY <1>1
    <3>2. \A j \in 1..(k - 1) : j \in 1..k
      BY <1>1
    <3>3. k \in 1..k
      BY <1>1
    <3> QED BY <3>1, <3>2, <3>3 DEF CpusOf
  <2>3. run[k] = {Plain(CpusOf(list, k))}
    BY <2>1, <2>2, PlainElementAdds
  <2>4. k \in 0..n
    BY <1>1
  <2> QED BY <2>3, <2>4
<1>5. n \in T
  <2>1. \A k \in 1..n : k - 1 \in T => k \in T
    BY <1>4
  <2> HIDE DEF T, n
  <2> QED BY <1>1, <1>3, <2>1, InductionUpTo
<1>6. run[n] = {Plain(CpusOf(list, n))}
  BY <1>5
<1> QED BY <1>2, <1>6, PlainSet

\* What epicsThreadPrintAffinityList prints of a set that is not empty,
\* epicsThreadParseAffinityList reads as this set.
LEMMA PrintedReadsBack ==
  ASSUME NEW set \in SUBSET Cpu, set # {}, NEW cpuset \in SUBSET Cpu
  PROVE  ParseAffinityList(PrintAffinityList(set), cpuset) = {set}
<1> DEFINE list == PrintAffinityList(set)
<1>1. list \in Seq(Elements)
  BY PrintsRuns
<1>2. /\ IsPlain(list)
      /\ CpusOf(list, Len(list)) = set
      /\ list # <<>>
  BY PrintedListStands DEF IsPlain
<1> HIDE DEF list
<1>3. ParseAffinityList(list, cpuset) = {set}
  BY <1>1, <1>2, PlainListStands
<1> QED BY <1>3 DEF list

-----------------------------------------------------------------------------
(* Priorities.                                                             *)

Prio == MinPrio..MaxPrio

\* The loop downwards stays in the range of priorities.
LEMMA LoweredInRange ==
  ASSUME NEW p \in Prio, NEW d \in Int, NEW turns \in Nat
  PROVE  Lowered(<<p, d>>, turns) \in Prio \X Int
<1> DEFINE S == Prio \X Int
           step == [x \in (1..turns) \X S |-> Lower(x[2])]
           IsLoop(f) == f = [k \in 0..turns |-> IF k = 0 THEN <<p, d>> ELSE Lower(f[k - 1])]
           down == CHOOSE f : IsLoop(f)
<1>1. <<p, d>> \in S
  OBVIOUS
<1>2. ASSUME NEW q \in S PROVE Lower(q) \in S
  BY DEF Lower, LevelBelow, Step, Prio, MinPrio, MaxPrio
<1>3. step \in [(1..turns) \X S -> S]
  <2> HIDE DEF S
  <2> QED BY <1>2
<1>4. PICK f : IsRecursive(f, turns, S, <<p, d>>, step)
  <2> HIDE DEF S, step
  <2> QED BY <1>1, <1>3, RecursiveFunction
<1>5. f \in [0..turns -> S] /\ f[0] = <<p, d>>
  BY <1>4 DEF IsRecursive
<1>6. \A k \in 1..turns : f[k] = Lower(f[k - 1])
  <2> TAKE k \in 1..turns
  <2>1. f[k] = step[<<k, f[k - 1]>>]
    BY <1>4 DEF IsRecursive
  <2>2. f[k - 1] \in S
    BY <1>5
  <2> DEFINE r == f[k - 1]
  <2> HIDE DEF r, S
  <2>3. step[<<k, r>>] = Lower(r)
    BY <2>2 DEF r
  <2> QED BY <2>1, <2>3 DEF r
<1>7. IsLoop(f)
  <2>1. \A k \in 0..turns : k = 0 \/ k \in 1..turns
    OBVIOUS
  <2> HIDE DEF S
  <2> QED BY <1>5, <1>6, <2>1
<1>8. IsLoop(down)
  <2> HIDE DEF IsLoop
  <2> QED BY <1>7
<1>9. Lowered(<<p, d>>, turns) = down[turns]
  BY DEF Lowered
<1> HIDE DEF down
<1> DEFINE T == {k \in 0..turns : down[k] \in S}
<1>10. 0 \in T
  BY <1>1, <1>8
<1>11. ASSUME NEW k \in 1..turns, k - 1 \in T
       PROVE  k \in T
  <2>1. k \in 0..turns /\ k # 0
    OBVIOUS
  <2>2. down[k] = Lower(down[k - 1])
    BY <1>8, <2>1
  <2> HIDE DEF S
  <2> QED BY <1>2, <1>11, <2>1, <2>2
<1>12. turns \in T
  <2>1. \A k \in 1..turns : k - 1 \in T => k \in T
    BY <1>11
  <2>2. turns \in 0..turns
    OBVIOUS
  <2> HIDE DEF T
  <2> QED BY <1>10, <2>1, <2>2, InductionUpTo
<1> QED BY <1>9, <1>12

\* The loop upwards stays in the range of priorities.
LEMMA RaisedInRange ==
  ASSUME NEW p \in Prio, NEW d \in Int, NEW turns \in Nat
  PROVE  Raised(<<p, d>>, turns) \in Prio \X Int
<1> DEFINE S == Prio \X Int
           step == [x \in (1..turns) \X S |-> Raise(x[2])]
           IsLoop(f) == f = [k \in 0..turns |-> IF k = 0 THEN <<p, d>> ELSE Raise(f[k - 1])]
           up == CHOOSE f : IsLoop(f)
<1>1. <<p, d>> \in S
  OBVIOUS
<1>2. ASSUME NEW q \in S PROVE Raise(q) \in S
  BY DEF Raise, LevelAbove, Step, Prio, MinPrio, MaxPrio
<1>3. step \in [(1..turns) \X S -> S]
  <2> HIDE DEF S
  <2> QED BY <1>2
<1>4. PICK f : IsRecursive(f, turns, S, <<p, d>>, step)
  <2> HIDE DEF S, step
  <2> QED BY <1>1, <1>3, RecursiveFunction
<1>5. f \in [0..turns -> S] /\ f[0] = <<p, d>>
  BY <1>4 DEF IsRecursive
<1>6. \A k \in 1..turns : f[k] = Raise(f[k - 1])
  <2> TAKE k \in 1..turns
  <2>1. f[k] = step[<<k, f[k - 1]>>]
    BY <1>4 DEF IsRecursive
  <2>2. f[k - 1] \in S
    BY <1>5
  <2> DEFINE r == f[k - 1]
  <2> HIDE DEF r, S
  <2>3. step[<<k, r>>] = Raise(r)
    BY <2>2 DEF r
  <2> QED BY <2>1, <2>3 DEF r
<1>7. IsLoop(f)
  <2>1. \A k \in 0..turns : k = 0 \/ k \in 1..turns
    OBVIOUS
  <2> HIDE DEF S
  <2> QED BY <1>5, <1>6, <2>1
<1>8. IsLoop(up)
  <2> HIDE DEF IsLoop
  <2> QED BY <1>7
<1>9. Raised(<<p, d>>, turns) = up[turns]
  BY DEF Raised
<1> HIDE DEF up
<1> DEFINE T == {k \in 0..turns : up[k] \in S}
<1>10. 0 \in T
  BY <1>1, <1>8
<1>11. ASSUME NEW k \in 1..turns, k - 1 \in T
       PROVE  k \in T
  <2>1. k \in 0..turns /\ k # 0
    OBVIOUS
  <2>2. up[k] = Raise(up[k - 1])
    BY <1>8, <2>1
  <2> HIDE DEF S
  <2> QED BY <1>2, <1>11, <2>1, <2>2
<1>12. turns \in T
  <2>1. \A k \in 1..turns : k - 1 \in T => k \in T
    BY <1>11
  <2>2. turns \in 0..turns
    OBVIOUS
  <2> HIDE DEF T
  <2> QED BY <1>10, <2>1, <2>2, InductionUpTo
<1> QED BY <1>9, <1>12

\* Whatever the difference, the shifted priority is in the range.
LEMMA ShiftedInRange ==
  ASSUME NEW p \in Prio, NEW diff \in Int
  PROVE  Shifted(p, diff) \in Prio
<1> DEFINE turns == IF diff < 0 THEN -diff ELSE diff + 1
           q == Lowered(<<p, diff>>, turns)
<1>1. turns \in Nat
  OBVIOUS
<1>2. q \in Prio \X Int
  <2> HIDE DEF turns
  <2> QED BY <1>1, LoweredInRange
<1>3. q[1] \in Prio /\ q[2] + 1 \in Int
  BY <1>2
<1>4. Shifted(p, diff) = Raised(<<q[1], q[2] + 1>>, turns)[1]
  BY DEF Shifted
<1> HIDE DEF turns, q
<1>5. Raised(<<q[1], q[2] + 1>>, turns) \in Prio \X Int
  BY <1>1, <1>3, RaisedInRange
<1> QED BY <1>4, <1>5

\* A priority that can be set, or -1
LEMMA StrToPrioInRange ==
  ASSUME NEW prio \in Prios, NEW diff \in Diffs, priority \in [Thread -> Prio],
         StrToPrio(prio, diff) >= 0
  PROVE  StrToPrio(prio, diff) \in Prio
<1>1. \A p \in Prio : Shifted(p, diff) \in Prio
  BY ThreadsAssumption, ShiftedInRange
<1>2. prio.kind \in {"number", "level", "thread"}
      /\ (prio.kind = "level" => prio.value \in Prio)
  BY ThreadsAssumption DEF Prio
<1>3. -1 < 0
  OBVIOUS
<1>4. CASE prio.kind = "number"
  BY <1>4 DEF StrToPrio, Prio
<1>5. CASE prio.kind = "level"
  BY <1>1, <1>2, <1>5 DEF StrToPrio
<1>6. CASE prio.kind = "thread"
  BY <1>1, <1>6 DEF StrToPrio
<1> QED BY <1>2, <1>4, <1>5, <1>6

-----------------------------------------------------------------------------
(* The calls.                                                              *)

Sets == (SUBSET Cpu) \ {{}}
Affinities == [Thread -> Sets]

SetCall(pc, name, list, cpuset, before) ==
  [pc |-> pc, name |-> name, list |-> list, cpuset |-> cpuset, before |-> before]

PriorityCall(pc, name, prio, diff, old, new) ==
  [pc |-> pc, name |-> name, prio |-> prio, diff |-> diff, old |-> old, new |-> new]

\* A call of epicsThreadSetAffinity that is alone has found the affinity as it
\* is until it writes the set, and has changed only that of its thread then.
SetCallOK(c, sh, now, together) ==
  \E name \in Names, list \in Lists, before \in Affinities :
    \E cpuset \in ParseAffinityList(list, before[Target(sh, name)]) :
      \/ /\ c = SetCall("set", name, list, cpuset, before)
         /\ together \/ now = before
      \/ /\ c = SetCall("print", name, list, cpuset, before)
         /\ together \/ now = [before EXCEPT ![Target(sh, name)] = cpuset]

\* A call of epicsThreadSetPriority that is alone has found errVerbose 0.
PriorityCallOK(c, together) ==
  \E pc \in {"verbose", "priority", "restore"}, name \in Thread, prio \in Prios, diff \in Diffs,
     old \in {0, 1}, new \in Prio :
    /\ c = PriorityCall(pc, name, prio, diff, old, new)
    /\ together \/ old = 0

CallOK(c, sh, now, together) ==
  c = Idle \/ SetCallOK(c, sh, now, together) \/ PriorityCallOK(c, together)

ThreadsTypes ==
  /\ affinity \in Affinities
  /\ priority \in [Thread -> Prio]
  /\ errVerbose \in {0, 1}
  /\ overlapped \in BOOLEAN
  /\ call = [sh \in Shell |-> call[sh]]

CallsOK == \A sh \in Shell : CallOK(call[sh], sh, affinity, overlapped)

\* Calls that do not overlap are alone.
Alone == overlapped \/ \A a, b \in Shell : call[a] # Idle /\ call[b] # Idle => a = b

\* errVerbose is changed only while a priority is set.
VerboseOK ==
  overlapped \/ errVerbose = 0 \/ \E sh \in Shell : call[sh].pc \in {"priority", "restore"}

PrintedOK ==
  \E cpuset \in Sets : printed = [list |-> PrintAffinityList(cpuset), set |-> cpuset]

ThreadsInv == ThreadsTypes /\ CallsOK /\ Alone /\ VerboseOK /\ PrintedOK

\* The pc tells what a call is.
LEMMA CallFields ==
  /\ Idle.pc = "idle"
  /\ \A pc, name, list, cpuset, before :
       LET c == SetCall(pc, name, list, cpuset, before) IN
         /\ c.pc = pc /\ c.name = name /\ c.list = list /\ c.cpuset = cpuset /\ c.before = before
         /\ \A to : [c EXCEPT !.pc = to] = SetCall(to, name, list, cpuset, before)
  /\ \A pc, name, prio, diff, old, new :
       LET c == PriorityCall(pc, name, prio, diff, old, new) IN
         /\ c.pc = pc /\ c.name = name /\ c.prio = prio /\ c.diff = diff /\ c.old = old /\ c.new = new
         /\ \A to : [c EXCEPT !.pc = to] = PriorityCall(to, name, prio, diff, old, new)
BY DEF Idle, SetCall, PriorityCall

\* Once calls overlap nothing is said of the affinity.
LEMMA TogetherIsOK ==
  ASSUME NEW c, NEW sh, NEW now, NEW together, CallOK(c, sh, now, together), NEW then
  PROVE  CallOK(c, sh, then, TRUE)
<1>1. SetCallOK(c, sh, now, together) => SetCallOK(c, sh, then, TRUE)
  BY DEF SetCallOK
<1>2. PriorityCallOK(c, together) => PriorityCallOK(c, TRUE)
  BY DEF PriorityCallOK
<1> QED BY <1>1, <1>2 DEF CallOK

\* A step of one call leaves the others as they should be.
LEMMA OneCallSteps ==
  ASSUME ThreadsInv, NEW sh \in Shell, NEW c, call' = [call EXCEPT ![sh] = c],
         overlapped' \in BOOLEAN,
         ~overlapped' => ~overlapped /\ \A o \in Shell \ {sh} : call[o] = Idle,
         CallOK(c, sh, affinity', overlapped')
  PROVE  CallsOK' /\ Alone' /\ call' = [o \in Shell |-> call'[o]] /\ call'[sh] = c
<1>1. /\ call' = [o \in Shell |-> call'[o]] /\ call'[sh] = c
      /\ \A o \in Shell \ {sh} : call'[o] = call[o]
  BY DEF ThreadsInv, ThreadsTypes
<1>2. CASE ~overlapped'
  <2>1. \A o \in Shell \ {sh} : call'[o] = Idle
    BY <1>1, <1>2
  <2>2. Alone'
    BY <2>1 DEF Alone
  <2>3. CallsOK'
    BY <1>1, <2>1 DEF CallsOK, CallOK
  <2> QED BY <1>1, <2>2, <2>3
<1>3. CASE overlapped'
  <2>1. \A o \in Shell \ {sh} : CallOK(call[o], o, affinity', TRUE)
    BY TogetherIsOK DEF ThreadsInv, CallsOK
  <2>2. overlapped' = TRUE
    BY <1>3
  <2>3. CallsOK'
    BY <1>1, <2>1, <2>2 DEF CallsOK
  <2> QED BY <1>1, <1>3, <2>3 DEF Alone
<1> QED BY <1>2, <1>3

\* The affinity is shown: there is a set it was printed for.
LEMMA ShowsPrinted ==
  ASSUME NEW cpuset \in Sets, Show(cpuset)
  PROVE  PrintedOK'
BY DEF Show, PrintedOK

\* The thread a call is about is a thread.
LEMMA TargetIsThread ==
  ASSUME NEW sh \in Shell, NEW name PROVE Target(sh, name) \in Thread
BY ThreadsAssumption DEF Target, IsFound, Id

\* While calls are alone, the one that begins is the only one.
LEMMA BeginsAlone ==
  ASSUME ThreadsInv, NEW sh \in Shell, NEW locals, Begins(sh, locals)
  PROVE  /\ overlapped' \in BOOLEAN
         /\ ~overlapped' => ~overlapped /\ \A o \in Shell : call[o] = Idle
BY DEF ThreadsInv, ThreadsTypes, Begins

\* While calls are alone, the others are idle.
LEMMA OthersIdle ==
  ASSUME ThreadsInv, NEW sh \in Shell, call[sh] # Idle, UNCHANGED overlapped
  PROVE  /\ overlapped' \in BOOLEAN
         /\ ~overlapped' => ~overlapped /\ \A o \in Shell \ {sh} : call[o] = Idle
BY DEF ThreadsInv, ThreadsTypes, Alone

-----------------------------------------------------------------------------
(* The steps.                                                              *)

\* epicsThreadGetAffinity
LEMMA GetAffinityKeeps ==
  ASSUME ThreadsInv, NEW sh \in Shell, NEW name \in Names, GetAffinityFunc(sh, name)
  PROVE  ThreadsInv'
<1>1. affinity[Target(sh, name)] \in Sets
  BY TargetIsThread DEF ThreadsInv, ThreadsTypes, Affinities
<1>2. PrintedOK'
  BY <1>1, ShowsPrinted DEF GetAffinityFunc
<1>3. (ThreadsTypes /\ CallsOK /\ Alone /\ VerboseOK)'
  BY DEF ThreadsInv, ThreadsTypes, CallsOK, Alone, VerboseOK, GetAffinityFunc
<1> QED BY <1>2, <1>3 DEF ThreadsInv

\* epicsThreadSetAffinity reads the affinity and applies the list.
LEMMA SetAffinityFuncKeeps ==
  ASSUME ThreadsInv, NEW sh \in Shell, NEW name \in Names, NEW list \in Lists,
         call[sh] = Idle, SetAffinityFunc(sh, name, list)
  PROVE  ThreadsInv'
<1>1. PICK cpuset \in ParseAffinityList(list, affinity[Target(sh, name)]) :
        Begins(sh, SetCall("set", name, list, cpuset, affinity))
  BY DEF SetAffinityFunc, SetCall
<1> DEFINE c == SetCall("set", name, list, cpuset, affinity)
<1>2. UNCHANGED <<affinity, priority, errVerbose, printed>>
  BY DEF SetAffinityFunc
<1>3. /\ overlapped' \in BOOLEAN
      /\ ~overlapped' => ~overlapped /\ \A o \in Shell : call[o] = Idle
  BY <1>1, BeginsAlone
<1>4. affinity \in Affinities
  BY DEF ThreadsInv, ThreadsTypes
<1>5. SetCallOK(c, sh, affinity', overlapped')
  BY <1>2, <1>4 DEF SetCallOK
<1>6. call' = [call EXCEPT ![sh] = c]
  BY <1>1 DEF Begins
<1> HIDE DEF c
<1>7. CallsOK' /\ Alone' /\ call' = [o \in Shell |-> call'[o]]
  BY <1>3, <1>5, <1>6, OneCallSteps DEF CallOK
<1>8. ThreadsTypes'
  BY <1>2, <1>3, <1>7 DEF ThreadsInv, ThreadsTypes
<1>9. VerboseOK'
  BY <1>2, <1>3, CallFields DEF ThreadsInv, VerboseOK
<1>10. PrintedOK'
  BY <1>2 DEF ThreadsInv, PrintedOK
<1> QED BY <1>7, <1>8, <1>9, <1>10 DEF ThreadsInv

\* A call of epicsThreadSetAffinity under way
LEMMA SetCallUnderWay ==
  ASSUME ThreadsInv, NEW sh \in Shell, call[sh].pc \in {"set", "print"}
  PROVE  SetCallOK(call[sh], sh, affinity, overlapped) /\ call[sh] # Idle
<1>1. CallOK(call[sh], sh, affinity, overlapped)
  BY DEF ThreadsInv, CallsOK
<1>2. call[sh] # Idle
  BY CallFields
<1>3. ~PriorityCallOK(call[sh], overlapped)
  BY CallFields DEF PriorityCallOK
<1> QED BY <1>1, <1>2, <1>3 DEF CallOK

\* A call of epicsThreadSetPriority under way
LEMMA PriorityCallUnderWay ==
  ASSUME ThreadsInv, NEW sh \in Shell, call[sh].pc \in {"verbose", "priority", "restore"}
  PROVE  PriorityCallOK(call[sh], overlapped) /\ call[sh] # Idle
<1>1. CallOK(call[sh], sh, affinity, overlapped)
  BY DEF ThreadsInv, CallsOK
<1>2. call[sh] # Idle
  BY CallFields
<1>3. ~SetCallOK(call[sh], sh, affinity, overlapped)
  BY CallFields DEF SetCallOK
<1> QED BY <1>1, <1>2, <1>3 DEF CallOK

\* The set a list stands for is one of CPUs.
LEMMA ListedCpus ==
  ASSUME NEW list \in Lists, NEW before \in Affinities, NEW t \in Thread,
         NEW cpuset \in ParseAffinityList(list, before[t])
  PROVE  cpuset \in SUBSET Cpu
<1>1. list \in Seq(Elements) /\ before[t] \in SUBSET Cpu
  BY ThreadsAssumption DEF Elements, Affinities, Sets
<1> QED BY <1>1, ParsedSetsOfCpus

\* epicsThreadSetAffinity writes the set.
LEMMA SetAffinityKeeps ==
  ASSUME ThreadsInv, NEW sh \in Shell, SetAffinity(sh)
  PROVE  ThreadsInv'
<1>1. call[sh].pc = "set" /\ UNCHANGED <<priority, errVerbose, printed, overlapped>>
  BY DEF SetAffinity, Returns, GoesOn
<1>2. SetCallOK(call[sh], sh, affinity, overlapped) /\ call[sh] # Idle
  BY <1>1, SetCallUnderWay
<1>3. PICK name \in Names, list \in Lists, before \in Affinities :
        \E cpuset \in ParseAffinityList(list, before[Target(sh, name)]) :
          /\ call[sh] = SetCall("set", name, list, cpuset, before)
          /\ overlapped \/ affinity = before
  BY <1>1, <1>2, CallFields DEF SetCallOK
<1>4. PICK cpuset \in ParseAffinityList(list, before[Target(sh, name)]) :
        /\ call[sh] = SetCall("set", name, list, cpuset, before)
        /\ overlapped \/ affinity = before
  BY <1>3
<1> DEFINE t == Target(sh, name)
           c == SetCall("print", name, list, cpuset, before)
<1>5. t \in Thread /\ cpuset \in SUBSET Cpu
  BY TargetIsThread, ListedCpus
<1>6. call[sh].cpuset = cpuset /\ call[sh].name = name /\ [call[sh] EXCEPT !.pc = "print"] = c
  BY <1>4, CallFields
<1>7. /\ overlapped' \in BOOLEAN
      /\ ~overlapped' => ~overlapped /\ \A o \in Shell \ {sh} : call[o] = Idle
  BY <1>1, <1>2, OthersIdle
<1>8. VerboseOK' /\ PrintedOK'
  <2>1. ~overlapped => errVerbose = 0
    BY <1>2, CallFields, <1>1 DEF ThreadsInv, VerboseOK, Alone
  <2> QED BY <1>1, <2>1 DEF ThreadsInv, VerboseOK, PrintedOK
<1>9. CASE cpuset = {}
  <2>1. call' = [call EXCEPT ![sh] = Idle] /\ UNCHANGED affinity
    BY <1>6, <1>9 DEF SetAffinity, Returns
  <2>2. CallsOK' /\ Alone' /\ call' = [o \in Shell |-> call'[o]]
    BY <1>7, <2>1, OneCallSteps DEF CallOK
  <2> QED BY <1>1, <1>7, <1>8, <2>1, <2>2 DEF ThreadsInv, ThreadsTypes
<1>10. CASE cpuset # {}
  <2>1. call' = [call EXCEPT ![sh].pc = "print"] /\ affinity' = [affinity EXCEPT ![t] = cpuset]
    BY <1>6, <1>10 DEF SetAffinity, GoesOn
  <2>2. call' = [call EXCEPT ![sh] = c]
    BY <1>6, <2>1
  <2>3. affinity' \in Affinities
    BY <1>5, <1>10, <2>1 DEF ThreadsInv, ThreadsTypes, Affinities, Sets
  <2>4. SetCallOK(c, sh, affinity', overlapped')
    BY <1>1, <1>4, <2>1 DEF SetCallOK
  <2> HIDE DEF c
  <2>5. CallsOK' /\ Alone' /\ call' = [o \in Shell |-> call'[o]]
    BY <1>7, <2>2, <2>4, OneCallSteps DEF CallOK
  <2> QED BY <1>1, <1>7, <1>8, <2>3, <2>5 DEF ThreadsInv, ThreadsTypes
<1> QED BY <1>9, <1>10

\* epicsThreadSetAffinity prints what the kernel made of it.
LEMMA PrintAffinityKeeps ==
  ASSUME ThreadsInv, NEW sh \in Shell, PrintAffinity(sh)
  PROVE  ThreadsInv'
<1>1. /\ call[sh].pc = "print" /\ UNCHANGED <<affinity, priority, errVerbose, overlapped>>
      /\ call' = [call EXCEPT ![sh] = Idle]
      /\ Show(affinity[Target(sh, call[sh].name)])
  BY DEF PrintAffinity, Returns
<1>2. call[sh] # Idle
  BY <1>1, SetCallUnderWay
<1>3. /\ overlapped' \in BOOLEAN
      /\ ~overlapped' => ~overlapped /\ \A o \in Shell \ {sh} : call[o] = Idle
  BY <1>1, <1>2, OthersIdle
<1>4. CallsOK' /\ Alone' /\ call' = [o \in Shell |-> call'[o]]
  BY <1>1, <1>3, OneCallSteps DEF CallOK
<1>5. ThreadsTypes'
  BY <1>1, <1>3, <1>4 DEF ThreadsInv, ThreadsTypes
<1>6. affinity[Target(sh, call[sh].name)] \in Sets
  BY TargetIsThread DEF ThreadsInv, ThreadsTypes, Affinities
<1>7. PrintedOK'
  BY <1>1, <1>6, ShowsPrinted
<1>8. VerboseOK'
  <2>1. ~overlapped => errVerbose = 0
    BY <1>1, <1>2, CallFields DEF ThreadsInv, VerboseOK, Alone
  <2> QED BY <1>1, <2>1 DEF VerboseOK
<1> QED BY <1>4, <1>5, <1>7, <1>8 DEF ThreadsInv

\* epicsThreadSetPriority saves errVerbose.
LEMMA SetPriorityFuncKeeps ==
  ASSUME ThreadsInv, NEW sh \in Shell, NEW name \in Names, NEW prio \in Prios, NEW diff \in Diffs,
         call[sh] = Idle, SetPriorityFunc(sh, name, prio, diff)
  PROVE  ThreadsInv'
<1> DEFINE new == StrToPrio(prio, diff)
           c == PriorityCall("verbose", Id(name), prio, diff, errVerbose, new)
<1>1. /\ Begins(sh, c) /\ Id(name) \in Thread
      /\ UNCHANGED <<affinity, priority, errVerbose, printed>>
  <2>1. Id(name) \in Thread
    BY ThreadsAssumption DEF SetPriorityFunc, IsFound, Id
  <2> QED BY <2>1 DEF SetPriorityFunc, PriorityCall
<1>2. /\ overlapped' \in BOOLEAN
      /\ ~overlapped' => ~overlapped /\ \A o \in Shell : call[o] = Idle
  <2> HIDE DEF c
  <2> QED BY <1>1, BeginsAlone
<1>3. new \in Prio
  <2>1. priority \in [Thread -> Prio] /\ StrToPrio(prio, diff) >= 0
    BY DEF ThreadsInv, ThreadsTypes, SetPriorityFunc
  <2> QED BY <2>1, StrToPrioInRange
<1>4. errVerbose \in {0, 1} /\ (~overlapped' => errVerbose = 0)
  BY <1>2, CallFields DEF ThreadsInv, ThreadsTypes, VerboseOK
<1>5. PriorityCallOK(c, overlapped')
  <2> HIDE DEF new
  <2> QED BY <1>1, <1>2, <1>3, <1>4 DEF PriorityCallOK
<1>6. call' = [call EXCEPT ![sh] = c]
  BY <1>1 DEF Begins
<1> HIDE DEF c
<1>7. CallsOK' /\ Alone' /\ call' = [o \in Shell |-> call'[o]]
  BY <1>2, <1>5, <1>6, OneCallSteps DEF CallOK
<1>8. ThreadsTypes'
  BY <1>1, <1>2, <1>7 DEF ThreadsInv, ThreadsTypes
<1>9. VerboseOK'
  BY <1>1, <1>2, <1>4 DEF VerboseOK
<1>10. PrintedOK'
  BY <1>1 DEF ThreadsInv, PrintedOK
<1> QED BY <1>7, <1>8, <1>9, <1>10 DEF ThreadsInv

\* epicsThreadSetPriority goes on.
LEMMA PriorityCallGoesOn ==
  ASSUME ThreadsInv, NEW sh \in Shell, NEW from \in {"verbose", "priority"},
         NEW to \in {"priority", "restore"}, GoesOn(sh, from, to), UNCHANGED affinity
  PROVE  /\ CallsOK' /\ Alone' /\ call' = [o \in Shell |-> call'[o]] /\ call'[sh].pc = to
         /\ call[sh].name \in Thread /\ call[sh].new \in Prio /\ overlapped' \in BOOLEAN
         /\ ~overlapped' => \A o \in Shell \ {sh} : call[o] = Idle
<1>1. call[sh].pc = from /\ UNCHANGED overlapped /\ call' = [call EXCEPT ![sh].pc = to]
  BY DEF GoesOn
<1>2. PriorityCallOK(call[sh], overlapped) /\ call[sh] # Idle
  BY <1>1, PriorityCallUnderWay
<1>3. PICK pc \in {"verbose", "priority", "restore"}, name \in Thread, prio \in Prios,
           diff \in Diffs, old \in {0, 1}, new \in Prio :
        /\ call[sh] = PriorityCall(pc, name, prio, diff, old, new)
        /\ overlapped \/ old = 0
  BY <1>2 DEF PriorityCallOK
<1> DEFINE c == PriorityCall(to, name, prio, diff, old, new)
<1>4. /\ call[sh].name = name /\ call[sh].new = new
      /\ [call[sh] EXCEPT !.pc = to] = c /\ c.pc = to
  BY <1>3, CallFields
<1>5. /\ overlapped' \in BOOLEAN
      /\ ~overlapped' => ~overlapped /\ \A o \in Shell \ {sh} : call[o] = Idle
  BY <1>1, <1>2, OthersIdle
<1>6. PriorityCallOK(c, overlapped')
  BY <1>1, <1>3 DEF PriorityCallOK
<1>7. call' = [call EXCEPT ![sh] = c]
  BY <1>1, <1>4
<1> HIDE DEF c
<1>8. CallsOK' /\ Alone' /\ call' = [o \in Shell |-> call'[o]] /\ call'[sh] = c
  BY <1>5, <1>6, <1>7, OneCallSteps DEF CallOK
<1> QED BY <1>4, <1>5, <1>8

\* errVerbose is set, and the call says so.
LEMMA SetVerboseKeeps ==
  ASSUME ThreadsInv, NEW sh \in Shell, SetVerbose(sh)
  PROVE  ThreadsInv'
<1>1. /\ GoesOn(sh, "verbose", "priority") /\ errVerbose' = 1
      /\ UNCHANGED <<affinity, priority, printed>>
  BY DEF SetVerbose
<1>2. /\ CallsOK' /\ Alone' /\ call' = [o \in Shell |-> call'[o]] /\ call'[sh].pc = "priority"
      /\ overlapped' \in BOOLEAN
  BY <1>1, PriorityCallGoesOn
<1> QED BY <1>1, <1>2 DEF ThreadsInv, ThreadsTypes, VerboseOK, PrintedOK

\* The thread gets its priority.
LEMMA SetPriorityKeeps ==
  ASSUME ThreadsInv, NEW sh \in Shell, SetPriority(sh)
  PROVE  ThreadsInv'
<1>1. /\ GoesOn(sh, "priority", "restore")
      /\ priority' = [priority EXCEPT ![call[sh].name] = call[sh].new]
      /\ UNCHANGED <<affinity, errVerbose, printed>>
  BY DEF SetPriority
<1>2. /\ CallsOK' /\ Alone' /\ call' = [o \in Shell |-> call'[o]] /\ call'[sh].pc = "restore"
      /\ overlapped' \in BOOLEAN /\ call[sh].name \in Thread /\ call[sh].new \in Prio
  BY <1>1, PriorityCallGoesOn
<1>3. priority' \in [Thread -> Prio]
  BY <1>1, <1>2 DEF ThreadsInv, ThreadsTypes
<1> QED BY <1>1, <1>2, <1>3 DEF ThreadsInv, ThreadsTypes, VerboseOK, PrintedOK

\* errVerbose gets the value it had when the call began.
LEMMA RestoreVerboseKeeps ==
  ASSUME ThreadsInv, NEW sh \in Shell, RestoreVerbose(sh)
  PROVE  ThreadsInv'
<1>1. /\ call[sh].pc = "restore" /\ UNCHANGED <<affinity, priority, printed, overlapped>>
      /\ call' = [call EXCEPT ![sh] = Idle] /\ errVerbose' = call[sh].old
  BY DEF RestoreVerbose, Returns
<1>2. PriorityCallOK(call[sh], overlapped) /\ call[sh] # Idle
  BY <1>1, PriorityCallUnderWay
<1>3. call[sh].old \in {0, 1} /\ (overlapped \/ call[sh].old = 0)
  BY <1>2, CallFields DEF PriorityCallOK
<1>4. /\ overlapped' \in BOOLEAN
      /\ ~overlapped' => ~overlapped /\ \A o \in Shell \ {sh} : call[o] = Idle
  BY <1>1, <1>2, OthersIdle
<1>5. CallsOK' /\ Alone' /\ call' = [o \in Shell |-> call'[o]]
  BY <1>1, <1>4, OneCallSteps DEF CallOK
<1> QED BY <1>1, <1>3, <1>4, <1>5 DEF ThreadsInv, ThreadsTypes, VerboseOK, PrintedOK

-----------------------------------------------------------------------------
(* The invariant and what it says.                                         *)

\* Nothing runs yet.
LEMMA InitHolds == Init => ThreadsInv
<1> SUFFICES ASSUME Init PROVE ThreadsInv
  OBVIOUS
<1>1. Cpu \in Sets
  <2>1. NCpu \in Nat \ {0}
    BY ThreadsAssumption
  <2>2. 0 \in Cpu
    BY <2>1 DEF Cpu
  <2> QED BY <2>2 DEF Sets
<1>2. \A sh \in Shell : call[sh] = Idle
  BY DEF Init
<1>3. ThreadsTypes
  <2>1. affinity \in Affinities
    BY <1>1 DEF Init, Affinities
  <2>2. priority \in [Thread -> Prio]
    BY DEF Init, Prio, MinPrio, MaxPrio
  <2>3. call = [sh \in Shell |-> call[sh]]
    <3> HIDE DEF Idle
    <3> QED BY DEF Init
  <2> QED BY <2>1, <2>2, <2>3 DEF Init, ThreadsTypes
<1>4. CallsOK /\ Alone /\ VerboseOK
  BY <1>2 DEF Init, CallsOK, CallOK, Alone, VerboseOK
<1>5. PrintedOK
  BY <1>1 DEF Init, PrintedOK
<1> QED BY <1>3, <1>4, <1>5 DEF ThreadsInv

\* Every step of a shell keeps the invariant.
LEMMA StepsKeep == ThreadsInv /\ [Next]_vars => ThreadsInv'
<1> SUFFICES ASSUME ThreadsInv, [Next]_vars PROVE ThreadsInv'
  OBVIOUS
<1>1. CASE UNCHANGED vars
  BY <1>1 DEF vars, ThreadsInv, ThreadsTypes, CallsOK, Alone, VerboseOK, PrintedOK
<1>2. CASE Next
  <2>1. PICK sh \in Shell : ShellStep(sh)
    BY <1>2 DEF Next
  <2>2. ASSUME NEW name \in Names, call[sh] = Idle,
               GetAffinityFunc(sh, name)
               \/ (\E list \in Lists : SetAffinityFunc(sh, name, list))
               \/ (\E prio \in Prios, diff \in Diffs : SetPriorityFunc(sh, name, prio, diff))
        PROVE  ThreadsInv'
    BY <2>2, GetAffinityKeeps, SetAffinityFuncKeeps, SetPriorityFuncKeeps
  <2> QED BY <2>1, <2>2, SetAffinityKeeps, PrintAffinityKeeps, SetVerboseKeeps, SetPriorityKeeps,
             RestoreVerboseKeeps DEF ShellStep
<1> QED BY <1>1, <1>2

\* The inductive invariant
LEMMA InvHolds == Spec => []ThreadsInv
BY InitHolds, StepsKeep, PTL DEF Spec

\* The kernel is never told to run a thread on no CPU, no thread gets a
\* priority outside of the range, and errVerbose is 0 or 1.
THEOREM TypeCorrect == Spec => []TypeOK
<1>1. ThreadsInv => TypeOK
  <2>1. ThreadsTypes => DOMAIN call = Shell
    BY DEF ThreadsTypes
  <2> QED BY <2>1 DEF ThreadsInv, ThreadsTypes, TypeOK, Affinities, Sets, Prio
<1> QED BY <1>1, InvHolds, PTL

\* errVerbose is 0 again when all calls of epicsThreadSetPriority have
\* returned, unless calls overlapped.
THEOREM VerboseCorrect == Spec => []ErrVerboseRestored
<1>1. ThreadsInv => ErrVerboseRestored
  BY CallFields DEF ThreadsInv, VerboseOK, ErrVerboseRestored
<1> QED BY <1>1, InvHolds, PTL

\* What epicsThreadPrintAffinityList printed, epicsThreadSetAffinity takes for
\* the same set of CPUs.
THEOREM ReadsBackCorrect == Spec => []PrintedListReadsBack
<1>1. ThreadsInv => PrintedListReadsBack
  <2> SUFFICES ASSUME ThreadsInv, NEW cpuset \in {{}, Cpu}
               PROVE  ParseAffinityList(printed.list, cpuset) = {printed.set}
    BY DEF PrintedListReadsBack
  <2>1. PICK set \in Sets : printed = [list |-> PrintAffinityList(set), set |-> set]
    BY DEF ThreadsInv, PrintedOK
  <2>2. set \in SUBSET Cpu /\ set # {} /\ cpuset \in SUBSET Cpu
    BY DEF Sets
  <2>3. printed.list = PrintAffinityList(set) /\ printed.set = set
    BY <2>1
  <2>4. ParseAffinityList(PrintAffinityList(set), cpuset) = {set}
    BY <2>2, PrintedReadsBack
  <2> QED BY <2>3, <2>4
<1> QED BY <1>1, InvHolds, PTL

\* A call of epicsThreadSetAffinity that is alone gives the named thread the
\* CPUs the list stands for and changes no other thread.  The names and
\* numbers are those of threads: with others the calling thread is changed.
THEOREM AffinityCorrect == ASSUME Names \subseteq Thread \cup DOMAIN Numbered PROVE Spec => []AffinityAsAsked
<1>1. ThreadsInv => AffinityAsAsked
  <2> SUFFICES ASSUME ThreadsInv, NEW sh \in Shell, call[sh].pc = "print", ~overlapped,
                      NEW t \in Thread
               PROVE  IF t = Id(call[sh].name)
                      THEN affinity[t] \in ParseAffinityList(call[sh].list, call[sh].before[t])
                      ELSE affinity[t] = call[sh].before[t]
    BY DEF AffinityAsAsked
  <2>1. SetCallOK(call[sh], sh, affinity, overlapped)
    BY SetCallUnderWay
  <2>2. PICK name \in Names, list \in Lists, before \in Affinities :
          \E cpuset \in ParseAffinityList(list, before[Target(sh, name)]) :
            /\ call[sh] = SetCall("print", name, list, cpuset, before)
            /\ affinity = [before EXCEPT ![Target(sh, name)] = cpuset]
    BY <2>1, CallFields DEF SetCallOK
  <2>3. PICK cpuset \in ParseAffinityList(list, before[Target(sh, name)]) :
          /\ call[sh] = SetCall("print", name, list, cpuset, before)
          /\ affinity = [before EXCEPT ![Target(sh, name)] = cpuset]
    BY <2>2
  <2>4. Target(sh, name) = Id(name)
    BY DEF Target, IsFound
  <2>5. call[sh].name = name /\ call[sh].list = list /\ call[sh].before = before
    BY <2>3, CallFields
  <2>6. DOMAIN before = Thread
    BY DEF Affinities
  <2> QED BY <2>3, <2>4, <2>5, <2>6
<1> QED BY <1>1, InvHolds, PTL
=============================================================================

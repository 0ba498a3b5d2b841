---------------------------- MODULE KernelProof ----------------------------
(***************************************************************************)
(* Proofs about the scheduler, the timers and the semaphores of Kernel,    *)
(* for every set of threads, priorities, time slices and semaphores and    *)
(* every width of the tick counter, under the most general threads.        *)
(***************************************************************************)
EXTENDS Boot, WellFoundedInduction, TLAPS

-----------------------------------------------------------------------------
(* Lists. *)

(* A set of natural numbers has a least one. *)
LEMMA LeastNatural ==
  ASSUME NEW S \in SUBSET Nat, S # {}
  PROVE  \E x \in S : \A y \in S : x <= y
<1> DEFINE R == OpToRel(<, Nat)
<1>1. \E x \in S : \A y \in S : ~ (<<y, x>> \in R)
  <2>1. IsWellFoundedOn(R, Nat)
    BY NatLessThanWellFounded, Zenon
  <2> HIDE DEF R
  <2> QED
    BY <2>1, WFMin, Zenon
<1>2. PICK x \in S : \A y \in S : ~ (<<y, x>> \in R)
  BY <1>1, Zenon
<1>3. \A y \in S : x <= y
  <2> SUFFICES ASSUME NEW y \in S PROVE x <= y
    OBVIOUS
  <2>1. y < x => <<y, x>> \in R
    BY DEF OpToRel
  <2> HIDE DEF R
  <2> QED
    BY <1>2, <2>1
<1> QED
  BY <1>3

(* Taking a thread out of a list. *)
LEMMA WithoutList ==
  ASSUME NEW T, NEW q \in Seq(T), Distinct(q), NEW t
  PROVE  /\ Without(q, t) \in Seq(T)
         /\ Distinct(Without(q, t))
         /\ Elems(Without(q, t)) = Elems(q) \ {t}
         /\ t \notin Elems(q) => Without(q, t) = q
<1>1. CASE t \notin Elems(q)
  BY <1>1 DEF Without, Elems
<1>2. CASE t \in Elems(q)
  <2> DEFINE n == Len(q)
             k == CHOOSE i \in 1 .. Len(q) : q[i] = t
             r == RemoveIndex(q, k)
  <2>1. n \in Nat /\ k \in 1 .. n /\ q[k] = t
    BY <1>2 DEF Elems
  <2>2. Without(q, t) = r
    BY <1>2 DEF Without
  <2> HIDE DEF k
  <2>3. \A j \in 1 .. n : q[j] \in T
    OBVIOUS
  <2>4. r = [j \in 1 .. n - 1 |-> IF j < k THEN q[j] ELSE q[j + 1]]
    BY DEF RemoveIndex
  <2>5. r \in Seq(T) /\ Len(r) = n - 1
    BY <2>1, <2>3, <2>4
  <2>6. \A j \in 1 .. n - 1 : r[j] = IF j < k THEN q[j] ELSE q[j + 1]
    BY <2>4
  <2>7. \A i, j \in 1 .. n : q[i] = q[j] => i = j
    BY DEF Distinct
  <2> HIDE DEF r, n
  <2>8. \A i, j \in 1 .. n - 1 : r[i] = r[j] => i = j
    <3> SUFFICES ASSUME NEW i \in 1 .. n - 1, NEW j \in 1 .. n - 1, r[i] = r[j]
                 PROVE  i = j
      OBVIOUS
    <3> DEFINE a == IF i < k THEN i ELSE i + 1
               b == IF j < k THEN j ELSE j + 1
    <3>1. a \in 1 .. n /\ b \in 1 .. n /\ r[i] = q[a] /\ r[j] = q[b]
      BY <2>1, <2>6
    <3>2. a = b
      BY <3>1, <2>7
    <3> QED
      BY <3>2, <2>1
  <2>9. \A j \in 1 .. n - 1 : r[j] # t
    <3> SUFFICES ASSUME NEW j \in 1 .. n - 1 PROVE r[j] # t
      OBVIOUS
    <3> DEFINE b == IF j < k THEN j ELSE j + 1
    <3>1. b \in 1 .. n /\ r[j] = q[b] /\ b # k
      BY <2>1, <2>6
    <3> QED
      BY <3>1, <2>1, <2>7
  <2>10. \A i \in 1 .. n : q[i] # t => \E j \in 1 .. n - 1 : r[j] = q[i]
    <3> SUFFICES ASSUME NEW i \in 1 .. n, q[i] # t
                 PROVE  \E j \in 1 .. n - 1 : r[j] = q[i]
      OBVIOUS
    <3>1. i # k
      BY <2>1
    <3>2. CASE i < k
      BY <3>2, <2>1, <2>6
    <3>3. CASE i > k
      <4>1. i - 1 \in 1 .. n - 1 /\ ~(i - 1 < k) /\ (i - 1) + 1 = i
        BY <3>3, <2>1
      <4> QED
        BY <4>1, <2>6
    <3> QED
      BY <3>1, <3>2, <3>3, <2>1
  <2>11. \A j \in 1 .. n - 1 : \E i \in 1 .. n : r[j] = q[i]
    BY <2>1, <2>6
  <2>12. Elems(r) = Elems(q) \ {t}
    <3>1. \A x : x \in Elems(r) <=> \E j \in 1 .. n - 1 : x = r[j]
      BY <2>5 DEF Elems
    <3>2. \A x : x \in Elems(q) <=> \E i \in 1 .. n : x = q[i]
      BY DEF Elems, n
    <3> QED
      BY <2>9, <2>10, <2>11, <3>1, <3>2
  <2> QED
    BY <1>2, <2>2, <2>5, <2>8, <2>12 DEF Distinct
<1> QED
  BY <1>1, <1>2

(* Putting a thread at the end of a list. *)
LEMMA AppendList ==
  ASSUME NEW T, NEW q \in Seq(T), Distinct(q), NEW t \in T, t \notin Elems(q)
  PROVE  /\ Append(q, t) \in Seq(T)
         /\ Append(q, t) # <<>>
         /\ Distinct(Append(q, t))
         /\ Elems(Append(q, t)) = Elems(q) \cup {t}
<1>1. /\ Append(q, t) \in Seq(T) /\ Len(Append(q, t)) = Len(q) + 1 /\ Len(q) \in Nat
      /\ \A i \in 1 .. Len(q) : Append(q, t)[i] = q[i]
      /\ Append(q, t)[Len(q) + 1] = t
  OBVIOUS
<1> DEFINE r == Append(q, t)
<1> HIDE DEF r
<1>2. \A i \in 1 .. Len(q) + 1 : i = Len(q) + 1 \/ i \in 1 .. Len(q)
  BY <1>1
<1>3. Distinct(r)
  BY <1>1, <1>2 DEF Distinct, Elems, r
<1>4. Elems(r) = Elems(q) \cup {t}
  BY <1>1, <1>2 DEF Elems, r
<1> QED
  BY <1>1, <1>3, <1>4 DEF r

(* The first of a list. *)
LEMMA HeadList ==
  ASSUME NEW T, NEW q \in Seq(T), q # <<>>, Distinct(q)
  PROVE  /\ Head(q) \in Elems(q) /\ Head(q) \in T
         /\ Tail(q) \in Seq(T) /\ Distinct(Tail(q))
         /\ Elems(Tail(q)) = Elems(q) \ {Head(q)}
<1>1. /\ Len(q) \in Nat \ {0} /\ Head(q) = q[1]
      /\ Tail(q) \in Seq(T) /\ Len(Tail(q)) = Len(q) - 1
      /\ \A i \in 1 .. Len(q) - 1 : Tail(q)[i] = q[i + 1]
  OBVIOUS
<1> DEFINE r == Tail(q)
           n == Len(q)
<1> HIDE DEF r, n
<1>2. Distinct(r)
  BY <1>1 DEF Distinct, r
<1>3. \A j \in 1 .. n - 1 : r[j] = q[j + 1] /\ j + 1 \in 1 .. n /\ r[j] # q[1]
  BY <1>1 DEF Distinct, r, n
<1>4. \A i \in 1 .. n : i = 1 \/ (i - 1 \in 1 .. n - 1 /\ r[i - 1] = q[i])
  BY <1>1 DEF r, n
<1>5. Elems(r) = Elems(q) \ {q[1]}
  <2>1. \A x : x \in Elems(r) <=> \E j \in 1 .. n - 1 : x = r[j]
    BY <1>1 DEF Elems, r, n
  <2>2. \A x : x \in Elems(q) <=> \E i \in 1 .. n : x = q[i]
    BY DEF Elems, n
  <2> QED
    BY <1>3, <1>4, <2>1, <2>2
<1>6. q[1] \in Elems(q) /\ q[1] \in T
  BY <1>1 DEF Elems
<1> QED
  BY <1>1, <1>2, <1>5, <1>6, Zenon DEF r

-----------------------------------------------------------------------------
(* The scheduler. *)

Stats == {"init", "ready", "running", "suspend", "close"}

SchedType == [ready   : [Priorities -> Seq(Threads)],
              group   : SUBSET Priorities,
              current : Threads,
              stat    : [Threads -> Stats],
              yield   : [Threads -> BOOLEAN],
              nest    : {0, 1}]

(* The ready lists agree with the states of the threads. *)
ListOf(s, p) == {t \in Threads : s.stat[t] = "ready" /\ Prio[t] = p}

Lists(s) ==
  \A p \in Priorities :
    /\ Elems(s.ready[p]) = ListOf(s, p)
    /\ Distinct(s.ready[p])
    /\ p \in s.group <=> s.ready[p] # <<>>

(* The fields of the scheduler's state have their types. *)
LEMMA SchedFields ==
  ASSUME NEW s \in SchedType
  PROVE  /\ s.ready \in [Priorities -> Seq(Threads)]
         /\ s.group \in SUBSET Priorities
         /\ s.current \in Threads
         /\ s.stat \in [Threads -> Stats]
         /\ s.yield \in [Threads -> BOOLEAN]
         /\ s.nest \in {0, 1}
         /\ Priorities \subseteq Nat
         /\ \A t \in Threads : Prio[t] \in Priorities
BY KernelAssumption DEF SchedType, Priorities

(* rt_schedule_insert_thread for a thread that is not the current one. *)
LEMMA InsertThread ==
  ASSUME NEW s \in SchedType, Lists(s), NEW t \in Threads,
         t # s.current, s.stat[t] # "ready"
  PROVE  LET r == rt_schedule_insert_thread(s, t)
         IN  /\ r \in SchedType /\ Lists(r)
             /\ r.stat = [s.stat EXCEPT ![t] = "ready"]
             /\ r.current = s.current /\ r.yield = s.yield /\ r.nest = s.nest
             /\ r.group = s.group \cup {Prio[t]}
<1> DEFINE r == rt_schedule_insert_thread(s, t)
           pt == Prio[t]
           q == Append(s.ready[pt], t)
<1>1. r = [s EXCEPT !.stat[t] = "ready", !.ready[Prio[t]] = Append(@, t),
                    !.group = @ \cup {Prio[t]}]
  BY DEF rt_schedule_insert_thread
<1>2. /\ r.stat = [s.stat EXCEPT ![t] = "ready"]
      /\ r.ready = [s.ready EXCEPT ![pt] = q]
      /\ r.group = s.group \cup {pt}
      /\ r.current = s.current /\ r.yield = s.yield /\ r.nest = s.nest
  BY <1>1 DEF SchedType
<1>3. pt \in Priorities /\ s.ready[pt] \in Seq(Threads) /\ Distinct(s.ready[pt])
      /\ t \notin Elems(s.ready[pt])
  BY SchedFields DEF Lists, ListOf
<1>4. q \in Seq(Threads) /\ q # <<>> /\ Distinct(q) /\ Elems(q) = Elems(s.ready[pt]) \cup {t}
  <2> DEFINE z == s.ready[pt]
  <2>1. z \in Seq(Threads) /\ Distinct(z) /\ t \notin Elems(z)
    BY <1>3
  <2> HIDE DEF z
  <2>2. /\ Append(z, t) \in Seq(Threads) /\ Append(z, t) # <<>> /\ Distinct(Append(z, t))
        /\ Elems(Append(z, t)) = Elems(z) \cup {t}
    BY <2>1, AppendList
  <2> QED
    BY <2>2 DEF z
<1> HIDE DEF q
<1>5. r \in SchedType
  <2>1. r.stat \in [Threads -> Stats] /\ r.ready \in [Priorities -> Seq(Threads)]
    BY <1>2, <1>3, <1>4, SchedFields DEF Stats
  <2>2. r.group \in SUBSET Priorities
    BY <1>2, <1>3, SchedFields
  <2>3. r = [ready |-> r.ready, group |-> r.group, current |-> r.current,
             stat |-> r.stat, yield |-> r.yield, nest |-> r.nest]
    BY <1>1 DEF SchedType
  <2> HIDE DEF r
  <2> QED
    BY <1>2, <2>1, <2>2, <2>3, SchedFields DEF SchedType
<1> HIDE DEF r
<1>6. Lists(r)
  <2> SUFFICES ASSUME NEW p \in Priorities
               PROVE  /\ Elems(r.ready[p]) = ListOf(r, p)
                      /\ Distinct(r.ready[p])
                      /\ p \in r.group <=> r.ready[p] # <<>>
    BY DEF Lists
  <2>1. CASE p = pt
    <3>1. r.ready[p] = q
      BY <1>2, <1>3, <2>1, SchedFields
    <3>2. ListOf(r, p) = ListOf(s, p) \cup {t}
      BY <1>2, <2>1, SchedFields DEF ListOf
    <3> QED
      BY <1>2, <1>4, <2>1, <3>1, <3>2 DEF Lists
  <2>2. CASE p # pt
    <3>1. r.ready[p] = s.ready[p]
      BY <1>2, <2>2, SchedFields
    <3>2. ListOf(r, p) = ListOf(s, p)
      BY <1>2, <2>2, SchedFields DEF ListOf
    <3> QED
      BY <1>2, <2>2, <3>1, <3>2 DEF Lists
  <2> QED
    BY <2>1, <2>2
<1> QED
  BY <1>2, <1>5, <1>6 DEF r

(* rt_schedule_remove_thread, followed by a change of the thread's state. *)
Leaves(s, t, x) == [rt_schedule_remove_thread(s, t) EXCEPT !.stat[t] = x]

(* It takes the thread out of its list, if it is in one. *)
LEMMA RemoveThread ==
  ASSUME NEW s \in SchedType, Lists(s), NEW t \in Threads,
         NEW x \in Stats, x # "ready"
  PROVE  /\ Leaves(s, t, x) \in SchedType /\ Lists(Leaves(s, t, x))
         /\ Leaves(s, t, x).stat = [s.stat EXCEPT ![t] = x]
         /\ Leaves(s, t, x).current = s.current /\ Leaves(s, t, x).yield = s.yield
         /\ Leaves(s, t, x).nest = s.nest
         /\ Leaves(s, t, x).group \subseteq s.group
<1> DEFINE u == rt_schedule_remove_thread(s, t)
           r == [u EXCEPT !.stat[t] = x]
           pt == Prio[t]
           q == Without(s.ready[pt], t)
<1>1. u = [s EXCEPT !.ready[Prio[t]] = q, !.group = IF q = <<>> THEN @ \ {Prio[t]} ELSE @]
  BY DEF rt_schedule_remove_thread
<1>2. pt \in Priorities /\ s.ready[pt] \in Seq(Threads) /\ Distinct(s.ready[pt])
  BY SchedFields DEF Lists
<1>3. q \in Seq(Threads) /\ Distinct(q) /\ Elems(q) = Elems(s.ready[pt]) \ {t}
  BY <1>2, WithoutList, Zenon
<1> HIDE DEF q
<1>4. /\ u.stat = s.stat
      /\ u.ready = [s.ready EXCEPT ![pt] = q]
      /\ u.group = IF q = <<>> THEN s.group \ {pt} ELSE s.group
      /\ u.current = s.current /\ u.yield = s.yield /\ u.nest = s.nest
      /\ u = [ready |-> u.ready, group |-> u.group, current |-> u.current,
              stat |-> u.stat, yield |-> u.yield, nest |-> u.nest]
  BY <1>1 DEF SchedType
<1> HIDE DEF u
<1>5. /\ r.stat = [s.stat EXCEPT ![t] = x]
      /\ r.ready = [s.ready EXCEPT ![pt] = q]
      /\ r.group = IF q = <<>> THEN s.group \ {pt} ELSE s.group
      /\ r.current = s.current /\ r.yield = s.yield /\ r.nest = s.nest
      /\ r = [ready |-> r.ready, group |-> r.group, current |-> r.current,
              stat |-> r.stat, yield |-> r.yield, nest |-> r.nest]
  BY <1>4
<1> HIDE DEF r
<1>6. r \in SchedType
  <2>1. r.stat \in [Threads -> Stats] /\ r.ready \in [Priorities -> Seq(Threads)]
    BY <1>2, <1>3, <1>5, SchedFields
  <2>2. r.group \in SUBSET Priorities
    BY <1>5, SchedFields
  <2> QED
    BY <1>5, <2>1, <2>2, SchedFields DEF SchedType
<1>7. Lists(r)
  <2> SUFFICES ASSUME NEW p \in Priorities
               PROVE  /\ Elems(r.ready[p]) = ListOf(r, p)
                      /\ Distinct(r.ready[p])
                      /\ p \in r.group <=> r.ready[p] # <<>>
    BY DEF Lists
  <2>1. CASE p = pt
    <3>1. r.ready[p] = q
      BY <1>5, <1>2, <2>1, SchedFields
    <3>2. ListOf(r, p) = ListOf(s, p) \ {t}
      BY <1>5, <2>1, SchedFields DEF ListOf
    <3>3. q # <<>> => s.ready[p] # <<>>
      <4> SUFFICES ASSUME q # <<>>, s.ready[p] = <<>> PROVE FALSE
        OBVIOUS
      <4>1. q[1] \in Elems(q) /\ Elems(<<>>) = {}
        BY <1>3 DEF Elems
      <4> QED
        BY <4>1, <1>3, <2>1
    <3> QED
      BY <1>5, <1>3, <2>1, <3>1, <3>2, <3>3 DEF Lists
  <2>2. CASE p # pt
    <3>1. r.ready[p] = s.ready[p]
      BY <1>5, <2>2, SchedFields
    <3>2. ListOf(r, p) = ListOf(s, p)
      BY <1>5, <2>2, SchedFields DEF ListOf
    <3> QED
      BY <1>5, <2>2, <3>1, <3>2 DEF Lists
  <2> QED
    BY <2>1, <2>2
<1> QED
  BY <1>5, <1>6, <1>7 DEF Leaves, r, u

(* Nothing is removed that is not there. *)
LEMMA RemoveAbsent ==
  ASSUME NEW s \in SchedType, Lists(s), NEW t \in Threads, s.stat[t] # "ready"
  PROVE  rt_schedule_remove_thread(s, t) = s
<1> DEFINE u == rt_schedule_remove_thread(s, t)
           pt == Prio[t]
           q == Without(s.ready[pt], t)
<1>1. u = [s EXCEPT !.ready[Prio[t]] = q, !.group = IF q = <<>> THEN @ \ {Prio[t]} ELSE @]
  BY DEF rt_schedule_remove_thread
<1>2. pt \in Priorities /\ s.ready[pt] \in Seq(Threads) /\ Distinct(s.ready[pt])
      /\ t \notin Elems(s.ready[pt]) /\ (pt \in s.group <=> s.ready[pt] # <<>>)
  BY SchedFields DEF Lists, ListOf
<1>3. q = s.ready[pt]
  BY <1>2, WithoutList, Zenon
<1> HIDE DEF q
<1>4. /\ u.stat = s.stat /\ u.ready = [s.ready EXCEPT ![pt] = q]
      /\ u.group = IF q = <<>> THEN s.group \ {pt} ELSE s.group
      /\ u.current = s.current /\ u.yield = s.yield /\ u.nest = s.nest
      /\ u = [ready |-> u.ready, group |-> u.group, current |-> u.current,
              stat |-> u.stat, yield |-> u.yield, nest |-> u.nest]
      /\ s = [ready |-> s.ready, group |-> s.group, current |-> s.current,
              stat |-> s.stat, yield |-> s.yield, nest |-> s.nest]
  BY <1>1 DEF SchedType
<1>5. u.ready = s.ready
  BY <1>2, <1>3, <1>4, SchedFields
<1>6. u.group = s.group
  BY <1>2, <1>3, <1>4
<1> HIDE DEF u
<1>7. u = s
  BY <1>4, <1>5, <1>6
<1> QED
  BY <1>7 DEF u

(* What the caller of rt_schedule owes it. *)
Schedulable(s) ==
  /\ s \in SchedType /\ Lists(s)
  /\ \A t \in Threads : s.stat[t] = "running" => t = s.current
  /\ s.stat[s.current] # "ready"
  /\ s.stat[Idle] \in {"ready", "running"}

(* rt_schedule moves threads between ready and running only. *)
SameButRunning(s, r) ==
  \A t \in Threads : r.stat[t] = s.stat[t] \/ {s.stat[t], r.stat[t]} = {"ready", "running"}

RunsHighest(s) ==
  /\ s.stat[s.current] = "running"
  /\ \A p \in s.group : Prio[s.current] <= p

(* The highest ready priority. *)
LEMMA HighestReady ==
  ASSUME NEW s \in SchedType, s.group # {}
  PROVE  Highest(s) \in s.group /\ \A p \in s.group : Highest(s) <= p
<1>1. s.group \in SUBSET Nat
  BY SchedFields
<1>2. \E p \in s.group : \A r \in s.group : p <= r
  BY <1>1, LeastNatural
<1> QED
  BY <1>2 DEF Highest

(* The switch to the first thread of the highest list. *)
LEMMA SwitchToHighest ==
  ASSUME NEW s, Schedulable(s), s.group # {}, ~Keeps(s), s.nest = 0
  PROVE  LET r == SwitchTo(s, Head(s.ready[Highest(s)]))
         IN  /\ Schedulable(r) /\ r.nest = s.nest /\ RunsHighest(r) /\ SameButRunning(s, r)
<1> DEFINE h == Highest(s)
           to == Head(s.ready[h])
           from == s.current
           running == s.stat[from] = "running"
           moved == [s EXCEPT !.current = to, !.yield[from] = IF running THEN FALSE ELSE @]
           queued == IF running THEN rt_schedule_insert_thread(moved, from) ELSE moved
           r == [rt_schedule_remove_thread(queued, to) EXCEPT !.stat[to] = "running"]
<1>1. s \in SchedType /\ Lists(s)
  BY DEF Schedulable
<1>2. h \in s.group /\ \A p \in s.group : h <= p
  BY <1>1, HighestReady
<1>3. h \in Priorities /\ s.ready[h] \in Seq(Threads) /\ s.ready[h] # <<>> /\ Distinct(s.ready[h])
  BY <1>1, <1>2, SchedFields DEF Lists
<1>4. to \in Threads /\ to \in ListOf(s, h)
  <2>1. to \in Elems(s.ready[h]) /\ to \in Threads
    BY <1>3, HeadList, Zenon
  <2> QED
    BY <1>1, <1>3, <2>1 DEF Lists
<1>5. from \in Threads /\ to # from /\ s.stat[to] = "ready" /\ Prio[to] = h
  BY <1>1, <1>4, SchedFields DEF ListOf, Schedulable
<1>6. Prio[from] \in Nat /\ h \in Nat /\ (running => h <= Prio[from])
  <2>1. Prio[from] \in Priorities /\ h \in Priorities /\ Priorities \subseteq Nat
    BY <1>1, <1>3, <1>5, SchedFields
  <2>2. running => ~(Prio[from] < h)
    BY DEF Keeps
  <2> HIDE DEF h, from
  <2>3. Prio[from] \in Nat /\ h \in Nat
    BY <2>1
  <2>4. Prio[from] < h \/ h <= Prio[from]
    BY <2>3
  <2> QED
    BY <2>2, <2>3, <2>4, Zenon
<1> HIDE DEF h, to
<1>7. /\ moved.current = to /\ moved.stat = s.stat /\ moved.ready = s.ready
      /\ moved.group = s.group /\ moved.nest = s.nest
      /\ moved.yield \in [Threads -> BOOLEAN]
      /\ moved = [ready |-> moved.ready, group |-> moved.group, current |-> moved.current,
                  stat |-> moved.stat, yield |-> moved.yield, nest |-> moved.nest]
  <2> DEFINE b == IF running THEN FALSE ELSE s.yield[from]
  <2>1. b \in BOOLEAN /\ s.yield \in [Threads -> BOOLEAN]
    <3>1. s.yield \in [Threads -> BOOLEAN]
      BY <1>1, SchedFields
    <3> QED
      BY <1>5, <3>1, Zenon
  <2>2. moved = [s EXCEPT !.current = to, !.yield[from] = b]
    BY Zenon
  <2> HIDE DEF b, running, moved
  <2>3. moved.yield = [s.yield EXCEPT ![from] = b]
    BY <1>1, <2>2 DEF SchedType
  <2>4. moved.yield \in [Threads -> BOOLEAN]
    BY <1>5, <2>1, <2>3, Zenon
  <2> QED
    BY <1>1, <2>2, <2>4 DEF SchedType
<1> HIDE DEF moved
<1>8. moved \in SchedType /\ Lists(moved)
  <2>1. moved \in SchedType
    BY <1>1, <1>4, <1>7, SchedFields DEF SchedType
  <2>2. \A p : ListOf(moved, p) = ListOf(s, p)
    BY <1>7 DEF ListOf
  <2> QED
    BY <1>1, <1>7, <2>1, <2>2 DEF Lists
<1>9. /\ queued \in SchedType /\ Lists(queued)
      /\ queued.stat = IF running THEN [s.stat EXCEPT ![from] = "ready"] ELSE s.stat
      /\ queued.current = to /\ queued.nest = s.nest
      /\ queued.group = IF running THEN s.group \cup {Prio[from]} ELSE s.group
  <2>1. CASE running
    <3>1. moved.stat[from] # "ready" /\ from # moved.current
      BY <1>5, <1>7, <2>1
    <3>2. LET z == rt_schedule_insert_thread(moved, from)
          IN  /\ z \in SchedType /\ Lists(z)
              /\ z.stat = [moved.stat EXCEPT ![from] = "ready"]
              /\ z.current = moved.current /\ z.yield = moved.yield /\ z.nest = moved.nest
              /\ z.group = moved.group \cup {Prio[from]}
      BY <1>5, <1>8, <3>1, InsertThread, Zenon
    <3> QED
      BY <1>7, <2>1, <3>2
  <2>2. CASE ~running
    BY <1>7, <1>8, <2>2
  <2> QED
    BY <2>1, <2>2
<1> HIDE DEF queued
<1>10. /\ r \in SchedType /\ Lists(r)
       /\ r.stat = [queued.stat EXCEPT ![to] = "running"]
       /\ r.current = to /\ r.nest = s.nest
       /\ r.group \subseteq queued.group
  <2> DEFINE x == "running"
  <2>1. x \in Stats /\ x # "ready" /\ queued \in SchedType /\ Lists(queued)
    BY <1>9 DEF Stats
  <2> HIDE DEF x
  <2>2. /\ Leaves(queued, to, x) \in SchedType /\ Lists(Leaves(queued, to, x))
        /\ Leaves(queued, to, x).stat = [queued.stat EXCEPT ![to] = x]
        /\ Leaves(queued, to, x).current = queued.current
        /\ Leaves(queued, to, x).nest = queued.nest
        /\ Leaves(queued, to, x).group \subseteq queued.group
    BY <1>4, <2>1, RemoveThread, Zenon
  <2>3. r = Leaves(queued, to, x)
    BY DEF r, x, Leaves
  <2> HIDE DEF r
  <2> QED
    BY <1>9, <2>2, <2>3 DEF x
<1>11. SwitchTo(s, to) = r
  BY DEF SwitchTo, r, queued, moved
<1> HIDE DEF r
<1>12. s.stat \in [Threads -> Stats] /\ Idle \in Threads
  BY <1>1, SchedFields, KernelAssumption
<1>13. Schedulable(r)
  <2>1. \A t \in Threads : r.stat[t] = "running" => t = r.current
    BY <1>5, <1>9, <1>10, <1>12 DEF Schedulable
  <2>2. r.stat[Idle] \in {"ready", "running"} /\ r.stat[r.current] = "running"
    BY <1>4, <1>5, <1>9, <1>10, <1>12 DEF Schedulable
  <2> QED
    BY <1>10, <2>1, <2>2 DEF Schedulable
<1>14. RunsHighest(r)
  <2>1. r.stat[r.current] = "running"
    BY <1>4, <1>9, <1>10, <1>12
  <2>2. \A p \in r.group : Prio[r.current] <= p
    BY <1>2, <1>5, <1>6, <1>9, <1>10
  <2> QED
    BY <2>1, <2>2 DEF RunsHighest
<1>15. SameButRunning(s, r)
  BY <1>4, <1>5, <1>9, <1>10, <1>12 DEF SameButRunning
<1> QED
  BY <1>10, <1>11, <1>13, <1>14, <1>15 DEF to, h

(* rt_schedule leaves a thread running, the best of all that are ready. *)
LEMMA ScheduleRunsHighest ==
  ASSUME NEW s, Schedulable(s), s.nest = 0
  PROVE  LET r == rt_schedule(s)
         IN  /\ Schedulable(r) /\ r.nest = s.nest /\ RunsHighest(r) /\ SameButRunning(s, r)
<1>1. s \in SchedType /\ Lists(s) /\ Idle \in Threads /\ s.current \in Threads
  BY KernelAssumption, SchedFields DEF Schedulable
<1>2. SameButRunning(s, s)
  BY DEF SameButRunning
<1>3. CASE s.group = {}
  <2>1. rt_schedule(s) = s
    BY <1>3 DEF rt_schedule
  <2>2. s.stat[Idle] # "ready"
    <3> SUFFICES ASSUME s.stat[Idle] = "ready" PROVE FALSE
      OBVIOUS
    <3>1. Prio[Idle] \in Priorities /\ Idle \in ListOf(s, Prio[Idle])
      BY <1>1, SchedFields DEF ListOf
    <3>2. Idle \in Elems(s.ready[Prio[Idle]])
      BY <1>1, <3>1 DEF Lists
    <3>3. s.ready[Prio[Idle]] = <<>>
      BY <1>1, <1>3, <3>1 DEF Lists
    <3> QED
      BY <3>2, <3>3 DEF Elems
  <2> QED
    BY <1>1, <1>2, <1>3, <2>1, <2>2 DEF Schedulable, RunsHighest
<1>4. CASE s.group # {} /\ Keeps(s)
  <2>1. rt_schedule(s) = rt_schedule_remove_thread(s, s.current)
    BY <1>4 DEF rt_schedule
  <2>2. rt_schedule_remove_thread(s, s.current) = s
    BY <1>1, RemoveAbsent DEF Schedulable
  <2>3. RunsHighest(s)
    <3>1. Highest(s) \in s.group /\ \A p \in s.group : Highest(s) <= p
      BY <1>1, <1>4, HighestReady
    <3>2. s.group \subseteq Nat /\ Prio[s.current] \in Nat
      BY <1>1, SchedFields, KernelAssumption
    <3> QED
      BY <1>4, <3>1, <3>2 DEF Keeps, RunsHighest
  <2> QED
    BY <1>2, <2>1, <2>2, <2>3
<1>5. CASE s.group # {} /\ ~Keeps(s)
  <2>1. rt_schedule(s) = SwitchTo(s, Head(s.ready[Highest(s)]))
    BY <1>5 DEF rt_schedule
  <2> QED
    BY <1>5, <2>1, SwitchToHighest, Zenon
<1> QED
  BY <1>3, <1>4, <1>5

(* In a critical section it does nothing. *)
LEMMA ScheduleLocked ==
  ASSUME NEW s, s.nest = 1
  PROVE  rt_schedule(s) = s
BY DEF rt_schedule

(* The time slice's flag is of no importance to the lists. *)
LEMMA SetYield ==
  ASSUME NEW s, s \in SchedType, Lists(s), NEW t \in Threads, NEW b \in BOOLEAN
  PROVE  LET r == [s EXCEPT !.yield[t] = b]
         IN  /\ r \in SchedType /\ Lists(r) /\ r.stat = s.stat /\ r.current = s.current
             /\ r.nest = s.nest /\ r.group = s.group
<1> DEFINE r == [s EXCEPT !.yield[t] = b]
<1>1. /\ r.current = s.current /\ r.stat = s.stat /\ r.ready = s.ready
      /\ r.group = s.group /\ r.nest = s.nest /\ r.yield = [s.yield EXCEPT ![t] = b]
      /\ r = [ready |-> r.ready, group |-> r.group, current |-> r.current,
              stat |-> r.stat, yield |-> r.yield, nest |-> r.nest]
  BY DEF SchedType
<1> HIDE DEF r
<1>2. s.yield \in [Threads -> BOOLEAN]
  BY SchedFields
<1>3. r.yield \in [Threads -> BOOLEAN]
  BY <1>1, <1>2, Zenon
<1>4. r \in SchedType
  BY <1>1, <1>3, SchedFields DEF SchedType
<1>5. \A p : ListOf(r, p) = ListOf(s, p)
  BY <1>1 DEF ListOf
<1>6. Lists(r)
  BY <1>1, <1>5 DEF Lists
<1> QED
  BY <1>1, <1>4, <1>6 DEF r

(* Neither is the lock. *)
LEMMA SetNest ==
  ASSUME NEW s, s \in SchedType, Lists(s), NEW n \in {0, 1}
  PROVE  LET r == [s EXCEPT !.nest = n]
         IN  /\ r \in SchedType /\ Lists(r) /\ r.stat = s.stat /\ r.current = s.current
             /\ r.nest = n /\ r.group = s.group
<1> DEFINE r == [s EXCEPT !.nest = n]
<1>1. /\ r.current = s.current /\ r.stat = s.stat /\ r.ready = s.ready
      /\ r.group = s.group /\ r.nest = n /\ r.yield = s.yield
      /\ r = [ready |-> r.ready, group |-> r.group, current |-> r.current,
              stat |-> r.stat, yield |-> r.yield, nest |-> r.nest]
  BY DEF SchedType
<1> HIDE DEF r
<1>2. r \in SchedType
  BY <1>1, SchedFields DEF SchedType
<1>3. \A p : ListOf(r, p) = ListOf(s, p)
  BY <1>1 DEF ListOf
<1>4. Lists(r)
  BY <1>1, <1>3 DEF Lists
<1> QED
  BY <1>1, <1>2, <1>4 DEF r

(* Waking a thread, which may be the current one, not yet switched away. *)
LEMMA WakeThread ==
  ASSUME NEW s, Schedulable(s), NEW t \in Threads, s.stat[t] = "suspend"
  PROVE  LET r == rt_schedule_insert_thread(s, t)
         IN  /\ Schedulable(r) /\ r.current = s.current /\ r.nest = s.nest
             /\ r.stat = [s.stat EXCEPT ![t] = IF t = s.current THEN "running" ELSE "ready"]
<1> DEFINE r == rt_schedule_insert_thread(s, t)
<1>1. s \in SchedType /\ Lists(s) /\ s.stat \in [Threads -> Stats] /\ Idle \in Threads
      /\ s.current \in Threads
  BY SchedFields, KernelAssumption DEF Schedulable
<1>2. CASE t # s.current
  <2>1. /\ r \in SchedType /\ Lists(r)
        /\ r.stat = [s.stat EXCEPT ![t] = "ready"]
        /\ r.current = s.current /\ r.nest = s.nest
    <3>1. s.stat[t] # "ready"
      OBVIOUS
    <3> QED
      BY <1>1, <1>2, <3>1, InsertThread, Zenon
  <2> HIDE DEF r
  <2>2. Schedulable(r)
    BY <1>1, <1>2, <2>1 DEF Schedulable
  <2>3. r.stat = [s.stat EXCEPT ![t] = IF t = s.current THEN "running" ELSE "ready"]
    BY <1>2, <2>1
  <2> QED
    BY <2>1, <2>2, <2>3 DEF r
<1>3. CASE t = s.current
  <2>1. r = [s EXCEPT !.stat[t] = "running"]
    BY <1>3 DEF rt_schedule_insert_thread
  <2>2. /\ r.current = s.current /\ r.stat = [s.stat EXCEPT ![t] = "running"]
        /\ r.ready = s.ready /\ r.group = s.group /\ r.nest = s.nest /\ r.yield = s.yield
        /\ r = [ready |-> r.ready, group |-> r.group, current |-> r.current,
                stat |-> r.stat, yield |-> r.yield, nest |-> r.nest]
    BY <1>1, <2>1 DEF SchedType
  <2> HIDE DEF r
  <2>3. r.stat \in [Threads -> Stats]
    BY <1>1, <2>2 DEF Stats
  <2>4. r \in SchedType
    BY <1>1, <2>2, <2>3, SchedFields DEF SchedType
  <2>5. \A p : ListOf(r, p) = ListOf(s, p)
    BY <1>1, <2>2 DEF ListOf
  <2>6. Lists(r)
    BY <1>1, <2>2, <2>5 DEF Lists
  <2>7. Schedulable(r)
    BY <1>1, <1>3, <2>2, <2>4, <2>6 DEF Schedulable
  <2>8. r.stat = [s.stat EXCEPT ![t] = IF t = s.current THEN "running" ELSE "ready"]
    BY <1>3, <2>2
  <2> QED
    BY <2>2, <2>7, <2>8 DEF r
<1> QED
  BY <1>2, <1>3

-----------------------------------------------------------------------------
(* The timers. *)

Tick  == 0 .. TickMod - 1
Timer == [thread : Threads, timeout_tick : Tick]

(* How the difference of two ticks wraps. *)
LEMMA TickDifference ==
  ASSUME NEW x \in Tick, NEW y \in Tick
  PROVE  (x - y) % TickMod = IF x >= y THEN x - y ELSE x - y + TickMod
BY KernelAssumption DEF Tick

(* The tick after x. *)
LEMMA NextTick ==
  ASSUME NEW x \in Tick
  PROVE  (x + 1) % TickMod = IF x + 1 = TickMod THEN 0 ELSE x + 1
BY KernelAssumption DEF Tick

(* The tick d after x. *)
LEMMA TickAfter ==
  ASSUME NEW x \in Tick, NEW d \in Tick
  PROVE  (x + d) % TickMod = IF x + d >= TickMod THEN x + d - TickMod ELSE x + d
BY KernelAssumption DEF Tick

(* What is at hand is less than half a turn of the counter. *)
LEMMA HalfTurn == HalfTick \in Nat /\ 2 * HalfTick <= TickMod - 1
BY KernelAssumption DEF HalfTick

(* Inserting into a list. *)
LEMMA InsertAt ==
  ASSUME NEW T, NEW q \in Seq(T), NEW x \in T, NEW pos \in 1 .. Len(q) + 1
  PROVE  LET r == [j \in 1 .. Len(q) + 1 |->
                     IF j < pos THEN q[j] ELSE IF j = pos THEN x ELSE q[j - 1]]
         IN  /\ r \in Seq(T) /\ Len(r) = Len(q) + 1
             /\ r[pos] = x
             /\ \A j \in 1 .. Len(q) + 1 : j < pos => r[j] = q[j]
             /\ \A j \in 1 .. Len(q) + 1 : j > pos => r[j] = q[j - 1]
<1> DEFINE n == Len(q)
           e(j) == IF j < pos THEN q[j] ELSE IF j = pos THEN x ELSE q[j - 1]
           r == [j \in 1 .. n + 1 |-> e(j)]
<1>1. n \in Nat /\ \A j \in 1 .. n : q[j] \in T
  OBVIOUS
<1>2. \A j \in 1 .. n + 1 : e(j) \in T
  BY <1>1
<1> HIDE DEF n, e
<1>3. r \in Seq(T) /\ Len(r) = n + 1 /\ \A j \in 1 .. n + 1 : r[j] = e(j)
  BY <1>1, <1>2
<1> QED
  BY <1>1, <1>3 DEF n, e

AheadAt(x, now) == (x.timeout_tick - now) % TickMod

Sorted(q, now) ==
  \A i, j \in 1 .. Len(q) : i < j => AheadAt(q[i], now) <= AheadAt(q[j], now)

OneEach(q) == \A i, j \in 1 .. Len(q) : q[i].thread = q[j].thread => i = j

ThreadsOf(q) == {q[i].thread : i \in 1 .. Len(q)}

(* The end of a timer is a tick. *)
LEMMA TimerEnd ==
  ASSUME NEW q \in Seq(Timer), NEW i \in 1 .. Len(q), NEW now \in Tick
  PROVE  q[i].timeout_tick \in Tick /\ AheadAt(q[i], now) \in Nat
<1>1. q[i] \in Timer
  OBVIOUS
<1>2. q[i].timeout_tick \in Tick
  BY <1>1 DEF Timer
<1> QED
  BY <1>2, KernelAssumption DEF AheadAt, Tick

(* The comparison of rt_timer_start tells which of two ends comes later,   *)
(* also if the counter wraps between now and either.                       *)
LEMMA LaterAhead ==
  ASSUME NEW x \in Tick, NEW y \in Tick, NEW now \in Tick,
         (x - now) % TickMod < HalfTick, (y - now) % TickMod < HalfTick
  PROVE  Later(x, y) <=> (x - now) % TickMod > (y - now) % TickMod
<1>1. /\ (x - now) % TickMod = IF x >= now THEN x - now ELSE x - now + TickMod
      /\ (y - now) % TickMod = IF y >= now THEN y - now ELSE y - now + TickMod
      /\ (x - y) % TickMod = IF x >= y THEN x - y ELSE x - y + TickMod
  BY TickDifference
<1> QED
  BY <1>1, HalfTurn, KernelAssumption DEF Later, Tick

(* A timer that is started finds its place in the order of the ends. *)
LEMMA StartTimer ==
  ASSUME NEW q \in Seq(Timer), NEW x \in Timer, NEW now \in Tick,
         Sorted(q, now), OneEach(q), x.thread \notin ThreadsOf(q),
         \A i \in 1 .. Len(q) : AheadAt(q[i], now) < HalfTick,
         AheadAt(x, now) < HalfTick
  PROVE  LET r == rt_timer_start(q, x)
         IN  /\ r \in Seq(Timer) /\ Sorted(r, now) /\ OneEach(r)
             /\ ThreadsOf(r) = ThreadsOf(q) \cup {x.thread}
             /\ \A j \in 1 .. Len(r) : r[j] = x \/ \E i \in 1 .. Len(q) : r[j] = q[i]
<1> DEFINE n == Len(q)
           later == {i \in 1 .. Len(q) : Later(q[i].timeout_tick, x.timeout_tick)}
           pos == IF later = {} THEN Len(q) + 1
                  ELSE CHOOSE i \in later : \A j \in later : i <= j
           r == rt_timer_start(q, x)
           a(i) == AheadAt(q[i], now)
           ax == AheadAt(x, now)
<1>1. n \in Nat /\ \A i \in 1 .. n : q[i] \in Timer
  OBVIOUS
<1>2. \A i \in 1 .. n : q[i].timeout_tick \in Tick /\ a(i) \in Int
  <2>1. \A i \in 1 .. n : q[i].timeout_tick \in Tick
    BY <1>1 DEF Timer
  <2> QED
    BY <2>1, KernelAssumption DEF AheadAt, Tick
<1>3. x.timeout_tick \in Tick /\ ax \in Int
  BY KernelAssumption DEF Timer, AheadAt, Tick
<1>4. \A i \in 1 .. n : i \in later <=> a(i) > ax
  BY <1>2, <1>3, LaterAhead DEF AheadAt
<1>5. later \in SUBSET Nat
  BY <1>1
<1>6. later # {} => pos \in later /\ \A j \in later : pos <= j
  <2> SUFFICES ASSUME later # {} PROVE \E i \in later : \A j \in later : i <= j
    OBVIOUS
  <2> HIDE DEF later
  <2> QED
    BY <1>5, LeastNatural
<1>7. pos \in 1 .. n + 1
  BY <1>1, <1>6
<1>8. r = [j \in 1 .. Len(q) + 1 |->
            IF j < pos THEN q[j] ELSE IF j = pos THEN x ELSE q[j - 1]]
  BY DEF rt_timer_start
<1> HIDE DEF a, ax
<1>9. \A i \in 1 .. n : i < pos => a(i) <= ax
  <2> SUFFICES ASSUME NEW i \in 1 .. n, i < pos PROVE a(i) <= ax
    OBVIOUS
  <2>1. i \notin later
    <3> HIDE DEF later, pos
    <3> QED
      BY <1>5, <1>6, <1>7
  <2> QED
    BY <1>2, <1>3, <1>4, <2>1
<1>10. \A i \in 1 .. n : i >= pos => a(i) > ax
  <2> SUFFICES ASSUME NEW i \in 1 .. n, i >= pos PROVE a(i) > ax
    OBVIOUS
  <2>1. later # {}
    BY <1>1, <1>7
  <2>2. pos \in 1 .. n /\ a(pos) > ax
    BY <1>4, <1>6, <2>1
  <2>3. CASE i = pos
    BY <2>2, <2>3
  <2>4. CASE i > pos
    <3>1. a(pos) <= a(i)
      BY <2>2, <2>4 DEF Sorted, a
    <3>2. a(pos) \in Int /\ a(i) \in Int /\ a(pos) > ax
      BY <1>2, <2>2
    <3> HIDE DEF pos, n
    <3> QED
      BY <1>3, <3>1, <3>2
  <2> HIDE DEF pos, n, later
  <2> QED
    BY <1>1, <1>7, <2>3, <2>4
<1> HIDE DEF pos, later
<1>11. /\ r \in Seq(Timer) /\ Len(r) = n + 1
       /\ r[pos] = x
       /\ \A j \in 1 .. n + 1 : j < pos => r[j] = q[j]
       /\ \A j \in 1 .. n + 1 : j > pos => r[j] = q[j - 1]
  <2> DEFINE f == [j \in 1 .. Len(q) + 1 |->
                     IF j < pos THEN q[j] ELSE IF j = pos THEN x ELSE q[j - 1]]
  <2>1. /\ f \in Seq(Timer) /\ Len(f) = n + 1
        /\ f[pos] = x
        /\ \A j \in 1 .. n + 1 : j < pos => f[j] = q[j]
        /\ \A j \in 1 .. n + 1 : j > pos => f[j] = q[j - 1]
    BY <1>7, InsertAt, Zenon
  <2> HIDE DEF f, r
  <2>2. r = f
    BY <1>8 DEF f
  <2> QED
    BY <2>1, <2>2
<1> HIDE DEF r
<1>12. \A j \in 1 .. n + 1 :
         \/ j = pos /\ r[j] = x
         \/ j < pos /\ j \in 1 .. n /\ r[j] = q[j]
         \/ j > pos /\ j - 1 \in 1 .. n /\ j - 1 >= pos /\ r[j] = q[j - 1]
  BY <1>1, <1>7, <1>11
<1>13. Sorted(r, now)
  <2> SUFFICES ASSUME NEW i \in 1 .. n + 1, NEW j \in 1 .. n + 1, i < j
               PROVE  AheadAt(r[i], now) <= AheadAt(r[j], now)
    BY <1>11 DEF Sorted
  <2>1. \A k, l \in 1 .. n : k <= l => a(k) <= a(l)
    BY <1>1, <1>2 DEF Sorted, a
  <2>2. AheadAt(r[i], now) = IF i = pos THEN ax ELSE IF i < pos THEN a(i) ELSE a(i - 1)
    BY <1>7, <1>12 DEF a, ax
  <2>3. AheadAt(r[j], now) = IF j = pos THEN ax ELSE IF j < pos THEN a(j) ELSE a(j - 1)
    BY <1>7, <1>12 DEF a, ax
  <2> HIDE DEF a, ax, n
  <2> QED
    BY <1>1, <1>2, <1>3, <1>7, <1>9, <1>10, <2>1, <2>2, <2>3
<1>14. \A k, l \in 1 .. n : q[k].thread = q[l].thread => k = l
  BY DEF OneEach
<1>15. \A k \in 1 .. n : q[k].thread # x.thread
  BY DEF ThreadsOf
<1>16. OneEach(r)
  <2> SUFFICES ASSUME NEW i \in 1 .. n + 1, NEW j \in 1 .. n + 1, r[i].thread = r[j].thread
               PROVE  i = j
    BY <1>11 DEF OneEach
  <2> HIDE DEF n
  <2> DEFINE k == IF i < pos THEN i ELSE i - 1
             l == IF j < pos THEN j ELSE j - 1
  <2>1. i # pos => k \in 1 .. n /\ r[i] = q[k]
    BY <1>1, <1>7, <1>12
  <2>2. j # pos => l \in 1 .. n /\ r[j] = q[l]
    BY <1>1, <1>7, <1>12
  <2>3. i = pos => r[i] = x
    BY <1>11
  <2>4. j = pos => r[j] = x
    BY <1>11
  <2>5. CASE i # pos /\ j # pos
    <3>1. k = l
      BY <1>14, <2>1, <2>2, <2>5
    <3> QED
      BY <1>7, <2>5, <3>1
  <2> HIDE DEF k, l
  <2> QED
    BY <1>15, <2>1, <2>2, <2>3, <2>4, <2>5
<1>17. \A j \in 1 .. n + 1 : r[j] = x \/ \E i \in 1 .. n : r[j] = q[i]
  BY <1>12
<1>18. \A i \in 1 .. n : \E j \in 1 .. n + 1 : r[j] = q[i]
  <2> SUFFICES ASSUME NEW i \in 1 .. n PROVE \E j \in 1 .. n + 1 : r[j] = q[i]
    OBVIOUS
  <2>1. CASE i < pos
    BY <1>1, <1>11, <2>1
  <2>2. CASE i >= pos
    <3>1. i + 1 \in 1 .. n + 1 /\ i + 1 > pos /\ (i + 1) - 1 = i
      BY <1>1, <1>7, <2>2
    <3> QED
      BY <1>11, <3>1
  <2> QED
    BY <1>7, <2>1, <2>2
<1>19. ThreadsOf(r) = ThreadsOf(q) \cup {x.thread}
  <2>1. \A z : z \in ThreadsOf(r) <=> \E j \in 1 .. n + 1 : z = r[j].thread
    BY <1>11 DEF ThreadsOf
  <2>2. \A z : z \in ThreadsOf(q) <=> \E i \in 1 .. n : z = q[i].thread
    BY DEF ThreadsOf
  <2> HIDE DEF n
  <2>3. ASSUME NEW z \in ThreadsOf(r) PROVE z \in ThreadsOf(q) \cup {x.thread}
    BY <1>17, <2>1, <2>2
  <2>4. ASSUME NEW z \in ThreadsOf(q) PROVE z \in ThreadsOf(r)
    BY <1>18, <2>1, <2>2
  <2>5. x.thread \in ThreadsOf(r)
    BY <1>7, <1>11, <2>1
  <2> QED
    BY <2>3, <2>4, <2>5
<1> QED
  BY <1>11, <1>13, <1>16, <1>17, <1>19 DEF r

(* The first timer taken away. *)
LEMMA FirstTimer ==
  ASSUME NEW q \in Seq(Timer), q # <<>>, NEW now \in Tick, Sorted(q, now), OneEach(q)
  PROVE  /\ Head(q) = q[1] /\ Head(q) \in Timer /\ 1 \in 1 .. Len(q)
         /\ Tail(q) \in Seq(Timer) /\ Sorted(Tail(q), now) /\ OneEach(Tail(q))
         /\ ThreadsOf(Tail(q)) = ThreadsOf(q) \ {Head(q).thread}
         /\ \A j \in 1 .. Len(Tail(q)) : \E i \in 1 .. Len(q) : Tail(q)[j] = q[i]
<1> DEFINE n == Len(q)
           r == Tail(q)
<1>1. /\ n \in Nat \ {0} /\ Head(q) = q[1] /\ Head(q) \in Timer
      /\ r \in Seq(Timer) /\ Len(r) = n - 1
      /\ \A i \in 1 .. n - 1 : r[i] = q[i + 1]
  OBVIOUS
<1>2. \A i, j \in 1 .. n : q[i].thread = q[j].thread => i = j
  BY DEF OneEach
<1>3. \A i, j \in 1 .. n : i < j => AheadAt(q[i], now) <= AheadAt(q[j], now)
  BY DEF Sorted
<1>4. \A z : z \in ThreadsOf(q) <=> \E i \in 1 .. n : z = q[i].thread
  BY DEF ThreadsOf
<1> HIDE DEF n, r
<1>5. \A j \in 1 .. n - 1 : j + 1 \in 1 .. n /\ r[j] = q[j + 1] /\ r[j].thread # q[1].thread
  BY <1>1, <1>2
<1>6. Sorted(r, now)
  BY <1>1, <1>3, <1>5 DEF Sorted
<1>7. OneEach(r)
  <2> SUFFICES ASSUME NEW i \in 1 .. n - 1, NEW j \in 1 .. n - 1, r[i].thread = r[j].thread
               PROVE  i = j
    BY <1>1 DEF OneEach
  <2>1. i + 1 = j + 1
    BY <1>2, <1>5
  <2> QED
    BY <2>1
<1>8. ThreadsOf(r) = ThreadsOf(q) \ {q[1].thread}
  <2>1. \A z : z \in ThreadsOf(r) <=> \E j \in 1 .. n - 1 : z = r[j].thread
    BY <1>1 DEF ThreadsOf
  <2>2. \A i \in 1 .. n : i = 1 \/ (i - 1 \in 1 .. n - 1 /\ r[i - 1] = q[i])
    BY <1>1
  <2> QED
    BY <1>4, <1>5, <2>1, <2>2
<1> QED
  BY <1>1, <1>5, <1>6, <1>7, <1>8 DEF r, n

-----------------------------------------------------------------------------
(* The inductive invariant.  HighestRuns and NoThreadLost say nothing of   *)
(* the window between a service and its rt_schedule; CurrentOK does: there *)
(* the current thread may be suspended, and only there.                    *)

CurrentOK ==
  /\ Schedulable(sched)
  /\ sched.stat[sched.current] \in {"running", "suspend"}
  /\ sched.stat[sched.current] = "suspend" => sched.current \in due
  /\ sched.nest = 1 => sched.stat[sched.current] = "running" /\ sched.current \notin due
  /\ sched.current \notin due /\ ~in_serial /\ sched.nest = 0 =>
       \A p \in sched.group : Prio[sched.current] <= p

Waits(t) == t \in ThreadsOf(timer_list) \/ \E m \in Sems : t \in Elems(suspend_thread[m])

WaitsOK ==
  /\ timer_list \in Seq(Timer) /\ OneEach(timer_list)
  /\ suspend_thread \in [Sems -> Seq(Threads)]
  /\ \A m \in Sems : Distinct(suspend_thread[m])
  /\ \A t \in Threads : sched.stat[t] = "suspend" <=> Waits(t)
  /\ \A m \in Sems : \A t \in Elems(suspend_thread[m]) :
       /\ t \notin ThreadsOf(timer_list)
       /\ \A n \in Sems : t \in Elems(suspend_thread[n]) => n = m

CountsOK ==
  /\ value \in [Sems -> Nat]
  /\ NoWaiterPassed

TimesOK ==
  /\ rt_tick \in Tick
  /\ Sorted(timer_list, rt_tick)
  /\ \A i \in 1 .. Len(timer_list) :
       /\ AheadAt(timer_list[i], rt_tick) < HalfTick
       /\ ~in_tick => AheadAt(timer_list[i], rt_tick) > 0

RestOK ==
  /\ remaining_tick \in [Threads -> Nat]
  /\ \A t \in Threads : remaining_tick[t] \in 1 .. Slice[t]
  /\ due \subseteq Threads /\ in_tick \in BOOLEAN /\ in_serial \in BOOLEAN
  /\ defunct \subseteq Threads

KInv == CurrentOK /\ WaitsOK /\ CountsOK /\ TimesOK /\ RestOK

(* After rt_schedule outside a critical section, whoever owes a call. *)
LEMMA CurrentAfterSchedule ==
  ASSUME NEW s, Schedulable(s), s.nest = 0, sched' = rt_schedule(s)
  PROVE  CurrentOK' /\ SameButRunning(s, sched')
<1>1. Schedulable(sched') /\ sched'.nest = 0 /\ RunsHighest(sched') /\ SameButRunning(s, sched')
  BY ScheduleRunsHighest
<1> QED
  BY <1>1 DEF CurrentOK, RunsHighest

(* Who waits does not depend on ready or running. *)
LEMMA WaitsUnchanged ==
  ASSUME WaitsOK, UNCHANGED <<timer_list, suspend_thread>>,
         \A t \in Threads : sched'.stat[t] = "suspend" <=> sched.stat[t] = "suspend"
  PROVE  WaitsOK'
BY DEF WaitsOK, Waits

(* A running thread waits for nothing. *)
LEMMA RunningWaitsNot ==
  ASSUME WaitsOK, NEW t \in Threads, sched.stat[t] # "suspend"
  PROVE  t \notin ThreadsOf(timer_list) /\ \A m \in Sems : t \notin Elems(suspend_thread[m])
BY DEF WaitsOK, Waits

(* The current thread while it executes its own code. *)
LEMMA ExecutesRunning ==
  ASSUME KInv, NEW t \in Threads, Executes(t)
  PROVE  /\ sched \in SchedType /\ Lists(sched)
         /\ sched.current = t /\ sched.stat[t] = "running" /\ t \notin due
         /\ ~in_tick /\ ~in_serial /\ sched.stat \in [Threads -> Stats]
BY SchedFields DEF KInv, CurrentOK, Schedulable, Executes

(* Giving up the processor. *)
LEMMA SuspendCurrent ==
  ASSUME KInv, NEW t \in Threads, t # Idle, Executes(t), sched.nest = 0,
         sched' = Suspend(sched, t), due' = due \cup {t}
  PROVE  CurrentOK' /\ sched'.stat = [sched.stat EXCEPT ![t] = "suspend"]
<1> DEFINE x == "suspend"
<1>1. x \in Stats /\ x # "ready"
  BY DEF Stats
<1>2. sched' = Leaves(sched, t, x)
  BY DEF Suspend, Leaves
<1>3. /\ sched \in SchedType /\ Lists(sched)
      /\ sched.current = t /\ sched.stat[t] = "running" /\ sched.stat \in [Threads -> Stats]
  BY ExecutesRunning
<1> HIDE DEF x
<1>4. /\ sched' \in SchedType /\ Lists(sched') /\ sched'.stat = [sched.stat EXCEPT ![t] = x]
      /\ sched'.current = sched.current /\ sched'.nest = sched.nest
  BY <1>1, <1>2, <1>3, RemoveThread
<1>5. Idle \in Threads /\ sched.stat[Idle] \in {"ready", "running"}
      /\ \A u \in Threads : sched.stat[u] = "running" => u = sched.current
  BY KernelAssumption DEF KInv, CurrentOK, Schedulable
<1>6. sched'.stat[t] = "suspend" /\ sched'.stat[Idle] = sched.stat[Idle]
      /\ \A u \in Threads : u # t => sched'.stat[u] = sched.stat[u]
  BY <1>3, <1>4, <1>5 DEF x
<1>7. Schedulable(sched')
  BY <1>3, <1>4, <1>5, <1>6 DEF Schedulable
<1> QED
  BY <1>3, <1>4, <1>6, <1>7 DEF CurrentOK, x

(* The initial state. *)
LEMMA KInitInv ==
  ASSUME KInit
  PROVE  KInv
<1>1. Idle \in Threads /\ Main \in Threads /\ Main # Idle /\ Prio[Idle] \in Priorities
      /\ Prio[Main] < Prio[Idle] /\ Prio \in [Threads -> Nat]
  BY KernelAssumption DEF Priorities
<1>2. sched \in SchedType
  <2>1. <<Idle>> \in Seq(Threads) /\ <<>> \in Seq(Threads)
    BY <1>1
  <2>2. [t \in Threads |-> FALSE] \in [Threads -> BOOLEAN]
    BY Zenon
  <2> QED
    BY <1>1, <2>1, <2>2 DEF KInit, SchedType, Stats
<1>3. /\ sched.current = Main /\ sched.group = {Prio[Idle]} /\ sched.nest = 0
      /\ \A t \in Threads : sched.stat[t] = IF t = Main THEN "running"
                                            ELSE IF t = Idle THEN "ready" ELSE "init"
      /\ \A p \in Priorities : sched.ready[p] = IF p = Prio[Idle] THEN <<Idle>> ELSE <<>>
  BY DEF KInit
<1>4. Elems(<<Idle>>) = {Idle} /\ Elems(<<>>) = {} /\ Distinct(<<Idle>>) /\ Distinct(<<>>)
  <2>1. Len(<<Idle>>) = 1 /\ <<Idle>>[1] = Idle /\ 1 .. 1 = {1} /\ Len(<<>>) = 0 /\ 1 .. 0 = {}
    OBVIOUS
  <2> QED
    BY <2>1 DEF Elems, Distinct
<1>5. Lists(sched)
  <2> SUFFICES ASSUME NEW p \in Priorities
               PROVE  /\ Elems(sched.ready[p]) = ListOf(sched, p)
                      /\ Distinct(sched.ready[p])
                      /\ p \in sched.group <=> sched.ready[p] # <<>>
    BY DEF Lists
  <2>1. ListOf(sched, p) = IF p = Prio[Idle] THEN {Idle} ELSE {}
    BY <1>1, <1>3 DEF ListOf
  <2>2. sched.ready[p] = IF p = Prio[Idle] THEN <<Idle>> ELSE <<>>
    BY <1>3
  <2>3. p \in sched.group <=> p = Prio[Idle]
    BY <1>3
  <2>4. <<Idle>> # <<>>
    OBVIOUS
  <2> QED
    BY <1>4, <2>1, <2>2, <2>3, <2>4, Zenon
<1>6. CurrentOK
  BY <1>1, <1>2, <1>3, <1>5 DEF CurrentOK, Schedulable
<1>7. ThreadsOf(timer_list) = {} /\ \A m \in Sems : Elems(suspend_thread[m]) = {}
  BY <1>4 DEF KInit, ThreadsOf
<1>8. WaitsOK
  BY <1>3, <1>4, <1>7 DEF KInit, WaitsOK, Waits, OneEach
<1>9. CountsOK /\ TimesOK
  BY KernelAssumption DEF KInit, CountsOK, NoWaiterPassed, TimesOK, Tick, Sorted
<1>10. RestOK
  <2>1. /\ remaining_tick \in [Threads -> Nat]
        /\ \A t \in Threads : remaining_tick[t] \in 1 .. Slice[t]
    BY KernelAssumption DEF KInit
  <2>2. due \subseteq Threads /\ in_tick \in BOOLEAN /\ in_serial \in BOOLEAN /\ defunct \subseteq Threads
    BY Zenon DEF KInit
  <2> QED
    BY <2>1, <2>2 DEF RestOK
<1> QED
  BY <1>6, <1>8, <1>9, <1>10 DEF KInv

-----------------------------------------------------------------------------
(* One lemma for each step.  No step but the end of a thread ends one, and *)
(* none takes a thread back to where it was before it was started.         *)

Started(t) == sched.stat[t] \notin {"init", "close"}

Survive == \A t \in Threads : Started(t) => Started(t)'

(* The timer of a thread that goes to sleep now. *)
NewTimer(t, d) == [thread |-> t, timeout_tick |-> (rt_tick + d) % TickMod]

(* It finds its place among the others, which stay. *)
LEMMA SleepTimers ==
  ASSUME KInv, NEW t \in Threads, NEW d \in Delays, rt_thread_sleep(t, d)
  PROVE  /\ t \notin ThreadsOf(timer_list)
         /\ timer_list' \in Seq(Timer) /\ Sorted(timer_list', rt_tick) /\ OneEach(timer_list')
         /\ ThreadsOf(timer_list') = ThreadsOf(timer_list) \cup {t}
         /\ \A j \in 1 .. Len(timer_list') :
              \/ timer_list'[j] = NewTimer(t, d)
              \/ \E i \in 1 .. Len(timer_list) : timer_list'[j] = timer_list[i]
         /\ AheadAt(NewTimer(t, d), rt_tick) = d
<1> DEFINE x == NewTimer(t, d)
<1>1. Executes(t) /\ timer_list' = rt_timer_start(timer_list, x)
  BY DEF rt_thread_sleep, NewTimer
<1>2. sched.stat[t] = "running"
  BY <1>1, ExecutesRunning
<1>3. t \notin ThreadsOf(timer_list)
  BY <1>2, RunningWaitsNot DEF KInv
<1>4. rt_tick \in Tick /\ d \in Tick /\ d > 0 /\ d < HalfTick
  BY HalfTurn, KernelAssumption DEF KInv, TimesOK, Tick
<1>5. x.timeout_tick = IF rt_tick + d >= TickMod THEN rt_tick + d - TickMod ELSE rt_tick + d
  BY <1>4, TickAfter DEF NewTimer
<1>6. x.timeout_tick \in Tick /\ x.thread = t
  BY <1>4, <1>5, KernelAssumption DEF Tick, NewTimer
<1>7. x \in Timer
  BY <1>6 DEF Timer, NewTimer
<1> HIDE DEF x
<1>8. AheadAt(x, rt_tick) = d
  <2>1. AheadAt(x, rt_tick) = IF x.timeout_tick >= rt_tick THEN x.timeout_tick - rt_tick
                              ELSE x.timeout_tick - rt_tick + TickMod
    BY <1>4, <1>6, TickDifference DEF AheadAt
  <2> QED
    BY <1>4, <1>5, <2>1, KernelAssumption DEF Tick
<1>9. /\ timer_list' \in Seq(Timer) /\ Sorted(timer_list', rt_tick) /\ OneEach(timer_list')
       /\ ThreadsOf(timer_list') = ThreadsOf(timer_list) \cup {t}
       /\ \A j \in 1 .. Len(timer_list') :
            timer_list'[j] = x \/ \E i \in 1 .. Len(timer_list) : timer_list'[j] = timer_list[i]
  <2>1. /\ timer_list \in Seq(Timer) /\ OneEach(timer_list) /\ Sorted(timer_list, rt_tick)
        /\ \A i \in 1 .. Len(timer_list) : AheadAt(timer_list[i], rt_tick) < HalfTick
    BY DEF KInv, WaitsOK, TimesOK
  <2>2. AheadAt(x, rt_tick) < HalfTick /\ x.thread \notin ThreadsOf(timer_list)
    BY <1>3, <1>4, <1>6, <1>8
  <2> DEFINE r == rt_timer_start(timer_list, x)
  <2>3. /\ r \in Seq(Timer) /\ Sorted(r, rt_tick) /\ OneEach(r)
        /\ ThreadsOf(r) = ThreadsOf(timer_list) \cup {x.thread}
        /\ \A j \in 1 .. Len(r) : r[j] = x \/ \E i \in 1 .. Len(timer_list) : r[j] = timer_list[i]
    BY <1>4, <1>7, <2>1, <2>2, StartTimer, Zenon
  <2> HIDE DEF r
  <2>4. timer_list' = r
    BY <1>1 DEF r
  <2> QED
    BY <1>6, <2>3, <2>4
<1> QED
  BY <1>3, <1>8, <1>9 DEF x

(* A thread goes to sleep. *)
LEMMA SleepStep ==
  ASSUME KInv, NEW t \in Threads, t # Idle, NEW d \in Delays, sched.nest = 0,
         rt_thread_sleep(t, d)
  PROVE  KInv' /\ Survive
<1>1. /\ Executes(t) /\ sched' = Suspend(sched, t) /\ due' = due \cup {t}
      /\ UNCHANGED <<remaining_tick, rt_tick, value, suspend_thread, in_tick, in_serial, defunct>>
  BY DEF rt_thread_sleep
<1>2. CurrentOK' /\ sched'.stat = [sched.stat EXCEPT ![t] = "suspend"]
  BY <1>1, SuspendCurrent
<1>3. sched.stat[t] = "running" /\ ~in_tick /\ sched.stat \in [Threads -> Stats]
  BY <1>1, ExecutesRunning
<1>4. t \notin ThreadsOf(timer_list) /\ \A m \in Sems : t \notin Elems(suspend_thread[m])
  BY <1>3, RunningWaitsNot DEF KInv
<1>5. rt_tick \in Tick /\ d > 0 /\ d < HalfTick
  BY KernelAssumption DEF KInv, TimesOK
<1>6. /\ timer_list' \in Seq(Timer) /\ Sorted(timer_list', rt_tick) /\ OneEach(timer_list')
       /\ ThreadsOf(timer_list') = ThreadsOf(timer_list) \cup {t}
       /\ \A j \in 1 .. Len(timer_list') :
            \/ timer_list'[j] = NewTimer(t, d)
            \/ \E i \in 1 .. Len(timer_list) : timer_list'[j] = timer_list[i]
       /\ AheadAt(NewTimer(t, d), rt_tick) = d
  BY SleepTimers
<1>7. WaitsOK'
  <2>1. /\ suspend_thread' = suspend_thread /\ sched'.stat[t] = "suspend"
        /\ \A u \in Threads : u # t => sched'.stat[u] = sched.stat[u]
    BY <1>1, <1>2, <1>3
  <2>2. \A u \in Threads : Waits(u)' <=> Waits(u) \/ u = t
    BY <1>6, <2>1 DEF Waits
  <2>3. \A u \in Threads : sched'.stat[u] = "suspend" <=> Waits(u)'
    BY <2>1, <2>2 DEF KInv, WaitsOK
  <2>4. \A m \in Sems : \A u \in Elems(suspend_thread[m]) :
          /\ u \notin ThreadsOf(timer_list')
          /\ \A n \in Sems : u \in Elems(suspend_thread[n]) => n = m
    BY <1>4, <1>6 DEF KInv, WaitsOK
  <2> QED
    BY <1>6, <2>1, <2>3, <2>4 DEF KInv, WaitsOK
<1>8. CountsOK' /\ RestOK'
  BY <1>1 DEF KInv, CountsOK, NoWaiterPassed, RestOK
<1>9. TimesOK'
  BY <1>1, <1>5, <1>6 DEF KInv, TimesOK
<1>10. Survive
  BY <1>2, <1>3 DEF Survive, Started
<1> QED
  BY <1>2, <1>7, <1>8, <1>9, <1>10 DEF KInv

(* A thread takes a release, or waits for one behind those that wait. *)
LEMMA TakeStep ==
  ASSUME KInv, NEW t \in Threads, t # Idle, NEW m \in Sems, sched.nest = 0, rt_sem_take(t, m)
  PROVE  KInv' /\ Survive
<1>1. Executes(t) /\ UNCHANGED <<remaining_tick, rt_tick, timer_list, in_tick, in_serial, defunct>>
  BY DEF rt_sem_take
<1>2. value \in [Sems -> Nat] /\ suspend_thread \in [Sems -> Seq(Threads)]
  BY DEF KInv, CountsOK, WaitsOK
<1>3. TimesOK'
  BY <1>1 DEF KInv, TimesOK
<1>4. CASE value[m] > 0
  <2>1. value' = [value EXCEPT ![m] = @ - 1] /\ UNCHANGED <<sched, suspend_thread, due>>
    BY <1>4 DEF rt_sem_take
  <2>2. CountsOK'
    BY <1>2, <1>4, <2>1 DEF KInv, CountsOK, NoWaiterPassed
  <2>3. CurrentOK' /\ WaitsOK' /\ RestOK'
    BY <1>1, <2>1 DEF KInv, CurrentOK, WaitsOK, Waits, RestOK
  <2>4. Survive
    BY <2>1 DEF Survive, Started
  <2> QED
    BY <1>3, <2>2, <2>3, <2>4 DEF KInv
<1>5. CASE ~(value[m] > 0)
  <2>1. /\ sched' = Suspend(sched, t) /\ due' = due \cup {t} /\ value' = value
        /\ suspend_thread' = [suspend_thread EXCEPT ![m] = Append(@, t)]
    BY <1>5 DEF rt_sem_take
  <2>2. CurrentOK' /\ sched'.stat = [sched.stat EXCEPT ![t] = "suspend"]
    BY <1>1, <2>1, SuspendCurrent
  <2>3. sched.stat[t] = "running" /\ sched.stat \in [Threads -> Stats]
    BY <1>1, ExecutesRunning
  <2>4. t \notin ThreadsOf(timer_list) /\ \A n \in Sems : t \notin Elems(suspend_thread[n])
    BY <2>3, RunningWaitsNot DEF KInv
  <2> DEFINE q == Append(suspend_thread[m], t)
  <2>5. q \in Seq(Threads) /\ Distinct(q) /\ Elems(q) = Elems(suspend_thread[m]) \cup {t}
    <3>1. suspend_thread[m] \in Seq(Threads) /\ Distinct(suspend_thread[m])
          /\ t \notin Elems(suspend_thread[m])
      BY <1>2, <2>4 DEF KInv, WaitsOK
    <3> DEFINE z == suspend_thread[m]
    <3>2. z \in Seq(Threads) /\ Distinct(z) /\ t \notin Elems(z)
      BY <3>1
    <3> HIDE DEF z
    <3>3. /\ Append(z, t) \in Seq(Threads) /\ Distinct(Append(z, t))
          /\ Elems(Append(z, t)) = Elems(z) \cup {t}
      BY <3>2, AppendList
    <3> QED
      BY <3>3 DEF z
  <2> HIDE DEF q
  <2>6. /\ suspend_thread' \in [Sems -> Seq(Threads)]
        /\ suspend_thread'[m] = q
        /\ \A n \in Sems : n # m => suspend_thread'[n] = suspend_thread[n]
    BY <1>2, <2>1, <2>5 DEF q
  <2>7. /\ sched'.stat[t] = "suspend" /\ timer_list' = timer_list
        /\ \A u \in Threads : u # t => sched'.stat[u] = sched.stat[u]
    BY <1>1, <2>2, <2>3
  <2>8. WaitsOK'
    <3>1. \A n \in Sems : Distinct(suspend_thread'[n])
      BY <2>5, <2>6 DEF KInv, WaitsOK
    <3>2. \A n \in Sems : \A u : u \in Elems(suspend_thread'[n]) <=>
                                 u \in Elems(suspend_thread[n]) \/ (n = m /\ u = t)
      BY <2>5, <2>6
    <3>3. \A u \in Threads : Waits(u)' <=> Waits(u) \/ u = t
      BY <2>7, <3>2 DEF Waits
    <3>4. \A u \in Threads : sched'.stat[u] = "suspend" <=> Waits(u)'
      BY <2>7, <3>3 DEF KInv, WaitsOK
    <3>5. \A n \in Sems : \A u \in Elems(suspend_thread'[n]) :
            /\ u \notin ThreadsOf(timer_list)
            /\ \A o \in Sems : u \in Elems(suspend_thread'[o]) => o = n
      BY <2>4, <3>2 DEF KInv, WaitsOK
    <3> QED
      BY <2>6, <2>7, <3>1, <3>4, <3>5 DEF KInv, WaitsOK
  <2>9. CountsOK'
    BY <1>2, <1>5, <2>1, <2>6 DEF KInv, CountsOK, NoWaiterPassed
  <2>10. RestOK'
    BY <1>1, <2>1 DEF KInv, RestOK
  <2>11. Survive
    BY <2>2, <2>3 DEF Survive, Started
  <2> QED
    BY <1>3, <2>2, <2>8, <2>9, <2>10, <2>11 DEF KInv
<1> QED
  BY <1>4, <1>5

(* A thread ends.  Another one takes over in the same step. *)
LEMMA ExitStep ==
  ASSUME KInv, NEW t \in Threads, t # Idle, sched.nest = 0, rt_thread_exit(t)
  PROVE  KInv' /\ \A v \in Threads \ {t} : Started(v) => Started(v)'
<1> DEFINE x == "close"
           u == Leaves(sched, t, x)
           s == [u EXCEPT !.yield[t] = FALSE]
<1>1. /\ Executes(t) /\ timer_list' = rt_timer_stop(t) /\ defunct' = defunct \cup {t}
      /\ sched' = rt_schedule([rt_schedule_remove_thread(sched, t)
                                 EXCEPT !.stat[t] = "close", !.yield[t] = FALSE])
      /\ UNCHANGED <<remaining_tick, rt_tick, value, suspend_thread, due, in_tick, in_serial>>
  BY DEF rt_thread_exit
<1>2. /\ sched \in SchedType /\ Lists(sched)
      /\ sched.current = t /\ sched.stat[t] = "running" /\ sched.stat \in [Threads -> Stats]
  BY <1>1, ExecutesRunning
<1>3. Idle \in Threads /\ sched.stat[Idle] \in {"ready", "running"}
      /\ \A v \in Threads : sched.stat[v] = "running" => v = sched.current
  BY KernelAssumption DEF KInv, CurrentOK, Schedulable
<1>4. t \notin ThreadsOf(timer_list)
  BY <1>2, RunningWaitsNot DEF KInv
<1>5. timer_list' = timer_list
  BY <1>1, <1>4 DEF rt_timer_stop, Sleepers, ThreadsOf
<1>6. x \in Stats /\ x # "ready"
  BY DEF Stats
<1> HIDE DEF x
<1>7. /\ u \in SchedType /\ Lists(u) /\ u.stat = [sched.stat EXCEPT ![t] = x]
      /\ u.current = sched.current /\ u.nest = sched.nest
  BY <1>2, <1>6, RemoveThread, ZenonT(60)
<1>8. [rt_schedule_remove_thread(sched, t) EXCEPT !.stat[t] = "close", !.yield[t] = FALSE] = s
  BY DEF s, u, x, Leaves
<1> HIDE DEF u
<1>9. /\ s \in SchedType /\ Lists(s) /\ s.stat = u.stat /\ s.current = u.current
      /\ s.nest = u.nest
  <2> DEFINE b == FALSE
  <2>1. b \in BOOLEAN
    BY Zenon
  <2> HIDE DEF b
  <2>2. LET r == [u EXCEPT !.yield[t] = b]
        IN  /\ r \in SchedType /\ Lists(r) /\ r.stat = u.stat /\ r.current = u.current
            /\ r.nest = u.nest
    BY <1>7, <2>1, SetYield, ZenonT(60)
  <2> QED
    BY <2>2, Zenon DEF b
<1> HIDE DEF s
<1>10. /\ s.stat[t] = "close" /\ s.current = t /\ s.nest = 0
       /\ \A v \in Threads : v # t => s.stat[v] = sched.stat[v]
  BY <1>2, <1>7, <1>9 DEF x
<1>11. Schedulable(s)
  BY <1>2, <1>3, <1>9, <1>10 DEF Schedulable
<1>12. CurrentOK' /\ SameButRunning(s, sched')
  BY <1>1, <1>8, <1>10, <1>11, CurrentAfterSchedule
<1>13. \A v \in Threads : sched'.stat[v] = "suspend" <=> sched.stat[v] = "suspend"
  BY <1>2, <1>10, <1>12 DEF SameButRunning
<1>14. WaitsOK'
  BY <1>1, <1>5, <1>13, WaitsUnchanged DEF KInv
<1>15. CountsOK' /\ TimesOK' /\ RestOK'
  BY <1>1, <1>5 DEF KInv, CountsOK, NoWaiterPassed, TimesOK, RestOK
<1>16. \A v \in Threads \ {t} : Started(v) => Started(v)'
  BY <1>10, <1>12 DEF SameButRunning, Started
<1> QED
  BY <1>12, <1>14, <1>15, <1>16 DEF KInv

(* Variables that the scheduler does not touch. *)
LEMMA OthersUnchanged ==
  ASSUME KInv, UNCHANGED <<rt_tick, timer_list, value, suspend_thread, in_tick>>
  PROVE  CountsOK' /\ TimesOK'
BY DEF KInv, CountsOK, NoWaiterPassed, TimesOK

(* A thread is started. *)
LEMMA StartupStep ==
  ASSUME KInv, NEW t \in Threads, NEW new \in Threads, sched.nest = 0, rt_thread_startup(t, new)
  PROVE  KInv' /\ Survive /\ sched'.stat[new] = "ready"
<1>1. /\ Executes(t) /\ sched.stat[new] = "init" /\ due' = due \cup {t}
      /\ sched' = rt_schedule_insert_thread(sched, new)
      /\ UNCHANGED <<remaining_tick, rt_tick, timer_list, value, suspend_thread,
                     in_tick, in_serial, defunct>>
  BY DEF rt_thread_startup
<1>2. /\ sched \in SchedType /\ Lists(sched)
      /\ sched.current = t /\ sched.stat[t] = "running" /\ sched.stat \in [Threads -> Stats]
  BY <1>1, ExecutesRunning
<1>3. Idle \in Threads /\ sched.stat[Idle] \in {"ready", "running"}
      /\ \A v \in Threads : sched.stat[v] = "running" => v = sched.current
  BY KernelAssumption DEF KInv, CurrentOK, Schedulable
<1>4. new # sched.current /\ sched.stat[new] # "ready"
  BY <1>1, <1>2
<1>5. /\ sched' \in SchedType /\ Lists(sched')
      /\ sched'.stat = [sched.stat EXCEPT ![new] = "ready"]
      /\ sched'.current = sched.current /\ sched'.nest = sched.nest
  BY <1>1, <1>2, <1>4, InsertThread
<1>6. /\ sched'.stat[new] = "ready"
      /\ \A v \in Threads : v # new => sched'.stat[v] = sched.stat[v]
  BY <1>2, <1>5
<1>7. Schedulable(sched')
  BY <1>1, <1>2, <1>3, <1>4, <1>5, <1>6 DEF Schedulable
<1>8. CurrentOK'
  BY <1>1, <1>2, <1>4, <1>5, <1>6, <1>7 DEF CurrentOK
<1>9. WaitsOK'
  BY <1>1, <1>6, WaitsUnchanged DEF KInv
<1>10. RestOK'
  BY <1>1 DEF KInv, RestOK
<1>11. Survive
  BY <1>6 DEF Survive, Started
<1> QED
  BY <1>1, <1>6, <1>8, <1>9, <1>10, <1>11, OthersUnchanged DEF KInv

(* The scheduler is locked. *)
LEMMA EnterStep ==
  ASSUME KInv, NEW t \in Threads, sched.nest = 0, rt_enter_critical(t)
  PROVE  KInv' /\ Survive
<1>1. /\ Executes(t) /\ sched' = [sched EXCEPT !.nest = 1]
      /\ UNCHANGED <<remaining_tick, rt_tick, timer_list, value, suspend_thread,
                     due, in_tick, in_serial, defunct>>
  BY DEF rt_enter_critical
<1>2. /\ sched \in SchedType /\ Lists(sched)
      /\ sched.current = t /\ sched.stat[t] = "running" /\ t \notin due
  BY <1>1, ExecutesRunning
<1>3. /\ sched' \in SchedType /\ Lists(sched') /\ sched'.stat = sched.stat
      /\ sched'.current = sched.current /\ sched'.nest = 1
  <2> DEFINE n == 1
  <2>1. n \in {0, 1} /\ sched' = [sched EXCEPT !.nest = n]
    BY <1>1
  <2> HIDE DEF n
  <2>2. LET r == [sched EXCEPT !.nest = n]
        IN  /\ r \in SchedType /\ Lists(r) /\ r.stat = sched.stat /\ r.current = sched.current
            /\ r.nest = n
    BY <1>2, <2>1, SetNest, Zenon
  <2> QED
    BY <2>1, <2>2 DEF n
<1>4. CurrentOK'
  BY <1>1, <1>2, <1>3 DEF KInv, CurrentOK, Schedulable
<1>5. WaitsOK'
  BY <1>1, <1>3, WaitsUnchanged DEF KInv
<1>6. RestOK'
  BY <1>1 DEF KInv, RestOK
<1>7. Survive
  BY <1>3 DEF Survive, Started
<1> QED
  BY <1>1, <1>4, <1>5, <1>6, <1>7, OthersUnchanged DEF KInv

(* The scheduler is unlocked. *)
LEMMA LeaveStep ==
  ASSUME KInv, NEW t \in Threads, sched.nest = 1, rt_exit_critical(t)
  PROVE  KInv' /\ Survive
<1>1. /\ Executes(t) /\ sched' = [sched EXCEPT !.nest = 0] /\ due' = due \cup {t}
      /\ UNCHANGED <<remaining_tick, rt_tick, timer_list, value, suspend_thread,
                     in_tick, in_serial, defunct>>
  BY DEF rt_exit_critical
<1>2. /\ sched \in SchedType /\ Lists(sched)
      /\ sched.current = t /\ sched.stat[t] = "running"
  BY <1>1, ExecutesRunning
<1>3. /\ sched' \in SchedType /\ Lists(sched') /\ sched'.stat = sched.stat
      /\ sched'.current = sched.current /\ sched'.nest = 0
  <2> DEFINE n == 0
  <2>1. n \in {0, 1} /\ sched' = [sched EXCEPT !.nest = n]
    BY <1>1
  <2> HIDE DEF n
  <2>2. LET r == [sched EXCEPT !.nest = n]
        IN  /\ r \in SchedType /\ Lists(r) /\ r.stat = sched.stat /\ r.current = sched.current
            /\ r.nest = n
    BY <1>2, <2>1, SetNest, Zenon
  <2> QED
    BY <2>1, <2>2 DEF n
<1>4. CurrentOK'
  BY <1>1, <1>2, <1>3 DEF KInv, CurrentOK, Schedulable
<1>5. WaitsOK'
  BY <1>1, <1>3, WaitsUnchanged DEF KInv
<1>6. RestOK'
  BY <1>1 DEF KInv, RestOK
<1>7. Survive
  BY <1>3 DEF Survive, Started
<1> QED
  BY <1>1, <1>4, <1>5, <1>6, <1>7, OthersUnchanged DEF KInv

(* The end of a service, and of the receive interrupt. *)
LEMMA ScheduleStep ==
  ASSUME KInv, SerialSchedule \/ \E t \in Threads : CallSchedule(t)
  PROVE  KInv' /\ Survive
<1>1. /\ sched' = rt_schedule(sched)
      /\ UNCHANGED <<remaining_tick, rt_tick, timer_list, value, suspend_thread,
                     in_tick, defunct>>
  BY DEF SerialSchedule, CallSchedule
<1>2. \/ due' = due /\ in_serial' = FALSE
      \/ sched.current \in due /\ due' \subseteq due /\ in_serial' = in_serial
  BY DEF SerialSchedule, CallSchedule
<1>3. Schedulable(sched) /\ sched.nest \in {0, 1}
  BY SchedFields DEF KInv, CurrentOK, Schedulable
<1>4. CurrentOK' /\ SameButRunning(sched, sched')
  <2>1. CASE sched.nest = 0
    BY <1>1, <1>3, <2>1, CurrentAfterSchedule
  <2>2. CASE sched.nest = 1
    <3>1. sched' = sched
      BY <1>1, <2>2, ScheduleLocked
    <3> QED
      BY <1>2, <2>2, <3>1 DEF KInv, CurrentOK, SameButRunning
  <2> QED
    BY <1>3, <2>1, <2>2
<1>5. WaitsOK'
  <2>1. \A t \in Threads : sched'.stat[t] = "suspend" <=> sched.stat[t] = "suspend"
    BY <1>4 DEF SameButRunning
  <2> QED
    BY <1>1, <2>1, WaitsUnchanged DEF KInv
<1>6. RestOK'
  <2>1. in_serial' \in BOOLEAN /\ due' \subseteq Threads
    BY <1>2, Zenon DEF KInv, RestOK
  <2> QED
    BY <1>1, <2>1 DEF KInv, RestOK
<1>7. Survive
  BY <1>4 DEF SameButRunning, Survive, Started
<1> QED
  BY <1>1, <1>4, <1>5, <1>6, <1>7, OthersUnchanged DEF KInv

(* The idle thread frees a thread. *)
LEMMA IdleStep ==
  ASSUME KInv, rt_thread_idle_excute
  PROVE  KInv'
<1>1. PICK t \in defunct : defunct' = defunct \ {t}
                           /\ remaining_tick' = [remaining_tick EXCEPT ![t] = Slice[t]]
  BY DEF rt_thread_idle_excute
<1>2. UNCHANGED <<sched, rt_tick, timer_list, value, suspend_thread, due, in_tick, in_serial>>
  BY DEF rt_thread_idle_excute
<1>3. RestOK'
  <2>1. t \in Threads /\ Slice \in [Threads -> Nat \ {0}] /\ remaining_tick \in [Threads -> Nat]
        /\ \A u \in Threads : remaining_tick[u] \in 1 .. Slice[u]
    BY KernelAssumption DEF KInv, RestOK
  <2>2. remaining_tick' \in [Threads -> Nat]
        /\ \A u \in Threads : remaining_tick'[u] = IF u = t THEN Slice[u] ELSE remaining_tick[u]
    BY <1>1, <2>1
  <2>3. \A u \in Threads : remaining_tick'[u] \in 1 .. Slice[u]
    BY <2>1, <2>2
  <2>4. due' \subseteq Threads /\ in_tick' \in BOOLEAN /\ in_serial' \in BOOLEAN /\ defunct' \subseteq Threads
    BY <1>1, <1>2 DEF KInv, RestOK
  <2> QED
    BY <2>2, <2>3, <2>4 DEF RestOK
<1>4. CurrentOK' /\ WaitsOK'
  BY <1>2 DEF KInv, CurrentOK, WaitsOK, Waits
<1> QED
  BY <1>2, <1>3, <1>4, OthersUnchanged DEF KInv

(* The clock ticks: every end comes one tick closer. *)
LEMMA TickAhead ==
  ASSUME KInv, rt_tick_increase
  PROVE  /\ rt_tick' \in Tick
         /\ \A i \in 1 .. Len(timer_list) :
              /\ AheadAt(timer_list[i], rt_tick') = AheadAt(timer_list[i], rt_tick) - 1
              /\ AheadAt(timer_list[i], rt_tick) \in 1 .. HalfTick - 1
<1>1. /\ ~in_tick /\ rt_tick' = (rt_tick + 1) % TickMod
      /\ rt_tick \in Tick /\ timer_list \in Seq(Timer)
  BY DEF rt_tick_increase, KInv, TimesOK, WaitsOK
<1>2. rt_tick' = IF rt_tick + 1 = TickMod THEN 0 ELSE rt_tick + 1
  BY <1>1, NextTick
<1>3. rt_tick' \in Tick
  BY <1>1, <1>2, KernelAssumption DEF Tick
<1>4. ASSUME NEW i \in 1 .. Len(timer_list)
      PROVE  /\ AheadAt(timer_list[i], rt_tick') = AheadAt(timer_list[i], rt_tick) - 1
             /\ AheadAt(timer_list[i], rt_tick) \in 1 .. HalfTick - 1
  <2> DEFINE e == timer_list[i].timeout_tick
  <2>1. e \in Tick
    BY <1>1, TimerEnd
  <2>2. AheadAt(timer_list[i], rt_tick) > 0 /\ AheadAt(timer_list[i], rt_tick) < HalfTick
    BY <1>1 DEF KInv, TimesOK
  <2>3. /\ AheadAt(timer_list[i], rt_tick) = IF e >= rt_tick THEN e - rt_tick ELSE e - rt_tick + TickMod
        /\ AheadAt(timer_list[i], rt_tick') = IF e >= rt_tick' THEN e - rt_tick' ELSE e - rt_tick' + TickMod
    BY <1>1, <1>3, <2>1, TickDifference DEF AheadAt
  <2>4. /\ TickMod \in Nat \ {0} /\ e \in Nat /\ e < TickMod
        /\ rt_tick \in Nat /\ rt_tick < TickMod
    BY <1>1, <2>1, KernelAssumption DEF Tick
  <2> HIDE DEF e
  <2>5. AheadAt(timer_list[i], rt_tick') = AheadAt(timer_list[i], rt_tick) - 1
    BY <1>2, <2>2, <2>3, <2>4
  <2>6. AheadAt(timer_list[i], rt_tick) \in Int
    BY <2>3, <2>4
  <2> QED
    BY <2>2, <2>5, <2>6, HalfTurn
<1> QED
  BY <1>3, <1>4

(* The clock interrupt up to its timer check. *)
LEMMA TickStep ==
  ASSUME KInv, rt_tick_increase
  PROVE  KInv' /\ Survive
<1> DEFINE t == sched.current
           used == remaining_tick[t] = 1
           s == [sched EXCEPT !.yield[t] = TRUE]
<1>1. /\ ~in_tick /\ in_tick' = TRUE /\ rt_tick' = (rt_tick + 1) % TickMod
      /\ remaining_tick' = [remaining_tick EXCEPT ![t] = IF used THEN Slice[t] ELSE @ - 1]
      /\ sched' = IF used THEN rt_schedule(s) ELSE sched
      /\ UNCHANGED <<timer_list, value, suspend_thread, due, in_serial, defunct>>
  BY DEF rt_tick_increase
<1>2. Schedulable(sched) /\ sched \in SchedType /\ Lists(sched) /\ t \in Threads
      /\ sched.nest \in {0, 1}
  BY SchedFields DEF KInv, CurrentOK, Schedulable
<1>3. /\ s \in SchedType /\ Lists(s) /\ s.stat = sched.stat /\ s.current = sched.current
      /\ s.nest = sched.nest /\ s.group = sched.group
  <2> DEFINE b == TRUE
  <2>1. b \in BOOLEAN
    BY Zenon
  <2> HIDE DEF b
  <2>2. LET r == [sched EXCEPT !.yield[t] = b]
        IN  /\ r \in SchedType /\ Lists(r) /\ r.stat = sched.stat /\ r.current = sched.current
            /\ r.nest = sched.nest /\ r.group = sched.group
    BY <1>2, <2>1, SetYield, Zenon
  <2> QED
    BY <2>2, Zenon DEF b
<1> HIDE DEF s
<1>4. Schedulable(s)
  BY <1>2, <1>3 DEF Schedulable
<1>5. CurrentOK' /\ Survive
      /\ \A v \in Threads : sched'.stat[v] = "suspend" <=> sched.stat[v] = "suspend"
  <2>1. CASE used /\ sched.nest = 0
    <3>1. CurrentOK' /\ SameButRunning(s, sched')
      BY <1>1, <1>3, <1>4, <2>1, CurrentAfterSchedule
    <3> QED
      BY <1>3, <3>1 DEF SameButRunning, Survive, Started
  <2>2. CASE used /\ sched.nest = 1
    <3>1. sched' = s
      BY <1>1, <1>3, <2>2, ScheduleLocked
    <3> QED
      BY <1>1, <1>3, <1>4, <2>2, <3>1 DEF KInv, CurrentOK, Survive, Started
  <2>3. CASE ~used
    BY <1>1, <2>3 DEF KInv, CurrentOK, Survive, Started
  <2> QED
    BY <1>2, <2>1, <2>2, <2>3
<1>6. WaitsOK'
  BY <1>1, <1>5, WaitsUnchanged DEF KInv
<1>7. CountsOK'
  BY <1>1 DEF KInv, CountsOK, NoWaiterPassed
<1>8. RestOK'
  <2>1. Slice \in [Threads -> Nat \ {0}] /\ remaining_tick \in [Threads -> Nat]
        /\ \A u \in Threads : remaining_tick[u] \in 1 .. Slice[u]
    BY KernelAssumption DEF KInv, RestOK
  <2>2. (IF used THEN Slice[t] ELSE remaining_tick[t] - 1) \in 1 .. Slice[t]
    BY <1>2, <2>1
  <2>3. /\ remaining_tick' \in [Threads -> Nat]
        /\ \A u \in Threads : u # t => remaining_tick'[u] = remaining_tick[u]
        /\ remaining_tick'[t] \in 1 .. Slice[t]
    BY <1>1, <1>2, <2>1, <2>2
  <2>4. in_tick' \in BOOLEAN
    BY <1>1, Zenon
  <2> QED
    BY <1>1, <2>1, <2>3, <2>4 DEF KInv, RestOK
<1>9. TimesOK'
  <2>1. timer_list' = timer_list /\ Sorted(timer_list, rt_tick)
    BY <1>1 DEF KInv, TimesOK
  <2>2. /\ rt_tick' \in Tick
        /\ \A i \in 1 .. Len(timer_list) :
             /\ AheadAt(timer_list[i], rt_tick') = AheadAt(timer_list[i], rt_tick) - 1
             /\ AheadAt(timer_list[i], rt_tick) \in 1 .. HalfTick - 1
    BY TickAhead
  <2>3. Sorted(timer_list', rt_tick')
    <3> SUFFICES ASSUME NEW i \in 1 .. Len(timer_list), NEW j \in 1 .. Len(timer_list), i < j
                 PROVE  AheadAt(timer_list[i], rt_tick') <= AheadAt(timer_list[j], rt_tick')
      BY <2>1 DEF Sorted
    <3>1. AheadAt(timer_list[i], rt_tick) <= AheadAt(timer_list[j], rt_tick)
      BY <2>1 DEF Sorted
    <3> QED
      BY <2>2, <3>1, HalfTurn
  <2>4. \A i \in 1 .. Len(timer_list) : AheadAt(timer_list[i], rt_tick') < HalfTick
    BY <2>2, HalfTurn
  <2> QED
    BY <1>1, <2>1, <2>2, <2>3, <2>4 DEF TimesOK
<1> QED
  BY <1>5, <1>6, <1>7, <1>8, <1>9 DEF KInv

(* The head of the list has expired exactly if its end is now. *)
LEMMA ExpiredNow ==
  ASSUME KInv, timer_list # <<>>
  PROVE  /\ Expired <=> AheadAt(Head(timer_list), rt_tick) = 0
         /\ Expired => Head(timer_list).timeout_tick = rt_tick
<1>1. /\ Head(timer_list) = timer_list[1] /\ Head(timer_list) \in Timer
      /\ 1 \in 1 .. Len(timer_list) /\ rt_tick \in Tick
  BY FirstTimer DEF KInv, WaitsOK, TimesOK
<1> DEFINE e == Head(timer_list).timeout_tick
<1>2. e \in Tick
  BY <1>1 DEF Timer
<1>3. AheadAt(Head(timer_list), rt_tick) < HalfTick
  BY <1>1 DEF KInv, TimesOK
<1>4. AheadAt(Head(timer_list), rt_tick) = IF e >= rt_tick THEN e - rt_tick ELSE e - rt_tick + TickMod
  BY <1>1, <1>2, TickDifference DEF AheadAt
<1>5. Expired <=> (IF rt_tick >= e THEN rt_tick - e ELSE rt_tick - e + TickMod) < HalfTick
  BY <1>1, <1>2, TickDifference DEF Expired
<1> HIDE DEF e
<1>6. /\ Expired <=> AheadAt(Head(timer_list), rt_tick) = 0
      /\ Expired => e = rt_tick
  BY <1>1, <1>2, <1>3, <1>4, <1>5, HalfTurn, KernelAssumption DEF Tick
<1> QED
  BY <1>6 DEF e

(* A sleeping thread is woken. *)
LEMMA ExpiryStep ==
  ASSUME KInv, TimerExpires
  PROVE  KInv' /\ Survive
<1> DEFINE t == Head(timer_list).thread
           s == rt_schedule_insert_thread(sched, t)
<1>1. /\ in_tick /\ Expired /\ timer_list' = Tail(timer_list) /\ timer_list # <<>>
      /\ suspend_thread' = [m \in Sems |-> Without(suspend_thread[m], t)]
      /\ sched' = rt_schedule(s)
      /\ UNCHANGED <<remaining_tick, rt_tick, value, due, in_tick, in_serial, defunct>>
  BY DEF TimerExpires, Expired
<1>2. /\ timer_list \in Seq(Timer) /\ OneEach(timer_list) /\ rt_tick \in Tick
      /\ Sorted(timer_list, rt_tick)
  BY DEF KInv, WaitsOK, TimesOK
<1>3. /\ Head(timer_list) = timer_list[1] /\ Head(timer_list) \in Timer /\ 1 \in 1 .. Len(timer_list)
      /\ timer_list' \in Seq(Timer) /\ Sorted(timer_list', rt_tick) /\ OneEach(timer_list')
      /\ ThreadsOf(timer_list') = ThreadsOf(timer_list) \ {t}
      /\ \A j \in 1 .. Len(timer_list') : \E i \in 1 .. Len(timer_list) : timer_list'[j] = timer_list[i]
  BY <1>1, <1>2, FirstTimer
<1>4. t \in Threads /\ t \in ThreadsOf(timer_list)
  BY <1>3 DEF Timer, ThreadsOf
<1> HIDE DEF t
<1>5. sched.stat[t] = "suspend" /\ \A m \in Sems : t \notin Elems(suspend_thread[m])
  BY <1>4 DEF KInv, WaitsOK, Waits
<1>6. suspend_thread' = suspend_thread
  <2>1. suspend_thread \in [Sems -> Seq(Threads)] /\ \A m \in Sems : Distinct(suspend_thread[m])
    BY DEF KInv, WaitsOK
  <2>2. \A m \in Sems : Without(suspend_thread[m], t) = suspend_thread[m]
    BY <1>5, <2>1, WithoutList
  <2> QED
    BY <1>1, <2>1, <2>2
<1>7. Schedulable(sched) /\ sched.stat \in [Threads -> Stats] /\ sched.nest \in {0, 1}
  BY SchedFields DEF KInv, CurrentOK, Schedulable
<1>8. /\ Schedulable(s) /\ s.current = sched.current /\ s.nest = sched.nest
      /\ s.stat = [sched.stat EXCEPT ![t] = IF t = sched.current THEN "running" ELSE "ready"]
  BY <1>4, <1>5, <1>7, WakeThread, Zenon
<1> HIDE DEF s
<1>9. /\ s.stat[t] \in {"ready", "running"}
      /\ \A u \in Threads : u # t => s.stat[u] = sched.stat[u]
  BY <1>4, <1>7, <1>8
<1>10. CurrentOK' /\ SameButRunning(s, sched')
  <2>1. CASE sched.nest = 0
    BY <1>1, <1>8, <2>1, CurrentAfterSchedule
  <2>2. CASE sched.nest = 1
    <3>1. sched' = s
      BY <1>1, <1>8, <2>2, ScheduleLocked
    <3>2. sched.stat[sched.current] = "running" /\ sched.current \notin due
      BY <2>2 DEF KInv, CurrentOK
    <3>3. t # sched.current /\ sched.current \in Threads
      BY <1>5, <1>7, <3>2, SchedFields DEF Schedulable
    <3>4. sched'.stat[sched'.current] = "running" /\ sched'.current \notin due' /\ sched'.nest = 1
      <4>1. s.current = sched.current /\ s.nest = sched.nest /\ due' \subseteq due
        BY <1>1, <1>8
      <4>2. s.stat[sched.current] = "running"
        BY <1>9, <3>2, <3>3
      <4> QED
        BY <2>2, <3>1, <3>2, <4>1, <4>2
    <3>5. CurrentOK'
      BY <1>8, <3>1, <3>4 DEF CurrentOK
    <3>6. SameButRunning(s, sched')
      BY <3>1 DEF SameButRunning
    <3> QED
      BY <3>5, <3>6
  <2> QED
    BY <1>7, <2>1, <2>2
<1>11. \A u \in Threads : sched'.stat[u] = "suspend" <=> sched.stat[u] = "suspend" /\ u # t
  BY <1>9, <1>10 DEF SameButRunning
<1>12. WaitsOK'
  <2>1. \A u \in Threads : Waits(u)' <=> Waits(u) /\ u # t
    BY <1>3, <1>5, <1>6 DEF Waits
  <2>2. \A u \in Threads : sched'.stat[u] = "suspend" <=> Waits(u)'
    BY <1>11, <2>1 DEF KInv, WaitsOK
  <2>3. \A m \in Sems : \A u \in Elems(suspend_thread[m]) :
          /\ u \notin ThreadsOf(timer_list')
          /\ \A n \in Sems : u \in Elems(suspend_thread[n]) => n = m
    BY <1>3 DEF KInv, WaitsOK
  <2> QED
    BY <1>3, <1>6, <2>2, <2>3 DEF KInv, WaitsOK
<1>13. CountsOK' /\ RestOK'
  BY <1>1, <1>6 DEF KInv, CountsOK, NoWaiterPassed, RestOK
<1>14. TimesOK'
  BY <1>1, <1>2, <1>3 DEF KInv, TimesOK
<1>15. Survive
  BY <1>9, <1>10 DEF SameButRunning, Survive, Started
<1> QED
  BY <1>10, <1>12, <1>13, <1>14, <1>15 DEF KInv

(* The timer check ends: nothing in the list is due. *)
LEMMA CheckEndsStep ==
  ASSUME KInv, TimerCheckEnds
  PROVE  KInv'
<1>1. /\ in_tick /\ ~Expired /\ in_tick' = FALSE
      /\ UNCHANGED <<sched, remaining_tick, rt_tick, timer_list, value, suspend_thread,
                     due, in_serial, defunct>>
  BY DEF TimerCheckEnds
<1>2. ASSUME NEW i \in 1 .. Len(timer_list)
      PROVE  AheadAt(timer_list[i], rt_tick) > 0
  <2>1. timer_list \in Seq(Timer) /\ rt_tick \in Tick /\ timer_list # <<>>
        /\ Len(timer_list) \in Nat /\ OneEach(timer_list) /\ Sorted(timer_list, rt_tick)
    BY <1>2 DEF KInv, WaitsOK, TimesOK
  <2>2. \A j \in 1 .. Len(timer_list) : AheadAt(timer_list[j], rt_tick) \in Nat
    BY <2>1, TimerEnd
  <2>3. Head(timer_list) = timer_list[1] /\ 1 \in 1 .. Len(timer_list)
    BY <2>1, FirstTimer
  <2>4. AheadAt(timer_list[1], rt_tick) # 0
    BY <1>1, <2>1, <2>3, ExpiredNow
  <2>5. i = 1 \/ AheadAt(timer_list[1], rt_tick) <= AheadAt(timer_list[i], rt_tick)
    BY <2>1, <2>3 DEF Sorted
  <2> QED
    BY <2>2, <2>3, <2>4, <2>5
<1>3. TimesOK'
  BY <1>1, <1>2 DEF KInv, TimesOK
<1>4. CurrentOK' /\ WaitsOK' /\ CountsOK'
  BY <1>1 DEF KInv, CurrentOK, WaitsOK, Waits, CountsOK, NoWaiterPassed
<1>5. RestOK'
  <2>1. in_tick' \in BOOLEAN
    BY <1>1, Zenon
  <2> QED
    BY <1>1, <2>1 DEF KInv, RestOK
<1> QED
  BY <1>3, <1>4, <1>5 DEF KInv

(* A receive interrupt releases a semaphore. *)
LEMMA ReleaseStep ==
  ASSUME KInv, NEW m \in Sems, rt_sem_release_isr(m)
  PROVE  KInv' /\ Survive
<1>1. ~in_tick /\ ~in_serial /\ UNCHANGED <<remaining_tick, rt_tick, due, in_tick, defunct>>
  BY DEF rt_sem_release_isr
<1>2. value \in [Sems -> Nat] /\ suspend_thread \in [Sems -> Seq(Threads)]
  BY DEF KInv, CountsOK, WaitsOK
<1>3. CASE suspend_thread[m] = <<>>
  <2>1. value' = [value EXCEPT ![m] = @ + 1]
        /\ UNCHANGED <<sched, suspend_thread, timer_list, in_serial>>
    BY <1>3 DEF rt_sem_release_isr
  <2>2. CountsOK'
    BY <1>2, <1>3, <2>1 DEF KInv, CountsOK, NoWaiterPassed
  <2>3. CurrentOK' /\ WaitsOK' /\ TimesOK' /\ RestOK'
    BY <1>1, <2>1 DEF KInv, CurrentOK, WaitsOK, Waits, TimesOK, RestOK
  <2>4. Survive
    BY <2>1 DEF Survive, Started
  <2> QED
    BY <2>2, <2>3, <2>4 DEF KInv
<1>4. CASE suspend_thread[m] # <<>>
  <2> DEFINE t == Head(suspend_thread[m])
             q == Tail(suspend_thread[m])
  <2>1. /\ sched' = rt_schedule_insert_thread(sched, t) /\ in_serial' = TRUE /\ value' = value
        /\ suspend_thread' = [suspend_thread EXCEPT ![m] = q]
        /\ timer_list' = rt_timer_stop(t)
    BY <1>4 DEF rt_sem_release_isr
  <2>2. suspend_thread[m] \in Seq(Threads) /\ Distinct(suspend_thread[m])
    BY <1>2 DEF KInv, WaitsOK
  <2>3. /\ t \in Elems(suspend_thread[m]) /\ t \in Threads /\ q \in Seq(Threads) /\ Distinct(q)
        /\ Elems(q) = Elems(suspend_thread[m]) \ {t}
    BY <1>4, <2>2, HeadList, Zenon
  <2> HIDE DEF t, q
  <2>4. /\ sched.stat[t] = "suspend" /\ t \notin ThreadsOf(timer_list)
        /\ \A n \in Sems : t \in Elems(suspend_thread[n]) => n = m
    BY <2>3 DEF KInv, WaitsOK, Waits
  <2>5. timer_list' = timer_list
    BY <2>1, <2>4 DEF rt_timer_stop, Sleepers, ThreadsOf
  <2>6. Schedulable(sched) /\ sched.stat \in [Threads -> Stats] /\ sched.nest \in {0, 1}
        /\ sched.current \in Threads
    BY SchedFields DEF KInv, CurrentOK, Schedulable
  <2>7. /\ Schedulable(sched') /\ sched'.current = sched.current /\ sched'.nest = sched.nest
        /\ sched'.stat = [sched.stat EXCEPT ![t] = IF t = sched.current THEN "running" ELSE "ready"]
    BY <2>1, <2>3, <2>4, <2>6, WakeThread
  <2>8. /\ sched'.stat[t] = IF t = sched.current THEN "running" ELSE "ready"
        /\ \A u \in Threads : u # t => sched'.stat[u] = sched.stat[u]
    BY <2>3, <2>6, <2>7
  <2>9. CurrentOK'
    BY <1>1, <2>1, <2>6, <2>7, <2>8 DEF KInv, CurrentOK
  <2>10. /\ suspend_thread' \in [Sems -> Seq(Threads)] /\ suspend_thread'[m] = q
         /\ \A n \in Sems : n # m => suspend_thread'[n] = suspend_thread[n]
    BY <1>2, <2>1, <2>3
  <2>11. WaitsOK'
    <3>1. \A n \in Sems : Distinct(suspend_thread'[n])
      BY <2>3, <2>10 DEF KInv, WaitsOK
    <3>2. \A n \in Sems : \A u : u \in Elems(suspend_thread'[n]) <=>
                                 u \in Elems(suspend_thread[n]) /\ u # t
      BY <2>3, <2>4, <2>10
    <3>3. \A u \in Threads : Waits(u)' <=> Waits(u) /\ u # t
      BY <2>4, <2>5, <3>2 DEF Waits
    <3>4. \A u \in Threads : sched'.stat[u] = "suspend" <=> Waits(u)'
      BY <2>8, <3>3 DEF KInv, WaitsOK
    <3>5. \A n \in Sems : \A u \in Elems(suspend_thread'[n]) :
            /\ u \notin ThreadsOf(timer_list)
            /\ \A o \in Sems : u \in Elems(suspend_thread'[o]) => o = n
      BY <3>2 DEF KInv, WaitsOK
    <3> QED
      BY <2>5, <2>10, <3>1, <3>4, <3>5 DEF KInv, WaitsOK
  <2>12. CountsOK'
    BY <1>4, <2>1, <2>10 DEF KInv, CountsOK, NoWaiterPassed
  <2>13. TimesOK'
    BY <1>1, <2>5 DEF KInv, TimesOK
  <2>14. RestOK'
    <3>1. in_serial' \in BOOLEAN
      BY <2>1, Zenon
    <3> QED
      BY <1>1, <3>1 DEF KInv, RestOK
  <2>15. Survive
    BY <2>8 DEF Survive, Started
  <2> QED
    BY <2>9, <2>11, <2>12, <2>13, <2>14, <2>15 DEF KInv
<1> QED
  BY <1>3, <1>4

-----------------------------------------------------------------------------
(* Every step of the threads and of the interrupts preserves it. *)
LEMMA KNextInv ==
  ASSUME KInv, [KNext]_kvars
  PROVE  KInv'
<1>1. CASE UNCHANGED kvars
  BY <1>1 DEF kvars, KInv, CurrentOK, WaitsOK, Waits, CountsOK, NoWaiterPassed, TimesOK, RestOK
<1>2. ASSUME NEW t \in Threads, ThreadCalls(t)
      PROVE  KInv'
  <2>1. CASE sched.nest = 0 /\ t # Idle /\ \E d \in Delays : rt_thread_sleep(t, d)
    BY <2>1, SleepStep
  <2>2. CASE sched.nest = 0 /\ t # Idle /\ \E m \in Sems : rt_sem_take(t, m)
    BY <2>2, TakeStep
  <2>3. CASE sched.nest = 0 /\ t # Idle /\ rt_thread_exit(t)
    BY <2>3, ExitStep
  <2>4. CASE sched.nest = 0 /\ \E new \in Threads : rt_thread_startup(t, new)
    BY <2>4, StartupStep
  <2>5. CASE sched.nest = 0 /\ rt_enter_critical(t)
    BY <2>5, EnterStep
  <2>6. CASE sched.nest = 1 /\ rt_exit_critical(t)
    BY <2>6, LeaveStep
  <2>7. CASE CallSchedule(t)
    BY <2>7, ScheduleStep
  <2> QED
    BY <1>2, <2>1, <2>2, <2>3, <2>4, <2>5, <2>6, <2>7, Zenon DEF ThreadCalls
<1>3. CASE rt_thread_idle_excute
  BY <1>3, IdleStep
<1>4. CASE Interrupts
  <2>1. CASE \E m \in Sems : rt_sem_release_isr(m)
    BY <2>1, ReleaseStep
  <2> QED
    BY <1>4, <2>1, TickStep, ExpiryStep, CheckEndsStep, ScheduleStep DEF Interrupts
<1> QED
  BY <1>1, <1>2, <1>3, <1>4 DEF KNext

(* The invariant holds in every state. *)
THEOREM KernelInvariant == KSpec => []KInv
<1>1. KInit => KInv
  BY KInitInv
<1>2. KInv /\ [KNext]_kvars => KInv'
  BY KNextInv
<1> QED
  BY <1>1, <1>2, PTL DEF KSpec

(* What the invariant says of the properties. *)
LEMMA KInvImplies ==
  ASSUME KInv
  PROVE  KTypeOK /\ NoThreadLost /\ HighestRuns /\ NoWaiterPassed /\ OnTime
<1>1. sched \in SchedType /\ Lists(sched) /\ Schedulable(sched)
  BY DEF KInv, CurrentOK, Schedulable
<1>2. KTypeOK
  BY <1>1 DEF KInv, WaitsOK, CountsOK, TimesOK, RestOK, KTypeOK, SchedType, Stats, Timer, Tick
<1>3. Sleepers = ThreadsOf(timer_list)
  BY DEF Sleepers, ThreadsOf
<1>4. NoThreadLost
  BY <1>1, <1>3 DEF KInv, WaitsOK, Waits, Schedulable, Lists, ListOf, OneEach, NoThreadLost
<1>5. HighestRuns
  <2> SUFFICES ASSUME Executes(sched.current), sched.nest = 0
               PROVE  /\ sched.stat[sched.current] = "running"
                      /\ \A t \in Threads : sched.stat[t] = "ready" => Prio[sched.current] <= Prio[t]
    BY DEF HighestRuns
  <2>1. sched.stat[sched.current] = "running" /\ \A p \in sched.group : Prio[sched.current] <= p
    BY DEF KInv, CurrentOK, Executes
  <2>2. ASSUME NEW t \in Threads, sched.stat[t] = "ready" PROVE Prio[t] \in sched.group
    <3>1. Prio[t] \in Priorities /\ t \in ListOf(sched, Prio[t])
      BY <1>1, <2>2, SchedFields DEF ListOf
    <3>2. t \in Elems(sched.ready[Prio[t]])
      BY <1>1, <3>1 DEF Lists
    <3>3. sched.ready[Prio[t]] # <<>>
      BY <3>2 DEF Elems
    <3> QED
      BY <1>1, <3>1, <3>3 DEF Lists
  <2> QED
    BY <2>1, <2>2
<1>6. OnTime
  BY DEF KInv, TimesOK, Sorted, AheadAt, OnTime, Ahead
<1> QED
  BY <1>2, <1>4, <1>5, <1>6 DEF KInv, CountsOK

(* Stopping a timer that does not run. *)
LEMMA StopNothing ==
  ASSUME NEW t, t \notin ThreadsOf(timer_list)
  PROVE  rt_timer_stop(t) = timer_list
BY DEF rt_timer_stop, Sleepers, ThreadsOf

(* No timer leaves the list before its end. *)
LEMMA WokenInTime ==
  ASSUME KInv, [KNext]_kvars, NEW t \in Sleepers, t \notin Sleepers'
  PROVE  \E i \in 1 .. Len(timer_list) : timer_list[i] = [thread |-> t, timeout_tick |-> rt_tick]
<1>1. Sleepers = ThreadsOf(timer_list) /\ Sleepers' = ThreadsOf(timer_list')
  BY DEF Sleepers, ThreadsOf
<1>2. timer_list' # timer_list
  BY <1>1
<1>3. ASSUME NEW u \in Threads, ThreadCalls(u)
      PROVE  FALSE
  <2>1. ASSUME NEW d \in Delays, rt_thread_sleep(u, d)
        PROVE  FALSE
    <3>1. ThreadsOf(timer_list') = ThreadsOf(timer_list) \cup {u}
      BY <2>1, SleepTimers
    <3> QED
      BY <1>1, <3>1
  <2>2. CASE rt_thread_exit(u)
    <3>1. Executes(u) /\ timer_list' = rt_timer_stop(u)
      BY <2>2 DEF rt_thread_exit
    <3>2. u \notin ThreadsOf(timer_list)
      BY <3>1, ExecutesRunning, RunningWaitsNot DEF KInv
    <3> QED
      BY <1>2, <3>1, <3>2, StopNothing
  <2> QED
    BY <1>2, <1>3, <2>1, <2>2
    DEF ThreadCalls, rt_sem_take, rt_thread_startup, rt_enter_critical, rt_exit_critical, CallSchedule
<1>4. ASSUME NEW m \in Sems, rt_sem_release_isr(m)
      PROVE  FALSE
  <2>1. suspend_thread[m] # <<>> /\ timer_list' = rt_timer_stop(Head(suspend_thread[m]))
    BY <1>2, <1>4 DEF rt_sem_release_isr
  <2>2. suspend_thread[m] \in Seq(Threads) /\ Distinct(suspend_thread[m])
    BY DEF KInv, WaitsOK
  <2>3. Head(suspend_thread[m]) \in Elems(suspend_thread[m])
    BY <2>1, <2>2, HeadList, Zenon
  <2>4. Head(suspend_thread[m]) \notin ThreadsOf(timer_list)
    BY <2>3 DEF KInv, WaitsOK
  <2> QED
    BY <1>2, <2>1, <2>4, StopNothing
<1>5. TimerExpires
  BY <1>2, <1>3, <1>4
  DEF KNext, kvars, Interrupts, rt_thread_idle_excute, rt_tick_increase, TimerCheckEnds, SerialSchedule
<1>6. Expired /\ timer_list # <<>> /\ timer_list' = Tail(timer_list)
  BY <1>5 DEF TimerExpires, Expired
<1>7. /\ Head(timer_list) = timer_list[1] /\ Head(timer_list) \in Timer /\ 1 \in 1 .. Len(timer_list)
      /\ ThreadsOf(timer_list') = ThreadsOf(timer_list) \ {Head(timer_list).thread}
  BY <1>6, FirstTimer DEF KInv, WaitsOK, TimesOK
<1>8. Head(timer_list).timeout_tick = rt_tick
  BY <1>6, ExpiredNow
<1>9. Head(timer_list).thread = t
  BY <1>1, <1>7
<1>10. Head(timer_list) = [thread |-> t, timeout_tick |-> rt_tick]
  BY <1>7, <1>8, <1>9 DEF Timer
<1> QED
  BY <1>7, <1>10

(* The kernel's state is well typed. *)
THEOREM KernelTypeCorrect == KSpec => []KTypeOK
<1>1. KInv => KTypeOK
  BY KInvImplies
<1> QED
  BY <1>1, KernelInvariant, PTL

(* Every thread is exactly where its state says, and every suspended one   *)
(* has an event that wakes it, whatever the threads call and whenever the  *)
(* interrupts strike.                                                      *)
THEOREM KernelNoThreadLost == KSpec => []NoThreadLost
<1>1. KInv => NoThreadLost
  BY KInvImplies
<1> QED
  BY <1>1, KernelInvariant, PTL

(* No thread executes while one of a higher priority is ready. *)
THEOREM KernelHighestRuns == KSpec => []HighestRuns
<1>1. KInv => HighestRuns
  BY KInvImplies
<1> QED
  BY <1>1, KernelInvariant, PTL

(* No release of a semaphore passes a thread that waits for it. *)
THEOREM KernelNoWaiterPassed == KSpec => []NoWaiterPassed
<1>1. KInv => NoWaiterPassed
  BY KInvImplies
<1> QED
  BY <1>1, KernelInvariant, PTL

(* No timer is overdue, for every width of the tick counter. *)
THEOREM KernelOnTime == KSpec => []OnTime
<1>1. KInv => OnTime
  BY KInvImplies
<1> QED
  BY <1>1, KernelInvariant, PTL

(* No thread is woken before the tick it asked for. *)
THEOREM KernelNeverEarly == KSpec => NeverEarly
<1>1. KInv /\ [KNext]_kvars =>
        [\A t \in Sleepers : t \notin Sleepers' =>
           \E i \in 1 .. Len(timer_list) : timer_list[i] = [thread |-> t, timeout_tick |-> rt_tick]]_kvars
  BY WokenInTime
<1> QED
  BY <1>1, KernelInvariant, PTL DEF KSpec, NeverEarly

-----------------------------------------------------------------------------
(* Start-up is an instance of the most general threads. *)

(* No operation of the scheduler but the two of the lock touches the lock. *)
LEMMA NestOfInsert ==
  ASSUME NEW s, "nest" \in DOMAIN s, "current" \in DOMAIN s, NEW t
  PROVE  LET r == rt_schedule_insert_thread(s, t)
         IN  DOMAIN r = DOMAIN s /\ r.nest = s.nest /\ r.current = s.current
BY DEF rt_schedule_insert_thread

(* nor does taking a thread off a ready list, *)
LEMMA NestOfRemove ==
  ASSUME NEW s, "nest" \in DOMAIN s, NEW t
  PROVE  LET r == rt_schedule_remove_thread(s, t)
         IN  DOMAIN r = DOMAIN s /\ r.nest = s.nest
BY DEF rt_schedule_remove_thread

(* nor does a choice of the scheduler. *)
LEMMA NestOfSchedule ==
  ASSUME NEW s, "nest" \in DOMAIN s, "current" \in DOMAIN s
  PROVE  rt_schedule(s).nest = s.nest /\ (s.nest = 1 => rt_schedule(s) = s)
<1> DEFINE to == Head(s.ready[Highest(s)])
           from == s.current
           running == s.stat[from] = "running"
           moved == [s EXCEPT !.current = to, !.yield[from] = IF running THEN FALSE ELSE @]
           queued == IF running THEN rt_schedule_insert_thread(moved, from) ELSE moved
           left == rt_schedule_remove_thread(queued, to)
           r == [left EXCEPT !.stat[to] = "running"]
<1>1. DOMAIN moved = DOMAIN s /\ moved.nest = s.nest
  OBVIOUS
<1> HIDE DEF moved
<1>2. DOMAIN queued = DOMAIN s /\ queued.nest = s.nest
  BY <1>1, NestOfInsert
<1> HIDE DEF queued
<1>3. DOMAIN left = DOMAIN s /\ left.nest = s.nest
  BY <1>2, NestOfRemove
<1> HIDE DEF left
<1>4. r.nest = s.nest
  BY <1>3
<1>5. SwitchTo(s, to) = r
  BY DEF SwitchTo, r, left, queued, moved
<1>6. rt_schedule_remove_thread(s, s.current).nest = s.nest
  BY NestOfRemove
<1> HIDE DEF r, to
<1>7. rt_schedule(s) \in {s, rt_schedule_remove_thread(s, s.current), SwitchTo(s, to)}
  BY DEF rt_schedule, to
<1>8. s.nest = 1 => rt_schedule(s) = s
  BY ScheduleLocked
<1> QED
  BY <1>4, <1>5, <1>6, <1>7, <1>8

(* Only main locks the scheduler, in wdt_sample's rt_device_find: at the   *)
(* fifth of its calls, and nowhere else.                                   *)
NestOK ==
  /\ pc \in [{Main, Manager, Receiver} -> Nat \cup {"body", "feed", "assert", "read", "take"}]
  /\ pc[Main] \in 1 .. 9
  /\ sched.nest = 1 <=> pc[Main] = 5
  /\ sched.nest = 1 => sched.current = Main

(* Where main is tells which of its calls it makes. *)
LEMMA MainCallAt ==
  ASSUME pc[Main] \in 1 .. 9
  PROVE  /\ MainAt("energy") => pc[Main] = 1
         /\ MainAt("raspberry") => pc[Main] = 2
         /\ MainAt("manager") => pc[Main] = 3
         /\ MainAt("find") => pc[Main] = 4
         /\ MainAt("found") => pc[Main] = 5
         /\ MainAt("handle") => pc[Main] = 6
         /\ MainAt("start") => pc[Main] = 7
         /\ MainAt("exit") => pc[Main] = 8
<1>1. /\ Len(MainCalls) = 8
      /\ MainCalls[1] = "energy" /\ MainCalls[2] = "raspberry" /\ MainCalls[3] = "manager"
      /\ MainCalls[4] = "find" /\ MainCalls[5] = "found" /\ MainCalls[6] = "handle"
      /\ MainCalls[7] = "start" /\ MainCalls[8] = "exit"
  BY DEF MainCalls
<1>2. pc[Main] \in {1, 2, 3, 4, 5, 6, 7, 8, 9}
  OBVIOUS
<1> HIDE DEF MainCalls
<1> QED
  BY <1>1, <1>2 DEF MainAt

(* A call of main moves only its own place, one ahead. *)
LEMMA MainMoves ==
  ASSUME NestOK, NEW call, MainAt(call)
  PROVE  /\ pc' \in [{Main, Manager, Receiver} -> Nat \cup {"body", "feed", "assert", "read", "take"}]
         /\ pc'[Main] = pc[Main] + 1 /\ pc[Main] \in 1 .. 8 /\ pc'[Main] \in 1 .. 9
<1>1. pc[Main] \in 1 .. 8
  BY DEF NestOK, MainAt, MainCalls
<1> QED
  BY <1>1, BootAssumption DEF NestOK, MainAt

(* The other threads leave main where it is. *)
LEMMA OthersMove ==
  ASSUME NestOK, NEW t \in {Manager, Receiver},
         NEW at \in {"body", "feed", "assert", "read", "take"}, pc' = [pc EXCEPT ![t] = at]
  PROVE  /\ pc' \in [{Main, Manager, Receiver} -> Nat \cup {"body", "feed", "assert", "read", "take"}]
         /\ pc'[Main] = pc[Main]
BY BootAssumption, KernelAssumption DEF NestOK

(* The lock's count and the current thread are part of the state. *)
LEMMA SchedHas ==
  ASSUME KInv
  PROVE  "nest" \in DOMAIN sched /\ "current" \in DOMAIN sched /\ sched.nest \in {0, 1}
BY DEF KInv, CurrentOK, Schedulable, SchedType

(* A step of main is one of the kernel's calls or leaves the kernel alone. *)
LEMMA MainStep ==
  ASSUME KInv, NestOK, main
  PROVE  (KNext \/ UNCHANGED kvars) /\ NestOK'
<1>0. /\ "nest" \in DOMAIN sched /\ "current" \in DOMAIN sched /\ sched.nest \in {0, 1}
      /\ pc[Main] \in 1 .. 9 /\ (sched.nest = 1 <=> pc[Main] = 5)
      /\ Main \in Threads /\ Main # Idle /\ {Energy, Receiver, Manager} \subseteq Threads
  BY SchedHas, BootAssumption, KernelAssumption DEF NestOK
<1>1. ASSUME NEW call, NEW new \in {Energy, Receiver, Manager}, Starts(call, new),
             pc[Main] \in 1 .. 3
      PROVE  KNext /\ NestOK'
  <2>1. rt_thread_startup(Main, new) /\ MainAt(call)
    BY <1>1 DEF Starts
  <2>2. KNext
    BY <1>0, <1>1, <2>1 DEF KNext, ThreadCalls
  <2>3. sched'.nest = sched.nest
    BY <1>0, <2>1, NestOfInsert DEF rt_thread_startup
  <2> QED
    BY <1>0, <1>1, <2>1, <2>2, <2>3, MainMoves DEF NestOK
<1>2. CASE FindDevice
  <2>1. rt_enter_critical(Main) /\ MainAt("find") /\ pc[Main] = 4
    BY <1>0, <1>2, MainCallAt DEF FindDevice
  <2>2. KNext
    BY <1>0, <2>1 DEF KNext, ThreadCalls
  <2>3. sched'.nest = 1 /\ sched'.current = Main
    BY <1>0, <2>1 DEF rt_enter_critical, Executes
  <2> QED
    BY <1>0, <2>1, <2>2, <2>3, MainMoves DEF NestOK
<1>3. CASE DeviceFound
  <2>1. rt_exit_critical(Main) /\ MainAt("found") /\ pc[Main] = 5
    BY <1>0, <1>3, MainCallAt DEF DeviceFound
  <2>2. KNext
    BY <1>0, <2>1 DEF KNext, ThreadCalls
  <2>3. sched'.nest = 0
    BY <1>0, <2>1 DEF rt_exit_critical
  <2> QED
    BY <1>0, <2>1, <2>2, <2>3, MainMoves DEF NestOK
<1>4. CASE StoreHandle \/ StartDog
  <2>1. PICK call \in {"handle", "start"} : MainAt(call) /\ pc[Main] \in {6, 7} /\ UNCHANGED kvars
    BY <1>0, <1>4, MainCallAt DEF StoreHandle, StartDog
  <2> QED
    BY <1>0, <2>1, MainMoves DEF NestOK, kvars
<1>5. CASE MainReturns
  <2>1. rt_thread_exit(Main) /\ MainAt("exit") /\ pc[Main] = 8
    BY <1>0, <1>5, MainCallAt DEF MainReturns
  <2>2. KNext
    BY <1>0, <2>1 DEF KNext, ThreadCalls
  <2>3. sched'.nest = 0
    <3> DEFINE left == rt_schedule_remove_thread(sched, Main)
               s == [left EXCEPT !.stat[Main] = "close", !.yield[Main] = FALSE]
    <3>1. DOMAIN left = DOMAIN sched /\ left.nest = 0
      BY <1>0, <2>1, NestOfRemove
    <3> HIDE DEF left
    <3>2. DOMAIN s = DOMAIN sched /\ s.nest = 0
      BY <1>0, <3>1
    <3>3. sched' = rt_schedule(s)
      BY <2>1 DEF rt_thread_exit, s, left
    <3> HIDE DEF s
    <3> QED
      BY <1>0, <3>2, <3>3, NestOfSchedule
  <2> QED
    BY <1>0, <2>1, <2>2, <2>3, MainMoves DEF NestOK
<1>6. CASE thread_energy \/ thread_raspberry \/ thread_manager
  <2>1. CASE thread_energy
    BY <1>0, <1>1, <2>1, MainCallAt DEF thread_energy, Starts
  <2>2. CASE thread_raspberry
    BY <1>0, <1>1, <2>2, MainCallAt DEF thread_raspberry, Starts
  <2>3. CASE thread_manager
    BY <1>0, <1>1, <2>3, MainCallAt DEF thread_manager, Starts
  <2> QED
    BY <1>6, <2>1, <2>2, <2>3
<1> QED
  BY <1>2, <1>3, <1>4, <1>5, <1>6 DEF main

(* While another thread than main executes, the scheduler is not locked:   *)
(* its sleep or wait is one of the kernel's calls.                         *)
LEMMA OtherStep ==
  ASSUME KInv, NestOK,
         check_dump_energy \/ ManagerTurn \/ feed_dog \/ ReadByte \/ TakeSem
  PROVE  (KNext \/ UNCHANGED kvars) /\ NestOK'
<1>0. /\ "nest" \in DOMAIN sched /\ "current" \in DOMAIN sched /\ sched.nest \in {0, 1}
      /\ (sched.nest = 1 <=> pc[Main] = 5) /\ (sched.nest = 1 => sched.current = Main)
      /\ {Energy, Receiver, Manager} \subseteq Threads \ {Main, Idle} /\ Rx \in Sems
      /\ Delay[Energy] \in Delays /\ Delay[Manager] \in Delays
  BY SchedHas, BootAssumption, KernelAssumption DEF NestOK
<1>1. ASSUME NEW t \in {Energy, Receiver, Manager}, Executes(t)
      PROVE  /\ sched.nest = 0
             /\ Suspend(sched, t).nest = 0
  <2>1. sched.nest = 0
    BY <1>0, <1>1 DEF Executes
  <2> DEFINE left == rt_schedule_remove_thread(sched, t)
  <2>2. DOMAIN left = DOMAIN sched /\ left.nest = 0
    BY <1>0, <2>1, NestOfRemove
  <2>3. Suspend(sched, t) = [left EXCEPT !.stat[t] = "suspend"]
    BY DEF Suspend
  <2> HIDE DEF left
  <2> QED
    BY <1>0, <2>1, <2>2, <2>3
<1>2. CASE check_dump_energy
  <2>1. rt_thread_sleep(Energy, Delay[Energy]) /\ UNCHANGED pc
    BY <1>2 DEF check_dump_energy
  <2>2. Executes(Energy) /\ sched' = Suspend(sched, Energy)
    BY <2>1 DEF rt_thread_sleep
  <2>3. sched.nest = 0 /\ sched'.nest = 0
    BY <1>1, <2>2
  <2>4. KNext
    BY <1>0, <2>1, <2>3 DEF KNext, ThreadCalls
  <2> QED
    BY <1>0, <2>1, <2>3, <2>4 DEF NestOK
<1>3. CASE ManagerTurn
  <2>1. rt_thread_sleep(Manager, Delay[Manager]) /\ pc' = [pc EXCEPT ![Manager] = "feed"]
    BY <1>3 DEF ManagerTurn
  <2>2. Executes(Manager) /\ sched' = Suspend(sched, Manager)
    BY <2>1 DEF rt_thread_sleep
  <2>3. sched.nest = 0 /\ sched'.nest = 0
    BY <1>1, <2>2
  <2>4. KNext
    BY <1>0, <2>1, <2>3 DEF KNext, ThreadCalls
  <2> QED
    BY <1>0, <2>1, <2>3, <2>4, OthersMove DEF NestOK
<1>4. CASE feed_dog
  <2>1. PICK at \in {"body", "assert"} : pc' = [pc EXCEPT ![Manager] = at]
    BY <1>4 DEF feed_dog
  <2>2. UNCHANGED kvars
    BY <1>4 DEF feed_dog
  <2> QED
    BY <1>0, <2>1, <2>2, OthersMove DEF NestOK, kvars
<1>5. CASE ReadByte
  <2>1. UNCHANGED kvars /\ (UNCHANGED pc \/ pc' = [pc EXCEPT ![Receiver] = "take"])
    BY <1>5 DEF ReadByte
  <2> QED
    BY <1>0, <2>1, OthersMove DEF NestOK, kvars
<1>6. CASE TakeSem
  <2>1. rt_sem_take(Receiver, Rx) /\ pc' = [pc EXCEPT ![Receiver] = "read"]
    BY <1>6 DEF TakeSem
  <2>2. Executes(Receiver) /\ (sched' = sched \/ sched' = Suspend(sched, Receiver))
    BY <2>1 DEF rt_sem_take
  <2>3. sched.nest = 0 /\ sched'.nest = 0
    BY <1>1, <2>2
  <2>4. KNext
    BY <1>0, <2>1, <2>3 DEF KNext, ThreadCalls
  <2> QED
    BY <1>0, <2>1, <2>3, <2>4, OthersMove DEF NestOK
<1> QED
  BY <1>2, <1>3, <1>4, <1>5, <1>6

(* The interrupts, the returns from a service and the idle thread leave    *)
(* main where it is, and the scheduler locked or not as it was.            *)
LEMMA RestStep ==
  ASSUME KInv, NestOK,
         Returns \/ Reaps \/ rx_jz_callback \/ SysTick_Handler \/ HandlersGoOn
  PROVE  KNext /\ NestOK'
<1>0. /\ "nest" \in DOMAIN sched /\ "current" \in DOMAIN sched /\ Rx \in Sems
  BY SchedHas, BootAssumption
<1>1. UNCHANGED pc
  BY DEF Returns, Reaps, rx_jz_callback, SysTick_Handler, HandlersGoOn, bvars
<1>2. ASSUME NEW s, DOMAIN s = DOMAIN sched, s.nest = sched.nest, s.current = sched.current,
             sched' = rt_schedule(s) \/ sched' = s
      PROVE  NestOK'
  <2>1. sched'.nest = sched.nest /\ (sched.nest = 1 => sched'.current = sched.current)
    BY <1>0, <1>2, NestOfSchedule
  <2> QED
    BY <1>1, <2>1 DEF NestOK
<1>3. ASSUME NEW t, sched' = rt_schedule_insert_thread(sched, t)
             \/ sched' = rt_schedule(rt_schedule_insert_thread(sched, t))
      PROVE  NestOK'
  <2> DEFINE s == rt_schedule_insert_thread(sched, t)
  <2>1. DOMAIN s = DOMAIN sched /\ s.nest = sched.nest /\ s.current = sched.current
    BY <1>0, NestOfInsert
  <2>2. sched' = s \/ sched' = rt_schedule(s)
    BY <1>3
  <2> HIDE DEF s
  <2> QED
    BY <1>2, <2>1, <2>2
<1>4. CASE Returns
  <2>1. PICK t \in Threads : CallSchedule(t)
    BY <1>4 DEF Returns
  <2> QED
    BY <1>2, <2>1 DEF CallSchedule, KNext, ThreadCalls
<1>5. CASE Reaps
  BY <1>2, <1>5 DEF Reaps, rt_thread_idle_excute, KNext
<1>6. CASE rx_jz_callback
  <2>1. rt_sem_release_isr(Rx)
    BY <1>6 DEF rx_jz_callback
  <2>2. sched' = sched \/ sched' = rt_schedule_insert_thread(sched, Head(suspend_thread[Rx]))
    BY <2>1 DEF rt_sem_release_isr
  <2> QED
    BY <1>0, <1>2, <1>3, <2>1, <2>2 DEF KNext, Interrupts
<1>7. CASE SysTick_Handler
  <2> DEFINE s == [sched EXCEPT !.yield[sched.current] = TRUE]
  <2>1. rt_tick_increase
    BY <1>7 DEF SysTick_Handler
  <2>2. sched' = sched \/ sched' = rt_schedule(s)
    BY <2>1 DEF rt_tick_increase
  <2>3. DOMAIN s = DOMAIN sched /\ s.nest = sched.nest /\ s.current = sched.current
    BY <1>0
  <2>4. KNext
    BY <2>1 DEF KNext, Interrupts
  <2> HIDE DEF s
  <2> QED
    BY <1>2, <2>2, <2>3, <2>4
<1>8. CASE HandlersGoOn
  <2>1. CASE TimerExpires
    <3>1. sched' = rt_schedule(rt_schedule_insert_thread(sched, Head(timer_list).thread))
      BY <2>1 DEF TimerExpires
    <3> QED
      BY <1>3, <2>1, <3>1 DEF KNext, Interrupts
  <2>2. CASE TimerCheckEnds
    BY <1>2, <2>2 DEF TimerCheckEnds, KNext, Interrupts
  <2>3. CASE SerialSchedule
    BY <1>2, <2>3 DEF SerialSchedule, KNext, Interrupts
  <2> QED
    BY <1>8, <2>1, <2>2, <2>3 DEF HandlersGoOn
<1> QED
  BY <1>4, <1>5, <1>6, <1>7, <1>8

(* The boat's threads use the kernel as the most general threads may: what *)
(* is proved of those holds for them.                                      *)
THEOREM BootImplementsKernel == Spec => KSpec
<1>1. Init => KInit /\ KInv /\ NestOK
  <2> SUFFICES ASSUME Init PROVE KInit /\ KInv /\ NestOK
    OBVIOUS
  <2>1. KInit
    BY DEF Init
  <2>2. KInv
    BY <2>1, KInitInv
  <2>3. sched.nest = 0
    BY <2>1 DEF KInit
  <2>4. pc \in [{Main, Manager, Receiver} -> Nat \cup {"body", "feed", "assert", "read", "take"}]
        /\ pc[Main] = 1
    BY BootAssumption DEF Init
  <2> QED
    BY <2>1, <2>2, <2>3, <2>4 DEF NestOK
<1>2. KInv /\ NestOK /\ [Next]_vars => [KNext]_kvars /\ KInv' /\ NestOK'
  <2> SUFFICES ASSUME KInv, NestOK, [Next]_vars PROVE [KNext]_kvars /\ KInv' /\ NestOK'
    OBVIOUS
  <2>1. CASE Next
    BY <2>1, MainStep, OtherStep, RestStep, KNextInv DEF Next, ThreadStep
  <2>2. CASE UNCHANGED vars
    <3>1. UNCHANGED kvars /\ UNCHANGED pc /\ UNCHANGED sched
      BY <2>2 DEF vars, bvars, kvars
    <3> QED
      BY <3>1, KNextInv DEF NestOK
  <2> QED
    BY <2>1, <2>2
<1> QED
  BY <1>1, <1>2, PTL DEF Spec, KSpec

(* So that during and after start-up no thread is lost, none is passed     *)
(* over, and each wakes in its tick.                                       *)
THEOREM BootKernelSafe ==
  Spec => [](NoThreadLost /\ HighestRuns /\ NoWaiterPassed /\ OnTime) /\ NeverEarly
BY BootImplementsKernel, KernelNoThreadLost, KernelHighestRuns, KernelNoWaiterPassed,
   KernelOnTime, KernelNeverEarly, PTL

(* The part of TypeOK about the start-up's own state. *)
StartTypes ==
  /\ pc[Manager] \in {"body", "feed", "assert"} /\ pc[Receiver] \in {"read", "take"}
  /\ busy \in 0 .. MaxBusy
  /\ rx_bytes \in 0 .. RxMax /\ quiet \in 0 .. RxGap
  /\ wdg_dev \in BOOLEAN /\ is_start \in BOOLEAN /\ dog \in 0 .. DogTicks

(* The start-up's state at first, *)
LEMMA StartInit ==
  ASSUME Init
  PROVE  StartTypes /\ NestOK /\ KInv
<1>1. KInit
  BY DEF Init
<1>2. sched.nest = 0
  BY <1>1 DEF KInit
<1>3. pc \in [{Main, Manager, Receiver} -> Nat \cup {"body", "feed", "assert", "read", "take"}]
      /\ pc[Main] = 1 /\ pc[Manager] = "body" /\ pc[Receiver] = "read"
  BY BootAssumption, KernelAssumption DEF Init
<1>4. NestOK
  BY <1>2, <1>3 DEF NestOK
<1>5. busy = 0 /\ rx_bytes = 0 /\ quiet = RxGap /\ dog = 0
      /\ wdg_dev \in BOOLEAN /\ is_start \in BOOLEAN
  BY DEF Init
<1>6. MaxBusy \in Nat /\ RxMax \in Nat /\ RxGap \in Nat /\ DogTicks \in Nat
  BY BootAssumption
<1>7. StartTypes
  BY <1>3, <1>5, <1>6 DEF StartTypes
<1> QED
  BY <1>1, <1>4, <1>7, KInitInv

(* and after every step. *)
LEMMA StartNext ==
  ASSUME StartTypes, NestOK, [Next]_vars
  PROVE  StartTypes'
<1>0. /\ Main \notin {Manager, Receiver} /\ Manager # Receiver
      /\ MaxBusy \in Nat /\ RxMax \in Nat /\ RxGap \in Nat /\ DogTicks \in Nat
      /\ DOMAIN pc = {Main, Manager, Receiver}
  BY BootAssumption, KernelAssumption DEF NestOK
<1>1. CASE main
  <2>1. PICK call : MainAt(call)
    BY <1>1 DEF main, thread_energy, thread_raspberry, thread_manager, Starts, FindDevice,
                DeviceFound, StoreHandle, StartDog, MainReturns
  <2>2. UNCHANGED <<busy, rx_bytes, quiet>> /\ pc'[Manager] = pc[Manager]
        /\ pc'[Receiver] = pc[Receiver]
    BY <1>0, <2>1 DEF MainAt
  <2>3. CASE StartDog
    <3>1. wdg_dev' = wdg_dev /\ is_start' \in BOOLEAN
      BY <2>3 DEF StartDog
    <3>2. dog' = 0
      BY <2>3 DEF StartDog
    <3> QED
      BY <1>0, <2>2, <3>1, <3>2 DEF StartTypes
  <2>4. CASE ~StartDog
    <3>1. UNCHANGED <<is_start, dog>> /\ wdg_dev' \in BOOLEAN
      BY <1>1, <2>4 DEF main, thread_energy, thread_raspberry, thread_manager, Starts, FindDevice,
                        DeviceFound, StoreHandle, MainReturns, StartTypes
    <3> QED
      BY <2>2, <3>1 DEF StartTypes
  <2> QED
    BY <2>3, <2>4
<1>2. CASE check_dump_energy
  BY <1>2 DEF check_dump_energy, StartTypes
<1>3. CASE ManagerTurn
  BY <1>0, <1>3 DEF ManagerTurn, StartTypes
<1>4. CASE feed_dog
  BY <1>0, <1>4 DEF feed_dog, StartTypes
<1>5. CASE ReadByte
  BY <1>0, <1>5 DEF ReadByte, StartTypes
<1>6. CASE TakeSem
  BY <1>0, <1>6 DEF TakeSem, StartTypes
<1>7. CASE rx_jz_callback
  BY <1>0, <1>7 DEF rx_jz_callback, StartTypes
<1>8. CASE SysTick_Handler
  BY <1>0, <1>8 DEF SysTick_Handler, StartTypes
<1>9. CASE Returns \/ Reaps \/ HandlersGoOn \/ UNCHANGED vars
  BY <1>9 DEF Returns, Reaps, HandlersGoOn, vars, bvars, StartTypes
<1> QED
  BY <1>1, <1>2, <1>3, <1>4, <1>5, <1>6, <1>7, <1>8, <1>9 DEF Next, ThreadStep

(* Every step keeps the kernel's invariant. *)
LEMMA BootNext ==
  ASSUME KInv, NestOK, [Next]_vars
  PROVE  KInv' /\ NestOK'
<1>1. CASE Next
  BY <1>1, MainStep, OtherStep, RestStep, KNextInv DEF Next, ThreadStep
<1>2. CASE UNCHANGED vars
  <2>1. UNCHANGED kvars /\ UNCHANGED pc /\ UNCHANGED sched
    BY <1>2 DEF vars, bvars, kvars
  <2> QED
    BY <2>1, KNextInv DEF NestOK
<1> QED
  BY <1>1, <1>2

(* Start-up keeps the types of its state, and of the kernel's. *)
THEOREM BootTypeCorrect == Spec => []TypeOK
<1>1. Init => StartTypes /\ NestOK /\ KInv
  BY StartInit
<1>2. KInv /\ NestOK /\ [Next]_vars => KInv' /\ NestOK'
  BY BootNext
<1>3. StartTypes /\ NestOK /\ [Next]_vars => StartTypes'
  BY StartNext
<1>4. KInv /\ NestOK /\ StartTypes => TypeOK
  <2>1. Len(MainCalls) + 1 = 9
    BY DEF MainCalls
  <2> QED
    BY <2>1, KInvImplies DEF NestOK, StartTypes, TypeOK
<1> QED
  BY <1>1, <1>2, <1>3, <1>4, PTL DEF Spec

-----------------------------------------------------------------------------
(* The watchdog. *)

(* How long the sleep of the manager still lasts: one number, none while   *)
(* it is awake.                                                            *)
LeftOf(q, now) == {AheadAt(q[i], now) : i \in {j \in 1 .. Len(q) : q[j].thread = Manager}}

Left == LeftOf(timer_list, rt_tick)

(* Main does not wait until it ends, the manager never ends, and the idle  *)
(* thread owes no call of the scheduler.                                   *)
AwakeOK ==
  /\ Idle \notin due
  /\ Elems(suspend_thread[Rx]) \subseteq {Receiver}
  /\ Main \notin ThreadsOf(timer_list)
  /\ pc[Main] <= 8 => Started(Main)
  /\ pc[Main] >= 4 => Started(Manager)

(* Until main has ended, the manager that has come to feed the dog sleeps. *)
FeedOK ==
  /\ pc[Manager] # "assert"
  /\ pc[Manager] = "body" => Left = {}
  /\ pc[Manager] = "feed" /\ Left = {} => pc[Main] = 9
  /\ pc[Main] >= 7 => wdg_dev
  /\ is_start => pc[Main] >= 8

(* What is left of the sleep, against the ticks that have found the        *)
(* processor busy and the age of the last feeding.                         *)
SleepOK ==
  \A a \in Left :
    /\ a <= Delay[Manager]
    /\ pc[Main] <= 8 => a + busy >= Delay[Manager]
    /\ is_start => dog + a <= MaxBusy + Delay[Manager]

(* Awake, the manager waits only as long as the processor is busy. *)
DogOK ==
  is_start /\ Left = {} =>
    dog <= busy + (IF pc[Manager] = "body" THEN 0 ELSE MaxBusy + Delay[Manager])

DogInv == AwakeOK /\ FeedOK /\ SleepOK /\ DogOK

(* The threads and the bounds. *)
LEMMA BootConstants ==
  /\ {Main, Idle, Receiver, Manager, Energy} \subseteq Threads /\ Rx \in Sems /\ Sems = {Rx}
  /\ Main # Idle /\ Main # Manager /\ Main # Receiver /\ Main # Energy
  /\ Manager # Idle /\ Manager # Receiver /\ Manager # Energy /\ Energy # Idle /\ Receiver # Idle
  /\ Delay[Manager] \in Delays /\ Delay[Energy] \in Delays
  /\ Delay[Manager] \in Nat \ {0} /\ MaxBusy \in Nat /\ DogTicks \in Nat
  /\ MaxBusy < Delay[Manager] /\ Delay[Manager] + 2 * MaxBusy < DogTicks
<1>1. Delay[Manager] \in Delays /\ Delay[Energy] \in Delays
  BY BootAssumption
<1>2. Delay[Manager] \in Nat \ {0}
  BY <1>1, KernelAssumption
<1> QED
  BY <1>1, <1>2, BootAssumption, KernelAssumption, LoadAssumption

(* The manager sleeps exactly while its timer runs. *)
LEMMA LeftType ==
  ASSUME NEW q \in Seq(Timer), NEW now \in Tick
  PROVE  /\ LeftOf(q, now) \in SUBSET Nat
         /\ LeftOf(q, now) = {} <=> Manager \notin ThreadsOf(q)
<1>1. \A i \in 1 .. Len(q) : AheadAt(q[i], now) \in Nat
  BY TimerEnd
<1>2. LeftOf(q, now) \in SUBSET Nat
  BY <1>1 DEF LeftOf
<1>3. LeftOf(q, now) = {} <=> Manager \notin ThreadsOf(q)
  BY DEF LeftOf, ThreadsOf
<1> QED
  BY <1>2, <1>3

(* So it is in every state, *)
LEMMA LeftNow ==
  ASSUME KInv
  PROVE  /\ timer_list \in Seq(Timer) /\ rt_tick \in Tick
         /\ Left \in SUBSET Nat /\ (Left = {} <=> Manager \notin ThreadsOf(timer_list))
<1>1. timer_list \in Seq(Timer) /\ rt_tick \in Tick
  BY DEF KInv, WaitsOK, TimesOK
<1> QED
  BY <1>1, LeftType DEF Left

(* and in the next. *)
LEMMA LeftNext ==
  ASSUME KInv'
  PROVE  /\ timer_list' \in Seq(Timer) /\ rt_tick' \in Tick
         /\ Left' \in SUBSET Nat /\ (Left' = {} <=> Manager \notin ThreadsOf(timer_list'))
<1>1. timer_list' \in Seq(Timer) /\ rt_tick' \in Tick
  BY DEF KInv, WaitsOK, TimesOK
<1>2. Left' = LeftOf(timer_list', rt_tick')
  BY DEF Left, LeftOf, AheadAt
<1> QED
  BY <1>1, <1>2, LeftType

(* Another thread's sleep is none of the manager's. *)
LEMMA LeftOtherSleeps ==
  ASSUME KInv, KInv', NEW t \in Threads, t # Manager, NEW d \in Delays, rt_thread_sleep(t, d)
  PROVE  Left' \subseteq Left /\ (Left' = {} <=> Left = {})
<1>1. /\ ThreadsOf(timer_list') = ThreadsOf(timer_list) \cup {t}
      /\ \A j \in 1 .. Len(timer_list') :
           \/ timer_list'[j] = NewTimer(t, d)
           \/ \E i \in 1 .. Len(timer_list) : timer_list'[j] = timer_list[i]
  BY SleepTimers
<1>2. rt_tick' = rt_tick /\ NewTimer(t, d).thread = t
  BY DEF rt_thread_sleep, NewTimer
<1>3. Left' \subseteq Left
  BY <1>1, <1>2 DEF Left, LeftOf, AheadAt
<1> QED
  BY <1>1, <1>3, LeftNow, LeftNext

(* The manager's own sleep lasts as long as it asked for. *)
LEMMA LeftManagerSleeps ==
  ASSUME KInv, KInv', NEW d \in Delays, rt_thread_sleep(Manager, d)
  PROVE  Left = {} /\ Left' = {d}
<1>1. /\ Manager \notin ThreadsOf(timer_list)
      /\ ThreadsOf(timer_list') = ThreadsOf(timer_list) \cup {Manager}
      /\ \A j \in 1 .. Len(timer_list') :
           \/ timer_list'[j] = NewTimer(Manager, d)
           \/ \E i \in 1 .. Len(timer_list) : timer_list'[j] = timer_list[i]
      /\ AheadAt(NewTimer(Manager, d), rt_tick) = d
  BY SleepTimers, BootConstants
<1>2. rt_tick' = rt_tick
  BY DEF rt_thread_sleep
<1>3. \A i \in 1 .. Len(timer_list) : timer_list[i].thread # Manager
  BY <1>1 DEF ThreadsOf
<1>4. \A j \in 1 .. Len(timer_list') : timer_list'[j].thread = Manager => AheadAt(timer_list'[j], rt_tick') = d
  BY <1>1, <1>2, <1>3
<1>5. Left' \subseteq {d}
  BY <1>4 DEF Left, LeftOf, AheadAt
<1> QED
  BY <1>1, <1>5, LeftNow, LeftNext

(* A tick shortens it by one. *)
LEMMA LeftTick ==
  ASSUME KInv, rt_tick_increase
  PROVE  Left' = {a - 1 : a \in Left} /\ 0 \notin Left
<1>1. \A i \in 1 .. Len(timer_list) :
        /\ AheadAt(timer_list[i], rt_tick') = AheadAt(timer_list[i], rt_tick) - 1
        /\ AheadAt(timer_list[i], rt_tick) \in 1 .. HalfTick - 1
  BY TickAhead
<1>2. timer_list' = timer_list
  BY DEF rt_tick_increase
<1> DEFINE I == {j \in 1 .. Len(timer_list) : timer_list[j].thread = Manager}
           f(i) == AheadAt(timer_list[i], rt_tick)
           g(i) == AheadAt(timer_list[i], rt_tick')
<1>3. Left = {f(i) : i \in I} /\ Left' = {g(i) : i \in I}
  BY <1>2 DEF Left, LeftOf, AheadAt
<1>4. \A i \in I : g(i) = f(i) - 1 /\ f(i) # 0
  BY <1>1
<1> HIDE DEF I, f, g
<1> QED
  BY <1>3, <1>4

(* It ends when nothing is left of it. *)
LEMMA LeftExpiry ==
  ASSUME KInv, KInv', TimerExpires
  PROVE  Left' \subseteq Left /\ (Left' = {} => Left = {} \/ 0 \in Left)
<1>1. Expired /\ timer_list # <<>> /\ timer_list' = Tail(timer_list) /\ rt_tick' = rt_tick
  BY DEF TimerExpires, Expired
<1>2. /\ Head(timer_list) = timer_list[1] /\ 1 \in 1 .. Len(timer_list)
      /\ ThreadsOf(timer_list') = ThreadsOf(timer_list) \ {Head(timer_list).thread}
      /\ \A j \in 1 .. Len(timer_list') : \E i \in 1 .. Len(timer_list) : timer_list'[j] = timer_list[i]
  BY <1>1, FirstTimer DEF KInv, WaitsOK, TimesOK
<1>3. Left' \subseteq Left
  BY <1>1, <1>2 DEF Left, LeftOf, AheadAt
<1>4. AheadAt(timer_list[1], rt_tick) = 0
  BY <1>1, <1>2, ExpiredNow
<1>5. CASE Head(timer_list).thread = Manager
  BY <1>2, <1>3, <1>4, <1>5 DEF Left, LeftOf
<1>6. CASE Head(timer_list).thread # Manager
  BY <1>2, <1>3, <1>6, LeftNow, LeftNext
<1> QED
  BY <1>5, <1>6

(* When a tick finds the processor idle, main has ended or the manager     *)
(* sleeps, or is not started yet.                                          *)
LEMMA IdleAlone ==
  ASSUME KInv, NestOK, AwakeOK, sched.current = Idle, ~in_tick, ~in_serial
  PROVE  pc[Main] = 9 /\ (Started(Manager) => Left # {})
<1>1. sched.nest = 0 /\ Executes(sched.current) /\ sched.nest \in {0, 1}
  BY SchedHas, BootConstants DEF NestOK, AwakeOK, Executes
<1>2. ASSUME NEW t \in Threads, t # Idle, Started(t)
      PROVE  Waits(t)
  <2>1. sched.stat[t] # "ready"
    <3>1. Prio[t] < Prio[Idle] /\ Prio[t] \in Nat /\ Prio[Idle] \in Nat
      BY <1>2, KernelAssumption
    <3> QED
      BY <1>1, <3>1, KInvImplies DEF HighestRuns
  <2>2. sched.stat[t] # "running"
    BY <1>2 DEF KInv, CurrentOK, Schedulable
  <2>3. sched.stat[t] \in Stats
    BY SchedFields DEF KInv, CurrentOK, Schedulable
  <2> QED
    BY <1>2, <2>1, <2>2, <2>3 DEF Started, Stats, KInv, WaitsOK
<1>3. ~Waits(Main)
  BY BootConstants DEF Waits, AwakeOK
<1>4. ~(pc[Main] <= 8)
  BY <1>2, <1>3, BootConstants DEF AwakeOK
<1>5. Waits(Manager) => Left # {}
  BY LeftNow, BootConstants DEF Waits, AwakeOK
<1> QED
  BY <1>2, <1>4, <1>5, BootConstants DEF NestOK

(* The step goes by the manager: it neither moves nor wakes. *)
LEMMA ManagerPassed ==
  ASSUME KInv, NestOK, NestOK', StartTypes, DogInv,
         Left' \subseteq Left, Left' = {} <=> Left = {}, UNCHANGED busy,
         pc'[Manager] = pc[Manager], pc'[Main] >= pc[Main], AwakeOK',
         pc'[Main] >= 7 => wdg_dev', is_start' => pc'[Main] >= 8,
         is_start' => (is_start /\ dog' = dog) \/ dog' = 0
  PROVE  DogInv'
<1>1. /\ Left \in SUBSET Nat /\ pc[Main] \in 1 .. 9 /\ pc'[Main] \in 1 .. 9
      /\ busy \in Nat /\ dog \in Nat /\ MaxBusy \in Nat /\ Delay[Manager] \in Nat
  BY LeftNow, BootConstants DEF NestOK, StartTypes
<1>2. FeedOK'
  <2>1. pc'[Manager] = "feed" /\ Left' = {} => pc'[Main] = 9
    BY <1>1 DEF DogInv, FeedOK
  <2> QED
    BY <2>1 DEF DogInv, FeedOK
<1>3. SleepOK'
  BY <1>1 DEF DogInv, SleepOK
<1>4. DogOK'
  BY <1>1 DEF DogInv, DogOK
<1> QED
  BY <1>2, <1>3, <1>4 DEF DogInv

(* A step of which the start-up's state and the timers know nothing. *)
LEMMA KernelPassed ==
  ASSUME KInv, NestOK, NestOK', StartTypes, DogInv, Survive, UNCHANGED <<timer_list, rt_tick>>,
         UNCHANGED <<busy, wdg_dev, is_start, dog>>,
         pc'[Manager] = pc[Manager], pc'[Main] = pc[Main],
         Idle \notin due', Elems(suspend_thread'[Rx]) \subseteq {Receiver}
  PROVE  DogInv'
<1>1. Left' = Left
  BY DEF Left, LeftOf, AheadAt
<1>2. AwakeOK'
  BY BootConstants DEF DogInv, AwakeOK, Survive
<1> QED
  BY <1>1, <1>2, ManagerPassed DEF DogInv, FeedOK, NestOK

(* A step of main. *)
LEMMA MainDog ==
  ASSUME KInv, NestOK, NestOK', StartTypes, DogInv, main
  PROVE  DogInv'
<1>0. /\ Main \in Threads /\ Manager \in Threads /\ Main # Idle /\ Main # Manager
      /\ pc[Main] \in 1 .. 9 /\ sched.nest \in {0, 1} /\ (sched.nest = 1 <=> pc[Main] = 5)
      /\ DOMAIN pc = {Main, Manager, Receiver}
  BY BootConstants, SchedHas DEF NestOK
<1>1. ASSUME NEW call, MainAt(call)
      PROVE  pc'[Main] = pc[Main] + 1 /\ pc'[Manager] = pc[Manager] /\ UNCHANGED busy
  BY <1>0, <1>1, MainMoves DEF MainAt
<1>2. ASSUME NEW call, MainAt(call), UNCHANGED <<timer_list, rt_tick, suspend_thread>>,
             due' \subseteq due \cup {Main},
             pc[Main] <= 7 => Started(Main)', pc[Main] >= 3 => Started(Manager)',
             pc[Main] >= 6 => wdg_dev', is_start' => pc[Main] >= 7,
             is_start' => (is_start /\ dog' = dog) \/ dog' = 0
      PROVE  DogInv'
  <2>1. Left' = Left
    BY <1>2 DEF Left, LeftOf, AheadAt
  <2>2. pc'[Main] = pc[Main] + 1 /\ pc'[Manager] = pc[Manager] /\ UNCHANGED busy
    BY <1>1, <1>2
  <2>3. AwakeOK'
    BY <1>0, <1>2, <2>2 DEF DogInv, AwakeOK
  <2>4. /\ pc'[Main] >= pc[Main] /\ (pc'[Main] >= 7 => wdg_dev')
        /\ (is_start' => pc'[Main] >= 8)
    BY <1>0, <1>2, <2>2
  <2> QED
    BY <1>2, <2>1, <2>2, <2>3, <2>4, ManagerPassed
<1>3. /\ pc[Main] >= 7 => wdg_dev
      /\ is_start => pc[Main] >= 8
      /\ pc[Main] <= 8 => Started(Main)
      /\ pc[Main] >= 4 => Started(Manager)
  BY DEF DogInv, FeedOK, AwakeOK
<1>4. ASSUME NEW call, NEW new \in Threads, Starts(call, new), pc[Main] \in 1 .. 3,
             pc[Main] = 3 => new = Manager
      PROVE  DogInv'
  <2>1. MainAt(call) /\ rt_thread_startup(Main, new) /\ UNCHANGED <<wdg_dev, is_start, dog>>
    BY <1>4 DEF Starts
  <2>2. Survive /\ sched'.stat[new] = "ready"
    BY <1>0, <1>4, <2>1, StartupStep
  <2>3. /\ UNCHANGED <<timer_list, rt_tick, suspend_thread>> /\ due' = due \cup {Main}
    BY <2>1 DEF rt_thread_startup
  <2>4. Started(Main)' /\ (pc[Main] = 3 => Started(Manager)')
    BY <1>0, <1>3, <1>4, <2>2 DEF Survive, Started
  <2> QED
    BY <1>0, <1>2, <1>3, <1>4, <2>1, <2>3, <2>4
<1>5. CASE thread_energy \/ thread_raspberry \/ thread_manager
  <2>1. CASE thread_energy
    BY <1>0, <1>4, <2>1, MainCallAt, BootConstants DEF thread_energy, Starts
  <2>2. CASE thread_raspberry
    BY <1>0, <1>4, <2>2, MainCallAt, BootConstants DEF thread_raspberry, Starts
  <2>3. CASE thread_manager
    BY <1>0, <1>4, <2>3, MainCallAt, BootConstants DEF thread_manager, Starts
  <2> QED
    BY <1>5, <2>1, <2>2, <2>3
<1>6. CASE FindDevice \/ DeviceFound
  <2>1. PICK call \in {"find", "found"} : MainAt(call) /\ pc[Main] \in {4, 5}
    BY <1>0, <1>6, MainCallAt DEF FindDevice, DeviceFound
  <2>2. /\ UNCHANGED <<timer_list, rt_tick, suspend_thread, wdg_dev, is_start, dog>>
        /\ due' \subseteq due \cup {Main}
    BY <1>6 DEF FindDevice, DeviceFound, rt_enter_critical, rt_exit_critical
  <2>3. Survive
    <3>1. CASE FindDevice
      <4>1. rt_enter_critical(Main) /\ sched.nest = 0
        BY <1>0, <3>1, MainCallAt DEF FindDevice
      <4> QED
        BY <1>0, <4>1, EnterStep
    <3>2. CASE DeviceFound
      <4>1. rt_exit_critical(Main) /\ sched.nest = 1
        BY <1>0, <3>2, MainCallAt DEF DeviceFound
      <4> QED
        BY <1>0, <4>1, LeaveStep
    <3> QED
      BY <1>6, <3>1, <3>2
  <2>4. Started(Main)' /\ Started(Manager)'
    BY <1>0, <1>3, <2>1, <2>3 DEF Survive
  <2> QED
    BY <1>0, <1>2, <1>3, <2>1, <2>2, <2>4
<1>7. CASE StoreHandle \/ StartDog
  <2>1. PICK call \in {"handle", "start"} :
          MainAt(call) /\ (call = "handle" => pc[Main] = 6) /\ (call = "start" => pc[Main] = 7)
    BY <1>0, <1>7, MainCallAt DEF StoreHandle, StartDog
  <2>2. UNCHANGED <<sched, timer_list, rt_tick, suspend_thread, due>>
    BY <1>7 DEF StoreHandle, StartDog, kvars
  <2>3. Started(Main)' /\ Started(Manager)'
    BY <1>0, <1>3, <2>1, <2>2 DEF Started
  <2>4. CASE StoreHandle
    <3>1. wdg_dev' /\ UNCHANGED <<is_start, dog>> /\ MainAt("handle")
      BY <2>4, Zenon DEF StoreHandle
    <3>2. pc[Main] = 6
      BY <1>0, <3>1, MainCallAt
    <3> QED
      BY <1>2, <1>3, <2>2, <2>3, <3>1, <3>2
  <2>5. CASE StartDog
    <3>1. dog' = 0 /\ wdg_dev' = wdg_dev /\ MainAt("start")
      BY <2>5, Zenon DEF StartDog
    <3>2. pc[Main] = 7
      BY <1>0, <3>1, MainCallAt
    <3> QED
      BY <1>2, <1>3, <2>2, <2>3, <3>1, <3>2
  <2> QED
    BY <1>7, <2>4, <2>5
<1>8. CASE MainReturns
  <2>1. MainAt("exit") /\ rt_thread_exit(Main) /\ UNCHANGED <<wdg_dev, is_start, dog>>
    BY <1>8 DEF MainReturns
  <2>2. pc[Main] = 8 /\ sched.nest = 0
    BY <1>0, <2>1, MainCallAt
  <2>3. Started(Manager)'
    BY <1>0, <1>3, <2>1, <2>2, ExitStep
  <2>4. timer_list' = timer_list
    BY <2>1, StopNothing DEF rt_thread_exit, DogInv, AwakeOK
  <2>5. UNCHANGED <<rt_tick, suspend_thread, due>>
    BY <2>1 DEF rt_thread_exit
  <2> QED
    BY <1>0, <1>2, <1>3, <2>1, <2>2, <2>3, <2>4, <2>5
<1> QED
  BY <1>5, <1>6, <1>7, <1>8 DEF main

(* A step of another thread. *)
LEMMA OtherDog ==
  ASSUME KInv, KInv', NestOK, NestOK', StartTypes, DogInv,
         check_dump_energy \/ ManagerTurn \/ feed_dog \/ ReadByte \/ TakeSem
  PROVE  DogInv'
<1>0. /\ {Main, Receiver, Manager, Energy} \subseteq Threads \ {Idle} /\ Rx \in Sems
      /\ Main # Manager /\ Main # Receiver /\ Main # Energy /\ Manager # Receiver /\ Manager # Energy
      /\ sched.nest \in {0, 1} /\ (sched.nest = 1 => sched.current = Main)
      /\ DOMAIN pc = {Main, Manager, Receiver} /\ pc[Main] \in 1 .. 9
      /\ busy \in 0 .. MaxBusy /\ dog \in Nat
  BY BootConstants, SchedHas DEF NestOK, StartTypes
<1>1. ASSUME NEW t \in Threads, Executes(t), t # Main
      PROVE  sched.nest = 0
  BY <1>0, <1>1 DEF Executes
<1>2. CASE check_dump_energy
  <2>1. rt_thread_sleep(Energy, Delay[Energy]) /\ UNCHANGED <<pc, busy, wdg_dev, is_start, dog>>
    BY <1>2 DEF check_dump_energy
  <2>2. /\ Executes(Energy) /\ due' = due \cup {Energy} /\ UNCHANGED <<rt_tick, suspend_thread>>
    BY <2>1 DEF rt_thread_sleep
  <2>3. Survive
    BY <1>0, <1>1, <2>1, <2>2, SleepStep, BootConstants
  <2>4. ThreadsOf(timer_list') = ThreadsOf(timer_list) \cup {Energy}
    BY <1>0, <2>1, SleepTimers, BootConstants
  <2>5. AwakeOK'
    BY <1>0, <2>1, <2>2, <2>3, <2>4 DEF DogInv, AwakeOK, Survive
  <2>6. Left' \subseteq Left /\ (Left' = {} <=> Left = {})
    BY <1>0, <2>1, LeftOtherSleeps, BootConstants
  <2> QED
    BY <1>0, <2>1, <2>5, <2>6, ManagerPassed DEF DogInv, FeedOK
<1>3. CASE ManagerTurn
  <2>1. /\ rt_thread_sleep(Manager, Delay[Manager]) /\ UNCHANGED <<busy, wdg_dev, is_start, dog>>
        /\ pc[Manager] = "body" /\ pc' = [pc EXCEPT ![Manager] = "feed"]
    BY <1>3 DEF ManagerTurn
  <2>2. /\ Executes(Manager) /\ due' = due \cup {Manager} /\ UNCHANGED <<rt_tick, suspend_thread>>
    BY <2>1 DEF rt_thread_sleep
  <2>3. Survive
    BY <1>0, <1>1, <2>1, <2>2, SleepStep, BootConstants
  <2>4. ThreadsOf(timer_list') = ThreadsOf(timer_list) \cup {Manager}
    BY <1>0, <2>1, SleepTimers, BootConstants
  <2>5. Left = {} /\ Left' = {Delay[Manager]}
    BY <2>1, LeftManagerSleeps, BootConstants
  <2>6. pc'[Main] = pc[Main] /\ pc'[Manager] = "feed"
    BY <1>0, <2>1
  <2>7. AwakeOK'
    BY <1>0, <2>2, <2>3, <2>4, <2>6 DEF DogInv, AwakeOK, Survive
  <2>8. FeedOK'
    BY <2>1, <2>5, <2>6 DEF DogInv, FeedOK
  <2>9. SleepOK'
    <3>1. is_start => dog <= busy
      BY <1>0, <2>1, <2>5 DEF DogInv, DogOK
    <3> QED
      BY <1>0, <2>1, <2>5, <2>6, <3>1, BootConstants DEF SleepOK
  <2> QED
    BY <2>5, <2>7, <2>8, <2>9 DEF DogInv, DogOK
<1>4. CASE feed_dog
  <2>1. /\ pc[Manager] = "feed" /\ Executes(Manager)
        /\ UNCHANGED <<sched, due, timer_list, rt_tick, suspend_thread, busy, wdg_dev, is_start>>
    BY <1>4 DEF feed_dog, kvars
  <2>2. Left = {}
    BY <1>0, <2>1, ExecutesRunning, RunningWaitsNot, LeftNow DEF KInv
  <2>3. pc[Main] = 9 /\ wdg_dev
    BY <1>0, <2>1, <2>2 DEF DogInv, FeedOK
  <2>4. pc' = [pc EXCEPT ![Manager] = "body"] /\ dog' = 0
    BY <1>4, <2>3 DEF feed_dog
  <2>5. pc'[Main] = pc[Main] /\ pc'[Manager] = "body"
    BY <1>0, <2>4
  <2>6. Left' = {}
    BY <2>1, <2>2 DEF Left, LeftOf, AheadAt
  <2>7. AwakeOK' /\ FeedOK'
    BY <2>1, <2>5, <2>6 DEF DogInv, AwakeOK, FeedOK, Started
  <2>8. SleepOK' /\ DogOK'
    BY <1>0, <2>1, <2>4, <2>5, <2>6 DEF SleepOK, DogOK
  <2> QED
    BY <2>7, <2>8 DEF DogInv
<1>5. CASE ReadByte
  <2>1. /\ UNCHANGED <<sched, due, timer_list, rt_tick, suspend_thread, busy, wdg_dev, is_start, dog>>
        /\ (UNCHANGED pc \/ pc' = [pc EXCEPT ![Receiver] = "take"])
    BY <1>5 DEF ReadByte, kvars
  <2>2. pc'[Main] = pc[Main] /\ pc'[Manager] = pc[Manager]
    BY <1>0, <2>1
  <2>3. Survive
    BY <2>1 DEF Survive, Started
  <2> QED
    BY <2>1, <2>2, <2>3, KernelPassed DEF DogInv, AwakeOK
<1>6. CASE TakeSem
  <2>1. /\ rt_sem_take(Receiver, Rx) /\ pc' = [pc EXCEPT ![Receiver] = "read"]
        /\ UNCHANGED <<busy, wdg_dev, is_start, dog>>
    BY <1>6 DEF TakeSem
  <2>2. Executes(Receiver) /\ UNCHANGED <<timer_list, rt_tick>>
        /\ due' \subseteq due \cup {Receiver}
    BY <2>1 DEF rt_sem_take
  <2>3. pc'[Main] = pc[Main] /\ pc'[Manager] = pc[Manager]
    BY <1>0, <2>1
  <2>4. Survive
    BY <1>0, <1>1, <2>1, <2>2, TakeStep
  <2>5. Elems(suspend_thread'[Rx]) \subseteq {Receiver}
    <3>1. Elems(suspend_thread[Rx]) \subseteq {Receiver}
          /\ suspend_thread \in [Sems -> Seq(Threads)]
          /\ Distinct(suspend_thread[Rx]) /\ suspend_thread[Rx] \in Seq(Threads)
          /\ Receiver \in Threads
      BY <1>0 DEF DogInv, AwakeOK, KInv, WaitsOK
    <3>2. CASE suspend_thread' = suspend_thread
      BY <3>1, <3>2
    <3>3. CASE suspend_thread' = [suspend_thread EXCEPT ![Rx] = Append(@, Receiver)]
      <4>1. suspend_thread'[Rx] = Append(suspend_thread[Rx], Receiver)
        BY <1>0, <3>1, <3>3
      <4>2. Receiver \notin Elems(suspend_thread[Rx])
        BY <1>0, <2>2, ExecutesRunning, RunningWaitsNot DEF KInv
      <4>3. Elems(Append(suspend_thread[Rx], Receiver)) = Elems(suspend_thread[Rx]) \cup {Receiver}
        <5> DEFINE q == suspend_thread[Rx]
        <5>1. q \in Seq(Threads) /\ Distinct(q) /\ Receiver \in Threads /\ Receiver \notin Elems(q)
          BY <3>1, <4>2
        <5> HIDE DEF q
        <5>2. Elems(Append(q, Receiver)) = Elems(q) \cup {Receiver}
          BY <5>1, AppendList
        <5> QED
          BY <5>2 DEF q
      <4> QED
        BY <3>1, <4>1, <4>3
    <3> QED
      BY <2>1, <3>2, <3>3 DEF rt_sem_take
  <2>6. Idle \notin due'
    BY <1>0, <2>2 DEF DogInv, AwakeOK
  <2> QED
    BY <2>1, <2>2, <2>3, <2>4, <2>5, <2>6, KernelPassed
<1> QED
  BY <1>2, <1>3, <1>4, <1>5, <1>6

(* The tick. *)
LEMMA TickDog ==
  ASSUME KInv, NestOK, StartTypes, DogInv, SysTick_Handler
  PROVE  DogInv'
<1>1. /\ rt_tick_increase /\ (sched.current # Idle => busy < MaxBusy)
      /\ busy' = (IF sched.current = Idle THEN 0 ELSE busy + 1)
      /\ dog' = (IF is_start /\ dog < DogTicks THEN dog + 1 ELSE dog)
      /\ UNCHANGED <<pc, wdg_dev, is_start>>
  BY DEF SysTick_Handler
<1>2. ~in_tick /\ ~in_serial /\ UNCHANGED <<timer_list, due, suspend_thread>>
  BY <1>1 DEF rt_tick_increase
<1>3. /\ Left \in SUBSET Nat /\ pc[Main] \in 1 .. 9 /\ busy \in Nat /\ dog \in Nat
      /\ MaxBusy \in Nat /\ Delay[Manager] \in Nat /\ DogTicks \in Nat
  BY LeftNow, BootConstants DEF NestOK, StartTypes
<1>4. Left' = {a - 1 : a \in Left} /\ 0 \notin Left
  BY <1>1, LeftTick
<1>5. Left' = {} <=> Left = {}
  BY <1>4
<1>6. AwakeOK'
  <2>1. Survive
    BY <1>1, TickStep
  <2> QED
    BY <1>1, <1>2, <2>1, BootConstants DEF DogInv, AwakeOK, Survive
<1>7. FeedOK'
  BY <1>1, <1>5 DEF DogInv, FeedOK
<1>8. sched.current = Idle => pc[Main] = 9 /\ Left # {}
  <2>1. pc[Main] = 9 => Started(Manager)
    BY DEF DogInv, AwakeOK
  <2> QED
    BY <1>2, <2>1, IdleAlone DEF DogInv
<1>9. dog' \in Nat /\ dog' <= dog + 1
  BY <1>1, <1>3
<1>10. SleepOK'
  <2> SUFFICES ASSUME NEW a \in Left
               PROVE  /\ a - 1 <= Delay[Manager]
                      /\ pc[Main] <= 8 => a - 1 + busy' >= Delay[Manager]
                      /\ is_start => dog' + (a - 1) <= MaxBusy + Delay[Manager]
    BY <1>1, <1>4 DEF SleepOK
  <2>1. /\ a <= Delay[Manager] /\ (pc[Main] <= 8 => a + busy >= Delay[Manager])
        /\ (is_start => dog + a <= MaxBusy + Delay[Manager]) /\ a \in Nat
    BY <1>3 DEF DogInv, SleepOK
  <2>2. pc[Main] <= 8 => busy' = busy + 1
    BY <1>1, <1>3, <1>8
  <2> QED
    BY <1>3, <1>9, <2>1, <2>2
<1>11. DogOK'
  <2>1. Left = {} => busy' = busy + 1
    BY <1>1, <1>8
  <2> QED
    BY <1>1, <1>3, <1>5, <1>9, <2>1 DEF DogInv, DogOK
<1> QED
  BY <1>6, <1>7, <1>10, <1>11 DEF DogInv

(* The manager is woken, or another thread. *)
LEMMA ExpiryDog ==
  ASSUME KInv, KInv', NestOK, StartTypes, DogInv, TimerExpires, UNCHANGED bvars
  PROVE  DogInv'
<1>1. UNCHANGED <<pc, busy, wdg_dev, is_start, dog>>
  BY DEF bvars
<1>2. Left' \subseteq Left /\ (Left' = {} => Left = {} \/ 0 \in Left)
  BY LeftExpiry
<1>3. /\ Left \in SUBSET Nat /\ pc[Main] \in 1 .. 9 /\ busy \in Nat /\ dog \in Nat
      /\ busy <= MaxBusy /\ MaxBusy \in Nat /\ Delay[Manager] \in Nat /\ MaxBusy < Delay[Manager]
      /\ pc[Manager] \in {"body", "feed", "assert"}
  BY LeftNow, BootConstants DEF NestOK, StartTypes
<1>4. AwakeOK'
  <2>1. Survive
    BY ExpiryStep
  <2>2. due' = due /\ timer_list' = Tail(timer_list) /\ timer_list # <<>>
        /\ suspend_thread' = [m \in Sems |-> Without(suspend_thread[m], Head(timer_list).thread)]
    BY DEF TimerExpires, Expired
  <2>3. Main \notin ThreadsOf(timer_list')
    BY <2>2, FirstTimer DEF KInv, WaitsOK, TimesOK, DogInv, AwakeOK
  <2>4. Elems(suspend_thread'[Rx]) \subseteq {Receiver}
    <3> DEFINE t == Head(timer_list).thread
    <3>1. suspend_thread[Rx] \in Seq(Threads) /\ Distinct(suspend_thread[Rx])
      BY BootConstants DEF KInv, WaitsOK
    <3>2. Elems(Without(suspend_thread[Rx], t)) = Elems(suspend_thread[Rx]) \ {t}
      BY <3>1, WithoutList, Zenon
    <3>3. suspend_thread'[Rx] = Without(suspend_thread[Rx], t)
      BY <2>2, BootConstants
    <3> QED
      BY <3>2, <3>3 DEF DogInv, AwakeOK
  <2> QED
    BY <1>1, <2>1, <2>2, <2>3, <2>4, BootConstants DEF DogInv, AwakeOK, Survive
<1>5. 0 \in Left => pc[Main] = 9 /\ (is_start => dog <= MaxBusy + Delay[Manager])
  BY <1>3 DEF DogInv, SleepOK
<1>6. FeedOK'
  BY <1>1, <1>2, <1>5 DEF DogInv, FeedOK
<1>7. SleepOK'
  BY <1>1, <1>2 DEF DogInv, SleepOK
<1>8. DogOK'
  <2>1. 0 \in Left => pc[Manager] # "body"
    BY DEF DogInv, FeedOK
  <2> QED
    BY <1>1, <1>2, <1>3, <1>5, <2>1 DEF DogInv, DogOK
<1> QED
  BY <1>4, <1>6, <1>7, <1>8 DEF DogInv

(* The other steps of the interrupts, and those of the scheduler. *)
LEMMA RestDog ==
  ASSUME KInv, KInv', NestOK, NestOK', StartTypes, DogInv,
         Returns \/ Reaps \/ rx_jz_callback \/ HandlersGoOn
  PROVE  DogInv'
<1>1. UNCHANGED <<pc, busy, wdg_dev, is_start, dog>>
  BY DEF Returns, Reaps, rx_jz_callback, HandlersGoOn, bvars
<1>2. Idle \notin due /\ Elems(suspend_thread[Rx]) \subseteq {Receiver}
  BY DEF DogInv, AwakeOK
<1>3. CASE Returns
  <2>1. PICK t \in Threads : CallSchedule(t)
    BY <1>3 DEF Returns
  <2>2. due' \subseteq due /\ UNCHANGED <<timer_list, rt_tick, suspend_thread>>
    BY <2>1 DEF CallSchedule
  <2>3. Survive
    BY <2>1, ScheduleStep
  <2> QED
    BY <1>1, <1>2, <2>2, <2>3, KernelPassed
<1>4. CASE Reaps
  <2>1. UNCHANGED <<sched, due, timer_list, rt_tick, suspend_thread>>
    BY <1>4 DEF Reaps, rt_thread_idle_excute
  <2>2. Survive
    BY <2>1 DEF Survive, Started
  <2> QED
    BY <1>1, <1>2, <2>1, <2>2, KernelPassed
<1>5. CASE rx_jz_callback
  <2>1. rt_sem_release_isr(Rx) /\ Rx \in Sems
    BY <1>5, BootConstants DEF rx_jz_callback
  <2>2. Survive
    BY <2>1, ReleaseStep
  <2>3. UNCHANGED <<due, rt_tick>>
    BY <2>1 DEF rt_sem_release_isr
  <2>4. CASE suspend_thread[Rx] = <<>>
    <3>1. UNCHANGED <<suspend_thread, timer_list>>
      BY <2>1, <2>4 DEF rt_sem_release_isr
    <3> QED
      BY <1>1, <1>2, <2>2, <2>3, <3>1, KernelPassed
  <2>5. CASE suspend_thread[Rx] # <<>>
    <3> DEFINE t == Head(suspend_thread[Rx])
               q == Tail(suspend_thread[Rx])
    <3>1. /\ suspend_thread \in [Sems -> Seq(Threads)]
          /\ suspend_thread[Rx] \in Seq(Threads) /\ Distinct(suspend_thread[Rx])
      BY <2>1 DEF KInv, WaitsOK
    <3>2. t \in Elems(suspend_thread[Rx]) /\ Elems(q) = Elems(suspend_thread[Rx]) \ {t}
      BY <2>5, <3>1, HeadList, Zenon
    <3>3. suspend_thread' = [suspend_thread EXCEPT ![Rx] = q] /\ timer_list' = rt_timer_stop(t)
      BY <2>1, <2>5 DEF rt_sem_release_isr
    <3> HIDE DEF t, q
    <3>4. timer_list' = timer_list
      BY <2>1, <3>2, <3>3, StopNothing DEF KInv, WaitsOK
    <3>5. suspend_thread'[Rx] = q
      BY <2>1, <3>1, <3>3
    <3>6. Elems(suspend_thread'[Rx]) \subseteq {Receiver}
      BY <1>2, <3>2, <3>5
    <3> QED
      BY <1>1, <1>2, <2>2, <2>3, <3>4, <3>6, KernelPassed
  <2> QED
    BY <2>4, <2>5
<1>6. CASE HandlersGoOn
  <2>1. CASE TimerExpires
    BY <1>6, <2>1, ExpiryDog DEF HandlersGoOn
  <2>2. CASE TimerCheckEnds
    <3>1. UNCHANGED <<sched, due, timer_list, rt_tick, suspend_thread>>
      BY <2>2 DEF TimerCheckEnds
    <3>2. Survive
      BY <3>1 DEF Survive, Started
    <3> QED
      BY <1>1, <1>2, <3>1, <3>2, KernelPassed
  <2>3. CASE SerialSchedule
    <3>1. UNCHANGED <<due, timer_list, rt_tick, suspend_thread>>
      BY <2>3 DEF SerialSchedule
    <3>2. Survive
      BY <2>3, ScheduleStep
    <3> QED
      BY <1>1, <1>2, <3>1, <3>2, KernelPassed
  <2> QED
    BY <1>6, <2>1, <2>2, <2>3 DEF HandlersGoOn
<1> QED
  BY <1>3, <1>4, <1>5, <1>6

(* At first main runs, no timer does, and the dog is not started. *)
LEMMA DogInit ==
  ASSUME Init
  PROVE  DogInv
<1>1. /\ due = {} /\ timer_list = <<>> /\ suspend_thread[Rx] = <<>>
      /\ sched.stat[Main] = "running" /\ pc[Main] = 1 /\ pc[Manager] = "body"
      /\ is_start = FALSE
  BY BootConstants DEF Init, KInit
<1>2. Elems(<<>>) = {} /\ ThreadsOf(<<>>) = {} /\ Left = {}
  BY <1>1 DEF Elems, ThreadsOf, Left, LeftOf
<1> QED
  BY <1>1, <1>2 DEF DogInv, AwakeOK, FeedOK, SleepOK, DogOK, Started

(* The watchdog's invariant holds in every state. *)
THEOREM BootDogInv == Spec => [](KInv /\ NestOK /\ StartTypes /\ DogInv)
<1>1. Init => KInv /\ NestOK /\ StartTypes /\ DogInv
  BY StartInit, DogInit
<1>2. KInv /\ NestOK /\ StartTypes /\ DogInv /\ [Next]_vars
        => (KInv /\ NestOK /\ StartTypes /\ DogInv)'
  <2> SUFFICES ASSUME KInv, NestOK, StartTypes, DogInv, [Next]_vars
               PROVE  KInv' /\ NestOK' /\ StartTypes' /\ DogInv'
    OBVIOUS
  <2>1. KInv' /\ NestOK' /\ StartTypes'
    BY BootNext, StartNext
  <2>2. CASE Next
    BY <2>1, <2>2, MainDog, OtherDog, TickDog, RestDog DEF Next, ThreadStep
  <2>3. CASE UNCHANGED vars
    <3>1. /\ UNCHANGED <<sched, timer_list, rt_tick, due, suspend_thread>>
          /\ UNCHANGED <<pc, busy, wdg_dev, is_start, dog>>
      BY <2>3 DEF vars, kvars, bvars
    <3>2. Survive
      BY <3>1 DEF Survive, Started
    <3>3. Idle \notin due' /\ Elems(suspend_thread'[Rx]) \subseteq {Receiver}
      BY <3>1 DEF DogInv, AwakeOK
    <3> QED
      BY <2>1, <3>1, <3>2, <3>3, KernelPassed
  <2> QED
    BY <2>1, <2>2, <2>3
<1> QED
  BY <1>1, <1>2, PTL DEF Spec

(* The manager never feeds a dog that is not found, for all delays, time   *)
(* slices and priorities: RT_ASSERT in rt_device_control holds if the      *)
(* processor is never busy for as long as the manager's first sleep.       *)
THEOREM BootDogFoundBeforeFed == Spec => []DogFoundBeforeFed
<1>1. DogInv => DogFoundBeforeFed
  BY DEF DogInv, FeedOK, DogFoundBeforeFed
<1> QED
  BY <1>1, BootDogInv, PTL

(* The watchdog never resets the boat: between two feedings lie a sleep of *)
(* the manager and the busy spells before and after it, no more.           *)
THEOREM BootNeverReset == Spec => []NeverReset
<1>1. KInv /\ StartTypes /\ DogInv => NeverReset
  <2> SUFFICES ASSUME KInv, StartTypes, DogInv, is_start PROVE dog < DogTicks
    BY DEF NeverReset
  <2>1. /\ Left \in SUBSET Nat /\ busy \in 0 .. MaxBusy /\ dog \in Nat
        /\ MaxBusy \in Nat /\ Delay[Manager] \in Nat /\ DogTicks \in Nat
        /\ Delay[Manager] + 2 * MaxBusy < DogTicks
    BY LeftNow, BootConstants DEF StartTypes
  <2>2. CASE Left = {}
    BY <2>1, <2>2 DEF DogInv, DogOK
  <2>3. CASE Left # {}
    <3>1. PICK a \in Left : a \in Nat
      BY <2>1, <2>3
    <3>2. dog + a <= MaxBusy + Delay[Manager]
      BY <3>1 DEF DogInv, SleepOK
    <3> QED
      BY <2>1, <3>1, <3>2
  <2> QED
    BY <2>2, <2>3
<1> QED
  BY <1>1, BootDogInv, PTL
=============================================================================

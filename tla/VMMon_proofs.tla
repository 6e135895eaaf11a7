---------------------------- MODULE VMMon_proofs ----------------------------
(***************************************************************************)
(* Proofs about vmmon: the memory of virtual machines (VMMonMemory), for   *)
(* any finite number of machines, processors and pages, and cross user     *)
(* calls (VMMonUserCall), for any number of virtual processors.            *)
(*                                                                         *)
(* What is counted is what is locked or about to be, every page that is    *)
(* pinned is in a tracker, and both the reserved pages and the minimum of  *)
(* the machines admitted stay within the limit.  The properties are sums,  *)
(* which the model writes as MapThenSumSet.  No induction theorem can be   *)
(* cited for it; a sum of natural numbers is the number of members of a    *)
(* set of pairs (Units), and facts about finite sets do the rest.          *)
(*                                                                         *)
(* Of a user call, Exchange relates what a processor has left in the       *)
(* shared page to where it is and to what the VMX is doing about it.  It   *)
(* gives the count, the wakeups and the assertions of the code; the        *)
(* assertion of HostIF_AwakenVcpu needs Announced as well, which holds     *)
(* when the VMX does not act on a request too early.                       *)
(***************************************************************************)
EXTENDS VMMonMemory, VMMonUserCall, FiniteSetTheorems, TLAPS

-----------------------------------------------------------------------------
(***************************************************************************)
(* Sums.                                                                   *)
(***************************************************************************)
\* f[x] pairs for each x; their number is the sum.
Units(f, S) == UNION {{x} \X (1..f[x]) : x \in S}
Sum(f, S) == Cardinality(Units(f, S))

\* The sum of finitely many numbers is a number,
LEMMA UnitsFinite ==
  ASSUME NEW S, IsFiniteSet(S), NEW f, \A x \in S : f[x] \in Nat
  PROVE  IsFiniteSet(Units(f, S)) /\ Sum(f, S) \in Nat
<1> DEFINE g == [x \in S |-> {x} \X (1..f[x])]
           T == {{x} \X (1..f[x]) : x \in S}
<1>1. g \in Surjection(S, T)
  BY DEF Surjection
<1>2. IsFiniteSet(T)
  BY <1>1, FS_Surjection
<1>3. ASSUME NEW x \in S PROVE IsFiniteSet({x} \X (1..f[x]))
  <2>0. 1 \in Int /\ f[x] \in Int
    OBVIOUS
  <2>1. IsFiniteSet({x}) /\ IsFiniteSet(1..f[x])
    BY <2>0, FS_Singleton, FS_Interval
  <2> QED
    BY <2>1, FS_Product
<1>4. IsFiniteSet(Units(f, S))
  <2>1. \A t \in T : IsFiniteSet(t)
    BY <1>3
  <2> QED
    BY <1>2, <2>1, FS_UNION DEF Units
<1> QED
  BY <1>4, FS_CardinalityType DEF Sum

\* ... which is 0 over no member, grows by a member's value,
LEMMA SumEmpty == \A f : Sum(f, {}) = 0
<1>1. \A f : Units(f, {}) = {}
  BY DEF Units
<1> QED
  BY <1>1, FS_EmptySet DEF Sum

LEMMA SumAdd ==
  ASSUME NEW S, IsFiniteSet(S), NEW f, \A x \in S : f[x] \in Nat,
         NEW y, y \notin S, f[y] \in Nat
  PROVE  Sum(f, S \cup {y}) = Sum(f, S) + f[y]
<1> DEFINE new == {y} \X (1..f[y])
<1>1. Units(f, S \cup {y}) = Units(f, S) \cup new
  BY DEF Units
<1>2. Units(f, S) \cap new = {}
  BY DEF Units
<1>3. IsFiniteSet(new) /\ Cardinality(new) = f[y]
  <2>0. IsFiniteSet({y}) /\ Cardinality({y}) = 1
    BY FS_Singleton
  <2>1. IsFiniteSet(1..f[y]) /\ Cardinality(1..f[y]) = f[y]
    <3>1. 1 \in Int /\ f[y] \in Int
      OBVIOUS
    <3>2. /\ IsFiniteSet(1..f[y])
          /\ Cardinality(1..f[y]) = IF 1 > f[y] THEN 0 ELSE f[y] - 1 + 1
      BY <3>1, FS_Interval
    <3>3. \A k \in Nat : (IF 1 > k THEN 0 ELSE k - 1 + 1) = k
      OBVIOUS
    <3> QED
      BY <3>2, <3>3
  <2>2. IsFiniteSet(new) /\ Cardinality(new) = 1 * f[y]
    BY <2>0, <2>1, FS_Product, SMTT(60)
  <2> QED
    BY <2>2
<1>4. IsFiniteSet(Units(f, S)) /\ Cardinality(Units(f, S)) \in Nat
  BY UnitsFinite DEF Sum
<1>5. Cardinality(Units(f, S) \cap new) = 0
  BY <1>2, FS_EmptySet
<1>6. Cardinality(Units(f, S) \cup new)
        = Cardinality(Units(f, S)) + Cardinality(new) - Cardinality(Units(f, S) \cap new)
  BY <1>3, <1>4, FS_Union
<1> QED
  BY <1>1, <1>3, <1>4, <1>5, <1>6 DEF Sum

\* depends on the values alone,
LEMMA SumSame ==
  ASSUME NEW S, NEW f, NEW g, \A x \in S : f[x] = g[x]
  PROVE  Sum(f, S) = Sum(g, S)
<1>1. Units(f, S) = Units(g, S)
  BY DEF Units
<1> QED
  BY <1>1 DEF Sum

\* and can be taken apart again.
LEMMA SumWithout ==
  ASSUME NEW S, IsFiniteSet(S), NEW f, \A x \in S : f[x] \in Nat, NEW y \in S
  PROVE  Sum(f, S) = Sum(f, S \ {y}) + f[y]
<1>1. IsFiniteSet(S \ {y}) /\ y \notin S \ {y} /\ (S \ {y}) \cup {y} = S
  BY FS_RemoveElement
<1> QED
  BY <1>1, SumAdd

\* What MapThenSumSet asks of the function that it chooses.
Recurs(f, S, g) ==
  g = [s \in SUBSET S |-> IF s = {} THEN 0
                          ELSE f[CHOOSE x \in s : TRUE] + g[s \ {CHOOSE x \in s : TRUE}]]

\* The sum is one function that MapThenSumSet may have chosen ...
LEMMA SumRecurs ==
  ASSUME NEW S, IsFiniteSet(S), NEW f, \A x \in S : f[x] \in Nat
  PROVE  Recurs(f, S, [s \in SUBSET S |-> Sum(f, s)])
<1> DEFINE g == [s \in SUBSET S |-> Sum(f, s)]
<1> SUFFICES ASSUME NEW s \in SUBSET S, s # {}
             PROVE  g[s] = f[CHOOSE x \in s : TRUE] + g[s \ {CHOOSE x \in s : TRUE}]
  BY SumEmpty DEF Recurs
<1>1. PICK y \in s : y = CHOOSE x \in s : TRUE
  OBVIOUS
<1>2. IsFiniteSet(s)
  BY FS_Subset
<1>3. Sum(f, s) = Sum(f, s \ {y}) + f[y]
  BY <1>2, SumWithout
<1>4. Sum(f, s \ {y}) \in Nat /\ f[y] \in Nat
  <2>1. IsFiniteSet(s \ {y})
    BY <1>2, FS_RemoveElement
  <2> QED
    BY <2>1, UnitsFinite
<1>5. g[s] = f[y] + g[s \ {y}]
  BY <1>3, <1>4
<1> QED
  BY <1>1, <1>5

\* ... and the only one: a smallest set of which the two differ is not empty, and
\* they do not differ on what is left of it without the member that is chosen.
LEMMA RecursIsSum ==
  ASSUME NEW S, IsFiniteSet(S), NEW f, \A x \in S : f[x] \in Nat,
         NEW g, Recurs(f, S, g)
  PROVE  g[S] = Sum(f, S)
<1> DEFINE Bad == {s \in SUBSET S : g[s] # Sum(f, s)}
<1>1. \A s \in SUBSET S : IsFiniteSet(s)
  BY FS_Subset
<1>2. FiniteSubsetsOf(S) = SUBSET S
  BY FS_FiniteSubsetsOfFinite
<1>3. CASE Bad # {}
  <2> HIDE DEF Bad
  <2>0. /\ IsWellFoundedOn(StrictSubsetOrdering(S), FiniteSubsetsOf(S))
        /\ Bad \subseteq FiniteSubsetsOf(S)
    BY <1>2, FS_StrictSubsetOrderingWellFounded DEF Bad
  <2>1. PICK s \in Bad : \A z \in Bad : ~(<<z, s>> \in StrictSubsetOrdering(S))
    BY <1>3, <2>0, WFMin
  <2> USE DEF Bad
  <2>2. s # {}
    BY SumEmpty DEF Recurs
  <2>3. PICK y \in s : y = CHOOSE x \in s : TRUE
    BY <2>2
  <2>4. g[s] = f[y] + g[s \ {y}]
    BY <2>2, <2>3 DEF Recurs
  <2>5. s \ {y} \notin Bad
    <3>1. <<s \ {y}, s>> \in StrictSubsetOrdering(S)
      BY <2>3 DEF StrictSubsetOrdering
    <3> QED
      BY <2>1, <3>1
  <2>6. g[s \ {y}] = Sum(f, s \ {y})
    BY <2>5
  <2>7. Sum(f, s) = Sum(f, s \ {y}) + f[y]
    BY <1>1, SumWithout
  <2>8. Sum(f, s \ {y}) \in Nat /\ f[y] \in Nat
    BY <1>1, UnitsFinite
  <2> QED
    BY <2>4, <2>6, <2>7, <2>8
<1> QED
  BY <1>3

\* One member changes its value, and the sum changes with it.
LEMMA SumUpdate ==
  ASSUME NEW S, IsFiniteSet(S), NEW f, NEW g, NEW y \in S,
         \A x \in S : f[x] \in Nat /\ g[x] \in Nat,
         \A x \in S \ {y} : g[x] = f[x]
  PROVE  /\ Sum(f, S) \in Nat /\ Sum(g, S) \in Nat
         /\ Sum(g, S) + f[y] = Sum(f, S) + g[y]
         /\ f[y] <= Sum(f, S)
<1>1. Sum(f, S) = Sum(f, S \ {y}) + f[y] /\ Sum(g, S) = Sum(g, S \ {y}) + g[y]
  BY SumWithout
<1>2. Sum(f, S \ {y}) = Sum(g, S \ {y})
  BY SumSame
<1>3. Sum(f, S \ {y}) \in Nat
  <2>1. IsFiniteSet(S \ {y})
    BY FS_RemoveElement
  <2> QED
    BY <2>1, UnitsFinite
<1>4. \A a, b, c \in Nat : /\ a + b \in Nat /\ a + c \in Nat
                           /\ (a + c) + b = (a + b) + c /\ b <= a + b
  OBVIOUS
<1> QED
  BY <1>1, <1>2, <1>3, <1>4

\* Members whose value is 0 add nothing.
LEMMA SumRestrict ==
  ASSUME NEW S, NEW T \in SUBSET S, NEW f, NEW g, \A x \in T : f[x] = g[x],
         \A x \in S \ T : g[x] = 0
  PROVE  Sum(f, T) = Sum(g, S)
<1>1. Units(f, T) = Units(g, S)
  <2>1. 1..0 = {}
    OBVIOUS
  <2> QED
    BY <2>1 DEF Units
<1> QED
  BY <1>1 DEF Sum

LEMMA SumZero ==
  ASSUME NEW S, NEW f, \A x \in S : f[x] = 0
  PROVE  Sum(f, S) = 0
<1>1. Sum(f, {}) = Sum(f, S)
  BY SumRestrict
<1> QED
  BY <1>1, SumEmpty

-----------------------------------------------------------------------------
(***************************************************************************)
(* What the properties count.                                              *)
(***************************************************************************)
\* VM, with a number of its own that is not looked at.
IsMachine(r) ==
  r \in [userID : {r.userID},
         admitted : BOOLEAN, locked : Int,
         paged : Nat, nonpaged : Nat, mainMemSize : Nat, perVMOverhead : Nat,
         minAllocation : Nat, maxAllocation : Nat,
         memtracker : [Vpns -> UserPages \cup {NoPage}],
         lockedPages : SUBSET UserPages,
         AWEPages : SUBSET Frames]

\* Pages that a thread has reserved, or has to give back, for a machine.
AmountOf(r, m) == IF r.vm = m /\ r.pc \in {"host", "unreserve"} THEN r.num ELSE 0

FlightOf(th, m) == Sum([t \in Threads |-> AmountOf(th[t], m)], Threads)

\* Pages that are in the trackers of a machine.
NamesOf(r) == {n \in Vpns : r.memtracker[n] # NoPage}
CountOf(r) == Cardinality(NamesOf(r)) + Cardinality(r.lockedPages) + Cardinality(r.AWEPages)

LockedIn(v, L) == Sum([m \in VMs |-> IF m \in L THEN v[m].locked ELSE 0], VMs)

MinIn(v, L, pct) ==
  Sum([m \in VMs |-> IF m \in L /\ v[m].admitted THEN MinAllocationOf(v[m], pct) ELSE 0], VMs)

\* The trackers that name a page.
Names(r, p) == \E n \in Vpns : r.memtracker[n] = p
RefsOf(v, p) == Cardinality({m \in VMs : Names(v[m], p)})
                 + Cardinality({m \in VMs : p \in v[m].lockedPages})
                 + Cardinality({m \in VMs : p \in v[m].AWEPages})
One(b) == IF b THEN 1 ELSE 0
RefsBy(r, p) == One(Names(r, p)) + One(p \in r.lockedPages) + One(p \in r.AWEPages)

-----------------------------------------------------------------------------
LEMMA ThreadsFinite == IsFiniteSet(Threads)
  BY MemoryAssumption, FS_AddElement DEF Threads

LEMMA PagesFinite == IsFiniteSet(Pages)
  BY MemoryAssumption, FS_Union DEF Pages

\* The minimum of a machine is a number, and grows with what the machine asks for.
LEMMA MinAllocationType ==
  ASSUME NEW paged \in Nat, NEW nonpaged \in Nat, NEW main \in Nat, NEW pct \in 0..100
  PROVE  MinAllocation(paged, nonpaged, main, pct) \in Nat
<1> DEFINE s == Least(main, paged)
<1>1. s \in Nat /\ s <= paged
  BY DEF Least
<1>2. (pct * s) \div 100 \in Nat
  <2>1. pct * s \in Nat
    BY <1>1
  <2>2. \A k \in Nat : k \div 100 \in Nat
    OBVIOUS
  <2> QED
    BY <2>1, <2>2
<1>3. \A a, b, c, d \in Nat : d <= b => a + (b - d) + c \in Nat
  OBVIOUS
<1> HIDE DEF s
<1>4. (pct * s) \div 100 + (paged - s) + nonpaged \in Nat
  BY <1>1, <1>2, <1>3
<1> QED
  BY <1>4 DEF MinAllocation, s

LEMMA MinAllocationGrows ==
  ASSUME NEW paged \in Nat, NEW nonpaged \in Nat, NEW less \in Nat, NEW nonless \in Nat,
         NEW main \in Nat, NEW pct \in 0..100,
         main <= less, less <= paged, nonless <= nonpaged
  PROVE  MinAllocation(less, nonless, main, pct) <= MinAllocation(paged, nonpaged, main, pct)
<1>1. Least(main, less) = main /\ Least(main, paged) = main
  BY DEF Least
<1>2. (pct * main) \div 100 \in Nat
  <2>1. pct * main \in Nat
    OBVIOUS
  <2>2. \A k \in Nat : k \div 100 \in Nat
    OBVIOUS
  <2> QED
    BY <2>1, <2>2
<1>3. \A a \in Nat : a + (less - main) + nonless <= a + (paged - main) + nonpaged
  OBVIOUS
<1> QED
  BY <1>1, <1>2, <1>3 DEF MinAllocation

LEMMA MinOfType ==
  ASSUME NEW r, IsMachine(r), NEW pct \in 0..100
  PROVE  MinAllocationOf(r, pct) \in Nat
  BY MinAllocationType DEF IsMachine, MinAllocationOf

\* The counts of a machine are numbers.
LEMMA CountType ==
  ASSUME NEW r, IsMachine(r)
  PROVE  /\ IsFiniteSet(NamesOf(r)) /\ IsFiniteSet(r.lockedPages) /\ IsFiniteSet(r.AWEPages)
         /\ Cardinality(NamesOf(r)) \in Nat /\ Cardinality(r.lockedPages) \in Nat
         /\ Cardinality(r.AWEPages) \in Nat /\ CountOf(r) \in Nat
<1>1. /\ NamesOf(r) \subseteq Vpns /\ r.lockedPages \subseteq UserPages
      /\ r.AWEPages \subseteq Frames
  BY DEF NamesOf, IsMachine
<1>2. IsFiniteSet(NamesOf(r)) /\ IsFiniteSet(r.lockedPages) /\ IsFiniteSet(r.AWEPages)
  BY <1>1, MemoryAssumption, FS_Subset
<1>3. /\ Cardinality(NamesOf(r)) \in Nat /\ Cardinality(r.lockedPages) \in Nat
      /\ Cardinality(r.AWEPages) \in Nat
  BY <1>2, FS_CardinalityType
<1> QED
  BY <1>2, <1>3 DEF CountOf

LEMMA AmountType ==
  ASSUME NEW r \in Thread, NEW m
  PROVE  AmountOf(r, m) \in Nat
  BY DEF AmountOf, Thread

\* A step of a thread changes what is in flight by its own amount.
LEMMA FlightStep ==
  ASSUME NEW th \in [Threads -> Thread], NEW t \in Threads, NEW r \in Thread, NEW m
  PROVE  /\ FlightOf(th, m) \in Nat /\ FlightOf([th EXCEPT ![t] = r], m) \in Nat
         /\ FlightOf([th EXCEPT ![t] = r], m) + AmountOf(th[t], m)
              = FlightOf(th, m) + AmountOf(r, m)
         /\ AmountOf(th[t], m) <= FlightOf(th, m)
<1> DEFINE f == [u \in Threads |-> AmountOf(th[u], m)]
           w == [th EXCEPT ![t] = r]
           g == [u \in Threads |-> AmountOf(w[u], m)]
<1>1. \A u \in Threads : f[u] \in Nat
  BY AmountType
<1>2. w \in [Threads -> Thread] /\ w[t] = r /\ \A u \in Threads \ {t} : w[u] = th[u]
  OBVIOUS
<1>3. \A u \in Threads : g[u] \in Nat
  BY <1>2, AmountType
<1>4. \A u \in Threads \ {t} : g[u] = f[u]
  BY <1>2
<1>5. f[t] = AmountOf(th[t], m) /\ g[t] = AmountOf(r, m)
  BY <1>2
<1>6. FlightOf(th, m) = Sum(f, Threads) /\ FlightOf(w, m) = Sum(g, Threads)
  BY DEF FlightOf
<1> HIDE DEF f, g, w
<1>7. /\ Sum(f, Threads) \in Nat /\ Sum(g, Threads) \in Nat
      /\ Sum(g, Threads) + f[t] = Sum(f, Threads) + g[t] /\ f[t] <= Sum(f, Threads)
  BY <1>1, <1>3, <1>4, ThreadsFinite, SumUpdate
<1> QED
  BY <1>5, <1>6, <1>7 DEF w

LEMMA FlightType ==
  ASSUME NEW th \in [Threads -> Thread], NEW m
  PROVE  FlightOf(th, m) \in Nat
<1>1. Driver \in Threads /\ th[Driver] \in Thread
  BY DEF Threads
<1> QED
  BY <1>1, FlightStep

\* Nothing is in flight for a machine that no thread works for.
LEMMA FlightZero ==
  ASSUME NEW th \in [Threads -> Thread], NEW m, \A t \in Threads : th[t].vm # m
  PROVE  FlightOf(th, m) = 0
  BY SumZero DEF FlightOf, AmountOf

\* A machine takes the place of another one, on the same list.
LEMMA LockedStep ==
  ASSUME NEW v, NEW L, NEW m \in VMs, NEW w, NEW M,
         \A k \in L \cup M : k \in VMs,
         \A k \in L : v[k].locked \in Nat, \A k \in M : w[k].locked \in Nat,
         \A k \in VMs \ {m} : w[k].locked = v[k].locked /\ (k \in M <=> k \in L)
  PROVE  /\ LockedIn(v, L) \in Nat /\ LockedIn(w, M) \in Nat
         /\ LockedIn(w, M) + (IF m \in L THEN v[m].locked ELSE 0)
              = LockedIn(v, L) + (IF m \in M THEN w[m].locked ELSE 0)
         /\ m \in L => v[m].locked <= LockedIn(v, L)
<1> DEFINE f == [k \in VMs |-> IF k \in L THEN v[k].locked ELSE 0]
           g == [k \in VMs |-> IF k \in M THEN w[k].locked ELSE 0]
<1>1. \A k \in VMs : f[k] \in Nat /\ g[k] \in Nat
  OBVIOUS
<1>2. \A k \in VMs \ {m} : g[k] = f[k]
  OBVIOUS
<1>3. /\ f[m] = (IF m \in L THEN v[m].locked ELSE 0)
      /\ g[m] = (IF m \in M THEN w[m].locked ELSE 0)
  OBVIOUS
<1>4. LockedIn(v, L) = Sum(f, VMs) /\ LockedIn(w, M) = Sum(g, VMs)
  BY DEF LockedIn
<1> HIDE DEF f, g
<1>5. /\ Sum(f, VMs) \in Nat /\ Sum(g, VMs) \in Nat
      /\ Sum(g, VMs) + f[m] = Sum(f, VMs) + g[m] /\ f[m] <= Sum(f, VMs)
  BY <1>1, <1>2, MemoryAssumption, SumUpdate
<1> QED
  BY <1>3, <1>4, <1>5

LEMMA MinStep ==
  ASSUME NEW v, NEW L, NEW m \in VMs, NEW w, NEW M, NEW pct,
         \A k \in VMs : /\ MinAllocationOf(v[k], pct) \in Nat
                        /\ MinAllocationOf(w[k], pct) \in Nat,
         \A k \in VMs \ {m} : /\ k \in M /\ w[k].admitted <=> k \in L /\ v[k].admitted
                              /\ MinAllocationOf(w[k], pct) = MinAllocationOf(v[k], pct)
  PROVE  /\ MinIn(v, L, pct) \in Nat /\ MinIn(w, M, pct) \in Nat
         /\ MinIn(w, M, pct)
                + (IF m \in L /\ v[m].admitted THEN MinAllocationOf(v[m], pct) ELSE 0)
              = MinIn(v, L, pct)
                + (IF m \in M /\ w[m].admitted THEN MinAllocationOf(w[m], pct) ELSE 0)
<1> DEFINE f == [k \in VMs |-> IF k \in L /\ v[k].admitted
                               THEN MinAllocationOf(v[k], pct) ELSE 0]
           g == [k \in VMs |-> IF k \in M /\ w[k].admitted
                               THEN MinAllocationOf(w[k], pct) ELSE 0]
<1>1. \A k \in VMs : f[k] \in Nat /\ g[k] \in Nat
  OBVIOUS
<1>2. \A k \in VMs \ {m} : g[k] = f[k]
  OBVIOUS
<1>3. /\ f[m] = (IF m \in L /\ v[m].admitted THEN MinAllocationOf(v[m], pct) ELSE 0)
      /\ g[m] = (IF m \in M /\ w[m].admitted THEN MinAllocationOf(w[m], pct) ELSE 0)
  OBVIOUS
<1>4. MinIn(v, L, pct) = Sum(f, VMs) /\ MinIn(w, M, pct) = Sum(g, VMs)
  BY DEF MinIn
<1> HIDE DEF f, g
<1>5. /\ Sum(f, VMs) \in Nat /\ Sum(g, VMs) \in Nat
      /\ Sum(g, VMs) + f[m] = Sum(f, VMs) + g[m]
  BY <1>1, <1>2, MemoryAssumption, SumUpdate
<1> QED
  BY <1>3, <1>4, <1>5

\* A member joins a set or leaves it.
LEMMA OneMore ==
  ASSUME NEW A, IsFiniteSet(A), NEW x, NEW B, NEW yes \in BOOLEAN,
         B = IF yes THEN A \cup {x} ELSE A \ {x}
  PROVE  /\ IsFiniteSet(B) /\ Cardinality(A) \in Nat /\ Cardinality(B) \in Nat
         /\ Cardinality(B) + One(x \in A) = Cardinality(A) + One(yes)
<1>1. IsFiniteSet(B) /\ Cardinality(A) \in Nat /\ Cardinality(B) \in Nat
  BY FS_AddElement, FS_RemoveElement, FS_CardinalityType
<1>2. Cardinality(A \cup {x}) = IF x \in A THEN Cardinality(A) ELSE Cardinality(A) + 1
  BY FS_AddElement
<1>3. Cardinality(A \ {x}) = IF x \in A THEN Cardinality(A) - 1 ELSE Cardinality(A)
  BY FS_RemoveElement
<1> QED
  BY <1>1, <1>2, <1>3 DEF One

\* The trackers of one machine change, and the references with them.
LEMMA RefsStep ==
  ASSUME NEW v, NEW m \in VMs, NEW w, NEW p, \A k \in VMs \ {m} : w[k] = v[k]
  PROVE  /\ RefsOf(v, p) \in Nat /\ RefsOf(w, p) \in Nat
         /\ RefsOf(w, p) + RefsBy(v[m], p) = RefsOf(v, p) + RefsBy(w[m], p)
<1> DEFINE A(x) == {k \in VMs : Names(x[k], p)}
           B(x) == {k \in VMs : p \in x[k].lockedPages}
           C(x) == {k \in VMs : p \in x[k].AWEPages}
<1>1. IsFiniteSet(A(v)) /\ IsFiniteSet(B(v)) /\ IsFiniteSet(C(v))
  BY MemoryAssumption, FS_Subset
<1>2. /\ Cardinality(A(v)) \in Nat /\ Cardinality(A(w)) \in Nat
      /\ Cardinality(A(w)) + One(Names(v[m], p)) = Cardinality(A(v)) + One(Names(w[m], p))
  <2>1. A(w) = IF Names(w[m], p) THEN A(v) \cup {m} ELSE A(v) \ {m}
    OBVIOUS
  <2>2. m \in A(v) <=> Names(v[m], p)
    OBVIOUS
  <2>3. Names(w[m], p) \in BOOLEAN
    BY DEF Names
  <2> HIDE DEF A
  <2>4. /\ Cardinality(A(v)) \in Nat /\ Cardinality(A(w)) \in Nat
        /\ Cardinality(A(w)) + One(m \in A(v)) = Cardinality(A(v)) + One(Names(w[m], p))
    BY <1>1, <2>1, <2>3, OneMore
  <2> QED
    BY <2>2, <2>4 DEF One
<1>3. /\ Cardinality(B(v)) \in Nat /\ Cardinality(B(w)) \in Nat
      /\ Cardinality(B(w)) + One(p \in v[m].lockedPages)
           = Cardinality(B(v)) + One(p \in w[m].lockedPages)
  <2>1. B(w) = IF p \in w[m].lockedPages THEN B(v) \cup {m} ELSE B(v) \ {m}
    OBVIOUS
  <2>2. m \in B(v) <=> p \in v[m].lockedPages
    OBVIOUS
  <2>3. (p \in w[m].lockedPages) \in BOOLEAN
    OBVIOUS
  <2> HIDE DEF B
  <2>4. /\ Cardinality(B(v)) \in Nat /\ Cardinality(B(w)) \in Nat
        /\ Cardinality(B(w)) + One(m \in B(v))
             = Cardinality(B(v)) + One(p \in w[m].lockedPages)
    BY <1>1, <2>1, <2>3, OneMore
  <2> QED
    BY <2>2, <2>4 DEF One
<1>4. /\ Cardinality(C(v)) \in Nat /\ Cardinality(C(w)) \in Nat
      /\ Cardinality(C(w)) + One(p \in v[m].AWEPages)
           = Cardinality(C(v)) + One(p \in w[m].AWEPages)
  <2>1. C(w) = IF p \in w[m].AWEPages THEN C(v) \cup {m} ELSE C(v) \ {m}
    OBVIOUS
  <2>2. m \in C(v) <=> p \in v[m].AWEPages
    OBVIOUS
  <2>3. (p \in w[m].AWEPages) \in BOOLEAN
    OBVIOUS
  <2> HIDE DEF C
  <2>4. /\ Cardinality(C(v)) \in Nat /\ Cardinality(C(w)) \in Nat
        /\ Cardinality(C(w)) + One(m \in C(v))
             = Cardinality(C(v)) + One(p \in w[m].AWEPages)
    BY <1>1, <2>1, <2>3, OneMore
  <2> QED
    BY <2>2, <2>4 DEF One
<1>5. RefsOf(v, p) = Cardinality(A(v)) + Cardinality(B(v)) + Cardinality(C(v))
  BY DEF RefsOf
<1>6. RefsOf(w, p) = Cardinality(A(w)) + Cardinality(B(w)) + Cardinality(C(w))
  BY DEF RefsOf
<1>7. \A b : One(b) \in Nat
  BY DEF One
<1>8. RefsBy(v[m], p) = One(Names(v[m], p)) + One(p \in v[m].lockedPages)
                          + One(p \in v[m].AWEPages)
  BY DEF RefsBy
<1>9. RefsBy(w[m], p) = One(Names(w[m], p)) + One(p \in w[m].lockedPages)
                          + One(p \in w[m].AWEPages)
  BY DEF RefsBy
<1>10. \A a, b, c, d, e, f, g, h, i, j, k, l \in Nat :
         d + g = a + j /\ e + h = b + k /\ f + i = c + l =>
           (d + e + f) + (g + h + i) = (a + b + c) + (j + k + l)
  OBVIOUS
<1> HIDE DEF A, B, C
<1> QED
  BY <1>2, <1>3, <1>4, <1>5, <1>6, <1>7, <1>8, <1>9, <1>10

-----------------------------------------------------------------------------
(***************************************************************************)
(* The sums of the model are these.                                        *)
(***************************************************************************)
LEMMA InFlightIs ==
  ASSUME thread \in [Threads -> Thread], NEW m
  PROVE  InFlight(m) = FlightOf(thread, m)
<1> DEFINE S == {t \in Threads : thread[t].vm = m /\ thread[t].pc \in {"host", "unreserve"}}
           f == [t \in Threads |-> thread[t].num]
           g == [t \in Threads |-> AmountOf(thread[t], m)]
           P(h) == h = [s \in SUBSET S |->
                          IF s = {} THEN 0
                          ELSE thread[CHOOSE x \in s : TRUE].num
                                 + h[s \ {CHOOSE x \in s : TRUE}]]
<1>1. IsFiniteSet(S) /\ S \subseteq Threads
  BY ThreadsFinite, FS_Subset
<1>2. \A t \in S : f[t] \in Nat
  BY <1>1 DEF Thread
<1>3. \A h : P(h) <=> Recurs(f, S, h)
  <2>1. \A s \in SUBSET S : s # {} =>
          f[CHOOSE x \in s : TRUE] = thread[CHOOSE x \in s : TRUE].num
    OBVIOUS
  <2> QED
    BY <2>1, ZenonT(60) DEF Recurs
<1>4. \E h : P(h)
  <2> HIDE DEF f, P
  <2>1. Recurs(f, S, [s \in SUBSET S |-> Sum(f, s)])
    BY <1>1, <1>2, SumRecurs
  <2> QED
    BY <1>3, <2>1
<1>5. P(CHOOSE h : P(h))
  BY <1>4
<1>6. (CHOOSE h : P(h))[S] = Sum(f, S)
  BY <1>1, <1>2, <1>3, <1>5, RecursIsSum
<1>7. Sum(f, S) = Sum(g, Threads)
  BY <1>1, SumRestrict DEF AmountOf
<1> QED
  BY <1>6, <1>7 DEF InFlight, MapThenSumSet, MapThenFoldSet, FlightOf

LockedPages == MapThenSumSet(LAMBDA m : vm[m].locked, vmDriverList)

LEMMA LockedIs ==
  ASSUME vmDriverList \subseteq VMs, \A m \in vmDriverList : vm[m].locked \in Nat
  PROVE  LockedPages = LockedIn(vm, vmDriverList)
<1> DEFINE S == vmDriverList
           f == [m \in VMs |-> vm[m].locked]
           g == [m \in VMs |-> IF m \in vmDriverList THEN vm[m].locked ELSE 0]
           P(h) == h = [s \in SUBSET S |->
                          IF s = {} THEN 0
                          ELSE vm[CHOOSE x \in s : TRUE].locked
                                 + h[s \ {CHOOSE x \in s : TRUE}]]
<1>1. IsFiniteSet(S)
  BY MemoryAssumption, FS_Subset
<1>2. \A m \in S : f[m] \in Nat
  OBVIOUS
<1>3. \A h : P(h) <=> Recurs(f, S, h)
  <2>1. \A s \in SUBSET S : s # {} =>
          f[CHOOSE x \in s : TRUE] = vm[CHOOSE x \in s : TRUE].locked
    OBVIOUS
  <2> QED
    BY <2>1 DEF Recurs
<1>4. \E h : P(h)
  <2> HIDE DEF f, P
  <2>1. Recurs(f, S, [s \in SUBSET S |-> Sum(f, s)])
    BY <1>1, <1>2, SumRecurs
  <2> QED
    BY <1>3, <2>1
<1>5. P(CHOOSE h : P(h))
  BY <1>4
<1>6. (CHOOSE h : P(h))[S] = Sum(f, S)
  BY <1>1, <1>2, <1>3, <1>5, RecursIsSum
<1>7. Sum(f, S) = Sum(g, VMs)
  BY SumRestrict
<1> QED
  BY <1>6, <1>7 DEF LockedPages, MapThenSumSet, MapThenFoldSet, LockedIn

LEMMA GlobalIs ==
  ASSUME vmDriverList \subseteq VMs, \A m \in VMs : IsMachine(vm[m]), NEW pct \in 0..100
  PROVE  GlobalMinAllocation(pct) = MinIn(vm, vmDriverList, pct)
<1> DEFINE S == {m \in vmDriverList : vm[m].admitted}
           f == [m \in VMs |-> MinAllocationOf(vm[m], pct)]
           g == [m \in VMs |-> IF m \in vmDriverList /\ vm[m].admitted
                               THEN MinAllocationOf(vm[m], pct) ELSE 0]
           P(h) == h = [s \in SUBSET S |->
                          IF s = {} THEN 0
                          ELSE MinAllocationOf(vm[CHOOSE x \in s : TRUE], pct)
                                 + h[s \ {CHOOSE x \in s : TRUE}]]
<1>1. IsFiniteSet(S) /\ S \subseteq VMs
  BY MemoryAssumption, FS_Subset
<1>2. \A m \in S : f[m] \in Nat
  BY <1>1, MinOfType
<1>3. \A h : P(h) <=> Recurs(f, S, h)
  <2>1. \A s \in SUBSET S : s # {} =>
          f[CHOOSE x \in s : TRUE] = MinAllocationOf(vm[CHOOSE x \in s : TRUE], pct)
    BY <1>1
  <2> QED
    BY <2>1 DEF Recurs
<1>4. \E h : P(h)
  <2> HIDE DEF f, P
  <2>1. Recurs(f, S, [s \in SUBSET S |-> Sum(f, s)])
    BY <1>1, <1>2, SumRecurs
  <2> QED
    BY <1>3, <2>1
<1>5. P(CHOOSE h : P(h))
  BY <1>4
<1>6. (CHOOSE h : P(h))[S] = Sum(f, S)
  BY <1>1, <1>2, <1>3, <1>5, RecursIsSum
<1>7. Sum(f, S) = Sum(g, VMs)
  BY <1>1, SumRestrict
<1> QED
  BY <1>6, <1>7 DEF GlobalMinAllocation, MapThenSumSet, MapThenFoldSet, MinIn

-----------------------------------------------------------------------------
(***************************************************************************)
(* The invariant.                                                          *)
(***************************************************************************)
\* TypeOK, but for the numbers of machines, which are taken from linked lists.
Typed ==
  /\ vmDriverList \subseteq VMs /\ dying \in VMs \cup {NoVM} /\ dying \notin vmDriverList
  /\ vm = [m \in VMs |-> vm[m]] /\ \A m \in VMs : IsMachine(vm[m])
  /\ thread \in [Threads -> Thread]
  /\ numLockedPages \in Int /\ configured \in Nat /\ minVmMemPct \in 0..100
  /\ pins = [p \in Pages |-> pins[p]]

\* A thread in a call works for a machine that is not released under it.
ThreadFits(r) ==
  /\ r.pc = "idle" => r.vm = NoVM
  /\ r.pc # "idle" => r.vm \in vmDriverList
  /\ r.pc \in {"reserve", "host"} /\ r.call # "alloc" => r.num = 1

ThreadsFit == \A t \in Threads : ThreadFits(thread[t])

Empty(r) == /\ \A n \in Vpns : r.memtracker[n] = NoPage
            /\ r.lockedPages = {} /\ r.AWEPages = {}

\* A page that may be named once is.
NamesDiffer ==
  \A k, m \in VMs : \A i, n \in Vpns :
    vm[k].memtracker[i] = vm[m].memtracker[n] /\ vm[m].memtracker[n] # NoPage =>
      k = m /\ i = n

Tracked ==
  /\ \A m \in VMs : m \in vmDriverList \/ m = dying \/ Empty(vm[m])
  /\ NamesDiffer
  /\ physTracker = {p \in UserPages : \E m \in VMs : Names(vm[m], p)}
  /\ ~panic
  /\ \A p \in Pages : pins[p] = RefsOf(vm, p)

Accounted ==
  /\ \A m \in vmDriverList : vm[m].locked = CountOf(vm[m]) + FlightOf(thread, m)
  /\ numLockedPages = LockedIn(vm, vmDriverList)

Fit ==
  /\ MinIn(vm, vmDriverList, minVmMemPct) <= configured
  /\ numLockedPages <= configured
  /\ \A m \in vmDriverList :
       vm[m].admitted => vm[m].minAllocation = MinAllocationOf(vm[m], minVmMemPct)

Inv == Typed /\ ThreadsFit /\ Tracked /\ Accounted /\ Fit

-----------------------------------------------------------------------------
LEMMA NewVMType == IsMachine(NewVM) /\ Empty(NewVM) /\ NewVM.locked = 0 /\ ~NewVM.admitted
<1>1. [n \in Vpns |-> NoPage] \in [Vpns -> UserPages \cup {NoPage}]
  OBVIOUS
<1> QED
  BY <1>1 DEF NewVM, IsMachine, Empty

LEMMA IdleType == Idle \in Thread /\ Idle.pc = "idle" /\ Idle.vm = NoVM /\ Idle.num = 0
  BY MemoryAssumption DEF Idle, Thread

\* Nothing is in the trackers of an empty machine.
LEMMA EmptyCounts ==
  ASSUME NEW r, Empty(r)
  PROVE  /\ CountOf(r) = 0
         /\ \A p \in Pages : /\ ~Names(r, p) /\ p \notin r.lockedPages /\ p \notin r.AWEPages
                             /\ RefsBy(r, p) = 0
<1>1. NamesOf(r) = {} /\ r.lockedPages = {} /\ r.AWEPages = {}
  BY DEF Empty, NamesOf
<1>2. Cardinality({}) = 0
  BY FS_EmptySet
<1>3. \A p \in Pages : ~Names(r, p)
  BY MemoryAssumption DEF Empty, Names, Pages
<1> QED
  BY <1>1, <1>2, <1>3 DEF CountOf, RefsBy, One

\* What is locked for a machine on the list is a number.
LEMMA LockedType ==
  ASSUME Typed, Accounted, NEW m \in vmDriverList
  PROVE  vm[m].locked \in Nat /\ IsMachine(vm[m]) /\ m \in VMs
<1>1. IsMachine(vm[m]) /\ m \in VMs
  BY DEF Typed
<1>2. CountOf(vm[m]) \in Nat /\ FlightOf(thread, m) \in Nat
  BY <1>1, CountType, FlightType DEF Typed
<1> QED
  BY <1>1, <1>2 DEF Accounted

\* The references that the trackers account for, in a step of one machine.
LEMMA RefsChange ==
  ASSUME NEW m \in VMs, NEW p, \A k \in VMs \ {m} : vm'[k] = vm[k]
  PROVE  /\ RefsOf(vm, p) \in Nat /\ RefsOf(vm', p) \in Nat
         /\ RefsOf(vm', p) + RefsBy(vm[m], p) = RefsOf(vm, p) + RefsBy(vm'[m], p)
  BY RefsStep

LEMMA PinsType ==
  ASSUME Tracked
  PROVE  \A p \in Pages : pins[p] \in Nat /\ pins[p] \in Int
<1>1. \A p \in Pages : RefsOf(vm, p) \in Nat
  <2> SUFFICES ASSUME NEW p \in Pages PROVE RefsOf(vm, p) \in Nat
    OBVIOUS
  <2>1. \A A \in SUBSET VMs : Cardinality(A) \in Nat
    BY MemoryAssumption, FS_Subset, FS_CardinalityType
  <2> QED
    BY <2>1 DEF RefsOf
<1> QED
  BY <1>1 DEF Tracked

\* The references change together with the trackers of one machine.
LEMMA RefsFollow ==
  ASSUME Typed, Tracked, NEW m \in VMs, NEW r,
         vm' = [vm EXCEPT ![m] = r],
         \A p \in Pages : pins'[p] + RefsBy(vm[m], p) = pins[p] + RefsBy(r, p),
         \A p \in Pages : pins'[p] \in Int
  PROVE  \A p \in Pages : pins'[p] = RefsOf(vm', p)
<1> SUFFICES ASSUME NEW p \in Pages PROVE pins'[p] = RefsOf(vm', p)
  OBVIOUS
<1>1. vm'[m] = r /\ \A k \in VMs \ {m} : vm'[k] = vm[k]
  BY DEF Typed
<1>2. /\ RefsOf(vm, p) \in Nat /\ RefsOf(vm', p) \in Nat
      /\ RefsOf(vm', p) + RefsBy(vm[m], p) = RefsOf(vm, p) + RefsBy(vm'[m], p)
  BY <1>1, RefsChange
<1>3. \A x, y : RefsBy(x, y) \in Nat
  BY DEF RefsBy, One
<1>4. pins[p] = RefsOf(vm, p)
  BY DEF Tracked
<1>5. \A a, b, c, d \in Nat : \A e \in Int : b + c = a + d /\ e + c = a + d => e = b
  OBVIOUS
<1>6. RefsBy(vm[m], p) \in Nat /\ RefsBy(r, p) \in Nat
  BY <1>3
<1> QED
  BY <1>1, <1>2, <1>4, <1>5, <1>6

\* A machine changes, but not what its memtracker names, ...
Keeps(m, r) ==
  /\ m \in VMs /\ vm' = [vm EXCEPT ![m] = r] /\ r.memtracker = vm[m].memtracker
  /\ UNCHANGED <<physTracker, panic>>
  /\ \A k \in VMs : k \in vmDriverList' \/ k = dying' \/ Empty(vm'[k])

\* ... and the driver's references as its other trackers do.
Follows(m, r) ==
  /\ \A p \in Pages : pins'[p] + RefsBy(vm[m], p) = pins[p] + RefsBy(r, p)
  /\ \A p \in Pages : pins'[p] \in Int

LEMMA TrackedKept ==
  ASSUME Typed, Tracked, NEW m, NEW r, Keeps(m, r), Follows(m, r)
  PROVE  Tracked'
<1> USE DEF Keeps
<1>1. m \in VMs /\ vm'[m] = r /\ \A k \in VMs \ {m} : vm'[k] = vm[k]
  BY DEF Typed
<1>2. \A k \in VMs : vm'[k].memtracker = vm[k].memtracker
  BY <1>1
<1>3. \A k \in VMs : k \in vmDriverList' \/ k = dying' \/ Empty(vm'[k])
  OBVIOUS
<1>4. NamesDiffer'
  BY <1>2 DEF Tracked, NamesDiffer
<1>5. physTracker' = {p \in UserPages : \E k \in VMs : Names(vm'[k], p)}
  BY <1>2 DEF Tracked, Names
<1>6. \A p \in Pages : pins'[p] = RefsOf(vm', p)
  BY <1>1, RefsFollow DEF Follows
<1>7. ~panic'
  BY DEF Tracked
<1> QED
  BY <1>3, <1>4, <1>5, <1>6, <1>7 DEF Tracked

LEMMA TrackedStays ==
  ASSUME Typed, Tracked, NEW m \in vmDriverList, NEW r,
         vm' = [vm EXCEPT ![m] = r], r.memtracker = vm[m].memtracker,
         r.lockedPages = vm[m].lockedPages, r.AWEPages = vm[m].AWEPages,
         UNCHANGED <<vmDriverList, dying, physTracker, pins, panic>>
  PROVE  Tracked'
<1>1. \A p \in Pages : RefsBy(r, p) = RefsBy(vm[m], p)
  BY DEF RefsBy, Names
<1>2. \A p \in Pages : pins[p] \in Int
  BY PinsType
<1>3. Follows(m, r)
  BY <1>1, <1>2 DEF Follows
<1>4. Keeps(m, r)
  <2>1. m \in VMs /\ \A k \in VMs \ {m} : vm'[k] = vm[k]
    BY DEF Typed
  <2>2. \A k \in VMs : k \in vmDriverList' \/ k = dying' \/ Empty(vm'[k])
    BY <2>1 DEF Tracked
  <2> QED
    BY <2>1, <2>2 DEF Keeps
<1> QED
  BY <1>3, <1>4, TrackedKept

\* What admission looks at.
SameRequest(r, q) ==
  /\ r.admitted <=> q.admitted
  /\ r.paged = q.paged /\ r.nonpaged = q.nonpaged
  /\ r.mainMemSize = q.mainMemSize /\ r.minAllocation = q.minAllocation

LEMMA SameMin ==
  ASSUME NEW v, NEW w, NEW L, NEW pct, \A k \in VMs : k \in L => SameRequest(w[k], v[k])
  PROVE  MinIn(w, L, pct) = MinIn(v, L, pct)
<1>1. \A k \in VMs : k \in L =>
        /\ w[k].admitted <=> v[k].admitted
        /\ w[k].paged = v[k].paged /\ w[k].nonpaged = v[k].nonpaged
        /\ w[k].mainMemSize = v[k].mainMemSize
  BY DEF SameRequest
<1>2. [m \in VMs |-> IF m \in L /\ w[m].admitted THEN MinAllocationOf(w[m], pct) ELSE 0]
        = [m \in VMs |-> IF m \in L /\ v[m].admitted THEN MinAllocationOf(v[m], pct) ELSE 0]
  BY <1>1 DEF MinAllocationOf
<1> QED
  BY <1>2 DEF MinIn

LEMMA MinStays ==
  ASSUME NEW L, NEW pct, \A k \in VMs : k \in L => SameRequest(vm'[k], vm[k])
  PROVE  MinIn(vm', L, pct) = MinIn(vm, L, pct)
  BY SameMin

\* A thread takes a step for a machine, which may move pages from what is in
\* flight to what is locked, back, or change both counts.
Moves(t, m, r, q) ==
  /\ t \in Threads /\ m \in vmDriverList /\ IsMachine(r) /\ q \in Thread
  /\ vm' = [vm EXCEPT ![m] = r] /\ thread' = [thread EXCEPT ![t] = q]
  /\ UNCHANGED <<vmDriverList, dying, configured, minVmMemPct>>
  /\ pins' = [p \in Pages |-> pins'[p]]
  /\ thread[t].vm \in {m, NoVM} /\ q.vm \in {m, NoVM} /\ ThreadFits(q)
  /\ SameRequest(r, vm[m])
  /\ r.locked + CountOf(vm[m]) + AmountOf(thread[t], m)
       = vm[m].locked + CountOf(r) + AmountOf(q, m)
  /\ numLockedPages' = numLockedPages + (r.locked - vm[m].locked)
  /\ numLockedPages' <= configured

LEMMA PagesMove ==
  ASSUME Typed, ThreadsFit, Accounted, Fit,
         NEW t, NEW m, NEW r, NEW q, Moves(t, m, r, q)
  PROVE  Typed' /\ ThreadsFit' /\ Accounted' /\ Fit'
<1> USE DEF Moves
<1>1. /\ m \in VMs /\ IsMachine(vm[m]) /\ vm[m].locked \in Nat
      /\ vm'[m] = r /\ \A k \in VMs \ {m} : vm'[k] = vm[k]
      /\ vm' = [k \in VMs |-> vm'[k]]
  BY LockedType DEF Typed
<1>2. /\ thread' \in [Threads -> Thread] /\ thread'[t] = q
      /\ \A u \in Threads \ {t} : thread'[u] = thread[u]
  BY DEF Typed
<1>3. r.locked \in Int /\ numLockedPages \in Int
  BY DEF IsMachine, Typed
<1>4. Typed'
  BY <1>1, <1>2, <1>3 DEF Typed
<1>5. ThreadsFit'
  BY <1>2 DEF ThreadsFit, ThreadFits
<1>6. \A k \in VMs : vm'[k].locked \in Int
  BY <1>4 DEF Typed, IsMachine
<1>7. ASSUME NEW k \in vmDriverList
      PROVE  vm'[k].locked = CountOf(vm'[k]) + FlightOf(thread', k)
  <2>1. /\ FlightOf(thread, k) \in Nat /\ FlightOf(thread', k) \in Nat
        /\ FlightOf(thread', k) + AmountOf(thread[t], k) = FlightOf(thread, k) + AmountOf(q, k)
    BY FlightStep DEF Typed
  <2>2. vm[k].locked = CountOf(vm[k]) + FlightOf(thread, k)
    BY DEF Accounted
  <2>3. k \in VMs /\ k # NoVM
    BY MemoryAssumption DEF Typed
  <2>4. CASE k # m
    <3>1. AmountOf(thread[t], k) = 0 /\ AmountOf(q, k) = 0
      BY <2>3, <2>4 DEF AmountOf
    <3>2. FlightOf(thread', k) = FlightOf(thread, k)
      BY <2>1, <3>1
    <3> QED
      BY <1>1, <2>2, <2>3, <2>4, <3>2
  <2>5. CASE k = m
    <3>1. CountOf(vm[m]) \in Nat /\ CountOf(r) \in Nat
      BY <1>1, CountType
    <3>2. AmountOf(thread[t], m) \in Nat /\ AmountOf(q, m) \in Nat
      BY AmountType DEF Typed
    <3>4. r.locked + CountOf(vm[m]) + AmountOf(thread[t], m)
            = vm[m].locked + CountOf(r) + AmountOf(q, m)
      OBVIOUS
    <3>5. vm[m].locked = CountOf(vm[m]) + FlightOf(thread, m)
      BY <2>2, <2>5
    <3>6. /\ FlightOf(thread, m) \in Nat /\ FlightOf(thread', m) \in Nat
          /\ FlightOf(thread', m) + AmountOf(thread[t], m)
               = FlightOf(thread, m) + AmountOf(q, m)
      BY <2>1, <2>5
    <3>7. vm[m].locked \in Int
      BY <1>1
    <3>8. r.locked = CountOf(r) + FlightOf(thread', m)
      <4> DEFINE c == CountOf(vm[m])  d == CountOf(r)  l == vm[m].locked  n == r.locked
                 a == AmountOf(thread[t], m)  b == AmountOf(q, m)
                 f == FlightOf(thread, m)  g == FlightOf(thread', m)
      <4>1. /\ c \in Nat /\ d \in Nat /\ a \in Nat /\ b \in Nat /\ f \in Nat /\ g \in Nat
            /\ l \in Int /\ n \in Int
        BY <1>3, <3>1, <3>2, <3>6, <3>7
      <4>2. l = c + f /\ g + a = f + b /\ n + c + a = l + d + b
        BY <3>4, <3>5, <3>6
      <4> HIDE DEF c, d, l, n, a, b, f, g, Moves
      <4>3. n = d + g
        BY <4>1, <4>2
      <4> QED
        BY <4>3 DEF d, n, g
    <3> QED
      BY <1>1, <2>5, <3>8
  <2> QED
    BY <2>4, <2>5
<1>8. \A k \in vmDriverList : vm[k].locked \in Nat /\ vm'[k].locked \in Nat
  <2> SUFFICES ASSUME NEW k \in vmDriverList
               PROVE  vm[k].locked \in Nat /\ vm'[k].locked \in Nat
    OBVIOUS
  <2>1. CountOf(vm'[k]) \in Nat /\ FlightOf(thread', k) \in Nat
    BY <1>2, <1>4, CountType, FlightType DEF Typed
  <2> QED
    BY <1>7, <2>1, LockedType
<1>9. numLockedPages' = LockedIn(vm', vmDriverList)
  <2>1. \A k \in vmDriverList : k \in VMs
    BY DEF Typed
  <2>2. \A k \in VMs \ {m} : vm'[k].locked = vm[k].locked
    BY <1>1
  <2>3. /\ LockedIn(vm, vmDriverList) \in Nat /\ LockedIn(vm', vmDriverList) \in Nat
        /\ LockedIn(vm', vmDriverList) + vm[m].locked
             = LockedIn(vm, vmDriverList) + vm'[m].locked
    <3>1. /\ LockedIn(vm, vmDriverList) \in Nat /\ LockedIn(vm', vmDriverList) \in Nat
          /\ LockedIn(vm', vmDriverList) + (IF m \in vmDriverList THEN vm[m].locked ELSE 0)
               = LockedIn(vm, vmDriverList)
                 + (IF m \in vmDriverList THEN vm'[m].locked ELSE 0)
      BY <1>1, <1>8, <2>1, <2>2, LockedStep
    <3> QED
      BY <3>1
  <2>4. numLockedPages = LockedIn(vm, vmDriverList)
    BY DEF Accounted
  <2> QED
    BY <1>1, <1>3, <2>3, <2>4
<1>10. Accounted'
  BY <1>7, <1>9 DEF Accounted
<1>11. \A k \in VMs : SameRequest(vm'[k], vm[k])
  BY <1>1 DEF SameRequest
<1>12. MinIn(vm', vmDriverList, minVmMemPct) = MinIn(vm, vmDriverList, minVmMemPct)
  BY <1>11, MinStays
<1>13. Fit'
  <2>1. \A k \in vmDriverList : k \in VMs
    BY DEF Typed
  <2>2. /\ MinIn(vm, vmDriverList, minVmMemPct) <= configured
        /\ \A k \in vmDriverList :
             vm[k].admitted => vm[k].minAllocation = MinAllocationOf(vm[k], minVmMemPct)
    BY DEF Fit
  <2>3. \A k \in vmDriverList :
          vm'[k].admitted => vm'[k].minAllocation = MinAllocationOf(vm'[k], minVmMemPct)
    BY <1>11, <2>1, <2>2 DEF MinAllocationOf, SameRequest
  <2> QED
    BY <1>12, <2>2, <2>3 DEF Fit
<1> QED
  BY <1>4, <1>5, <1>10, <1>13

\* No tracker names a page.
LEMMA RefsNone ==
  ASSUME NEW v, NEW p,
         \A k \in VMs : /\ ~Names(v[k], p) /\ p \notin v[k].lockedPages
                        /\ p \notin v[k].AWEPages
  PROVE  RefsOf(v, p) = 0
<1> DEFINE A == {m \in VMs : Names(v[m], p)}
           B == {m \in VMs : p \in v[m].lockedPages}
           C == {m \in VMs : p \in v[m].AWEPages}
<1>1. A = {} /\ B = {} /\ C = {}
  OBVIOUS
<1>2. RefsOf(v, p) = Cardinality(A) + Cardinality(B) + Cardinality(C)
  BY DEF RefsOf
<1>3. Cardinality({}) = 0
  BY FS_EmptySet
<1> HIDE DEF A, B, C
<1> QED
  BY <1>1, <1>2, <1>3

\* The references to a page are at least those of each machine.
LEMMA RefsAtLeast ==
  ASSUME Tracked, NEW m \in VMs, NEW p \in Pages
  PROVE  RefsBy(vm[m], p) \in Nat /\ RefsBy(vm[m], p) <= pins[p]
<1> DEFINE w == [k \in VMs |-> IF k = m THEN NewVM ELSE vm[k]]
<1>1. w[m] = NewVM /\ \A k \in VMs \ {m} : w[k] = vm[k]
  OBVIOUS
<1>2. RefsBy(NewVM, p) = 0
  BY NewVMType, EmptyCounts
<1> HIDE DEF w
<1>3. /\ RefsOf(vm, p) \in Nat /\ RefsOf(w, p) \in Nat
      /\ RefsOf(w, p) + RefsBy(vm[m], p) = RefsOf(vm, p) + RefsBy(w[m], p)
  BY <1>1, RefsStep
<1>4. RefsBy(vm[m], p) \in Nat
  BY DEF RefsBy, One
<1>5. pins[p] = RefsOf(vm, p)
  BY DEF Tracked
<1> QED
  BY <1>1, <1>2, <1>3, <1>4, <1>5

\* No page is locked, and nothing asked for.
LEMMA NothingLocked ==
  ASSUME NEW v, NEW pct
  PROVE  LockedIn(v, {}) = 0 /\ MinIn(v, {}, pct) = 0
<1>1. \A k \in VMs : [m \in VMs |-> IF m \in {} THEN v[m].locked ELSE 0][k] = 0
  OBVIOUS
<1>2. \A k \in VMs : [m \in VMs |-> IF m \in {} /\ v[m].admitted
                                    THEN MinAllocationOf(v[m], pct) ELSE 0][k] = 0
  OBVIOUS
<1> QED
  BY <1>1, <1>2, SumZero DEF LockedIn, MinIn

LEMMA SameLocked ==
  ASSUME NEW v, NEW w, NEW L, \A k \in VMs : k \in L => w[k].locked = v[k].locked
  PROVE  LockedIn(w, L) = LockedIn(v, L)
<1>1. [m \in VMs |-> IF m \in L THEN w[m].locked ELSE 0]
        = [m \in VMs |-> IF m \in L THEN v[m].locked ELSE 0]
  OBVIOUS
<1> QED
  BY <1>1 DEF LockedIn

\* No limit is above the one the user has set.
LEMMA LimitType ==
  ASSUME Typed, NEW host \in Nat, NEW overhead \in Nat
  PROVE  /\ LockedPageLimit(host, overhead) \in Nat
         /\ LockedPageLimit(host, overhead) <= configured
<1> DEFINE extra == Cardinality(vmDriverList) * overhead
           limit == Least(configured, host)
<1>1. extra \in Nat
  <2>1. IsFiniteSet(vmDriverList)
    BY MemoryAssumption, FS_Subset DEF Typed
  <2>2. Cardinality(vmDriverList) \in Nat
    BY <2>1, FS_CardinalityType
  <2>3. \A a, b \in Nat : a * b \in Nat
    OBVIOUS
  <2> QED
    BY <2>2, <2>3
<1>2. limit \in Nat /\ limit <= configured /\ configured \in Nat
  BY DEF Least, Typed
<1>3. LockedPageLimit(host, overhead) = IF extra < limit THEN limit - extra ELSE 0
  BY DEF LockedPageLimit
<1> HIDE DEF extra, limit
<1> QED
  BY <1>1, <1>2, <1>3

LEMMA InitInv == Init => Inv
<1> SUFFICES ASSUME Init PROVE Inv
  OBVIOUS
<1>1. vmDriverList = {} /\ dying = NoVM /\ numLockedPages = 0 /\ configured = 0 /\ minVmMemPct = 0
  BY DEF Init
<1>2. /\ vm = [m \in VMs |-> NewVM] /\ physTracker = {} /\ pins = [p \in Pages |-> 0]
      /\ panic = FALSE /\ thread = [t \in Threads |-> Idle]
  BY DEF Init
<1>3. Typed
  BY <1>1, <1>2, NewVMType, IdleType DEF Typed
<1>4. ThreadsFit
  BY <1>2, IdleType DEF ThreadsFit, ThreadFits
<1>5. \A m \in VMs : Empty(vm[m])
  BY <1>2, NewVMType
<1>6. \A m \in VMs, p \in Pages : /\ ~Names(vm[m], p) /\ p \notin vm[m].lockedPages
                                  /\ p \notin vm[m].AWEPages
  BY <1>5, EmptyCounts
<1>7. Tracked
  <2>1. NamesDiffer
    BY <1>5 DEF NamesDiffer, Empty
  <2>2. physTracker = {p \in UserPages : \E m \in VMs : Names(vm[m], p)}
    BY <1>2, <1>6 DEF Pages
  <2>3. \A p \in Pages : pins[p] = RefsOf(vm, p)
    BY <1>2, <1>6, RefsNone
  <2> QED
    BY <1>2, <1>5, <2>1, <2>2, <2>3 DEF Tracked
<1>8. Accounted
  BY <1>1, NothingLocked DEF Accounted
<1>9. Fit
  BY <1>1, NothingLocked DEF Fit
<1> QED
  BY <1>3, <1>4, <1>7, <1>8, <1>9 DEF Inv

-----------------------------------------------------------------------------
(***************************************************************************)
(* Every action keeps the invariant.                                       *)
(***************************************************************************)
\* A thread in a call, and the machine it works for.
LEMMA InCall ==
  ASSUME Typed, ThreadsFit, NEW t \in Threads, thread[t].pc # "idle"
  PROVE  /\ thread[t] \in Thread /\ thread[t].num \in Nat
         /\ thread[t].vm \in vmDriverList /\ thread[t].vm \in VMs
         /\ IsMachine(vm[thread[t].vm])
  BY DEF Typed, ThreadsFit, ThreadFits, Thread

\* A thread goes on, and nothing else changes.
LEMMA ThreadGoesOn ==
  ASSUME Inv, NEW t \in Threads, NEW m \in vmDriverList, NEW q \in Thread,
         thread' = [thread EXCEPT ![t] = q],
         UNCHANGED <<admission, vm, numLockedPages, trackers>>,
         thread[t].vm \in {m, NoVM}, q.vm \in {m, NoVM}, ThreadFits(q),
         AmountOf(q, m) = AmountOf(thread[t], m)
  PROVE  Inv'
<1>1. Typed /\ ThreadsFit /\ Tracked /\ Accounted /\ Fit
  BY DEF Inv
<1>2. /\ vm[m].locked \in Nat /\ IsMachine(vm[m]) /\ m \in VMs
      /\ CountOf(vm[m]) \in Nat /\ AmountOf(q, m) \in Nat
  BY <1>1, LockedType, CountType, AmountType
<1>3. UNCHANGED <<vmDriverList, dying, configured, minVmMemPct, vm, physTracker, pins, panic>>
  BY DEF admission, trackers
<1>4. vm' = [vm EXCEPT ![m] = vm[m]]
  BY <1>1, <1>3 DEF Typed
<1>5. Tracked'
  BY <1>1, <1>3, <1>4, TrackedStays
<1>6. Moves(t, m, vm[m], q)
  <2>1. SameRequest(vm[m], vm[m])
    BY DEF SameRequest
  <2>2. numLockedPages' = numLockedPages + (vm[m].locked - vm[m].locked)
    BY <1>1, <1>2 DEF Typed
  <2>3. numLockedPages' <= configured
    BY <1>1 DEF Fit
  <2>4. pins' = [p \in Pages |-> pins'[p]]
    BY <1>1, <1>3 DEF Typed
  <2>5. vm[m].locked + CountOf(vm[m]) + AmountOf(thread[t], m)
          = vm[m].locked + CountOf(vm[m]) + AmountOf(q, m)
    OBVIOUS
  <2> QED
    BY <1>2, <1>3, <1>4, <2>1, <2>2, <2>3, <2>4, <2>5 DEF Moves
<1> QED
  BY <1>1, <1>5, <1>6, PagesMove DEF Inv

LEMMA UnreserveType ==
  ASSUME NEW n \in Nat, NEW m \in VMs
  PROVE  /\ [Unreserve(n) EXCEPT !.vm = m] \in Thread
         /\ [Unreserve(n) EXCEPT !.vm = m].vm = m
         /\ AmountOf([Unreserve(n) EXCEPT !.vm = m], m) = n
         /\ m \in vmDriverList => ThreadFits([Unreserve(n) EXCEPT !.vm = m])
<1> DEFINE q == [Unreserve(n) EXCEPT !.vm = m]
<1>1. Unreserve(n) \in Thread /\ Unreserve(n).pc = "unreserve" /\ Unreserve(n).num = n
  BY IdleType DEF Unreserve, Thread
<1>2. q \in Thread /\ q.pc = "unreserve" /\ q.num = n /\ q.vm = m
  BY <1>1 DEF Thread
<1> HIDE DEF q
<1>3. q \in Thread
  BY <1>2
<1>4. AmountOf(q, m) = n /\ (m \in vmDriverList => ThreadFits(q)) /\ q.vm = m
  BY <1>2 DEF AmountOf, ThreadFits
<1> QED
  BY <1>3, <1>4 DEF q

LEMMA IdleFits == \A m : AmountOf(Idle, m) = 0 /\ ThreadFits(Idle)
  BY DEF AmountOf, Idle, ThreadFits

LEMMA BeginInv ==
  ASSUME Inv, NEW t \in Threads, NEW m \in VMs, NEW call \in {"lock", "lockNew", "alloc"},
         NEW n \in 1..MaxPages, Begin(t, m, call, n)
  PROVE  Inv'
<1> DEFINE q == [pc |-> "reserve", call |-> call, vm |-> m, num |-> n, retries |-> Retries]
<1>1. /\ m \in vmDriverList /\ thread[t].pc = "idle" /\ (call # "alloc" => n = 1)
      /\ thread' = [thread EXCEPT ![t] = q]
      /\ UNCHANGED <<admission, vm, numLockedPages, trackers>>
  BY DEF Begin, MayCall, Become
<1>2. q \in Thread
  BY MemoryAssumption DEF Thread
<1>3. thread[t].vm = NoVM
  BY <1>1 DEF Inv, ThreadsFit, ThreadFits
<1>4. ThreadFits(q)
  BY <1>1 DEF ThreadFits
<1>5. AmountOf(q, m) = 0 /\ AmountOf(thread[t], m) = 0
  BY <1>1 DEF AmountOf
<1>6. q.vm = m
  OBVIOUS
<1> HIDE DEF q
<1> QED
  BY <1>1, <1>2, <1>3, <1>4, <1>5, <1>6, ThreadGoesOn

LEMMA NoUserPageInv ==
  ASSUME Inv, NEW t \in Threads, NoUserPage(t)
  PROVE  Inv'
<1> DEFINE m == thread[t].vm
           q == [Unreserve(1) EXCEPT !.vm = m]
<1>1. /\ thread[t].pc = "host" /\ thread[t].call \in {"lock", "lockNew"}
      /\ thread' = [thread EXCEPT ![t] = q]
      /\ UNCHANGED <<admission, vm, numLockedPages, trackers>>
  BY DEF NoUserPage, Become
<1>2. m \in vmDriverList /\ m \in VMs /\ thread[t].num = 1
  BY <1>1, InCall DEF Inv, ThreadsFit, ThreadFits
<1>3. q \in Thread /\ q.vm = m /\ AmountOf(q, m) = 1 /\ ThreadFits(q)
  BY <1>2, UnreserveType
<1>4. AmountOf(thread[t], m) = 1
  BY <1>1, <1>2 DEF AmountOf
<1>5. thread[t].vm \in {m, NoVM}
  OBVIOUS
<1> HIDE DEF q, m
<1> QED
  BY <1>1, <1>2, <1>3, <1>4, <1>5, ThreadGoesOn

\* A reservation counts with the machine and with all of them, and so does
\* what is given back.
LEMMA Counts ==
  ASSUME Inv, NEW t \in Threads, NEW m \in vmDriverList, NEW q \in Thread, NEW d \in Int,
         thread' = [thread EXCEPT ![t] = q],
         vm' = [vm EXCEPT ![m].locked = @ + d],
         numLockedPages' = numLockedPages + d, numLockedPages' <= configured,
         UNCHANGED <<admission, trackers>>,
         thread[t].vm \in {m, NoVM}, q.vm \in {m, NoVM}, ThreadFits(q),
         AmountOf(q, m) = AmountOf(thread[t], m) + d
  PROVE  Inv'
<1> DEFINE r == [vm[m] EXCEPT !.locked = @ + d]
<1>1. Typed /\ ThreadsFit /\ Tracked /\ Accounted /\ Fit
  BY DEF Inv
<1>2. /\ vm[m].locked \in Nat /\ IsMachine(vm[m]) /\ m \in VMs
      /\ CountOf(vm[m]) \in Nat /\ AmountOf(q, m) \in Nat /\ AmountOf(thread[t], m) \in Nat
  BY <1>1, LockedType, CountType, AmountType DEF Typed
<1>3. UNCHANGED <<vmDriverList, dying, configured, minVmMemPct, physTracker, pins, panic>>
  BY DEF admission, trackers
<1>4. vm' = [vm EXCEPT ![m] = r]
  BY <1>2
<1>5. /\ r.locked = vm[m].locked + d /\ IsMachine(r)
      /\ r.memtracker = vm[m].memtracker /\ r.lockedPages = vm[m].lockedPages
      /\ r.AWEPages = vm[m].AWEPages /\ SameRequest(r, vm[m])
  BY <1>2 DEF IsMachine, SameRequest
<1> HIDE DEF r
<1>6. CountOf(r) = CountOf(vm[m])
  BY <1>5 DEF CountOf, NamesOf
<1>7. Tracked'
  BY <1>1, <1>3, <1>4, <1>5, TrackedStays
<1>8. Moves(t, m, r, q)
  <2>1. numLockedPages' = numLockedPages + (r.locked - vm[m].locked)
    BY <1>2, <1>5
  <2>2. pins' = [p \in Pages |-> pins'[p]]
    BY <1>1, <1>3 DEF Typed
  <2>3. r.locked + CountOf(vm[m]) + AmountOf(thread[t], m)
          = vm[m].locked + CountOf(r) + AmountOf(q, m)
    BY <1>2, <1>5, <1>6
  <2> QED
    BY <1>3, <1>4, <1>5, <2>1, <2>2, <2>3 DEF Moves
<1> QED
  BY <1>1, <1>7, <1>8, PagesMove DEF Inv

LEMMA ReserveFreePagesInv ==
  ASSUME Inv, NEW t \in Threads, NEW host \in HostLimits, ReserveFreePages(t, host)
  PROVE  Inv'
<1> DEFINE m == thread[t].vm  n == thread[t].num
<1>1. thread[t].pc = "reserve" /\ UNCHANGED <<admission, trackers>>
  BY DEF ReserveFreePages
<1>2. /\ m \in vmDriverList /\ m \in VMs /\ n \in Nat /\ thread[t] \in Thread
      /\ IsMachine(vm[m]) /\ (thread[t].call # "alloc" => n = 1)
  BY <1>1, InCall DEF Inv, ThreadsFit, ThreadFits
<1>3. AmountOf(thread[t], m) = 0
  BY <1>1 DEF AmountOf
<1>4. CASE VMHasFreePages(m, n) /\ HasFreePages(m, n, host)
  <2> DEFINE q == [thread[t] EXCEPT !.pc = "host", !.retries = 0]
  <2>1. /\ numLockedPages' = numLockedPages + n
        /\ vm' = [vm EXCEPT ![m].locked = @ + n]
        /\ thread' = [thread EXCEPT ![t] = q]
    BY <1>4 DEF ReserveFreePages, Become
  <2>2. /\ q \in Thread /\ q.vm = m /\ q.num = n /\ q.pc = "host" /\ q.call = thread[t].call
    <3>1. 0 \in 0..Retries
      BY MemoryAssumption
    <3>2. thread[t] \in Thread
      BY <1>2
    <3>3. \A x \in Thread : [x EXCEPT !.pc = "host", !.retries = 0] \in Thread
      BY <3>1 DEF Thread
    <3>4. q \in Thread
      BY <3>2, <3>3
    <3> QED
      BY <3>2, <3>4 DEF Thread
  <2> HIDE DEF q
  <2>3. ThreadFits(q) /\ AmountOf(q, m) = n
    BY <1>2, <2>2 DEF ThreadFits, AmountOf
  <2>4. numLockedPages' <= configured
    <3>1. host \in Nat /\ vm[m].perVMOverhead \in Nat
      BY <1>2, MemoryAssumption DEF IsMachine
    <3>2. LockedPageLimit(host, vm[m].perVMOverhead) \in Nat
          /\ LockedPageLimit(host, vm[m].perVMOverhead) <= configured
      BY <3>1, LimitType DEF Inv
    <3>3. numLockedPages + n <= LockedPageLimit(host, vm[m].perVMOverhead)
      BY <1>4 DEF HasFreePages
    <3>4. numLockedPages \in Int /\ configured \in Nat
      BY DEF Inv, Typed
    <3> QED
      BY <1>2, <2>1, <3>2, <3>3, <3>4
  <2>5. n \in Int /\ AmountOf(q, m) = AmountOf(thread[t], m) + n
    BY <1>2, <1>3, <2>3
  <2>6. thread[t].vm \in {m, NoVM}
    OBVIOUS
  <2> HIDE DEF m, n
  <2> QED
    BY <1>1, <1>2, <2>1, <2>2, <2>3, <2>4, <2>5, <2>6, Counts
<1>5. CASE ~(VMHasFreePages(m, n) /\ HasFreePages(m, n, host))
  <2>1. PICK q : /\ thread' = [thread EXCEPT ![t] = q]
                 /\ q = (IF VMHasFreePages(m, n) /\ thread[t].retries > 1
                         THEN [thread[t] EXCEPT !.retries = @ - 1] ELSE Idle)
    BY <1>5 DEF ReserveFreePages, Become
  <2>2. UNCHANGED <<admission, vm, numLockedPages, trackers>>
    BY <1>1, <1>5 DEF ReserveFreePages
  <2>3. q \in Thread /\ q.vm \in {m, NoVM} /\ ThreadFits(q) /\ AmountOf(q, m) = 0
    <3>1. CASE q = Idle
      BY <3>1, IdleType, IdleFits
    <3>2. CASE q = [thread[t] EXCEPT !.retries = @ - 1] /\ thread[t].retries > 1
      <4>1. thread[t].retries \in 0..Retries /\ Retries \in Nat
        BY <1>2, MemoryAssumption DEF Thread
      <4>2. thread[t].retries - 1 \in 0..Retries
        BY <3>2, <4>1
      <4>3. /\ q \in Thread /\ q.pc = "reserve" /\ q.vm = m /\ q.num = n
            /\ q.call = thread[t].call
        BY <1>1, <1>2, <3>2, <4>2 DEF Thread
      <4> QED
        BY <1>2, <4>3 DEF ThreadFits, AmountOf
    <3> QED
      BY <2>1, <3>1, <3>2
  <2>4. thread[t].vm \in {m, NoVM}
    OBVIOUS
  <2> HIDE DEF m, n
  <2> QED
    BY <1>2, <1>3, <2>1, <2>2, <2>3, <2>4, ThreadGoesOn
<1> QED
  BY <1>4, <1>5

LEMMA UnreserveFreePagesInv ==
  ASSUME Inv, NEW t \in Threads, UnreserveFreePages(t)
  PROVE  Inv'
<1> DEFINE m == thread[t].vm  n == thread[t].num
<1>1. /\ thread[t].pc = "unreserve" /\ UNCHANGED <<admission, trackers>>
      /\ thread' = [thread EXCEPT ![t] = Idle]
      /\ numLockedPages' = numLockedPages - n
      /\ vm' = [vm EXCEPT ![m].locked = @ - n]
  BY DEF UnreserveFreePages, Become
<1>2. m \in vmDriverList /\ m \in VMs /\ n \in Nat /\ IsMachine(vm[m])
  BY <1>1, InCall DEF Inv
<1>3. AmountOf(thread[t], m) = n /\ AmountOf(Idle, m) = 0
  BY <1>1, IdleFits DEF AmountOf
<1>4. numLockedPages \in Int /\ configured \in Nat /\ numLockedPages <= configured
  BY DEF Inv, Typed, Fit
<1>5. vm[m].locked \in Int
  BY <1>2 DEF IsMachine
<1>6. /\ numLockedPages' = numLockedPages + (-n) /\ numLockedPages' <= configured
      /\ -n \in Int /\ AmountOf(Idle, m) = AmountOf(thread[t], m) + (-n)
      /\ vm[m].locked - n = vm[m].locked + (-n)
  BY <1>1, <1>2, <1>3, <1>4, <1>5
<1>7. vm' = [vm EXCEPT ![m].locked = @ + (-n)]
  BY <1>1, <1>6
<1>8. Idle \in Thread /\ Idle.vm \in {m, NoVM} /\ ThreadFits(Idle)
  BY IdleType, IdleFits
<1>9. thread[t].vm \in {m, NoVM}
  OBVIOUS
<1> HIDE DEF m, n
<1> QED
  BY <1>1, <1>2, <1>6, <1>7, <1>8, <1>9, Counts

\* A call moves pages into the trackers of its machine or out of them.
LEMMA TrackersMove ==
  ASSUME Inv, NEW t \in Threads, NEW m \in vmDriverList, NEW q \in Thread, NEW r, IsMachine(r),
         vm' = [vm EXCEPT ![m] = r], thread' = [thread EXCEPT ![t] = q],
         r.locked = vm[m].locked, SameRequest(r, vm[m]),
         UNCHANGED <<admission, numLockedPages>>, pins' = [p \in Pages |-> pins'[p]],
         thread[t].vm \in {m, NoVM}, q.vm \in {m, NoVM}, ThreadFits(q),
         CountOf(vm[m]) + AmountOf(thread[t], m) = CountOf(r) + AmountOf(q, m),
         Tracked'
  PROVE  Inv'
<1>1. Typed /\ ThreadsFit /\ Tracked /\ Accounted /\ Fit
  BY DEF Inv
<1>2. /\ vm[m].locked \in Nat /\ IsMachine(vm[m]) /\ m \in VMs
      /\ CountOf(vm[m]) \in Nat /\ CountOf(r) \in Nat
      /\ AmountOf(q, m) \in Nat /\ AmountOf(thread[t], m) \in Nat
  BY <1>1, LockedType, CountType, AmountType DEF Typed
<1>3. UNCHANGED <<vmDriverList, dying, configured, minVmMemPct, numLockedPages>>
  BY DEF admission
<1>4. Moves(t, m, r, q)
  <2>1. numLockedPages' = numLockedPages + (r.locked - vm[m].locked)
    BY <1>1, <1>2, <1>3 DEF Typed
  <2>2. numLockedPages' <= configured
    BY <1>1, <1>3 DEF Fit
  <2>3. r.locked + CountOf(vm[m]) + AmountOf(thread[t], m)
          = vm[m].locked + CountOf(r) + AmountOf(q, m)
    BY <1>2
  <2> QED
    BY <1>3, <2>1, <2>2, <2>3 DEF Moves
<1> QED
  BY <1>1, <1>4, PagesMove DEF Inv

\* A machine on the list changes only in its trackers.
LEMMA NewTrackers ==
  ASSUME NEW r, IsMachine(r)
  PROVE  /\ \A A \in SUBSET UserPages :
              LET x == [r EXCEPT !.lockedPages = A] IN
              /\ IsMachine(x) /\ SameRequest(x, r) /\ x.locked = r.locked
              /\ x.memtracker = r.memtracker /\ x.lockedPages = A /\ x.AWEPages = r.AWEPages
         /\ \A A \in SUBSET Frames :
              LET x == [r EXCEPT !.AWEPages = A] IN
              /\ IsMachine(x) /\ SameRequest(x, r) /\ x.locked = r.locked
              /\ x.memtracker = r.memtracker /\ x.lockedPages = r.lockedPages /\ x.AWEPages = A
         /\ \A f \in [Vpns -> UserPages \cup {NoPage}] :
              LET x == [r EXCEPT !.memtracker = f] IN
              /\ IsMachine(x) /\ SameRequest(x, r) /\ x.locked = r.locked
              /\ x.memtracker = f /\ x.lockedPages = r.lockedPages /\ x.AWEPages = r.AWEPages
<1>1. ASSUME NEW A \in SUBSET UserPages
      PROVE  LET x == [r EXCEPT !.lockedPages = A] IN
              /\ IsMachine(x) /\ SameRequest(x, r) /\ x.locked = r.locked
              /\ x.memtracker = r.memtracker /\ x.lockedPages = A /\ x.AWEPages = r.AWEPages
  BY DEF IsMachine, SameRequest
<1>2. ASSUME NEW A \in SUBSET Frames
      PROVE  LET x == [r EXCEPT !.AWEPages = A] IN
              /\ IsMachine(x) /\ SameRequest(x, r) /\ x.locked = r.locked
              /\ x.memtracker = r.memtracker /\ x.lockedPages = r.lockedPages /\ x.AWEPages = A
  BY DEF IsMachine, SameRequest
<1>3. ASSUME NEW f \in [Vpns -> UserPages \cup {NoPage}]
      PROVE  LET x == [r EXCEPT !.memtracker = f] IN
              /\ IsMachine(x) /\ SameRequest(x, r) /\ x.locked = r.locked
              /\ x.memtracker = f /\ x.lockedPages = r.lockedPages /\ x.AWEPages = r.AWEPages
  BY DEF IsMachine, SameRequest
<1> QED
  BY <1>1, <1>2, <1>3

\* The references to the pages of a machine on the list follow its trackers.
LEMMA ListedKept ==
  ASSUME Inv, NEW m \in vmDriverList, NEW r, vm' = [vm EXCEPT ![m] = r],
         r.memtracker = vm[m].memtracker, Follows(m, r),
         UNCHANGED <<admission, physTracker, panic>>
  PROVE  Tracked'
<1>1. Typed /\ Tracked /\ UNCHANGED <<vmDriverList, dying, physTracker, panic>>
  BY DEF Inv, admission
<1>2. m \in VMs /\ \A k \in VMs \ {m} : vm'[k] = vm[k]
  BY <1>1 DEF Typed
<1>3. \A k \in VMs : k \in vmDriverList' \/ k = dying' \/ Empty(vm'[k])
  BY <1>1, <1>2 DEF Tracked
<1>4. Keeps(m, r)
  BY <1>1, <1>2, <1>3 DEF Keeps
<1> QED
  BY <1>1, <1>4, TrackedKept

LEMMA LockPageNewInv ==
  ASSUME Inv, NEW t \in Threads, NEW p \in UserPages, LockPageNew(t, p)
  PROVE  Inv'
<1> DEFINE m == thread[t].vm
           works == p \notin physTracker /\ p \notin vm[m].lockedPages
<1>1. /\ thread[t].pc = "host" /\ thread[t].call = "lockNew"
      /\ UNCHANGED <<admission, numLockedPages, physTracker, panic>>
  BY DEF LockPageNew
<1>2. /\ m \in vmDriverList /\ m \in VMs /\ thread[t].num = 1 /\ IsMachine(vm[m])
      /\ AmountOf(thread[t], m) = 1 /\ thread[t].vm \in {m, NoVM}
  BY <1>1, InCall DEF Inv, ThreadsFit, ThreadFits, AmountOf
<1>3. CASE works
  <2> DEFINE r == [vm[m] EXCEPT !.lockedPages = @ \cup {p}]
  <2>1. /\ vm' = [vm EXCEPT ![m] = r] /\ pins' = [pins EXCEPT ![p] = @ + 1]
        /\ thread' = [thread EXCEPT ![t] = Idle]
    BY <1>3 DEF LockPageNew, Holds, Become
  <2>2. vm[m].lockedPages \cup {p} \in SUBSET UserPages
    BY <1>2 DEF IsMachine
  <2>3. /\ IsMachine(r) /\ SameRequest(r, vm[m]) /\ r.locked = vm[m].locked
        /\ r.memtracker = vm[m].memtracker /\ r.lockedPages = vm[m].lockedPages \cup {p}
        /\ r.AWEPages = vm[m].AWEPages
    BY <1>2, <2>2, NewTrackers
  <2> HIDE DEF r
  <2>4. CountOf(r) = CountOf(vm[m]) + 1
    <3>1. /\ IsFiniteSet(vm[m].lockedPages) /\ Cardinality(vm[m].lockedPages) \in Nat
          /\ Cardinality(NamesOf(vm[m])) \in Nat /\ Cardinality(vm[m].AWEPages) \in Nat
      BY <1>2, CountType
    <3>2. Cardinality(r.lockedPages) = Cardinality(vm[m].lockedPages) + 1
      BY <1>3, <2>3, <3>1, FS_AddElement
    <3>3. NamesOf(r) = NamesOf(vm[m])
      BY <2>3 DEF NamesOf
    <3> QED
      BY <2>3, <3>1, <3>2, <3>3 DEF CountOf
  <2>5. CountOf(vm[m]) \in Nat
    BY <1>2, CountType
  <2>6. \A k \in Pages : pins[k] \in Int
    BY PinsType DEF Inv
  <2>7. \A k \in Pages : pins'[k] = IF k = p THEN pins[k] + 1 ELSE pins[k]
    BY <2>1 DEF Inv, Typed
  <2>8. Follows(m, r)
    <3>1. \A k \in Pages : RefsBy(r, k) = IF k = p THEN RefsBy(vm[m], k) + 1 ELSE RefsBy(vm[m], k)
      BY <1>3, <2>3 DEF RefsBy, Names, One
    <3>2. \A k \in Pages : RefsBy(vm[m], k) \in Nat
      BY DEF RefsBy, One
    <3> QED
      BY <2>6, <2>7, <3>1, <3>2 DEF Follows
  <2>9. Tracked'
    BY <1>1, <1>2, <2>1, <2>3, <2>8, ListedKept
  <2>10. pins' = [k \in Pages |-> pins'[k]]
    BY <2>1 DEF Inv, Typed
  <2>11. /\ Idle \in Thread /\ Idle.vm \in {m, NoVM} /\ ThreadFits(Idle)
         /\ AmountOf(Idle, m) = 0
    BY IdleType, IdleFits
  <2>12. CountOf(vm[m]) + AmountOf(thread[t], m) = CountOf(r) + AmountOf(Idle, m)
    BY <1>2, <2>4, <2>5, <2>11
  <2>13. UNCHANGED <<admission, numLockedPages>>
    BY <1>1
  <2> HIDE DEF m
  <2> QED
    BY <1>2, <2>1, <2>3, <2>9, <2>10, <2>11, <2>12, <2>13, TrackersMove
<1>4. CASE ~works
  <2>1. NoUserPage(t)
    BY <1>1, <1>4 DEF LockPageNew, NoUserPage, trackers
  <2> QED
    BY <2>1, NoUserPageInv
<1> QED
  BY <1>3, <1>4

\* The memtracker of a machine names a page that nothing named, ...
LEMMA NamedMore ==
  ASSUME Inv, NEW m \in vmDriverList, NEW n \in Vpns, NEW p \in UserPages, NEW r,
         vm[m].memtracker[n] = NoPage, p \notin physTracker,
         r.memtracker = [vm[m].memtracker EXCEPT ![n] = p],
         r.lockedPages = vm[m].lockedPages, r.AWEPages = vm[m].AWEPages,
         vm' = [vm EXCEPT ![m] = r],
         physTracker' = physTracker \cup {p}, pins' = [pins EXCEPT ![p] = @ + 1],
         UNCHANGED <<admission, panic>>
  PROVE  Tracked'
<1>1. /\ Typed /\ Tracked /\ NamesDiffer /\ UNCHANGED <<vmDriverList, dying, panic>>
      /\ physTracker = {x \in UserPages : \E k \in VMs : Names(vm[k], x)} /\ ~panic
  BY DEF Inv, Tracked, admission
<1>2. m \in VMs /\ vm'[m] = r /\ \A k \in VMs \ {m} : vm'[k] = vm[k]
  BY <1>1 DEF Typed
<1>3. vm[m].memtracker \in [Vpns -> UserPages \cup {NoPage}]
  BY <1>1, <1>2 DEF Typed, IsMachine
<1>4. r.memtracker[n] = p /\ \A i \in Vpns \ {n} : r.memtracker[i] = vm[m].memtracker[i]
  BY <1>3
<1>5. p # NoPage /\ p \in Pages
  BY MemoryAssumption DEF Pages
<1>6. \A x \in Pages : Names(r, x) <=> Names(vm[m], x) \/ x = p
  <2>1. \A x \in Pages : x # NoPage
    BY MemoryAssumption DEF Pages
  <2> QED
    BY <1>4, <2>1 DEF Names
<1>7. \A k \in VMs : ~Names(vm[k], p)
  BY <1>1
<1>8. NamesDiffer'
  <2>1. \A k \in VMs, i \in Vpns :
          vm'[k].memtracker[i] = IF k = m /\ i = n THEN p ELSE vm[k].memtracker[i]
    <3> SUFFICES ASSUME NEW k \in VMs, NEW i \in Vpns
                 PROVE  vm'[k].memtracker[i]
                          = IF k = m /\ i = n THEN p ELSE vm[k].memtracker[i]
      OBVIOUS
    <3>1. CASE k # m
      BY <1>2, <3>1
    <3>2. CASE k = m
      <4>1. vm'[k].memtracker = r.memtracker
        BY <1>2, <3>2
      <4>2. vm[k].memtracker[i] = vm[m].memtracker[i]
        BY <3>2
      <4>3. CASE i = n
        <5>1. r.memtracker[i] = p
          BY <1>4, <4>3
        <5>2. vm'[k].memtracker[i] = p
          BY <4>1, <5>1
        <5> QED
          BY <3>2, <4>3, <5>2
      <4>4. CASE i # n
        <5>1. r.memtracker[i] = vm[m].memtracker[i]
          BY <1>4, <4>4
        <5> QED
          BY <4>1, <4>2, <4>4, <5>1
      <4> QED
        BY <4>3, <4>4
    <3> QED
      BY <3>1, <3>2
  <2>2. \A k \in VMs, i \in Vpns : vm[k].memtracker[i] # p
    BY <1>7 DEF Names
  <2> QED
    BY <1>1, <2>1, <2>2 DEF NamesDiffer
<1>9. physTracker' = {x \in UserPages : \E k \in VMs : Names(vm'[k], x)}
  BY <1>1, <1>2, <1>6 DEF Pages
<1>10. \A k \in VMs : k \in vmDriverList' \/ k = dying' \/ Empty(vm'[k])
  BY <1>1, <1>2 DEF Tracked
<1>11. \A x \in Pages : pins[x] \in Int
  BY <1>1, PinsType
<1>12. \A x \in Pages : pins'[x] = IF x = p THEN pins[x] + 1 ELSE pins[x]
  BY <1>1 DEF Typed
<1>13. \A x \in Pages : RefsBy(r, x) = IF x = p THEN RefsBy(vm[m], x) + 1 ELSE RefsBy(vm[m], x)
  BY <1>2, <1>6, <1>7 DEF RefsBy, One
<1>14. \A x \in Pages : RefsBy(vm[m], x) \in Nat
  BY DEF RefsBy, One
<1>15. /\ \A x \in Pages : pins'[x] + RefsBy(vm[m], x) = pins[x] + RefsBy(r, x)
       /\ \A x \in Pages : pins'[x] \in Int
  BY <1>11, <1>12, <1>13, <1>14
<1>16. \A x \in Pages : pins'[x] = RefsOf(vm', x)
  BY <1>1, <1>2, <1>15, RefsFollow
<1>17. ~panic'
  BY <1>1
<1> QED
  BY <1>8, <1>9, <1>10, <1>16, <1>17 DEF Tracked

\* ... or no longer names one.
LEMMA NamedLess ==
  ASSUME Inv, NEW m \in vmDriverList, NEW n \in Vpns, NEW p \in UserPages, NEW r,
         vm[m].memtracker[n] = p,
         r.memtracker = [vm[m].memtracker EXCEPT ![n] = NoPage],
         r.lockedPages = vm[m].lockedPages, r.AWEPages = vm[m].AWEPages,
         vm' = [vm EXCEPT ![m] = r],
         physTracker' = physTracker \ {p}, pins' = [pins EXCEPT ![p] = @ + (-1)],
         panic' = (panic \/ p \notin physTracker), UNCHANGED admission
  PROVE  Tracked'
<1>1. /\ Typed /\ Tracked /\ NamesDiffer /\ UNCHANGED <<vmDriverList, dying>>
      /\ physTracker = {x \in UserPages : \E k \in VMs : Names(vm[k], x)} /\ ~panic
  BY DEF Inv, Tracked, admission
<1>2. m \in VMs /\ vm'[m] = r /\ \A k \in VMs \ {m} : vm'[k] = vm[k]
  BY <1>1 DEF Typed
<1>3. vm[m].memtracker \in [Vpns -> UserPages \cup {NoPage}]
  BY <1>1, <1>2 DEF Typed, IsMachine
<1>4. r.memtracker[n] = NoPage /\ \A i \in Vpns \ {n} : r.memtracker[i] = vm[m].memtracker[i]
  BY <1>3
<1>5. \A x \in Pages : x # NoPage
  BY MemoryAssumption DEF Pages
<1>6. p \in Pages /\ p # NoPage /\ Names(vm[m], p)
  BY <1>5 DEF Pages, Names
<1>7. \A k \in VMs, i \in Vpns : vm[k].memtracker[i] = p => k = m /\ i = n
  BY <1>1, <1>2, <1>6 DEF NamesDiffer
<1>8. \A x \in Pages : Names(r, x) <=> Names(vm[m], x) /\ x # p
  BY <1>2, <1>4, <1>5, <1>7 DEF Names
<1>9. \A k \in VMs \ {m} : ~Names(vm[k], p)
  BY <1>7 DEF Names
<1>10. NamesDiffer'
  <2>1. \A k \in VMs, i \in Vpns :
          vm'[k].memtracker[i] = IF k = m /\ i = n THEN NoPage ELSE vm[k].memtracker[i]
    <3> SUFFICES ASSUME NEW k \in VMs, NEW i \in Vpns
                 PROVE  vm'[k].memtracker[i]
                          = IF k = m /\ i = n THEN NoPage ELSE vm[k].memtracker[i]
      OBVIOUS
    <3>1. CASE k # m
      BY <1>2, <3>1
    <3>2. CASE k = m
      <4>1. vm'[k].memtracker = r.memtracker
        BY <1>2, <3>2
      <4>2. vm[k].memtracker[i] = vm[m].memtracker[i]
        BY <3>2
      <4>3. CASE i = n
        <5>1. r.memtracker[i] = NoPage
          BY <1>4, <4>3
        <5>2. vm'[k].memtracker[i] = NoPage
          BY <4>1, <5>1
        <5> QED
          BY <3>2, <4>3, <5>2
      <4>4. CASE i # n
        <5>1. r.memtracker[i] = vm[m].memtracker[i]
          BY <1>4, <4>4
        <5> QED
          BY <4>1, <4>2, <4>4, <5>1
      <4> QED
        BY <4>3, <4>4
    <3> QED
      BY <3>1, <3>2
  <2> QED
    BY <1>1, <2>1 DEF NamesDiffer
<1>11. physTracker' = {x \in UserPages : \E k \in VMs : Names(vm'[k], x)}
  BY <1>1, <1>2, <1>8, <1>9 DEF Pages
<1>12. \A k \in VMs : k \in vmDriverList' \/ k = dying' \/ Empty(vm'[k])
  BY <1>1, <1>2 DEF Tracked
<1>13. \A x \in Pages : pins[x] \in Int
  BY <1>1, PinsType
<1>14. \A x \in Pages : pins'[x] = IF x = p THEN pins[x] + (-1) ELSE pins[x]
  BY <1>1 DEF Typed
<1>15. \A x \in Pages : RefsBy(r, x) = IF x = p THEN RefsBy(vm[m], x) - 1 ELSE RefsBy(vm[m], x)
  BY <1>2, <1>6, <1>8 DEF RefsBy, One
<1>16. \A x \in Pages : RefsBy(vm[m], x) \in Nat
  BY DEF RefsBy, One
<1>17. /\ \A x \in Pages : pins'[x] + RefsBy(vm[m], x) = pins[x] + RefsBy(r, x)
       /\ \A x \in Pages : pins'[x] \in Int
  BY <1>13, <1>14, <1>15, <1>16
<1>18. \A x \in Pages : pins'[x] = RefsOf(vm', x)
  BY <1>1, <1>2, <1>17, RefsFollow
<1>19. ~panic'
  BY <1>1, <1>2, <1>6
<1> QED
  BY <1>1, <1>10, <1>11, <1>12, <1>18, <1>19 DEF Tracked

LEMMA LockPageInv ==
  ASSUME Inv, NEW t \in Threads, NEW n \in Vpns, NEW p \in UserPages, LockPage(t, n, p)
  PROVE  Inv'
<1> DEFINE m == thread[t].vm
           works == vm[m].memtracker[n] = NoPage /\ p \notin physTracker
<1>1. /\ thread[t].pc = "host" /\ thread[t].call = "lock"
      /\ UNCHANGED <<admission, numLockedPages, panic>>
  BY DEF LockPage
<1>2. /\ m \in vmDriverList /\ m \in VMs /\ thread[t].num = 1 /\ IsMachine(vm[m])
      /\ AmountOf(thread[t], m) = 1 /\ thread[t].vm \in {m, NoVM}
  BY <1>1, InCall DEF Inv, ThreadsFit, ThreadFits, AmountOf
<1>3. CASE works
  <2> DEFINE f == [vm[m].memtracker EXCEPT ![n] = p]
             r == [vm[m] EXCEPT !.memtracker = f]
  <2>1. /\ vm' = [vm EXCEPT ![m] = r] /\ pins' = [pins EXCEPT ![p] = @ + 1]
        /\ physTracker' = physTracker \cup {p}
        /\ thread' = [thread EXCEPT ![t] = Idle]
    BY <1>3 DEF LockPage, Holds, Become
  <2>2. vm[m].memtracker \in [Vpns -> UserPages \cup {NoPage}]
    BY <1>2 DEF IsMachine
  <2>3. f \in [Vpns -> UserPages \cup {NoPage}] /\ f[n] = p
        /\ \A i \in Vpns \ {n} : f[i] = vm[m].memtracker[i]
    BY <2>2
  <2>4. /\ IsMachine(r) /\ SameRequest(r, vm[m]) /\ r.locked = vm[m].locked
        /\ r.memtracker = f /\ r.lockedPages = vm[m].lockedPages
        /\ r.AWEPages = vm[m].AWEPages
    BY <1>2, <2>3, NewTrackers
  <2> HIDE DEF r
  <2>5. CountOf(r) = CountOf(vm[m]) + 1
    <3>1. /\ IsFiniteSet(NamesOf(vm[m])) /\ Cardinality(vm[m].lockedPages) \in Nat
          /\ Cardinality(NamesOf(vm[m])) \in Nat /\ Cardinality(vm[m].AWEPages) \in Nat
      BY <1>2, CountType
    <3>2. p # NoPage
      BY MemoryAssumption
    <3>3. NamesOf(r) = NamesOf(vm[m]) \cup {n} /\ n \notin NamesOf(vm[m])
      BY <1>3, <2>3, <2>4, <3>2 DEF NamesOf
    <3>4. Cardinality(NamesOf(r)) = Cardinality(NamesOf(vm[m])) + 1
      BY <3>1, <3>3, FS_AddElement
    <3> QED
      BY <2>4, <3>1, <3>4 DEF CountOf
  <2>6. CountOf(vm[m]) \in Nat
    BY <1>2, CountType
  <2>7. Tracked'
    BY <1>1, <1>2, <1>3, <2>1, <2>4, NamedMore
  <2>8. pins' = [k \in Pages |-> pins'[k]]
    BY <2>1 DEF Inv, Typed
  <2>9. /\ Idle \in Thread /\ Idle.vm \in {m, NoVM} /\ ThreadFits(Idle)
        /\ AmountOf(Idle, m) = 0
    BY IdleType, IdleFits
  <2>10. CountOf(vm[m]) + AmountOf(thread[t], m) = CountOf(r) + AmountOf(Idle, m)
    BY <1>2, <2>5, <2>6, <2>9
  <2>11. UNCHANGED <<admission, numLockedPages>>
    BY <1>1
  <2> HIDE DEF m
  <2> QED
    BY <1>2, <2>1, <2>4, <2>7, <2>8, <2>9, <2>10, <2>11, TrackersMove
<1>4. CASE ~works
  <2>1. NoUserPage(t)
    BY <1>1, <1>4 DEF LockPage, NoUserPage, trackers
  <2> QED
    BY <2>1, NoUserPageInv
<1> QED
  BY <1>3, <1>4

\* A thread that begins to give pages back has reserved none.
LEMMA GivesBack ==
  ASSUME Inv, NEW t \in Threads, NEW m, MayCall(t, m), NEW n \in Nat
  PROVE  /\ m \in vmDriverList /\ m \in VMs /\ IsMachine(vm[m])
         /\ thread[t].vm \in {m, NoVM} /\ AmountOf(thread[t], m) = 0
         /\ LET q == [Unreserve(n) EXCEPT !.vm = m] IN
            q \in Thread /\ q.vm \in {m, NoVM} /\ ThreadFits(q) /\ AmountOf(q, m) = n
<1>1. m \in vmDriverList /\ thread[t].pc = "idle"
  BY DEF MayCall
<1>2. m \in VMs /\ IsMachine(vm[m])
  BY <1>1 DEF Inv, Typed
<1>3. thread[t].vm = NoVM /\ AmountOf(thread[t], m) = 0
  BY <1>1 DEF Inv, ThreadsFit, ThreadFits, AmountOf
<1>4. LET q == [Unreserve(n) EXCEPT !.vm = m] IN
        q \in Thread /\ q.vm = m /\ ThreadFits(q) /\ AmountOf(q, m) = n
  BY <1>1, <1>2, UnreserveType
<1> QED
  BY <1>1, <1>2, <1>3, <1>4

LEMMA UnlockPageInv ==
  ASSUME Inv, NEW t \in Threads, NEW m \in VMs, NEW n \in Vpns, UnlockPage(t, m, n)
  PROVE  Inv'
<1> DEFINE p == vm[m].memtracker[n]
           f == [vm[m].memtracker EXCEPT ![n] = NoPage]
           r == [vm[m] EXCEPT !.memtracker = f]
           q == [Unreserve(1) EXCEPT !.vm = m]
<1>1. /\ MayCall(t, m) /\ p # NoPage /\ panic' = (panic \/ p \notin physTracker)
      /\ vm' = [vm EXCEPT ![m] = r] /\ pins' = [pins EXCEPT ![p] = @ + (-1)]
      /\ physTracker' = physTracker \ {p} /\ thread' = [thread EXCEPT ![t] = q]
      /\ UNCHANGED <<admission, numLockedPages>>
  BY DEF UnlockPage, Holds, Become
<1>2. /\ m \in vmDriverList /\ IsMachine(vm[m])
      /\ thread[t].vm \in {m, NoVM} /\ AmountOf(thread[t], m) = 0
      /\ q \in Thread /\ q.vm \in {m, NoVM} /\ ThreadFits(q) /\ AmountOf(q, m) = 1
  BY <1>1, GivesBack
<1>3. vm[m].memtracker \in [Vpns -> UserPages \cup {NoPage}]
  BY <1>2 DEF IsMachine
<1>4. /\ f \in [Vpns -> UserPages \cup {NoPage}] /\ f[n] = NoPage /\ p \in UserPages
      /\ \A i \in Vpns \ {n} : f[i] = vm[m].memtracker[i]
  BY <1>1, <1>3
<1>5. /\ IsMachine(r) /\ SameRequest(r, vm[m]) /\ r.locked = vm[m].locked
      /\ r.memtracker = f /\ r.lockedPages = vm[m].lockedPages
      /\ r.AWEPages = vm[m].AWEPages
  BY <1>2, <1>4, NewTrackers
<1> HIDE DEF r, q
<1>6. CountOf(r) + 1 = CountOf(vm[m]) /\ CountOf(r) \in Nat
  <2>1. /\ IsFiniteSet(NamesOf(vm[m])) /\ Cardinality(vm[m].lockedPages) \in Nat
        /\ Cardinality(NamesOf(vm[m])) \in Nat /\ Cardinality(vm[m].AWEPages) \in Nat
    BY <1>2, CountType
  <2>2. NamesOf(r) = NamesOf(vm[m]) \ {n} /\ n \in NamesOf(vm[m])
    BY <1>1, <1>4, <1>5 DEF NamesOf
  <2>3. Cardinality(NamesOf(r)) = Cardinality(NamesOf(vm[m])) - 1
    BY <2>1, <2>2, FS_RemoveElement
  <2>4. CountOf(r) \in Nat
    BY <1>5, CountType
  <2> QED
    BY <1>5, <2>1, <2>3, <2>4 DEF CountOf
<1>7. Tracked'
  BY <1>1, <1>2, <1>4, <1>5, NamedLess
<1>8. pins' = [k \in Pages |-> pins'[k]]
  BY <1>1 DEF Inv, Typed
<1>9. CountOf(vm[m]) + AmountOf(thread[t], m) = CountOf(r) + AmountOf(q, m)
  BY <1>2, <1>6
<1> QED
  BY <1>1, <1>2, <1>5, <1>7, <1>8, <1>9, TrackersMove

LEMMA UnlockPageByMPNInv ==
  ASSUME Inv, NEW t \in Threads, NEW m \in VMs, NEW p \in UserPages, UnlockPageByMPN(t, m, p)
  PROVE  Inv'
<1> DEFINE r == [vm[m] EXCEPT !.lockedPages = @ \ {p}]
           q == [Unreserve(1) EXCEPT !.vm = m]
<1>1. /\ MayCall(t, m) /\ p \in vm[m].lockedPages
      /\ vm' = [vm EXCEPT ![m] = r] /\ pins' = [pins EXCEPT ![p] = @ + (-1)]
      /\ thread' = [thread EXCEPT ![t] = q]
      /\ UNCHANGED <<admission, numLockedPages, physTracker, panic>>
  BY DEF UnlockPageByMPN, Holds, Become
<1>2. /\ m \in vmDriverList /\ IsMachine(vm[m])
      /\ thread[t].vm \in {m, NoVM} /\ AmountOf(thread[t], m) = 0
      /\ q \in Thread /\ q.vm \in {m, NoVM} /\ ThreadFits(q) /\ AmountOf(q, m) = 1
  BY <1>1, GivesBack
<1>3. vm[m].lockedPages \ {p} \in SUBSET UserPages
  BY <1>2 DEF IsMachine
<1>4. /\ IsMachine(r) /\ SameRequest(r, vm[m]) /\ r.locked = vm[m].locked
      /\ r.memtracker = vm[m].memtracker /\ r.lockedPages = vm[m].lockedPages \ {p}
      /\ r.AWEPages = vm[m].AWEPages
  BY <1>2, <1>3, NewTrackers
<1> HIDE DEF r, q
<1>5. CountOf(r) + 1 = CountOf(vm[m]) /\ CountOf(r) \in Nat
  <2>1. /\ IsFiniteSet(vm[m].lockedPages) /\ Cardinality(vm[m].lockedPages) \in Nat
        /\ Cardinality(NamesOf(vm[m])) \in Nat /\ Cardinality(vm[m].AWEPages) \in Nat
    BY <1>2, CountType
  <2>2. Cardinality(r.lockedPages) = Cardinality(vm[m].lockedPages) - 1
    <3>1. r.lockedPages = vm[m].lockedPages \ {p} /\ p \in vm[m].lockedPages
      BY <1>1, <1>4
    <3> QED
      BY <2>1, <3>1, FS_RemoveElement
  <2>3. NamesOf(r) = NamesOf(vm[m])
    BY <1>4 DEF NamesOf
  <2>4. CountOf(r) \in Nat
    BY <1>4, CountType
  <2> QED
    BY <1>4, <2>1, <2>2, <2>3, <2>4 DEF CountOf
<1>6. Follows(m, r)
  <2>1. \A k \in Pages : pins[k] \in Int
    BY PinsType DEF Inv
  <2>2. \A k \in Pages : pins'[k] = IF k = p THEN pins[k] + (-1) ELSE pins[k]
    BY <1>1 DEF Inv, Typed
  <2>3. \A k \in Pages : RefsBy(r, k) = IF k = p THEN RefsBy(vm[m], k) - 1 ELSE RefsBy(vm[m], k)
    BY <1>1, <1>4 DEF RefsBy, Names, One
  <2>4. \A k \in Pages : RefsBy(vm[m], k) \in Nat
    BY DEF RefsBy, One
  <2> QED
    BY <2>1, <2>2, <2>3, <2>4 DEF Follows
<1>7. Tracked'
  BY <1>1, <1>2, <1>4, <1>6, ListedKept
<1>8. pins' = [k \in Pages |-> pins'[k]]
  BY <1>1 DEF Inv, Typed
<1>9. CountOf(vm[m]) + AmountOf(thread[t], m) = CountOf(r) + AmountOf(q, m)
  BY <1>2, <1>5
<1> QED
  BY <1>1, <1>2, <1>4, <1>7, <1>8, <1>9, TrackersMove

\* Frames join the tracker of a machine together, and leave it together.
LEMMA Together ==
  ASSUME NEW A, NEW B, IsFiniteSet(A), IsFiniteSet(B), A \cap B = {}
  PROVE  /\ Cardinality(A) \in Nat /\ Cardinality(B) \in Nat
         /\ Cardinality(A \cup B) = Cardinality(A) + Cardinality(B)
<1>1. Cardinality(A \cup B) = Cardinality(A) + Cardinality(B) - Cardinality(A \cap B)
  BY FS_Union
<1>2. Cardinality(A \cap B) = 0
  BY FS_EmptySet
<1>3. Cardinality(A) \in Nat /\ Cardinality(B) \in Nat
  BY FS_CardinalityType
<1> QED
  BY <1>1, <1>2, <1>3

LEMMA AllocLockedPagesInv ==
  ASSUME Inv, NEW t \in Threads, NEW got \in SUBSET Frames, AllocLockedPages(t, got)
  PROVE  Inv'
<1> DEFINE m == thread[t].vm
           short == thread[t].num - Cardinality(got)
           r == [vm[m] EXCEPT !.AWEPages = @ \cup got]
<1>1. PICK q : /\ thread[t].pc = "host" /\ short >= 0 /\ \A p \in got : pins[p] = 0
               /\ q = (IF short = 0 THEN Idle ELSE [Unreserve(short) EXCEPT !.vm = m])
               /\ vm' = [vm EXCEPT ![m] = r]
               /\ pins' = [p \in Pages |-> IF p \in got THEN pins[p] + 1 ELSE pins[p]]
               /\ thread' = [thread EXCEPT ![t] = q]
               /\ UNCHANGED <<admission, numLockedPages, physTracker, panic>>
  BY DEF AllocLockedPages, Become
<1>2. /\ m \in vmDriverList /\ m \in VMs /\ thread[t].num \in Nat /\ IsMachine(vm[m])
      /\ AmountOf(thread[t], m) = thread[t].num /\ thread[t].vm \in {m, NoVM}
  BY <1>1, InCall DEF Inv, AmountOf
<1>3. IsFiniteSet(got) /\ Cardinality(got) \in Nat
  BY MemoryAssumption, FS_Subset, FS_CardinalityType
<1>4. short \in Nat /\ short + Cardinality(got) = thread[t].num
  BY <1>1, <1>2, <1>3
<1> HIDE DEF short
<1>5. q \in Thread /\ q.vm \in {m, NoVM} /\ ThreadFits(q) /\ AmountOf(q, m) = short
  <2>1. CASE short = 0
    BY <1>1, <2>1, IdleType, IdleFits
  <2>2. CASE short # 0
    BY <1>1, <1>2, <1>4, <2>2, UnreserveType
  <2> QED
    BY <2>1, <2>2
<1>6. vm[m].AWEPages \cup got \in SUBSET Frames
  BY <1>2 DEF IsMachine
<1>7. /\ IsMachine(r) /\ SameRequest(r, vm[m]) /\ r.locked = vm[m].locked
      /\ r.memtracker = vm[m].memtracker /\ r.lockedPages = vm[m].lockedPages
      /\ r.AWEPages = vm[m].AWEPages \cup got
  BY <1>2, <1>6, NewTrackers
<1>8. \A p \in got : p \in Pages /\ p \notin vm[m].AWEPages
  <2> SUFFICES ASSUME NEW p \in got PROVE p \in Pages /\ p \notin vm[m].AWEPages
    OBVIOUS
  <2>1. p \in Pages
    BY DEF Pages
  <2>2. RefsBy(vm[m], p) \in Nat /\ RefsBy(vm[m], p) <= pins[p] /\ pins[p] = 0
    BY <1>1, <1>2, <2>1, RefsAtLeast DEF Inv
  <2>3. RefsBy(vm[m], p) = 0
    BY <2>2
  <2> QED
    BY <2>1, <2>3 DEF RefsBy, One
<1> HIDE DEF r
<1>9. CountOf(r) = CountOf(vm[m]) + Cardinality(got) /\ CountOf(vm[m]) \in Nat
  <2>1. /\ IsFiniteSet(vm[m].AWEPages) /\ Cardinality(vm[m].AWEPages) \in Nat
        /\ Cardinality(NamesOf(vm[m])) \in Nat /\ Cardinality(vm[m].lockedPages) \in Nat
        /\ CountOf(vm[m]) \in Nat
    BY <1>2, CountType
  <2>2. vm[m].AWEPages \cap got = {}
    BY <1>8
  <2>3. Cardinality(r.AWEPages) = Cardinality(vm[m].AWEPages) + Cardinality(got)
    BY <1>3, <1>7, <2>1, <2>2, Together
  <2>4. NamesOf(r) = NamesOf(vm[m])
    BY <1>7 DEF NamesOf
  <2> QED
    BY <1>3, <1>7, <2>1, <2>3, <2>4 DEF CountOf
<1>10. Follows(m, r)
  <2>1. \A k \in Pages : pins[k] \in Int
    BY PinsType DEF Inv
  <2>2. \A k \in Pages : pins'[k] = IF k \in got THEN pins[k] + 1 ELSE pins[k]
    BY <1>1
  <2>3. \A k \in Pages :
          RefsBy(r, k) = IF k \in got THEN RefsBy(vm[m], k) + 1 ELSE RefsBy(vm[m], k)
    BY <1>7, <1>8 DEF RefsBy, Names, One
  <2>4. \A k \in Pages : RefsBy(vm[m], k) \in Nat
    BY DEF RefsBy, One
  <2> QED
    BY <2>1, <2>2, <2>3, <2>4 DEF Follows
<1>11. UNCHANGED <<admission, physTracker, panic>> /\ UNCHANGED <<admission, numLockedPages>>
  BY <1>1
<1>12. pins' = [k \in Pages |-> pins'[k]]
  BY <1>1
<1>13. CountOf(vm[m]) + AmountOf(thread[t], m) = CountOf(r) + AmountOf(q, m)
  BY <1>2, <1>3, <1>4, <1>5, <1>9
<1>14. vm' = [vm EXCEPT ![m] = r] /\ thread' = [thread EXCEPT ![t] = q]
  BY <1>1 DEF r
<1> HIDE DEF m
<1>15. Tracked'
  BY <1>2, <1>7, <1>10, <1>11, <1>14, ListedKept
<1> QED
  BY <1>2, <1>5, <1>7, <1>11, <1>12, <1>13, <1>14, <1>15, TrackersMove

LEMMA FreeLockedPagesInv ==
  ASSUME Inv, NEW t \in Threads, NEW m \in VMs, NEW given \in SUBSET Frames,
         FreeLockedPages(t, m, given)
  PROVE  Inv'
<1> DEFINE r == [vm[m] EXCEPT !.AWEPages = @ \ given]
           q == [Unreserve(Cardinality(given)) EXCEPT !.vm = m]
<1>1. /\ MayCall(t, m) /\ given \subseteq vm[m].AWEPages
      /\ vm' = [vm EXCEPT ![m] = r]
      /\ pins' = [p \in Pages |-> IF p \in given THEN pins[p] - 1 ELSE pins[p]]
      /\ thread' = [thread EXCEPT ![t] = q]
      /\ UNCHANGED <<admission, numLockedPages, physTracker, panic>>
  BY DEF FreeLockedPages, Become
<1>2. IsFiniteSet(given) /\ Cardinality(given) \in Nat
  BY MemoryAssumption, FS_Subset, FS_CardinalityType
<1>3. /\ m \in vmDriverList /\ IsMachine(vm[m])
      /\ thread[t].vm \in {m, NoVM} /\ AmountOf(thread[t], m) = 0
      /\ q \in Thread /\ q.vm \in {m, NoVM} /\ ThreadFits(q)
      /\ AmountOf(q, m) = Cardinality(given)
  BY <1>1, <1>2, GivesBack
<1>4. vm[m].AWEPages \ given \in SUBSET Frames
  BY <1>3 DEF IsMachine
<1>5. /\ IsMachine(r) /\ SameRequest(r, vm[m]) /\ r.locked = vm[m].locked
      /\ r.memtracker = vm[m].memtracker /\ r.lockedPages = vm[m].lockedPages
      /\ r.AWEPages = vm[m].AWEPages \ given
  BY <1>3, <1>4, NewTrackers
<1> HIDE DEF r, q
<1>6. CountOf(r) + Cardinality(given) = CountOf(vm[m]) /\ CountOf(r) \in Nat
  <2>1. /\ IsFiniteSet(vm[m].AWEPages) /\ Cardinality(vm[m].AWEPages) \in Nat
        /\ Cardinality(NamesOf(vm[m])) \in Nat /\ Cardinality(vm[m].lockedPages) \in Nat
    BY <1>3, CountType
  <2>2. IsFiniteSet(r.AWEPages) /\ Cardinality(r.AWEPages) \in Nat /\ CountOf(r) \in Nat
    BY <1>5, CountType
  <2>3. r.AWEPages \cap given = {} /\ r.AWEPages \cup given = vm[m].AWEPages
    BY <1>1, <1>5
  <2>4. Cardinality(vm[m].AWEPages) = Cardinality(r.AWEPages) + Cardinality(given)
    BY <1>2, <2>2, <2>3, Together
  <2>5. NamesOf(r) = NamesOf(vm[m])
    BY <1>5 DEF NamesOf
  <2> QED
    BY <1>2, <1>5, <2>1, <2>2, <2>4, <2>5 DEF CountOf
<1>7. Follows(m, r)
  <2>1. \A k \in Pages : pins[k] \in Int
    BY PinsType DEF Inv
  <2>2. \A k \in Pages : pins'[k] = IF k \in given THEN pins[k] - 1 ELSE pins[k]
    BY <1>1
  <2>3. \A k \in Pages :
          RefsBy(r, k) = IF k \in given THEN RefsBy(vm[m], k) - 1 ELSE RefsBy(vm[m], k)
    BY <1>1, <1>5 DEF RefsBy, Names, One
  <2>4. \A k \in Pages : RefsBy(vm[m], k) \in Nat
    BY DEF RefsBy, One
  <2> QED
    BY <2>1, <2>2, <2>3, <2>4 DEF Follows
<1>8. Tracked'
  BY <1>1, <1>3, <1>5, <1>7, ListedKept
<1>9. pins' = [k \in Pages |-> pins'[k]]
  BY <1>1
<1>10. CountOf(vm[m]) + AmountOf(thread[t], m) = CountOf(r) + AmountOf(q, m)
  BY <1>2, <1>3, <1>6
<1> QED
  BY <1>1, <1>3, <1>5, <1>8, <1>9, <1>10, TrackersMove

\* Machines change what they ask for, and nothing that is locked.
LEMMA RefsSame ==
  ASSUME NEW v, NEW w, NEW p,
         \A k \in VMs : /\ w[k].memtracker = v[k].memtracker
                        /\ w[k].lockedPages = v[k].lockedPages
                        /\ w[k].AWEPages = v[k].AWEPages
  PROVE  RefsOf(w, p) = RefsOf(v, p)
<1> DEFINE A(x) == {m \in VMs : Names(x[m], p)}
           B(x) == {m \in VMs : p \in x[m].lockedPages}
           C(x) == {m \in VMs : p \in x[m].AWEPages}
<1>1. A(v) = A(w) /\ B(v) = B(w) /\ C(v) = C(w)
  BY DEF Names
<1>2. /\ RefsOf(v, p) = Cardinality(A(v)) + Cardinality(B(v)) + Cardinality(C(v))
      /\ RefsOf(w, p) = Cardinality(A(w)) + Cardinality(B(w)) + Cardinality(C(w))
  BY DEF RefsOf
<1> HIDE DEF A, B, C
<1> QED
  BY <1>1, <1>2

LEMMA RefsStay ==
  ASSUME \A k \in VMs : /\ vm'[k].memtracker = vm[k].memtracker
                        /\ vm'[k].lockedPages = vm[k].lockedPages
                        /\ vm'[k].AWEPages = vm[k].AWEPages
  PROVE  \A p : RefsOf(vm', p) = RefsOf(vm, p)
  BY RefsSame

LEMMA LockedStays ==
  ASSUME \A k \in VMs : k \in vmDriverList => vm'[k].locked = vm[k].locked
  PROVE  LockedIn(vm', vmDriverList) = LockedIn(vm, vmDriverList)
  BY SameLocked

LEMMA Requests ==
  ASSUME Inv,
         \A k \in VMs : /\ vm'[k].memtracker = vm[k].memtracker
                        /\ vm'[k].lockedPages = vm[k].lockedPages
                        /\ vm'[k].AWEPages = vm[k].AWEPages
                        /\ vm'[k].locked = vm[k].locked,
         UNCHANGED <<vmDriverList, dying, numLockedPages, trackers, thread>>
  PROVE  ThreadsFit' /\ Tracked' /\ Accounted'
<1>1. Typed /\ ThreadsFit /\ Tracked /\ Accounted
  BY DEF Inv
<1>2. ThreadsFit'
  BY <1>1 DEF ThreadsFit, ThreadFits
<1>3. UNCHANGED <<physTracker, pins, panic>>
  BY DEF trackers
<1>4. Tracked'
  <2>1. \A k \in VMs : k \in vmDriverList' \/ k = dying' \/ Empty(vm'[k])
    BY <1>1 DEF Tracked, Empty
  <2>2. NamesDiffer'
    BY <1>1 DEF Tracked, NamesDiffer
  <2>3. physTracker' = {p \in UserPages : \E k \in VMs : Names(vm'[k], p)}
    BY <1>1, <1>3 DEF Tracked, Names
  <2>4. \A p : RefsOf(vm', p) = RefsOf(vm, p)
    BY RefsStay
  <2>5. ~panic /\ \A p \in Pages : pins[p] = RefsOf(vm, p)
    BY <1>1 DEF Tracked
  <2>6. ~panic' /\ \A p \in Pages : pins'[p] = RefsOf(vm', p)
    BY <1>3, <2>4, <2>5
  <2> QED
    BY <2>1, <2>2, <2>3, <2>6 DEF Tracked
<1>5. Accounted'
  <2>1. \A k \in vmDriverList : k \in VMs
    BY <1>1 DEF Typed
  <2>2. \A k \in VMs : CountOf(vm'[k]) = CountOf(vm[k])
    BY DEF CountOf, NamesOf
  <2>3. LockedIn(vm', vmDriverList) = LockedIn(vm, vmDriverList)
    BY LockedStays
  <2> QED
    BY <1>1, <2>1, <2>2, <2>3 DEF Accounted
<1> QED
  BY <1>2, <1>4, <1>5

LEMMA MinInType ==
  ASSUME \A k \in VMs : IsMachine(vm[k]), NEW L, NEW pct \in 0..100
  PROVE  MinIn(vm, L, pct) \in Nat
<1> DEFINE f == [m \in VMs |-> IF m \in L /\ vm[m].admitted
                               THEN MinAllocationOf(vm[m], pct) ELSE 0]
<1>1. \A k \in VMs : MinAllocationOf(vm[k], pct) \in Nat
  BY MinOfType
<1>2. \A k \in VMs : f[k] \in Nat
  BY <1>1
<1>3. MinIn(vm, L, pct) = Sum(f, VMs)
  BY DEF MinIn
<1> HIDE DEF f
<1> QED
  BY <1>2, <1>3, MemoryAssumption, UnitsFinite

\* The machines admitted, and what they ask for, are the same.
LEMMA MinAgrees ==
  ASSUME NEW L, NEW M, NEW pct,
         \A k \in VMs : (k \in M /\ vm'[k].admitted) <=> (k \in L /\ vm[k].admitted),
         \A k \in VMs : k \in L => vm'[k] = vm[k]
  PROVE  MinIn(vm', M, pct) = MinIn(vm, L, pct)
<1>1. [m \in VMs |-> IF m \in M /\ vm'[m].admitted THEN MinAllocationOf(vm'[m], pct) ELSE 0]
        = [m \in VMs |-> IF m \in L /\ vm[m].admitted THEN MinAllocationOf(vm[m], pct) ELSE 0]
  OBVIOUS
<1> QED
  BY <1>1 DEF MinIn

LEMMA SetConfiguredLockedPagesLimitInv ==
  ASSUME Inv, NEW limit \in Limits, SetConfiguredLockedPagesLimit(limit)
  PROVE  Inv'
<1>1. /\ limit >= configured /\ configured' = limit
      /\ UNCHANGED <<vmDriverList, dying, minVmMemPct, vm, numLockedPages, trackers, thread>>
  BY DEF SetConfiguredLockedPagesLimit
<1>2. limit \in Nat /\ configured \in Nat
  BY MemoryAssumption DEF Inv, Typed
<1>3. Typed'
  BY <1>1, <1>2 DEF Inv, Typed, trackers
<1>4. ThreadsFit' /\ Tracked' /\ Accounted'
  BY <1>1, Requests
<1>5. Fit'
  <2>1. MinIn(vm, vmDriverList, minVmMemPct) \in Nat
    BY MinInType DEF Inv, Typed
  <2>2. /\ MinIn(vm, vmDriverList, minVmMemPct) <= configured /\ numLockedPages <= configured
        /\ numLockedPages \in Int
    BY DEF Inv, Fit, Typed
  <2>3. MinIn(vm, vmDriverList, minVmMemPct) <= limit /\ numLockedPages <= limit
    BY <1>1, <1>2, <2>1, <2>2
  <2> QED
    BY <1>1, <2>3 DEF Inv, Fit
<1> QED
  BY <1>3, <1>4, <1>5 DEF Inv

\* A machine joins the list.
LEMMA LockedJoins ==
  ASSUME NEW L, NEW m \in VMs, m \notin L, NEW M, M = L \cup {m},
         \A k \in L : k \in VMs /\ vm[k].locked \in Nat /\ vm'[k].locked = vm[k].locked,
         vm'[m].locked = 0
  PROVE  LockedIn(vm', M) = LockedIn(vm, L)
<1>1. [k \in VMs |-> IF k \in M THEN vm'[k].locked ELSE 0]
        = [k \in VMs |-> IF k \in L THEN vm[k].locked ELSE 0]
  OBVIOUS
<1> QED
  BY <1>1 DEF LockedIn

LEMMA CreateVMInv ==
  ASSUME Inv, NEW m \in VMs, CreateVM(m)
  PROVE  Inv'
<1> DEFINE r == [NewVM EXCEPT !.userID = ids.unused + 1]
           L == vmDriverList \cup {m}
<1>1. /\ m \notin vmDriverList /\ dying = NoVM /\ vmDriverList' = L
      /\ vm' = [vm EXCEPT ![m] = r]
      /\ UNCHANGED <<dying, configured, minVmMemPct, numLockedPages, trackers, thread>>
  BY DEF CreateVM, DriverIsFree
<1>2. /\ IsMachine(r) /\ Empty(r) /\ r.locked = 0 /\ ~r.admitted
      /\ r.memtracker = NewVM.memtracker
  <2>1. IsMachine(NewVM) /\ Empty(NewVM) /\ NewVM.locked = 0 /\ ~NewVM.admitted
    BY NewVMType
  <2> QED
    BY <2>1 DEF IsMachine, Empty
<1> HIDE DEF r
<1>3. /\ Typed /\ ThreadsFit /\ Tracked /\ Accounted /\ Fit /\ m # NoVM
      /\ vm'[m] = r /\ \A k \in VMs \ {m} : vm'[k] = vm[k]
  BY <1>1, MemoryAssumption DEF Inv, Typed
<1>4. UNCHANGED <<physTracker, pins, panic>>
  BY <1>1 DEF trackers
<1>5. Typed'
  BY <1>1, <1>2, <1>3, <1>4 DEF Typed
<1>6. ThreadsFit'
  BY <1>1, <1>3 DEF ThreadsFit, ThreadFits
<1>7. Empty(vm[m])
  BY <1>1, <1>3 DEF Tracked
<1>8. Tracked'
  <2>1. r.memtracker = vm[m].memtracker
    <3>1. /\ vm[m].memtracker \in [Vpns -> UserPages \cup {NoPage}]
          /\ r.memtracker \in [Vpns -> UserPages \cup {NoPage}]
      BY <1>2, <1>3 DEF Typed, IsMachine
    <3>2. \A n \in Vpns : r.memtracker[n] = vm[m].memtracker[n]
      BY <1>2, <1>7 DEF Empty
    <3> QED
      BY <3>1, <3>2
  <2>2. \A k \in VMs : k \in vmDriverList' \/ k = dying' \/ Empty(vm'[k])
    BY <1>1, <1>3 DEF Tracked
  <2>3. Keeps(m, r)
    BY <1>1, <1>4, <2>1, <2>2 DEF Keeps
  <2>4. \A p \in Pages : RefsBy(r, p) = 0 /\ RefsBy(vm[m], p) = 0
    BY <1>2, <1>7, EmptyCounts
  <2>5. Follows(m, r)
    BY <1>3, <1>4, <2>4, PinsType DEF Follows
  <2> QED
    BY <1>3, <2>3, <2>5, TrackedKept
<1>9. \A t \in Threads : thread[t].vm # m
  BY <1>1, <1>3 DEF ThreadsFit, ThreadFits
<1>10. FlightOf(thread, m) = 0 /\ CountOf(r) = 0
  BY <1>2, <1>3, <1>9, FlightZero, EmptyCounts DEF Typed
<1>11. \A k \in vmDriverList : k \in VMs \ {m} /\ vm[k].locked \in Nat
  BY <1>1, <1>3, LockedType DEF Typed
<1>12. LockedIn(vm', L) = LockedIn(vm, vmDriverList)
  <2>1. \A k \in vmDriverList :
          k \in VMs /\ vm[k].locked \in Nat /\ vm'[k].locked = vm[k].locked
    BY <1>3, <1>11
  <2>2. vm'[m].locked = 0
    BY <1>2, <1>3
  <2> QED
    BY <1>1, <2>1, <2>2, LockedJoins
<1>13. MinIn(vm', L, minVmMemPct) = MinIn(vm, vmDriverList, minVmMemPct)
  <2>1. \A k \in VMs : (k \in L /\ vm'[k].admitted) <=> (k \in vmDriverList /\ vm[k].admitted)
    BY <1>1, <1>2, <1>3
  <2>2. \A k \in VMs : k \in vmDriverList => vm'[k] = vm[k]
    BY <1>1, <1>3
  <2> HIDE DEF L
  <2> QED
    BY <2>1, <2>2, MinAgrees
<1>14. Accounted'
  <2>1. \A k \in vmDriverList : vm'[k] = vm[k]
    BY <1>3, <1>11
  <2>2. vm'[m].locked = CountOf(vm'[m]) + FlightOf(thread, m)
    BY <1>2, <1>3, <1>10
  <2> QED
    BY <1>1, <1>3, <1>12, <2>1, <2>2 DEF Accounted
<1>15. Fit'
  <2>1. \A k \in L : vm'[k].admitted => k \in vmDriverList /\ vm'[k] = vm[k]
    BY <1>2, <1>3, <1>11
  <2> QED
    BY <1>1, <1>3, <1>13, <2>1 DEF Fit
<1> QED
  BY <1>5, <1>6, <1>8, <1>14, <1>15 DEF Inv

\* What the machines admitted need, when one of them asks for something else.
LEMMA MinChanges ==
  ASSUME NEW L, NEW m \in L, NEW pct,
         \A k \in L : k \in VMs,
         \A k \in VMs : /\ MinAllocationOf(vm[k], pct) \in Nat
                        /\ MinAllocationOf(vm'[k], pct) \in Nat,
         \A k \in VMs \ {m} : /\ (k \in L /\ vm'[k].admitted) <=> (k \in L /\ vm[k].admitted)
                              /\ MinAllocationOf(vm'[k], pct) = MinAllocationOf(vm[k], pct)
  PROVE  /\ MinIn(vm, L, pct) \in Nat /\ MinIn(vm', L, pct) \in Nat
         /\ MinIn(vm', L, pct) + (IF vm[m].admitted THEN MinAllocationOf(vm[m], pct) ELSE 0)
              = MinIn(vm, L, pct) + (IF vm'[m].admitted THEN MinAllocationOf(vm'[m], pct) ELSE 0)
<1>1. m \in VMs
  OBVIOUS
<1>2. /\ MinIn(vm, L, pct) \in Nat /\ MinIn(vm', L, pct) \in Nat
      /\ MinIn(vm', L, pct)
             + (IF m \in L /\ vm[m].admitted THEN MinAllocationOf(vm[m], pct) ELSE 0)
           = MinIn(vm, L, pct)
             + (IF m \in L /\ vm'[m].admitted THEN MinAllocationOf(vm'[m], pct) ELSE 0)
  BY <1>1, MinStep
<1> QED
  BY <1>2

\* A request: what a machine asks for, and the minimum computed for it.
Asks(x, r, paged, nonpaged, pct) ==
  /\ x.admitted <=> r.admitted
  /\ x.locked = r.locked /\ x.memtracker = r.memtracker
  /\ x.lockedPages = r.lockedPages /\ x.AWEPages = r.AWEPages
  /\ x.minAllocation = MinAllocation(paged, nonpaged, r.mainMemSize, pct)
  /\ MinAllocationOf(x, pct) = x.minAllocation

LEMMA UsageType ==
  ASSUME NEW r, IsMachine(r), NEW paged \in Nat, NEW nonpaged \in Nat, NEW pct \in 0..100,
         NEW x, x = SetMemoryUsage(r, paged, nonpaged, pct)
  PROVE  IsMachine(x) /\ Asks(x, r, paged, nonpaged, pct)
<1> DEFINE min == MinAllocation(paged, nonpaged, r.mainMemSize, pct)
<1>1. min \in Nat
  BY MinAllocationType DEF IsMachine
<1>2. x = [r EXCEPT !.paged = paged, !.nonpaged = nonpaged, !.minAllocation = min,
                    !.maxAllocation = paged + nonpaged]
  BY DEF SetMemoryUsage
<1> HIDE DEF min
<1>3. IsMachine(x)
  <2> DEFINE y == [r EXCEPT !.paged = paged, !.nonpaged = nonpaged]
  <2>1. IsMachine(y)
    BY DEF IsMachine
  <2>2. x = [y EXCEPT !.minAllocation = min, !.maxAllocation = paged + nonpaged]
    BY <1>2 DEF IsMachine
  <2>3. paged + nonpaged \in Nat
    OBVIOUS
  <2> HIDE DEF y
  <2> QED
    BY <1>1, <2>1, <2>2, <2>3 DEF IsMachine
<1>4. /\ x.admitted = r.admitted /\ x.locked = r.locked /\ x.mainMemSize = r.mainMemSize
      /\ x.memtracker = r.memtracker /\ x.lockedPages = r.lockedPages
      /\ x.AWEPages = r.AWEPages /\ x.minAllocation = min
      /\ x.paged = paged /\ x.nonpaged = nonpaged
  BY <1>2 DEF IsMachine
<1>5. MinAllocationOf(x, pct) = min
  BY <1>4 DEF MinAllocationOf, min
<1> QED
  BY <1>3, <1>4, <1>5 DEF min, Asks

LEMMA ReadmitInv ==
  ASSUME Inv, NEW m \in VMs, NEW delta \in Deltas, NEW host \in HostLimits,
         Readmit(m, delta, host)
  PROVE  Inv'
<1> DEFINE r == vm[m]
           pct == minVmMemPct
           paged == r.paged + delta[1]
           nonpaged == r.nonpaged + delta[2]
           x == SetMemoryUsage(r, paged, nonpaged, pct)
           sum == GlobalMinAllocation(pct) - MinAllocationOf(r, pct)
                    + MinAllocation(paged, nonpaged, r.mainMemSize, pct)
<1>1. /\ m \in vmDriverList /\ nonpaged >= 0 /\ paged >= r.mainMemSize
      /\ \/ Fits(sum, LockedPageLimit(host, r.perVMOverhead))
         \/ delta[1] <= 0 /\ delta[2] <= 0
      /\ vm' = [vm EXCEPT ![m] = x]
      /\ UNCHANGED <<admission, numLockedPages, trackers, thread>>
  BY DEF Readmit
<1>2. /\ IsMachine(r) /\ r.paged \in Nat /\ r.nonpaged \in Nat /\ r.mainMemSize \in Nat
      /\ r.perVMOverhead \in Nat /\ pct \in 0..100 /\ delta[1] \in Int /\ delta[2] \in Int
      /\ host \in Nat
  BY MemoryAssumption DEF Inv, Typed, IsMachine
<1>3. paged \in Nat /\ nonpaged \in Nat
  BY <1>1, <1>2
<1>4. /\ IsMachine(x) /\ (x.admitted <=> r.admitted) /\ x.locked = r.locked
      /\ x.memtracker = r.memtracker /\ x.lockedPages = r.lockedPages
      /\ x.AWEPages = r.AWEPages
      /\ x.minAllocation = MinAllocation(paged, nonpaged, r.mainMemSize, pct)
      /\ MinAllocationOf(x, pct) = x.minAllocation
  <2>1. x = SetMemoryUsage(r, paged, nonpaged, pct)
    OBVIOUS
  <2>2. IsMachine(r) /\ paged \in Nat /\ nonpaged \in Nat /\ pct \in 0..100
    BY <1>2, <1>3
  <2> HIDE DEF r, pct, paged, nonpaged, x
  <2>3. IsMachine(x) /\ Asks(x, r, paged, nonpaged, pct)
    BY <2>1, <2>2, UsageType
  <2> QED
    BY <2>3 DEF Asks
<1>5. UNCHANGED <<vmDriverList, dying, configured, minVmMemPct>>
  BY <1>1 DEF admission
<1>6. vm'[m] = x /\ \A k \in VMs \ {m} : vm'[k] = vm[k]
  BY <1>1 DEF Inv, Typed
<1> HIDE DEF x
<1>7. Typed'
  BY <1>1, <1>4, <1>5, <1>6 DEF Inv, Typed, trackers
<1>8. \A k \in VMs : /\ vm'[k].memtracker = vm[k].memtracker
                     /\ vm'[k].lockedPages = vm[k].lockedPages
                     /\ vm'[k].AWEPages = vm[k].AWEPages
                     /\ vm'[k].locked = vm[k].locked
  BY <1>4, <1>6
<1>9. ThreadsFit' /\ Tracked' /\ Accounted'
  BY <1>1, <1>5, <1>8, Requests
<1>10. /\ MinAllocationOf(r, pct) \in Nat /\ MinAllocationOf(x, pct) \in Nat
       /\ GlobalMinAllocation(pct) = MinIn(vm, vmDriverList, pct)
  BY <1>2, <1>4, MinOfType, GlobalIs DEF Inv, Typed
<1>11. /\ MinIn(vm, vmDriverList, pct) \in Nat /\ MinIn(vm', vmDriverList, pct) \in Nat
       /\ MinIn(vm', vmDriverList, pct)
              + (IF r.admitted THEN MinAllocationOf(r, pct) ELSE 0)
            = MinIn(vm, vmDriverList, pct)
              + (IF x.admitted THEN MinAllocationOf(x, pct) ELSE 0)
  <2>1. \A k \in VMs : /\ MinAllocationOf(vm[k], pct) \in Nat
                       /\ MinAllocationOf(vm'[k], pct) \in Nat
    BY <1>2, <1>6, <1>10, MinOfType DEF Inv, Typed
  <2>2. \A k \in VMs \ {m} :
          /\ (k \in vmDriverList /\ vm'[k].admitted) <=> (k \in vmDriverList /\ vm[k].admitted)
          /\ MinAllocationOf(vm'[k], pct) = MinAllocationOf(vm[k], pct)
    BY <1>6
  <2>3. \A k \in vmDriverList : k \in VMs
    BY DEF Inv, Typed
  <2> HIDE DEF pct
  <2>4. /\ MinIn(vm, vmDriverList, pct) \in Nat /\ MinIn(vm', vmDriverList, pct) \in Nat
        /\ MinIn(vm', vmDriverList, pct)
               + (IF vm[m].admitted THEN MinAllocationOf(vm[m], pct) ELSE 0)
             = MinIn(vm, vmDriverList, pct)
               + (IF vm'[m].admitted THEN MinAllocationOf(vm'[m], pct) ELSE 0)
    BY <1>1, <2>1, <2>2, <2>3, MinChanges
  <2> QED
    BY <1>6, <2>4
<1>12. MinIn(vm, vmDriverList, pct) <= configured /\ configured \in Nat
  BY DEF Inv, Fit, Typed
<1>13. MinIn(vm', vmDriverList, pct) <= configured
  <2>1. CASE ~r.admitted
    BY <1>4, <1>11, <1>12, <2>1
  <2>2. CASE r.admitted /\ Fits(sum, LockedPageLimit(host, r.perVMOverhead))
    <3>1. /\ LockedPageLimit(host, r.perVMOverhead) \in Nat
          /\ LockedPageLimit(host, r.perVMOverhead) <= configured
      BY <1>2, LimitType DEF Inv
    <3>2. sum = MinIn(vm, vmDriverList, pct) - MinAllocationOf(r, pct) + MinAllocationOf(x, pct)
      BY <1>4, <1>10
    <3>3. sum <= LockedPageLimit(host, r.perVMOverhead)
      BY <2>2 DEF Fits
    <3> HIDE DEF sum, r, pct
    <3> QED
      BY <1>4, <1>10, <1>11, <1>12, <2>2, <3>1, <3>2, <3>3
  <2>3. CASE r.admitted /\ delta[1] <= 0 /\ delta[2] <= 0
    <3>1. r.mainMemSize <= paged /\ paged <= r.paged /\ nonpaged <= r.nonpaged
      BY <1>1, <1>2, <2>3
    <3>2. MinAllocation(paged, nonpaged, r.mainMemSize, pct)
            <= MinAllocation(r.paged, r.nonpaged, r.mainMemSize, pct)
      BY <1>2, <1>3, <3>1, MinAllocationGrows
    <3>3. MinAllocationOf(x, pct) <= MinAllocationOf(r, pct)
      BY <1>4, <3>2 DEF MinAllocationOf
    <3> HIDE DEF r, pct
    <3> QED
      BY <1>4, <1>10, <1>11, <1>12, <2>3, <3>3
  <2> QED
    BY <1>1, <2>1, <2>2, <2>3
<1>14. Fit'
  <2>1. numLockedPages <= configured
    BY DEF Inv, Fit
  <2>2. \A k \in vmDriverList :
          k \in VMs /\ (vm[k].admitted => vm[k].minAllocation = MinAllocationOf(vm[k], pct))
    BY DEF Inv, Fit, Typed
  <2>3. \A k \in vmDriverList :
          vm'[k].admitted => vm'[k].minAllocation = MinAllocationOf(vm'[k], pct)
    BY <1>4, <1>6, <2>2
  <2> QED
    BY <1>1, <1>5, <1>13, <2>1, <2>3 DEF Fit
<1> QED
  BY <1>7, <1>9, <1>14 DEF Inv

\* What admission leaves as it is.
SameLocks(x, r) ==
  /\ x.locked = r.locked /\ x.memtracker = r.memtracker
  /\ x.lockedPages = r.lockedPages /\ x.AWEPages = r.AWEPages

\* A machine that is brought to a new percentage.
LEMMA UpdatedType ==
  ASSUME NEW r, IsMachine(r), NEW pct \in 0..100,
         NEW x, x = [r EXCEPT !.minAllocation = MinAllocationOf(r, pct)]
  PROVE  /\ IsMachine(x) /\ SameLocks(x, r)
         /\ \A q : MinAllocationOf(x, q) = MinAllocationOf(r, q)
         /\ (x.admitted <=> r.admitted)
         /\ x.minAllocation = MinAllocationOf(x, pct)
<1> DEFINE min == MinAllocationOf(r, pct)
<1>1. min \in Nat
  BY MinOfType
<1>2. x = [r EXCEPT !.minAllocation = min]
  OBVIOUS
<1> HIDE DEF min
<1>3. IsMachine(x) /\ SameLocks(x, r)
  BY <1>1, <1>2 DEF IsMachine, SameLocks
<1>4. /\ x.admitted = r.admitted /\ x.minAllocation = min /\ x.mainMemSize = r.mainMemSize
      /\ x.paged = r.paged /\ x.nonpaged = r.nonpaged
  BY <1>2 DEF IsMachine
<1>5. \A q : MinAllocationOf(x, q) = MinAllocationOf(r, q)
  BY <1>4 DEF MinAllocationOf
<1>6. x.minAllocation = MinAllocationOf(x, pct)
  BY <1>4, <1>5 DEF min
<1> QED
  BY <1>3, <1>4, <1>5, <1>6

\* A machine that asks to be admitted.
AnswerFits(x, r, args, yes, asked) ==
  /\ SameLocks(x, r)
  /\ x.admitted <=> yes
  /\ MinAllocationOf(x, args.pct) = x.minAllocation
  /\ x.minAllocation = asked.minAllocation /\ asked.minAllocation \in Nat

LEMMA AskedType ==
  ASSUME NEW r, IsMachine(r), NEW args \in MemInfoArgs, NEW yes \in BOOLEAN, NEW asked, NEW x,
         asked = SetMemoryUsage([r EXCEPT !.mainMemSize = args.mainMemSize,
                                          !.perVMOverhead = args.perVMOverhead],
                                args.paged, args.nonpaged, args.pct),
         x = [asked EXCEPT !.admitted = yes]
  PROVE  IsMachine(x) /\ AnswerFits(x, r, args, yes, asked)
<1> DEFINE base == [r EXCEPT !.mainMemSize = args.mainMemSize,
                             !.perVMOverhead = args.perVMOverhead]
<1>1. /\ args.mainMemSize \in Nat /\ args.perVMOverhead \in Nat /\ args.paged \in Nat
      /\ args.nonpaged \in Nat /\ args.pct \in 0..100
  BY DEF MemInfoArgs
<1>2. IsMachine(base) /\ SameLocks(base, r)
  BY <1>1 DEF IsMachine, SameLocks
<1>3. asked = SetMemoryUsage(base, args.paged, args.nonpaged, args.pct)
  OBVIOUS
<1> HIDE DEF base
<1>4. IsMachine(asked) /\ Asks(asked, base, args.paged, args.nonpaged, args.pct)
  BY <1>1, <1>2, <1>3, UsageType
<1>5. SameLocks(asked, r)
  BY <1>2, <1>4 DEF SameLocks, Asks
<1>6. asked.minAllocation = MinAllocationOf(asked, args.pct) /\ asked.minAllocation \in Nat
  BY <1>4 DEF IsMachine, Asks
<1>7. IsMachine(x) /\ SameLocks(x, asked)
  BY <1>4 DEF IsMachine, SameLocks
<1>8. /\ (x.admitted <=> yes) /\ x.minAllocation = asked.minAllocation
      /\ x.paged = asked.paged /\ x.nonpaged = asked.nonpaged
      /\ x.mainMemSize = asked.mainMemSize
  BY <1>4 DEF IsMachine
<1>9. MinAllocationOf(x, args.pct) = MinAllocationOf(asked, args.pct)
  BY <1>8 DEF MinAllocationOf
<1>10. SameLocks(x, r)
  BY <1>5, <1>7 DEF SameLocks
<1> QED
  BY <1>6, <1>7, <1>8, <1>9, <1>10 DEF AnswerFits

LEMMA AdmitInv ==
  ASSUME Inv, NEW m \in VMs, NEW args \in Admissions, Admit(m, args)
  PROVE  Inv'
<1> DEFINE old == GlobalMinAllocation(args.pct)
           allow == args.mainMemSize <= args.paged /\ old <= LimitForAdmission(0)
           updated == [k \in VMs |->
                         IF allow /\ k \in vmDriverList /\ vm[k].admitted
                         THEN [vm[k] EXCEPT !.minAllocation = MinAllocationOf(vm[k], args.pct)]
                         ELSE vm[k]]
           asked == SetMemoryUsage([vm[m] EXCEPT !.mainMemSize = args.mainMemSize,
                                                 !.perVMOverhead = args.perVMOverhead],
                                   args.paged, args.nonpaged, args.pct)
           yes == /\ allow /\ args.mainMemSize > 0
                  /\ old + asked.minAllocation <= LimitForAdmission(args.perVMOverhead)
           x == [asked EXCEPT !.admitted = yes]
           pct == IF allow THEN args.pct ELSE minVmMemPct
<1>1. /\ m \in vmDriverList /\ minVmMemPct' = pct
      /\ vm' = [updated EXCEPT ![m] = x]
      /\ UNCHANGED <<vmDriverList, ids, dying, configured, numLockedPages, trackers, thread>>
  BY DEF Admit
<1>2. /\ args \in MemInfoArgs /\ args.pct \in 0..100 /\ args.perVMOverhead \in Nat
      /\ minVmMemPct \in 0..100 /\ pct \in 0..100
  BY MemoryAssumption DEF MemInfoArgs, Inv, Typed
<1>3. \A k \in VMs : IsMachine(vm[k])
  BY DEF Inv, Typed
<1>4. /\ IsMachine(x) /\ SameLocks(x, vm[m]) /\ (x.admitted <=> yes)
      /\ MinAllocationOf(x, args.pct) = x.minAllocation
      /\ x.minAllocation = asked.minAllocation /\ asked.minAllocation \in Nat
  <2>1. asked = SetMemoryUsage([vm[m] EXCEPT !.mainMemSize = args.mainMemSize,
                                             !.perVMOverhead = args.perVMOverhead],
                               args.paged, args.nonpaged, args.pct)
    OBVIOUS
  <2>2. x = [asked EXCEPT !.admitted = yes] /\ yes \in BOOLEAN
    OBVIOUS
  <2> HIDE DEF asked, yes, x
  <2>3. IsMachine(x) /\ AnswerFits(x, vm[m], args, yes, asked)
    BY <1>2, <1>3, <2>1, <2>2, AskedType
  <2> QED
    BY <2>3 DEF AnswerFits
<1>5. /\ vm' = [k \in VMs |-> vm'[k]] /\ vm'[m] = x
      /\ \A k \in VMs \ {m} : vm'[k] = updated[k]
  BY <1>1
<1>6. ASSUME NEW k \in VMs \ {m}
      PROVE  /\ IsMachine(vm'[k]) /\ SameLocks(vm'[k], vm[k])
             /\ (vm'[k].admitted <=> vm[k].admitted)
             /\ MinAllocationOf(vm'[k], pct) = MinAllocationOf(vm[k], pct)
             /\ k \in vmDriverList /\ vm'[k].admitted =>
                  vm'[k].minAllocation = MinAllocationOf(vm'[k], pct)
  <2>1. CASE allow /\ k \in vmDriverList /\ vm[k].admitted
    <3>1. vm'[k] = [vm[k] EXCEPT !.minAllocation = MinAllocationOf(vm[k], args.pct)]
      BY <1>5, <2>1
    <3>2. pct = args.pct
      BY <2>1
    <3> HIDE DEF pct
    <3> QED
      BY <1>2, <1>3, <3>1, <3>2, UpdatedType, SMTT(60)
  <2>2. CASE ~(allow /\ k \in vmDriverList /\ vm[k].admitted)
    <3>1. vm'[k] = vm[k]
      BY <1>5, <2>2
    <3>2. k \in vmDriverList /\ vm[k].admitted =>
            vm[k].minAllocation = MinAllocationOf(vm[k], minVmMemPct) /\ pct = minVmMemPct
      BY <2>2 DEF Inv, Fit
    <3> HIDE DEF pct
    <3> QED
      BY <1>3, <3>1, <3>2 DEF SameLocks
  <2> QED
    BY <2>1, <2>2
<1> HIDE DEF updated, asked, x
<1>7. Typed'
  <2>1. \A k \in VMs : IsMachine(vm'[k])
    BY <1>4, <1>5, <1>6
  <2> QED
    BY <1>1, <1>2, <1>5, <2>1 DEF Inv, Typed, trackers
<1>8. ThreadsFit' /\ Tracked' /\ Accounted'
  <2>1. \A k \in VMs : SameLocks(vm'[k], vm[k])
    BY <1>4, <1>5, <1>6
  <2>2. \A k \in VMs : /\ vm'[k].memtracker = vm[k].memtracker
                       /\ vm'[k].lockedPages = vm[k].lockedPages
                       /\ vm'[k].AWEPages = vm[k].AWEPages
                       /\ vm'[k].locked = vm[k].locked
    BY <2>1 DEF SameLocks
  <2> QED
    BY <1>1, <2>2, Requests
<1>9. old = MinIn(vm, vmDriverList, args.pct)
  BY <1>2, <1>3, GlobalIs DEF Inv, Typed
<1>10. /\ LimitForAdmission(0) <= configured /\ LimitForAdmission(0) \in Nat
       /\ LimitForAdmission(args.perVMOverhead) <= configured
       /\ LimitForAdmission(args.perVMOverhead) \in Nat
  BY <1>2, LimitType DEF LimitForAdmission, Inv, Typed
<1>11. /\ configured \in Nat /\ numLockedPages <= configured
       /\ MinIn(vm, vmDriverList, minVmMemPct) <= configured
  BY DEF Inv, Fit, Typed
<1>12. \A k \in VMs : /\ MinAllocationOf(vm[k], pct) \in Nat
                      /\ MinAllocationOf(vm'[k], pct) \in Nat
  BY <1>2, <1>3, <1>7, MinOfType DEF Typed
<1>13. /\ MinIn(vm, vmDriverList, pct) \in Nat /\ MinIn(vm', vmDriverList, pct) \in Nat
       /\ MinIn(vm', vmDriverList, pct)
              + (IF vm[m].admitted THEN MinAllocationOf(vm[m], pct) ELSE 0)
            = MinIn(vm, vmDriverList, pct)
              + (IF vm'[m].admitted THEN MinAllocationOf(vm'[m], pct) ELSE 0)
  <2>1. \A k \in VMs \ {m} :
          /\ (k \in vmDriverList /\ vm'[k].admitted) <=> (k \in vmDriverList /\ vm[k].admitted)
          /\ MinAllocationOf(vm'[k], pct) = MinAllocationOf(vm[k], pct)
    BY <1>6
  <2>2. \A k \in vmDriverList : k \in VMs
    BY DEF Inv, Typed
  <2> HIDE DEF pct
  <2> QED
    BY <1>1, <1>12, <2>1, <2>2, MinChanges
<1>14. MinIn(vm', vmDriverList, pct) <= configured
  <2>1. CASE yes
    <3>1. pct = args.pct /\ vm'[m].admitted /\ MinAllocationOf(vm'[m], pct) = asked.minAllocation
      BY <1>4, <1>5, <2>1
    <3>2. old + asked.minAllocation <= LimitForAdmission(args.perVMOverhead)
      BY <2>1
    <3>3. MinIn(vm, vmDriverList, pct) = old
      BY <1>9, <3>1
    <3> HIDE DEF pct, old
    <3> QED
      BY <1>1, <1>4, <1>10, <1>11, <1>12, <1>13, <3>1, <3>2, <3>3
  <2>2. CASE ~yes
    <3>1. ~vm'[m].admitted
      BY <1>4, <1>5, <2>2
    <3>2. MinIn(vm, vmDriverList, pct) <= configured
      <4>1. CASE allow
        BY <1>9, <1>10, <1>11, <1>13, <4>1
      <4>2. CASE ~allow
        BY <1>11, <4>2
      <4> QED
        BY <4>1, <4>2
    <3> HIDE DEF pct
    <3> QED
      BY <1>11, <1>12, <1>13, <3>1, <3>2
  <2> QED
    BY <2>1, <2>2
<1>15. \A k \in vmDriverList :
         vm'[k].admitted => vm'[k].minAllocation = MinAllocationOf(vm'[k], pct)
  <2> SUFFICES ASSUME NEW k \in vmDriverList, vm'[k].admitted
               PROVE  vm'[k].minAllocation = MinAllocationOf(vm'[k], pct)
    OBVIOUS
  <2>1. k \in VMs
    BY DEF Inv, Typed
  <2>2. CASE k = m
    <3>1. yes /\ vm'[k] = x
      BY <1>4, <1>5, <2>2
    <3>2. pct = args.pct
      BY <3>1
    <3> QED
      BY <1>4, <3>1, <3>2
  <2>3. CASE k # m
    BY <1>6, <2>1, <2>3
  <2> QED
    BY <2>2, <2>3
<1>16. Fit'
  <2> HIDE DEF pct
  <2> QED
    BY <1>1, <1>11, <1>14, <1>15 DEF Fit
<1> QED
  BY <1>7, <1>8, <1>16 DEF Inv

\* A machine leaves the list, with what was locked for it.
LEMMA LeavesList ==
  ASSUME NEW L, NEW m \in L, NEW pct, \A k \in L : k \in VMs /\ vm[k].locked \in Nat,
         \A k \in VMs : MinAllocationOf(vm[k], pct) \in Nat
  PROVE  /\ LockedIn(vm, L) \in Nat /\ LockedIn(vm, L \ {m}) \in Nat
         /\ LockedIn(vm, L \ {m}) + vm[m].locked = LockedIn(vm, L)
         /\ MinIn(vm, L, pct) \in Nat /\ MinIn(vm, L \ {m}, pct) \in Nat
         /\ MinIn(vm, L \ {m}, pct) <= MinIn(vm, L, pct)
<1> DEFINE M == L \ {m}
<1>1. m \in VMs /\ m \notin M /\ \A k \in VMs \ {m} : k \in M <=> k \in L
  OBVIOUS
<1>2. \A k \in L \cup M : k \in VMs
  OBVIOUS
<1>3. \A k \in M : vm[k].locked \in Nat
  OBVIOUS
<1> HIDE DEF M
<1>4. /\ LockedIn(vm, L) \in Nat /\ LockedIn(vm, M) \in Nat
      /\ LockedIn(vm, M) + (IF m \in L THEN vm[m].locked ELSE 0)
           = LockedIn(vm, L) + (IF m \in M THEN vm[m].locked ELSE 0)
  BY <1>1, <1>2, <1>3, LockedStep
<1>5. /\ MinIn(vm, L, pct) \in Nat /\ MinIn(vm, M, pct) \in Nat
      /\ MinIn(vm, M, pct)
             + (IF m \in L /\ vm[m].admitted THEN MinAllocationOf(vm[m], pct) ELSE 0)
           = MinIn(vm, L, pct)
             + (IF m \in M /\ vm[m].admitted THEN MinAllocationOf(vm[m], pct) ELSE 0)
  BY <1>1, MinStep
<1>6. LockedIn(vm, M) + vm[m].locked = LockedIn(vm, L)
  BY <1>1, <1>4
<1>7. MinIn(vm, M, pct) <= MinIn(vm, L, pct)
  <2>1. (IF m \in L /\ vm[m].admitted THEN MinAllocationOf(vm[m], pct) ELSE 0) \in Nat
    BY <1>1
  <2> QED
    BY <1>1, <1>5, <2>1
<1> QED
  BY <1>4, <1>5, <1>6, <1>7 DEF M

LEMMA DeleteVMFromListInv ==
  ASSUME Inv, NEW m \in VMs, DeleteVMFromList(m)
  PROVE  Inv'
<1> DEFINE L == vmDriverList \ {m}
<1>1. /\ m \in vmDriverList /\ thread[Driver].pc = "idle" /\ dying = NoVM
      /\ \A t \in VcpuThreads : thread[t].vm # m
      /\ vmDriverList' = L /\ numLockedPages' = numLockedPages - vm[m].locked
      /\ configured' = (IF vmDriverList = {m} THEN 0 ELSE configured)
      /\ dying' = m /\ UNCHANGED <<minVmMemPct, vm, trackers, thread>>
  BY DEF DeleteVMFromList, DriverIsFree
<1>2. /\ Typed /\ ThreadsFit /\ Tracked /\ Accounted /\ Fit /\ m # NoVM
  BY MemoryAssumption DEF Inv
<1>3. \A k \in vmDriverList : k \in VMs /\ vm[k].locked \in Nat
  BY <1>2, LockedType
<1>4. \A t \in Threads : thread[t].vm # m
  <2>1. thread[Driver].vm = NoVM
    BY <1>1, <1>2 DEF ThreadsFit, ThreadFits, Threads
  <2> QED
    BY <1>1, <1>2, <2>1 DEF Threads
<1>5. Typed'
  <2>1. configured' \in Nat
    BY <1>1, <1>2 DEF Typed
  <2>2. numLockedPages' \in Int
    BY <1>1, <1>2, <1>3 DEF Typed
  <2> QED
    BY <1>1, <1>2, <2>1, <2>2 DEF Typed, trackers
<1>6. ThreadsFit'
  BY <1>1, <1>2, <1>4 DEF ThreadsFit, ThreadFits
<1>7. Tracked'
  <2>1. \A k \in VMs : k \in vmDriverList' \/ k = dying' \/ Empty(vm'[k])
    BY <1>1, <1>2, MemoryAssumption DEF Tracked
  <2>2. UNCHANGED <<vm, physTracker, pins, panic>>
    BY <1>1 DEF trackers
  <2> QED
    BY <1>2, <2>1, <2>2 DEF Tracked, NamesDiffer
<1>8. /\ LockedIn(vm, vmDriverList) \in Nat /\ LockedIn(vm, L) \in Nat
      /\ LockedIn(vm, L) + vm[m].locked = LockedIn(vm, vmDriverList)
      /\ MinIn(vm, vmDriverList, minVmMemPct) \in Nat /\ MinIn(vm, L, minVmMemPct) \in Nat
      /\ MinIn(vm, L, minVmMemPct) <= MinIn(vm, vmDriverList, minVmMemPct)
  <2>1. \A k \in VMs : MinAllocationOf(vm[k], minVmMemPct) \in Nat
    BY <1>2, MinOfType DEF Typed
  <2> QED
    BY <1>1, <1>3, <2>1, LeavesList
<1>9. numLockedPages' = LockedIn(vm, L)
  <2>1. numLockedPages = LockedIn(vm, vmDriverList) /\ vm[m].locked \in Nat
    BY <1>1, <1>2, <1>3 DEF Accounted
  <2> QED
    BY <1>1, <1>8, <2>1
<1>10. Accounted'
  BY <1>1, <1>2, <1>9 DEF Accounted
<1>11. MinIn(vm, L, minVmMemPct) <= configured' /\ LockedIn(vm, L) <= configured'
  <2>1. CASE vmDriverList = {m}
    <3>1. L = {}
      BY <2>1
    <3>2. configured' = 0
      BY <1>1, <2>1
    <3> QED
      BY <3>1, <3>2, NothingLocked
  <2>2. CASE vmDriverList # {m}
    <3>1. configured' = configured /\ configured \in Nat
      BY <1>1, <1>2, <2>2 DEF Typed
    <3>2. /\ MinIn(vm, vmDriverList, minVmMemPct) <= configured
          /\ LockedIn(vm, vmDriverList) <= configured
      BY <1>2 DEF Fit, Accounted
    <3>3. vm[m].locked \in Nat
      BY <1>1, <1>3
    <3> HIDE DEF L
    <3> QED
      BY <1>8, <3>1, <3>2, <3>3
  <2> QED
    BY <2>1, <2>2
<1>12. Fit'
  BY <1>1, <1>2, <1>9, <1>11 DEF Fit
<1> QED
  BY <1>5, <1>6, <1>7, <1>10, <1>12 DEF Inv

LEMMA FreeAllVMResourcesInv ==
  ASSUME Inv, FreeAllVMResources
  PROVE  Inv'
<1> DEFINE m == dying
           r == vm[m]
           named == {r.memtracker[n] : n \in Vpns} \ {NoPage}
           left == physTracker \ named
<1>1. /\ m # NoVM /\ physTracker' = left
      /\ pins' = [p \in Pages |->
                   pins[p] - (IF p \in r.lockedPages \cup r.AWEPages THEN 1 ELSE 0)
                           - (IF p \in named \cap physTracker THEN 1 ELSE 0)]
      /\ panic' = (panic \/ (vmDriverList = {} /\ left # {}))
      /\ vm' = [vm EXCEPT ![m] = NewVM] /\ dying' = NoVM
      /\ UNCHANGED <<vmDriverList, configured, minVmMemPct, numLockedPages, thread>>
  BY DEF FreeAllVMResources
<1>2. /\ Typed /\ ThreadsFit /\ Tracked /\ Accounted /\ Fit
      /\ m \in VMs /\ m \notin vmDriverList /\ IsMachine(r)
      /\ physTracker = {p \in UserPages : \E k \in VMs : Names(vm[k], p)} /\ ~panic
      /\ NamesDiffer
  BY <1>1 DEF Inv, Typed, Tracked
<1>3. vm'[m] = NewVM /\ \A k \in VMs \ {m} : vm'[k] = vm[k]
  BY <1>1, <1>2 DEF Typed
<1>4. \A k \in vmDriverList : k \in VMs /\ vm'[k] = vm[k]
  BY <1>2, <1>3 DEF Typed
<1>5. Typed'
  <2>1. IsMachine(NewVM) /\ NoVM \notin vmDriverList
    BY <1>2, NewVMType, MemoryAssumption DEF Typed
  <2>2. pins' = [p \in Pages |-> pins'[p]]
    BY <1>1
  <2>3. \A k \in VMs : IsMachine(vm'[k])
    BY <1>2, <1>3, <2>1 DEF Typed
  <2>4. vm' = [k \in VMs |-> vm'[k]]
    BY <1>1, <1>2 DEF Typed
  <2> HIDE DEF m, r, named, left
  <2> QED
    BY <1>1, <1>2, <2>1, <2>2, <2>3, <2>4 DEF Typed
<1>6. ThreadsFit'
  BY <1>1, <1>2 DEF ThreadsFit, ThreadFits
<1>7. \A p \in Pages : p \in named <=> Names(r, p)
  BY MemoryAssumption DEF Names, Pages
<1>8. \A p \in UserPages : p \in Pages
  BY DEF Pages
<1>9. \A p \in Pages : Names(r, p) => p \in physTracker
  <2>1. r.memtracker \in [Vpns -> UserPages \cup {NoPage}]
    BY <1>2 DEF IsMachine
  <2>2. \A p \in Pages : p # NoPage
    BY MemoryAssumption DEF Pages
  <2> QED
    BY <1>2, <2>1, <2>2 DEF Names
<1>10. \A p \in Pages : ~Names(NewVM, p) /\ RefsBy(NewVM, p) = 0
  BY NewVMType, EmptyCounts
<1>11. Tracked'
  <2>1. \A k \in VMs : k \in vmDriverList' \/ k = dying' \/ Empty(vm'[k])
    <3>1. \A k \in VMs \ {m} : k \in vmDriverList \/ Empty(vm[k])
      BY <1>2 DEF Tracked
    <3> HIDE DEF m
    <3> QED
      BY <1>1, <1>3, <3>1, NewVMType
  <2>2. NamesDiffer'
    <3>1. \A n \in Vpns : vm'[m].memtracker[n] = NoPage
      BY <1>3, NewVMType DEF Empty
    <3> HIDE DEF m
    <3> QED
      BY <1>2, <1>3, <3>1 DEF NamesDiffer
  <2>3. physTracker' = {p \in UserPages : \E k \in VMs : Names(vm'[k], p)}
    <3> SUFFICES ASSUME NEW p
                 PROVE  p \in left <=> p \in UserPages /\ \E k \in VMs : Names(vm'[k], p)
      BY <1>1
    <3>1. CASE p \notin UserPages
      BY <1>2, <3>1
    <3>2. CASE p \in UserPages
      <4>1. p \in Pages /\ p # NoPage
        BY <3>2, MemoryAssumption DEF Pages
      <4>2. p \in left <=> (\E k \in VMs : Names(vm[k], p)) /\ ~Names(r, p)
        BY <1>2, <1>7, <3>2, <4>1
      <4>3. (\E k \in VMs : Names(vm'[k], p)) <=> \E k \in VMs \ {m} : Names(vm[k], p)
        BY <1>3, <1>10, <4>1
      <4>4. \A k \in VMs \ {m} : Names(vm[k], p) => ~Names(r, p)
        BY <1>2, <4>1 DEF NamesDiffer, Names
      <4> QED
        BY <1>2, <3>2, <4>2, <4>3, <4>4
    <3> QED
      BY <3>1, <3>2
  <2>4. \A p \in Pages : p \notin r.lockedPages \/ p \notin r.AWEPages
    BY <1>2, MemoryAssumption DEF IsMachine
  <2>5. \A p \in Pages : pins'[p] + RefsBy(r, p) = pins[p] + RefsBy(NewVM, p) /\ pins'[p] \in Int
    <3> SUFFICES ASSUME NEW p \in Pages
                 PROVE  pins'[p] + RefsBy(r, p) = pins[p] + RefsBy(NewVM, p) /\ pins'[p] \in Int
      OBVIOUS
    <3>1. pins[p] \in Int
      BY <1>2, PinsType
    <3>2. (IF p \in r.lockedPages \cup r.AWEPages THEN 1 ELSE 0)
            = One(p \in r.lockedPages) + One(p \in r.AWEPages)
      BY <2>4 DEF One
    <3>3. (IF p \in named \cap physTracker THEN 1 ELSE 0) = One(Names(r, p))
      BY <1>7, <1>9 DEF One
    <3>4. pins'[p] = pins[p] - (One(p \in r.lockedPages) + One(p \in r.AWEPages))
                       - One(Names(r, p))
      BY <1>1, <3>2, <3>3
    <3>5. /\ One(Names(r, p)) \in Nat /\ One(p \in r.lockedPages) \in Nat
          /\ One(p \in r.AWEPages) \in Nat
      BY DEF One
    <3>6. RefsBy(r, p) = One(Names(r, p)) + One(p \in r.lockedPages) + One(p \in r.AWEPages)
      BY DEF RefsBy
    <3>7. RefsBy(NewVM, p) = 0
      BY <1>10
    <3> HIDE DEF r, m, named
    <3> QED
      BY <3>1, <3>4, <3>5, <3>6, <3>7
  <2>6. \A p \in Pages : pins'[p] = RefsOf(vm', p)
    BY <1>1, <1>2, <2>5, RefsFollow
  <2>7. ~panic'
    <3>1. CASE vmDriverList # {}
      BY <1>1, <1>2, <3>1
    <3>2. CASE vmDriverList = {}
      <4>1. \A k \in VMs \ {m} : Empty(vm[k])
        BY <1>2, <3>2 DEF Tracked
      <4>2. \A k \in VMs \ {m} : \A p \in Pages : ~Names(vm[k], p)
        BY <4>1, EmptyCounts
      <4>3. left = {}
        BY <1>2, <1>7, <1>8, <4>2
      <4> QED
        BY <1>1, <1>2, <4>3
    <3> QED
      BY <3>1, <3>2
  <2> QED
    BY <2>1, <2>2, <2>3, <2>6, <2>7 DEF Tracked
<1>12. LockedIn(vm', vmDriverList) = LockedIn(vm, vmDriverList)
  BY <1>4, LockedStays
<1>13. Accounted'
  <2> HIDE DEF m, r, named, left
  <2> QED
    BY <1>1, <1>2, <1>4, <1>12 DEF Accounted
<1>14. Fit'
  <2>1. \A k \in VMs : (k \in vmDriverList /\ vm'[k].admitted)
                         <=> (k \in vmDriverList /\ vm[k].admitted)
    BY <1>4
  <2>2. \A k \in VMs : k \in vmDriverList => vm'[k] = vm[k]
    BY <1>4
  <2>3. MinIn(vm', vmDriverList, minVmMemPct) = MinIn(vm, vmDriverList, minVmMemPct)
    BY <2>1, <2>2, MinAgrees
  <2> HIDE DEF m, r, named, left
  <2> QED
    BY <1>1, <1>2, <1>4, <2>3 DEF Fit
<1> QED
  BY <1>5, <1>6, <1>11, <1>13, <1>14 DEF Inv

LEMMA NextInv == Inv /\ [Next]_vars => Inv'
<1> SUFFICES ASSUME Inv, [Next]_vars PROVE Inv'
  OBVIOUS
<1>1. ASSUME NEW m \in VMs, Manages(m) PROVE Inv'
  BY <1>1, CreateVMInv, DeleteVMFromListInv, AdmitInv, ReadmitInv DEF Manages
<1>2. ASSUME NEW limit \in Limits, SetConfiguredLockedPagesLimit(limit) PROVE Inv'
  BY <1>2, SetConfiguredLockedPagesLimitInv
<1>3. ASSUME NEW t \in Threads, Locks(t) PROVE Inv'
  BY <1>3, BeginInv, ReserveFreePagesInv, LockPageInv, LockPageNewInv, NoUserPageInv,
     AllocLockedPagesInv DEF Locks
<1>4. ASSUME NEW t \in Threads, UnreserveFreePages(t) PROVE Inv'
  BY <1>4, UnreserveFreePagesInv
<1>5. ASSUME NEW t \in Threads, NEW m \in VMs, Unlocks(t, m) PROVE Inv'
  BY <1>5, UnlockPageInv, UnlockPageByMPNInv, FreeLockedPagesInv DEF Unlocks
<1>6. CASE FreeAllVMResources
  BY <1>6, FreeAllVMResourcesInv
<1>7. CASE UNCHANGED vars
  <2>1. /\ UNCHANGED <<vmDriverList, dying, configured, minVmMemPct, vm>>
        /\ UNCHANGED <<numLockedPages, trackers, thread>>
    BY <1>7 DEF vars, admission
  <2>2. ThreadsFit' /\ Tracked' /\ Accounted'
    BY <2>1, Requests
  <2>3. Typed' /\ Fit'
    BY <2>1 DEF Inv, Typed, Fit, trackers
  <2> QED
    BY <2>2, <2>3 DEF Inv
<1> QED
  BY <1>1, <1>2, <1>3, <1>4, <1>5, <1>6, <1>7 DEF Next

LEMMA InvHolds == Spec => []Inv
<1> QED
  BY InitInv, NextInv, PTL DEF Spec

-----------------------------------------------------------------------------
(***************************************************************************)
(* Theorems.                                                               *)
(***************************************************************************)
LEMMA InvLocked == Inv => LockedPagesAccounted
<1> SUFFICES ASSUME Inv PROVE LockedPagesAccounted
  OBVIOUS
<1>1. Typed /\ Accounted
  BY DEF Inv
<1>2. vmDriverList \subseteq VMs /\ thread \in [Threads -> Thread]
  BY <1>1 DEF Typed
<1>3. \A m \in vmDriverList : vm[m].locked \in Nat
  BY <1>1, LockedType
<1>4. LockedPages = LockedIn(vm, vmDriverList)
  BY <1>2, <1>3, LockedIs
<1>5. numLockedPages = MapThenSumSet(LAMBDA m : vm[m].locked, vmDriverList)
  <2>1. numLockedPages = LockedPages
    BY <1>1, <1>4 DEF Accounted
  <2> QED
    BY <2>1 DEF LockedPages
<1>6. ASSUME NEW m \in vmDriverList
      PROVE  vm[m].locked = Cardinality(Named(m)) + Cardinality(vm[m].lockedPages)
                              + Cardinality(vm[m].AWEPages) + InFlight(m)
  <2>1. vm[m].locked = CountOf(vm[m]) + FlightOf(thread, m)
    BY <1>1 DEF Accounted
  <2>2. InFlight(m) = FlightOf(thread, m)
    BY <1>2, InFlightIs
  <2>3. Named(m) = NamesOf(vm[m])
    BY DEF Named, NamesOf
  <2> QED
    BY <2>1, <2>2, <2>3 DEF CountOf
<1> QED
  BY <1>5, <1>6 DEF LockedPagesAccounted

LEMMA InvTrackers == Inv => TrackersHoldPages
<1> SUFFICES ASSUME Inv PROVE TrackersHoldPages
  OBVIOUS
<1>1. /\ ~panic /\ \A p \in Pages : pins[p] = RefsOf(vm, p)
      /\ physTracker = {p \in UserPages : \E m \in VMs : Names(vm[m], p)}
  BY DEF Inv, Tracked
<1>2. \A p \in Pages :
        pins[p] = Cardinality({m \in VMs : \E n \in Vpns : vm[m].memtracker[n] = p})
                   + Cardinality({m \in VMs : p \in vm[m].lockedPages})
                   + Cardinality({m \in VMs : p \in vm[m].AWEPages})
  BY <1>1 DEF RefsOf, Names
<1>3. \A m \in VMs, n \in Vpns : vm[m].memtracker[n] \in UserPages \cup {NoPage}
  BY DEF Inv, Typed, IsMachine
<1>4. physTracker = {vm[x[1]].memtracker[x[2]] : x \in VMs \X Vpns} \ {NoPage}
  <2> SUFFICES ASSUME NEW p
               PROVE  p \in physTracker
                        <=> p \in {vm[x[1]].memtracker[x[2]] : x \in VMs \X Vpns} \ {NoPage}
    OBVIOUS
  <2>1. p \in {vm[x[1]].memtracker[x[2]] : x \in VMs \X Vpns}
          <=> \E m \in VMs, n \in Vpns : vm[m].memtracker[n] = p
    <3>1. ASSUME NEW x \in VMs \X Vpns, p = vm[x[1]].memtracker[x[2]]
          PROVE  \E m \in VMs, n \in Vpns : vm[m].memtracker[n] = p
      BY <3>1
    <3>2. ASSUME NEW m \in VMs, NEW n \in Vpns, vm[m].memtracker[n] = p
          PROVE  \E x \in VMs \X Vpns : p = vm[x[1]].memtracker[x[2]]
      <4>1. <<m, n>> \in VMs \X Vpns /\ <<m, n>>[1] = m /\ <<m, n>>[2] = n
        OBVIOUS
      <4> QED
        BY <3>2, <4>1
    <3> QED
      BY <3>1, <3>2
  <2>2. p \in physTracker
          <=> p \in UserPages /\ \E m \in VMs, n \in Vpns : vm[m].memtracker[n] = p
    BY <1>1 DEF Names
  <2>3. NoPage \notin UserPages
    BY MemoryAssumption
  <2> QED
    BY <1>3, <2>1, <2>2, <2>3
<1> QED
  BY <1>1, <1>2, <1>4 DEF TrackersHoldPages

LEMMA InvFit == Inv => AdmittedFit
<1> SUFFICES ASSUME Inv PROVE AdmittedFit
  OBVIOUS
<1>1. /\ vmDriverList \subseteq VMs /\ (\A m \in VMs : IsMachine(vm[m]))
      /\ minVmMemPct \in 0..100 /\ Fit
  BY DEF Inv, Typed
<1>2. GlobalMinAllocation(minVmMemPct) = MinIn(vm, vmDriverList, minVmMemPct)
  BY <1>1, GlobalIs
<1> QED
  BY <1>1, <1>2 DEF Fit, AdmittedFit

\* Whatever fails and however calls interleave, each machine has reserved one
\* page for each that its trackers name and each that a call is about to lock or
\* give back, and the host's count is the sum (Vmx86_LockPage, Vmx86_UnlockPage,
\* Vmx86_AllocLockedPages, Vmx86_FreeLockedPages, Vmx86_ReleaseVM).
THEOREM ReservationsAccounted == Spec => []LockedPagesAccounted
  BY InvHolds, InvLocked, PTL

\* The driver holds one reference to a page for each tracker that names it, until
\* HostIF_FreeAllResources, and no bit of a tracker is set or cleared twice.
THEOREM PagesHaveTrackers == Spec => []TrackersHoldPages
  BY InvHolds, InvTrackers, PTL

\* What the machines admitted need at least, at the percentage in force, and what
\* is reserved stay below the limit of the user (Vmx86_Admit, Vmx86_Readmit).
THEOREM AdmissionHolds == Spec => []AdmittedFit
  BY InvHolds, InvFit, PTL

-----------------------------------------------------------------------------
(***************************************************************************)
(* User calls.                                                             *)
(***************************************************************************)
\* The VMX is about to tell v that its call is completed.
Target(v) == /\ vmx.vcpu = v
             /\ \/ vmx.pc = "awaken"
                \/ vmx.pc = "ack" /\ vmx.only = FALSE

\* v waits for a reply, or is about to note that it does.
Open(v) == v \in replyWaiting \/ pc[v] = "reply"

\* What a request and an acknowledgement say of the processor.
Exchange ==
  \A v \in Vcpus :
    /\ v \in userCallRequest \cup vmx.acked => Open(v)
    /\ Target(v) => Open(v) /\ v \notin userCallRequest \cup vmx.acked
    /\ v \notin userCallRequest \cap vmx.acked
    /\ pc[v] = "reply" => v \notin replyWaiting
    /\ pc[v] = "monitor" => v \in userCallRestart \/ v \notin replyWaiting

\* An ioctl is about a processor.
AwakenHasTarget == vmx.pc \in {"ack", "awaken", "wake"} => vmx.vcpu \in Vcpus

\* A processor that sleeps, or may, is in its queue.
Queued ==
  \A v \in Vcpus : pc[v] \in {"recheck", "asleep", "leave"} => v \in replyQueue

\* The inductive invariant.
UserCallInv == UserCallTypeOK /\ Exchange /\ AwakenHasTarget /\ Queued
                 /\ PendingCountsCalls /\ WakeupsAreNotLost

\* No call is acknowledged or completed before the processor has noted it.
Announced ==
  SeesAnnounced =>
    \A v \in Vcpus : pc[v] = "reply" => v \notin vmx.acked /\ ~Target(v)

-----------------------------------------------------------------------------
\* Every action keeps the types.
LEMMA TypeStep ==
  ASSUME UserCallTypeOK, [UserCallNext]_userCallVars
  PROVE  UserCallTypeOK'
<1> USE DEF UserCallTypeOK, Vmx, VcpuPC, GoTo, shared, sleeping
<1>1. ASSUME NEW v \in Vcpus, Calls(v) PROVE UserCallTypeOK'
  <2>1. CASE Request(v)
    BY <2>1 DEF Request
  <2>2. CASE Restart(v)
    BY <2>2 DEF Restart
  <2>3. CASE NoteReply(v)
    BY <2>3 DEF NoteReply
  <2>4. CASE CountCall(v)
    <3>1. pendingUserCalls + 1 \in Int
      OBVIOUS
    <3> QED
      BY <2>4, <3>1 DEF CountCall
  <2>5. CASE WakeVmx(v)
    <3> DEFINE w == vmx.pc \in {"check", "asleep"}
    <3>1. w \in BOOLEAN
      OBVIOUS
    <3>2. vmx' = [vmx EXCEPT !.woken = w]
      BY <2>5, Zenon DEF WakeVmx
    <3>3. vmx' \in Vmx
      <4> HIDE DEF w
      <4> QED
        BY <3>1, <3>2
    <3> QED
      BY <2>5, <3>3 DEF WakeVmx
  <2> QED
    BY <1>1, <2>1, <2>2, <2>3, <2>4, <2>5 DEF Calls
<1>2. ASSUME NEW v \in Vcpus, Waits(v) PROVE UserCallTypeOK'
  BY <1>2 DEF Waits, WaitOrNot, JoinQueue, Recheck, Wakened, TimesOut, LeaveQueue
<1>3. ASSUME NEW v \in Vcpus, Answered(v) \/ Unanswered(v) PROVE UserCallTypeOK'
  BY <1>3 DEF Answered, Unanswered
<1>4. ASSUME NEW v \in Vcpus, Acknowledge(v) \/ Complete(v) PROVE UserCallTypeOK'
  <2>1. CASE Acknowledge(v)
    BY <2>1 DEF Acknowledge, Seen
  <2>2. CASE Complete(v)
    BY <2>2 DEF Complete, Seen
  <2> QED
    BY <1>4, <2>1, <2>2
<1>5. CASE Polls \/ PollReturns
  BY <1>5 DEF Polls, PollJoins, PollChecks, PollWakes, PollReturns
<1>6. CASE Finishes
  <2>1. CASE AckUserCall
    <3>1. pendingUserCalls - 1 \in Int
      OBVIOUS
    <3>2. vmx' \in Vmx
      BY <2>1, UserCallAssumption DEF AckUserCall
    <3> QED
      BY <2>1, <3>1, <3>2 DEF AckUserCall
  <2>2. CASE AwakenVcpu
    BY <2>2 DEF AwakenVcpu
  <2>3. CASE WakeVcpu
    BY <2>3 DEF WakeVcpu
  <2> QED
    BY <1>6, <2>1, <2>2, <2>3 DEF Finishes
<1>7. CASE UNCHANGED userCallVars
  BY <1>7 DEF userCallVars
<1> QED
  BY <1>1, <1>2, <1>3, <1>4, <1>5, <1>6, <1>7 DEF UserCallNext

\* ... and what a request, the state of its processor and the VMX have to do
\* with each other.
LEMMA ExchangeStep ==
  ASSUME UserCallTypeOK, Exchange, [UserCallNext]_userCallVars
  PROVE  Exchange'
<1> USE DEF UserCallTypeOK, Vmx, VcpuPC, GoTo, shared, sleeping, Exchange, Open, Target
<1>1. ASSUME NEW v \in Vcpus, Calls(v) PROVE Exchange'
  BY <1>1 DEF Calls, Request, Restart, NoteReply, CountCall, WakeVmx
<1>2. ASSUME NEW v \in Vcpus, Waits(v) PROVE Exchange'
  BY <1>2 DEF Waits, WaitOrNot, JoinQueue, Recheck, Wakened, TimesOut, LeaveQueue
<1>3. ASSUME NEW v \in Vcpus, Answered(v) \/ Unanswered(v) PROVE Exchange'
  BY <1>3 DEF Answered, Unanswered
<1>4. ASSUME NEW v \in Vcpus, Acknowledge(v) \/ Complete(v) PROVE Exchange'
  <2>1. CASE Acknowledge(v)
    BY <2>1 DEF Acknowledge, Seen
  <2>2. CASE Complete(v)
    BY <2>2 DEF Complete, Seen
  <2> QED
    BY <1>4, <2>1, <2>2
<1>5. CASE Polls \/ PollReturns
  BY <1>5 DEF Polls, PollJoins, PollChecks, PollWakes, PollReturns
<1>6. CASE Finishes
  BY <1>6 DEF Finishes, AckUserCall, AwakenVcpu, WakeVcpu
<1>7. CASE UNCHANGED userCallVars
  BY <1>7 DEF userCallVars
<1> QED
  BY <1>1, <1>2, <1>3, <1>4, <1>5, <1>6, <1>7 DEF UserCallNext

\* Every action keeps AwakenHasTarget: an ioctl names its processor to its end.
LEMMA TargetStep ==
  ASSUME UserCallTypeOK, AwakenHasTarget, [UserCallNext]_userCallVars
  PROVE  AwakenHasTarget'
<1> USE DEF UserCallTypeOK, Vmx, VcpuPC, GoTo, shared, sleeping, AwakenHasTarget
<1>1. ASSUME NEW v \in Vcpus, Calls(v) PROVE AwakenHasTarget'
  BY <1>1 DEF Calls, Request, Restart, NoteReply, CountCall, WakeVmx
<1>2. ASSUME NEW v \in Vcpus, Waits(v) PROVE AwakenHasTarget'
  BY <1>2 DEF Waits, WaitOrNot, JoinQueue, Recheck, Wakened, TimesOut, LeaveQueue
<1>3. ASSUME NEW v \in Vcpus, Answered(v) \/ Unanswered(v) PROVE AwakenHasTarget'
  BY <1>3 DEF Answered, Unanswered
<1>4. ASSUME NEW v \in Vcpus, Acknowledge(v) \/ Complete(v) PROVE AwakenHasTarget'
  BY <1>4, ZenonT(120) DEF Acknowledge, Complete, Seen
<1>5. CASE Polls \/ PollReturns
  BY <1>5 DEF Polls, PollJoins, PollChecks, PollWakes, PollReturns
<1>6. CASE Finishes
  BY <1>6 DEF Finishes, AckUserCall, AwakenVcpu, WakeVcpu
<1>7. CASE UNCHANGED userCallVars
  BY <1>7 DEF userCallVars
<1> QED
  BY <1>1, <1>2, <1>3, <1>4, <1>5, <1>6, <1>7 DEF UserCallNext

\* Every action keeps Queued: a processor leaves its queue when it has woken.
LEMMA QueuedStep ==
  ASSUME UserCallTypeOK, Queued, [UserCallNext]_userCallVars
  PROVE  Queued'
<1> USE DEF UserCallTypeOK, Vmx, VcpuPC, GoTo, shared, sleeping, Queued
<1>1. ASSUME NEW v \in Vcpus, Calls(v) PROVE Queued'
  BY <1>1 DEF Calls, Request, Restart, NoteReply, CountCall, WakeVmx
<1>2. ASSUME NEW v \in Vcpus, Waits(v) PROVE Queued'
  BY <1>2 DEF Waits, WaitOrNot, JoinQueue, Recheck, Wakened, TimesOut, LeaveQueue
<1>3. ASSUME NEW v \in Vcpus, Answered(v) \/ Unanswered(v) PROVE Queued'
  BY <1>3 DEF Answered, Unanswered
<1>4. ASSUME NEW v \in Vcpus, Acknowledge(v) \/ Complete(v) PROVE Queued'
  BY <1>4 DEF Acknowledge, Complete, Seen
<1>5. CASE Polls \/ PollReturns
  BY <1>5 DEF Polls, PollJoins, PollChecks, PollWakes, PollReturns
<1>6. CASE Finishes
  BY <1>6 DEF Finishes, AckUserCall, AwakenVcpu, WakeVcpu
<1>7. CASE UNCHANGED userCallVars
  BY <1>7 DEF userCallVars
<1> QED
  BY <1>1, <1>2, <1>3, <1>4, <1>5, <1>6, <1>7 DEF UserCallNext

-----------------------------------------------------------------------------
\* The processors whose request is not counted yet.
Uncounted == {v \in Vcpus : pc[v] \in {"reply", "count"}}

\* The sets that are counted are finite.
LEMMA FiniteSets ==
  ASSUME UserCallTypeOK
  PROVE  /\ IsFiniteSet(userCallRequest) /\ Cardinality(userCallRequest) \in Nat
         /\ IsFiniteSet(Uncounted) /\ Cardinality(Uncounted) \in Nat
<1>1. userCallRequest \in SUBSET Vcpus /\ Uncounted \in SUBSET Vcpus
  BY DEF UserCallTypeOK, Uncounted
<1>2. IsFiniteSet(userCallRequest) /\ IsFiniteSet(Uncounted)
  BY <1>1, FS_Subset, UserCallAssumption
<1> QED
  BY <1>2, FS_CardinalityType

\* Who changes what is counted changes the count.
LEMMA CountStep ==
  ASSUME UserCallTypeOK, Exchange, PendingCountsCalls, [UserCallNext]_userCallVars
  PROVE  PendingCountsCalls'
<1> DEFINE R == userCallRequest
           U == Uncounted
           A == IF vmx.pc = "ack" THEN 1 ELSE 0
<1>1. /\ IsFiniteSet(R) /\ Cardinality(R) \in Nat
      /\ IsFiniteSet(U) /\ Cardinality(U) \in Nat /\ A \in Int
      /\ pendingUserCalls \in Int
  BY FiniteSets DEF UserCallTypeOK
<1>2. pendingUserCalls = Cardinality(R) - Cardinality(U) + A
  BY DEF PendingCountsCalls, Uncounted
<1>3. SUFFICES pendingUserCalls' = Cardinality(R') - Cardinality(U') + A'
  BY DEF PendingCountsCalls, Uncounted
<1>4. ASSUME NEW v \in Vcpus, Request(v)
      PROVE  pendingUserCalls' = Cardinality(R') - Cardinality(U') + A'
  <2>1. v \notin R /\ v \notin U
    BY <1>4 DEF Request, Exchange, Open, Uncounted, UserCallTypeOK
  <2>2. R' = R \cup {v} /\ U' = U \cup {v} /\ A' = A /\ UNCHANGED pendingUserCalls
    BY <1>4 DEF Request, GoTo, Uncounted, UserCallTypeOK
  <2>3. Cardinality(R') = Cardinality(R) + 1 /\ Cardinality(U') = Cardinality(U) + 1
    BY <1>1, <2>1, <2>2, FS_AddElement
  <2> HIDE DEF R, U, A
  <2> QED
    BY <1>1, <1>2, <2>2, <2>3
<1>5. ASSUME NEW v \in Vcpus, CountCall(v)
      PROVE  pendingUserCalls' = Cardinality(R') - Cardinality(U') + A'
  <2>1. v \in U
    BY <1>5 DEF CountCall, Uncounted, UserCallTypeOK
  <2>2. R' = R /\ U' = U \ {v} /\ A' = A /\ pendingUserCalls' = pendingUserCalls + 1
    BY <1>5 DEF CountCall, GoTo, Uncounted, UserCallTypeOK, sleeping
  <2>3. Cardinality(U') = Cardinality(U) - 1
    BY <1>1, <2>1, <2>2, FS_RemoveElement
  <2> HIDE DEF R, U, A
  <2> QED
    BY <1>1, <1>2, <2>2, <2>3
<1>6. ASSUME NEW v \in Vcpus, Acknowledge(v) \/ (Complete(v) /\ v \in R)
      PROVE  pendingUserCalls' = Cardinality(R') - Cardinality(U') + A'
  <2>1. v \in R /\ A = 0
    BY <1>6 DEF Acknowledge, Complete, Seen
  <2>2. R' = R \ {v} /\ U' = U /\ A' = 1 /\ UNCHANGED pendingUserCalls
    BY <1>6, <2>1 DEF Acknowledge, Complete, Uncounted, UserCallTypeOK, Vmx
  <2>3. Cardinality(R') = Cardinality(R) - 1
    BY <1>1, <2>1, <2>2, FS_RemoveElement
  <2> HIDE DEF R, U, A
  <2> QED
    BY <1>1, <1>2, <2>1, <2>2, <2>3
<1>7. CASE AckUserCall
  <2>1. A = 1 /\ A' = 0
    BY <1>7 DEF AckUserCall, UserCallTypeOK, Vmx
  <2>2. R' = R /\ U' = U /\ pendingUserCalls' = pendingUserCalls - 1
    BY <1>7 DEF AckUserCall, Uncounted
  <2> HIDE DEF R, U, A
  <2> QED
    BY <1>1, <1>2, <2>1, <2>2
<1> DEFINE Same == R' = R /\ U' = U /\ A' = A /\ UNCHANGED pendingUserCalls
<1>8. ASSUME NEW v \in Vcpus, Complete(v), v \notin R
      PROVE  Same
  BY <1>8 DEF Complete, Uncounted, UserCallTypeOK, Vmx
<1>9. ASSUME NEW v \in Vcpus,
             Restart(v) \/ NoteReply(v) \/ WakeVmx(v)
      PROVE  Same
  BY <1>9 DEF Restart, NoteReply, WakeVmx, GoTo, Uncounted, UserCallTypeOK, Vmx, shared, sleeping
<1>10. ASSUME NEW v \in Vcpus, Waits(v) \/ Answered(v) \/ Unanswered(v)
       PROVE  Same
  BY <1>10 DEF Waits, WaitOrNot, JoinQueue, Recheck, Wakened, TimesOut, LeaveQueue, Answered,
               Unanswered, GoTo, Uncounted, UserCallTypeOK, shared, sleeping
<1>11. ASSUME Polls \/ PollReturns PROVE Same
  <2>1. vmx.pc # "ack" /\ vmx'.pc # "ack"
    <3>1. CASE PollJoins
      BY <3>1 DEF PollJoins, UserCallTypeOK, Vmx
    <3>2. CASE PollChecks
      <4>1. vmx'.pc = IF pendingUserCalls > 0 THEN "user" ELSE "asleep"
        BY <3>2 DEF PollChecks, UserCallTypeOK, Vmx
      <4> QED
        BY <3>2, <4>1 DEF PollChecks
    <3>3. CASE PollWakes
      BY <3>3 DEF PollWakes, UserCallTypeOK, Vmx
    <3>4. CASE PollReturns
      BY <3>4 DEF PollReturns, UserCallTypeOK, Vmx
    <3> QED
      BY <1>11, <3>1, <3>2, <3>3, <3>4 DEF Polls
  <2>2. UNCHANGED <<userCallRequest, pendingUserCalls, pc>>
    BY <1>11 DEF Polls, PollJoins, PollChecks, PollWakes, PollReturns, shared
  <2> QED
    BY <2>1, <2>2 DEF Uncounted
<1>12. ASSUME AwakenVcpu \/ WakeVcpu PROVE Same
  BY <1>12 DEF AwakenVcpu, WakeVcpu, Uncounted, UserCallTypeOK, Vmx, shared, sleeping
<1>13. ASSUME UNCHANGED userCallVars PROVE Same
  BY <1>13 DEF userCallVars, Uncounted
<1> QED
  BY <1>2, <1>4, <1>5, <1>6, <1>7, <1>8, <1>9, <1>10, <1>11, <1>12, <1>13
     DEF UserCallNext, Calls, Finishes

-----------------------------------------------------------------------------
\* The two halves of WakeupsAreNotLost.
VcpusAreWoken ==
  \A v \in Vcpus : pc[v] = "asleep" /\ v \in interruptible
                  => v \in replyWaiting \/ (vmx.pc = "wake" /\ vmx.vcpu = v)

VmxIsWoken ==
  vmx.pc = "asleep" /\ ~vmx.woken /\ userCallRequest # {}
    => \E v \in Vcpus : pc[v] \in {"reply", "count", "wake"}

\* When poll finds nothing to do, whoever has a request is about to wake it.
LEMMA CallIsOnItsWay ==
  ASSUME UserCallTypeOK, PendingCountsCalls, vmx.pc # "ack", ~(pendingUserCalls > 0),
         userCallRequest # {}
  PROVE  \E v \in Vcpus : pc[v] \in {"reply", "count", "wake"}
<1> DEFINE R == Cardinality(userCallRequest)
           U == Cardinality(Uncounted)
<1>1. R \in Nat /\ U \in Nat /\ R # 0
  BY FiniteSets, FS_EmptySet
<1>2. pendingUserCalls = R - U /\ pendingUserCalls \in Int
  BY <1>1 DEF PendingCountsCalls, Uncounted, UserCallTypeOK
<1>3. U # 0
  <2> HIDE DEF R, U
  <2> QED
    BY <1>1, <1>2
<1>4. Uncounted # {}
  BY <1>3, FS_EmptySet
<1> QED
  BY <1>4 DEF Uncounted

\* Who answers a processor wakes it.
LEMMA VcpusStep ==
  ASSUME UserCallTypeOK, Queued, VcpusAreWoken, [UserCallNext]_userCallVars
  PROVE  VcpusAreWoken'
<1> USE DEF UserCallTypeOK, Vmx, VcpuPC, GoTo, shared, sleeping, Queued, VcpusAreWoken
<1>1. ASSUME NEW v \in Vcpus, Calls(v) PROVE VcpusAreWoken'
  BY <1>1 DEF Calls, Request, Restart, NoteReply, CountCall, WakeVmx
<1>2. ASSUME NEW v \in Vcpus, Waits(v) PROVE VcpusAreWoken'
  BY <1>2 DEF Waits, WaitOrNot, JoinQueue, Recheck, Wakened, TimesOut, LeaveQueue
<1>3. ASSUME NEW v \in Vcpus, Answered(v) \/ Unanswered(v) PROVE VcpusAreWoken'
  BY <1>3 DEF Answered, Unanswered
<1>4. ASSUME NEW v \in Vcpus, Acknowledge(v) \/ Complete(v) PROVE VcpusAreWoken'
  BY <1>4 DEF Acknowledge, Complete, Seen
<1>5. CASE Polls \/ PollReturns
  BY <1>5 DEF Polls, PollJoins, PollChecks, PollWakes, PollReturns
<1>6. CASE Finishes
  BY <1>6 DEF Finishes, AckUserCall, AwakenVcpu, WakeVcpu
<1>7. CASE UNCHANGED userCallVars
  BY <1>7 DEF userCallVars
<1> QED
  BY <1>1, <1>2, <1>3, <1>4, <1>5, <1>6, <1>7 DEF UserCallNext

\* Who counts a call wakes the VMX.
LEMMA VmxStep ==
  ASSUME UserCallTypeOK, PendingCountsCalls, VmxIsWoken, [UserCallNext]_userCallVars
  PROVE  VmxIsWoken'
<1> USE DEF UserCallTypeOK, Vmx, VcpuPC, GoTo, shared, sleeping, VmxIsWoken
<1>1. ASSUME NEW v \in Vcpus, Calls(v) PROVE VmxIsWoken'
  BY <1>1 DEF Calls, Request, Restart, NoteReply, CountCall, WakeVmx
<1>2. ASSUME NEW v \in Vcpus, Waits(v) PROVE VmxIsWoken'
  BY <1>2 DEF Waits, WaitOrNot, JoinQueue, Recheck, Wakened, TimesOut, LeaveQueue
<1>3. ASSUME NEW v \in Vcpus, Answered(v) \/ Unanswered(v) PROVE VmxIsWoken'
  BY <1>3 DEF Answered, Unanswered
<1>4. ASSUME NEW v \in Vcpus, Acknowledge(v) \/ Complete(v) PROVE VmxIsWoken'
  BY <1>4 DEF Acknowledge, Complete, Seen
<1>5. CASE Polls \/ PollReturns
  <2>1. CASE PollJoins
    BY <2>1 DEF PollJoins
  <2>2. CASE PollChecks
    <3>1. vmx.pc # "ack" /\ UNCHANGED <<pendingUserCalls, userCallRequest, pc>>
      BY <2>2 DEF PollChecks
    <3>2. CASE pendingUserCalls > 0
      BY <2>2, <3>2 DEF PollChecks
    <3>3. CASE ~(pendingUserCalls > 0)
      BY <3>1, <3>3, CallIsOnItsWay
    <3> QED
      BY <3>2, <3>3
  <2>3. CASE PollWakes
    BY <2>3 DEF PollWakes
  <2>4. CASE PollReturns
    BY <2>4 DEF PollReturns
  <2> QED
    BY <1>5, <2>1, <2>2, <2>3, <2>4 DEF Polls
<1>6. CASE Finishes
  BY <1>6 DEF Finishes, AckUserCall, AwakenVcpu, WakeVcpu
<1>7. CASE UNCHANGED userCallVars
  BY <1>7 DEF userCallVars
<1> QED
  BY <1>1, <1>2, <1>3, <1>4, <1>5, <1>6, <1>7 DEF UserCallNext

-----------------------------------------------------------------------------
\* Inv holds initially.
LEMMA UserCallInitInv == UserCallInit => UserCallInv
<1> SUFFICES ASSUME UserCallInit PROVE UserCallInv
  OBVIOUS
<1>1. UserCallTypeOK
  BY UserCallAssumption DEF UserCallInit, UserCallTypeOK, Vmx, VcpuPC
<1>2. Exchange /\ AwakenHasTarget /\ Queued
  BY DEF UserCallInit, AwakenHasTarget, Exchange, Open, Target, Queued
<1>3. PendingCountsCalls
  <2>1. userCallRequest = {} /\ Uncounted = {} /\ pendingUserCalls = 0 /\ vmx.pc = "user"
    BY DEF UserCallInit, Uncounted
  <2> QED
    BY <2>1, FS_EmptySet DEF PendingCountsCalls, Uncounted
<1>4. WakeupsAreNotLost
  BY DEF UserCallInit, WakeupsAreNotLost
<1> QED
  BY <1>1, <1>2, <1>3, <1>4 DEF UserCallInv

\* Every step keeps Inv.
LEMMA UserCallNextInv == UserCallInv /\ [UserCallNext]_userCallVars => UserCallInv'
<1> SUFFICES ASSUME UserCallInv, [UserCallNext]_userCallVars PROVE UserCallInv'
  OBVIOUS
<1>1. VcpusAreWoken /\ VmxIsWoken
  BY DEF UserCallInv, WakeupsAreNotLost, VcpusAreWoken, VmxIsWoken
<1>2. UserCallTypeOK' /\ Exchange' /\ AwakenHasTarget' /\ Queued' /\ PendingCountsCalls'
  BY TypeStep, ExchangeStep, TargetStep, QueuedStep, CountStep DEF UserCallInv
<1>3. VcpusAreWoken' /\ VmxIsWoken'
  BY <1>1, VcpusStep, VmxStep DEF UserCallInv
<1>4. WakeupsAreNotLost'
  BY <1>3 DEF WakeupsAreNotLost, VcpusAreWoken, VmxIsWoken
<1> QED
  BY <1>2, <1>4 DEF UserCallInv

\* Inv holds in every reachable state.
LEMMA UserCallInvHolds == UserCallSpec => []UserCallInv
<1> QED
  BY UserCallInitInv, UserCallNextInv, PTL DEF UserCallSpec

\* The variables of the exchange keep their types.
THEOREM TypeCorrect == UserCallSpec => []UserCallTypeOK
<1>1. UserCallInv => UserCallTypeOK
  BY DEF UserCallInv
<1> QED
  BY <1>1, UserCallInvHolds, PTL

\* What poll of linux/driver.c reads is the number of calls that are counted
\* and not acknowledged, for any number of processors, whenever the VMX looks
\* at their requests.
THEOREM CallsAreCounted == UserCallSpec => []PendingCountsCalls
<1>1. UserCallInv => PendingCountsCalls
  BY DEF UserCallInv
<1> QED
  BY <1>1, UserCallInvHolds, PTL

\* No wakeup between HostIF_UserCall and poll, or between HostIF_AwakenVcpu and
\* HostIF_UserCallWait, is lost.
THEOREM NoLostWakeup == UserCallSpec => []WakeupsAreNotLost
<1>1. UserCallInv => WakeupsAreNotLost
  BY DEF UserCallInv
<1> QED
  BY <1>1, UserCallInvHolds, PTL

-----------------------------------------------------------------------------
\* Announced is kept by every action, given Exchange.
LEMMA AnnouncedStep ==
  ASSUME UserCallTypeOK, Exchange, Announced, [UserCallNext]_userCallVars
  PROVE  Announced'
<1> USE DEF UserCallTypeOK, Vmx, VcpuPC, GoTo, shared, sleeping, Exchange, Open, Target, Announced
<1>1. ASSUME NEW v \in Vcpus, Calls(v) PROVE Announced'
  BY <1>1 DEF Calls, Request, Restart, NoteReply, CountCall, WakeVmx
<1>2. ASSUME NEW v \in Vcpus, Waits(v) PROVE Announced'
  BY <1>2 DEF Waits, WaitOrNot, JoinQueue, Recheck, Wakened, TimesOut, LeaveQueue
<1>3. ASSUME NEW v \in Vcpus, Answered(v) \/ Unanswered(v) PROVE Announced'
  BY <1>3 DEF Answered, Unanswered
<1>4. ASSUME NEW v \in Vcpus, Acknowledge(v) \/ Complete(v) PROVE Announced'
  <2>1. CASE Acknowledge(v)
    BY <2>1 DEF Acknowledge, Seen
  <2>2. CASE Complete(v)
    BY <2>2 DEF Complete, Seen
  <2> QED
    BY <1>4, <2>1, <2>2
<1>5. CASE Polls \/ PollReturns
  BY <1>5 DEF Polls, PollJoins, PollChecks, PollWakes, PollReturns
<1>6. CASE Finishes
  BY <1>6 DEF Finishes, AckUserCall, AwakenVcpu, WakeVcpu
<1>7. CASE UNCHANGED userCallVars
  BY <1>7 DEF userCallVars
<1> QED
  BY <1>1, <1>2, <1>3, <1>4, <1>5, <1>6, <1>7 DEF UserCallNext

\* Announced holds in every reachable state.
LEMMA AnnouncedHolds == UserCallSpec => []Announced
<1>1. UserCallInit => Announced
  BY DEF UserCallInit, Announced, Target
<1>2. UserCallInv /\ Announced /\ [UserCallNext]_userCallVars => Announced'
  BY AnnouncedStep DEF UserCallInv
<1> QED
  BY <1>1, <1>2, UserCallInvHolds, PTL DEF UserCallSpec

\* The assertions of Vmx86_RunVM, HostIF_UserCall and HostIF_AwakenVcpu hold
\* when the VMX leaves requests alone that are not announced.
THEOREM Assertions == SeesAnnounced => (UserCallSpec => []AssertionsHold)
<1> SUFFICES ASSUME SeesAnnounced PROVE UserCallSpec => []AssertionsHold
  OBVIOUS
<1>1. UserCallInv /\ Announced => AssertionsHold
  <2> SUFFICES ASSUME UserCallInv, Announced PROVE AssertionsHold
    OBVIOUS
  <2>1. RepliesAreAwaited
    <3> SUFFICES ASSUME vmx.pc = "awaken" PROVE vmx.vcpu \in replyWaiting
      BY DEF RepliesAreAwaited
    <3>1. vmx.vcpu \in Vcpus
      BY DEF UserCallInv, AwakenHasTarget
    <3> QED
      BY <3>1 DEF UserCallInv, Exchange, Announced, Open, Target
  <2>2. CallsDoNotOverlap
    BY DEF UserCallInv, Exchange, Open, CallsDoNotOverlap, UserCallTypeOK, Vmx
  <2> QED
    BY <2>1, <2>2 DEF AssertionsHold
<1> QED
  BY <1>1, UserCallInvHolds, AnnouncedHolds, PTL

-----------------------------------------------------------------------------
\* Every step of the code is one of UserCalls, or none, wherever the VMX looks.
LEMMA RefineStep ==
  ASSUME UserCallInv, [UserCallNext]_userCallVars
  PROVE  [UC!Next]_Status
<1> USE DEF UserCallInv, UserCallTypeOK, Vmx, VcpuPC, GoTo, shared, sleeping, Exchange, Open,
            Target, UC!Next, UC!Call, UC!Answer, UC!Return, UC!Step, Status
<1>1. ASSUME NEW v \in Vcpus, Calls(v) PROVE [UC!Next]_Status
  <2>1. CASE Request(v)
    BY <2>1, ZenonT(60) DEF Request
  <2>2. CASE Restart(v)
    BY <2>2 DEF Restart
  <2>3. CASE NoteReply(v)
    BY <2>3 DEF NoteReply
  <2>4. CASE CountCall(v)
    BY <2>4 DEF CountCall
  <2>5. CASE WakeVmx(v)
    BY <2>5 DEF WakeVmx
  <2> QED
    BY <1>1, <2>1, <2>2, <2>3, <2>4, <2>5 DEF Calls
<1>2. ASSUME NEW v \in Vcpus, Waits(v) PROVE [UC!Next]_Status
  BY <1>2 DEF Waits, WaitOrNot, JoinQueue, Recheck, Wakened, TimesOut, LeaveQueue
<1>3. ASSUME NEW v \in Vcpus, Answered(v) \/ Unanswered(v) PROVE [UC!Next]_Status
  <2>1. CASE Answered(v)
    BY <2>1, ZenonT(120) DEF Answered
  <2>2. CASE Unanswered(v)
    BY <2>2 DEF Unanswered
  <2> QED
    BY <1>3, <2>1, <2>2
<1>4. ASSUME NEW v \in Vcpus, Acknowledge(v) \/ Complete(v) PROVE [UC!Next]_Status
  BY <1>4 DEF Acknowledge, Complete, Seen
<1>5. CASE Polls \/ PollReturns
  BY <1>5 DEF Polls, PollJoins, PollChecks, PollWakes, PollReturns
<1>6. CASE Finishes
  <2>1. CASE AckUserCall
    BY <2>1 DEF AckUserCall
  <2>2. CASE AwakenVcpu
    <3>1. CASE pc[vmx.vcpu] = "reply"
      BY <2>2, <3>1 DEF AwakenVcpu
    <3>2. CASE pc[vmx.vcpu] # "reply"
      <4>1. UC!Answer(vmx.vcpu)
        BY <2>2, <3>2 DEF AwakenVcpu, AwakenHasTarget
      <4> QED
        BY <4>1, <2>2 DEF AwakenVcpu, AwakenHasTarget
    <3> QED
      BY <3>1, <3>2
  <2>3. CASE WakeVcpu
    BY <2>3 DEF WakeVcpu
  <2> QED
    BY <1>6, <2>1, <2>2, <2>3 DEF Finishes
<1>7. CASE UNCHANGED userCallVars
  BY <1>7 DEF userCallVars
<1> QED
  BY <1>1, <1>2, <1>3, <1>4, <1>5, <1>6, <1>7 DEF UserCallNext

\* The calls of the processors are those of UserCalls, except that they may
\* never be answered: each is answered once, and by the VMX alone.
THEOREM CallsAreAnsweredOnce == UserCallSpec => UC!Init /\ [][UC!Next]_Status
<1>1. UserCallInit => UC!Init
  BY DEF UserCallInit, UC!Init, Status
<1>2. UserCallInv /\ [UserCallNext]_userCallVars => [UC!Next]_Status
  BY RefineStep
<1> QED
  BY <1>1, <1>2, UserCallInvHolds, PTL DEF UserCallSpec
=============================================================================

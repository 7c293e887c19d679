------------------------- MODULE ResourceQuotaProofs -------------------------
(***************************************************************************)
(* Quota, for any number of projects, VMs, disks, requests and keys, and   *)
(* any number of failures: no ticket records more usage than its limits.   *)
(* The first part needs no more than the usage maps.  The others say what  *)
(* the usage is the sum of: lemmas about sums over finite sets, the types, *)
(* how creations and deletions of one entity see each other (RequestInv),  *)
(* and the sum itself (SumInv).                                            *)
(***************************************************************************)
EXTENDS ResourceQuota, FiniteSetTheorems, TLAPS

\* Most leaves are first-order reasoning, which Zenon does; those with arithmetic,
\* records or long formulas name SMT.
USE Zenon

\* A usage map: integers, for every limited key and within its limit.
Within(t, m) ==
    /\ m \in [DOMAIN m -> Int]
    /\ DOMAIN Limits[t] \subseteq DOMAIN m
    /\ \A k \in DOMAIN Limits[t] : m[k] <= Limits[t][k]

QuotaInv == DOMAIN usage = Tickets /\ \A t \in Tickets : Within(t, usage[t])

\* Costs and limits are natural numbers, and are charged to a ticket.
LEMMA Costs ==
    ASSUME NEW x \in Entities
    PROVE  TicketOf(x) \in Tickets /\ IsAmounts(CostOf(x))
BY QuotaAssumption DEF QuotaAssumption, TicketOf, CostOf, Entities, Items, Tickets

\* consumeQuota keeps a ticket within its limits when the cost fits.
LEMMA ConsumeKeeps ==
    ASSUME QuotaInv, NEW t \in Tickets, NEW c, IsAmounts(c), Fits(t, c), Consume(t, c)
    PROVE  QuotaInv'
<1> DEFINE m == [k \in DOMAIN usage[t] \cup DOMAIN c |-> In(usage[t], k) + In(c, k)]
<1>1. usage' = [usage EXCEPT ![t] = m]
  BY DEF Consume, In
<1>2. \A k \in DOMAIN m : In(usage[t], k) \in Int /\ In(c, k) \in Int
  BY SMT DEF QuotaInv, Within, In, IsAmounts
<1>3. Within(t, m)
  <2>1. m \in [DOMAIN m -> Int]
    BY SMT, <1>2
  <2>2. DOMAIN Limits[t] \subseteq DOMAIN m
    BY DEF QuotaInv, Within
  <2>3. ASSUME NEW k \in DOMAIN Limits[t]
        PROVE  m[k] <= Limits[t][k]
    <3>0. /\ k \in DOMAIN usage[t]
          /\ m[k] = usage[t][k] + In(c, k)
          /\ usage[t][k] <= Limits[t][k]
          /\ In(usage[t], k) = usage[t][k]
          /\ usage[t][k] \in Int
      BY DEF QuotaInv, Within, In
    <3>1. CASE k \in DOMAIN c
      BY <3>0, <3>1 DEF Fits, In
    <3>2. CASE k \notin DOMAIN c
      BY SMT, <3>0, <3>2 DEF In
    <3> QED BY <3>1, <3>2
  <2> QED BY <2>1, <2>2, <2>3 DEF Within
<1> HIDE DEF m
<1> QED BY <1>1, <1>3 DEF QuotaInv

\* returnUsage only lowers usage.
LEMMA ReturnKeeps ==
    ASSUME QuotaInv, NEW t \in Tickets, NEW c, IsAmounts(c), Return(t, c)
    PROVE  QuotaInv'
<1> DEFINE m == [k \in DOMAIN usage[t] |-> usage[t][k] - In(c, k)]
<1>1. usage' = [usage EXCEPT ![t] = m]
  BY DEF Return, In
<1>2. \A k \in DOMAIN usage[t] : usage[t][k] \in Int /\ In(c, k) \in Nat
  BY DEF QuotaInv, Within, In, IsAmounts
<1>3. \A k \in DOMAIN Limits[t] :
          k \in DOMAIN usage[t] /\ usage[t][k] <= Limits[t][k] /\ Limits[t][k] \in Nat
  BY QuotaAssumption DEF QuotaAssumption, QuotaInv, Within, IsAmounts
<1>4. Within(t, m)
  BY SMT, <1>2, <1>3 DEF Within
<1> HIDE DEF m
<1> QED BY <1>1, <1>4 DEF QuotaInv

\* Every step of a request charges what fits, returns, or leaves usage alone.
LEMMA StepKeeps ==
    ASSUME QuotaInv, [Next]_vars
    PROVE  QuotaInv'
<1>1. ASSUME NEW x \in Entities, CreateStep(x) PROVE QuotaInv'
  <2>1. CASE UNCHANGED usage
    BY <2>1 DEF QuotaInv
  <2>2. CASE Fits(TicketOf(x), CostOf(x)) /\ Consume(TicketOf(x), CostOf(x))
    BY <2>2, Costs, ConsumeKeeps
  <2> QED
    BY <1>1, <2>1, <2>2 DEF CreateStep, BeginProject, PostTicket, UndoTicket,
       BeginItem, ConsumeQuota, ConsumeQuotaFails, PostDocument, storeVars
<1>2. ASSUME NEW d \in Deletes, DeleteStep(d) PROVE QuotaInv'
  <2> DEFINE x == TargetOf[d]
  <2>0. x \in Entities
    BY QuotaAssumption DEF QuotaAssumption
  <2>1. CASE UNCHANGED usage
    BY <2>1 DEF QuotaInv
  <2>2. CASE Return(TicketOf(x), CostOf(x))
    BY <2>0, <2>2, Costs, ReturnKeeps
  <2> QED
    BY <1>2, <2>1, <2>2 DEF DeleteStep, FindTarget, ListVms, ListDisks, FindTicket,
       RunDeleteStep, RereadTarget, FindProject, ReturnQuota, CreateTombstone,
       DeleteDocument, DeleteTicket, storeVars
<1>3. CASE UNCHANGED vars
  BY <1>3 DEF QuotaInv, vars, storeVars
<1> QED BY <1>1, <1>2, <1>3 DEF Next, Terminated

\* ResourceTicketService.consumeQuota: however creations and deletions
\* interleave and whichever calls fail, no ticket records more usage than its
\* limits.
THEOREM QuotaNeverExceeded == Spec => []UsageWithinLimits
<1>1. Init => QuotaInv
  <2> SUFFICES ASSUME Init PROVE QuotaInv
    OBVIOUS
  <2>1. ASSUME NEW t \in Tickets PROVE Within(t, usage[t])
    <3>1. usage[t] = [k \in DOMAIN Limits[t] |-> 0]
      BY DEF Init
    <3>2. \A k \in DOMAIN Limits[t] : Limits[t][k] \in Nat
      BY QuotaAssumption DEF QuotaAssumption, IsAmounts
    <3> QED BY SMT, <3>1, <3>2 DEF Within
  <2> QED BY <2>1 DEF Init, QuotaInv
<1>2. QuotaInv /\ [Next]_vars => QuotaInv'
  BY StepKeeps
<1>3. QuotaInv => UsageWithinLimits
  BY DEF QuotaInv, Within, UsageWithinLimits, In
<1> QED BY <1>1, <1>2, <1>3, PTL DEF Spec

-----------------------------------------------------------------------------
(* Sums over finite sets.  An argument by induction takes a smallest        *)
(* counterexample: a non-empty set of subsets of a finite set has a minimal *)
(* element.                                                                 *)

LEMMA Smallest ==
    ASSUME NEW S, IsFiniteSet(S), NEW C \in SUBSET SUBSET S, C # {}
    PROVE  \E m \in C : \A s \in C : s \subseteq m => s = m
<1>1. C \subseteq FiniteSubsetsOf(S)
  BY FS_FiniteSubsetsOfFinite
<1>2. PICK m \in C : \A s \in C : ~ (<<s, m>> \in StrictSubsetOrdering(S))
  BY <1>1, FS_StrictSubsetOrderingWellFounded, WFMin
<1>3. QED
  BY <1>2 DEF StrictSubsetOrdering

Pick(s) == CHOOSE x \in s : TRUE

\* What MapThenSumSet computes with: a function on the subsets of T.
SumsTo(f, T, k) ==
    f = [s \in SUBSET T |-> IF s = {} THEN 0
                            ELSE In(CostOf(Pick(s)), k) + f[s \ {Pick(s)}]]

LEMMA TotalIs ==
    ASSUME NEW S, NEW k
    PROVE  Total(S, k) = (CHOOSE f : SumsTo(f, S, k))[S]
BY DEF Total, MapThenSumSet, MapThenFoldSet, SumsTo, Pick

LEMMA SumsEquation ==
    ASSUME NEW f, NEW T, NEW k, SumsTo(f, T, k), NEW s \in SUBSET T
    PROVE  f[s] = IF s = {} THEN 0 ELSE In(CostOf(Pick(s)), k) + f[s \ {Pick(s)}]
BY DEF SumsTo

LEMMA Picked ==
    ASSUME NEW s, s # {}
    PROVE  Pick(s) \in s
BY DEF Pick

\* Two such functions agree where both are defined.
LEMMA SumsAgree ==
    ASSUME NEW T, NEW U, NEW S, IsFiniteSet(S), S \subseteq T, S \subseteq U, NEW k,
           NEW f, SumsTo(f, T, k), NEW g, SumsTo(g, U, k)
    PROVE  f[S] = g[S]
<1> DEFINE C == {s \in SUBSET S : f[s] # g[s]}
<1>1. SUFFICES ASSUME C # {} PROVE FALSE
  OBVIOUS
<1>2. PICK m \in C : \A s \in C : s \subseteq m => s = m
  <2>1. C \in SUBSET SUBSET S
    OBVIOUS
  <2> HIDE DEF C
  <2>2. QED
    BY SMT, <1>1, <2>1, Smallest
<1>3. /\ f[m] = IF m = {} THEN 0 ELSE In(CostOf(Pick(m)), k) + f[m \ {Pick(m)}]
      /\ g[m] = IF m = {} THEN 0 ELSE In(CostOf(Pick(m)), k) + g[m \ {Pick(m)}]
  <2>1. m \in SUBSET T /\ m \in SUBSET U
    OBVIOUS
  <2> HIDE DEF C
  <2>2. f[m] = IF m = {} THEN 0 ELSE In(CostOf(Pick(m)), k) + f[m \ {Pick(m)}]
    BY <2>1 DEF SumsTo
  <2>3. g[m] = IF m = {} THEN 0 ELSE In(CostOf(Pick(m)), k) + g[m \ {Pick(m)}]
    BY <2>1 DEF SumsTo
  <2>4. QED
    BY <2>2, <2>3
<1>4. CASE m = {}
  BY <1>3, <1>4
<1>5. CASE m # {}
  <2>1. m \ {Pick(m)} \in SUBSET S /\ m \ {Pick(m)} # m
    BY <1>5, Picked
  <2>2. f[m \ {Pick(m)}] = g[m \ {Pick(m)}]
    BY <1>2, <2>1
  <2>3. QED
    BY <1>3, <1>5, <2>2
<1>6. QED
  BY <1>4, <1>5

\* There is such a function for every finite set.
LEMMA SumsExist ==
    ASSUME NEW S, IsFiniteSet(S), NEW k
    PROVE  \E f : SumsTo(f, S, k)
<1> DEFINE C == {T \in SUBSET S : ~ \E f : SumsTo(f, T, k)}
           F(T) == CHOOSE f : SumsTo(f, T, k)
<1>1. SUFFICES ASSUME C # {} PROVE FALSE
  OBVIOUS
<1>2. PICK T \in C : \A s \in C : s \subseteq T => s = T
  <2>1. C \in SUBSET SUBSET S
    OBVIOUS
  <2> HIDE DEF C
  <2>2. QED
    BY SMT, <1>1, <2>1, Smallest
<1>3. ASSUME NEW s \in SUBSET T, s # T PROVE SumsTo(F(s), s, k)
  <2>1. \E f : SumsTo(f, s, k)
    BY <1>2, <1>3
  <2>2. QED
    BY <2>1
<1> DEFINE Value(s) == F(s)[s]
           Step(s) == IF s = {} THEN 0 ELSE In(CostOf(Pick(s)), k) + Value(s \ {Pick(s)})
<1>4. ASSUME NEW s \in SUBSET T, s # T PROVE Value(s) = Step(s)
  <2>1. SumsTo(F(s), s, k)
    BY <1>3, <1>4
  <2>2. Value(s) = IF s = {} THEN 0
                   ELSE In(CostOf(Pick(s)), k) + F(s)[s \ {Pick(s)}]
    <3>1. s \in SUBSET s
      OBVIOUS
    <3> HIDE DEF C, F
    <3>2. QED
      BY SMT, <2>1, <3>1, SumsEquation
  <2>3. CASE s = {}
    BY <2>2, <2>3
  <2>4. CASE s # {}
    <3> DEFINE r == s \ {Pick(s)}
    <3>1. r \in SUBSET T /\ r # T /\ r \subseteq s
      BY <2>4, Picked
    <3>2. SumsTo(F(r), r, k)
      BY <1>3, <3>1
    <3>3. IsFiniteSet(r)
      BY <3>1, FS_Subset
    <3> HIDE DEF F
    <3>4. F(s)[r] = F(r)[r]
      BY SMT, <2>1, <3>1, <3>2, <3>3, SumsAgree
    <3>5. QED
      BY <2>2, <2>4, <3>4
  <2>5. QED
    BY <2>3, <2>4
<1> DEFINE f == [s \in SUBSET T |-> Step(s)]
<1>5. ASSUME NEW s \in SUBSET T, s # {} PROVE f[s \ {Pick(s)}] = Value(s \ {Pick(s)})
  <2>1. s \ {Pick(s)} \in SUBSET T /\ s \ {Pick(s)} # T
    BY <1>5, Picked
  <2> HIDE DEF Value, Step
  <2>2. QED
    BY <1>4, <2>1
<1>6. f = [s \in SUBSET T |-> IF s = {} THEN 0
                              ELSE In(CostOf(Pick(s)), k) + f[s \ {Pick(s)}]]
  <2> HIDE DEF Value
  <2>1. QED
    BY <1>5
<1>7. SumsTo(f, T, k)
  <2> HIDE DEF f
  <2>1. QED
    BY <1>6 DEF SumsTo
<1>8. QED
  BY <1>2, <1>7

LEMMA TotalSums ==
    ASSUME NEW S, IsFiniteSet(S), NEW k
    PROVE  Total(S, k) = IF S = {} THEN 0
                         ELSE In(CostOf(Pick(S)), k) + Total(S \ {Pick(S)}, k)
<1> DEFINE F(T) == CHOOSE f : SumsTo(f, T, k)
           r == S \ {Pick(S)}
<1>1. IsFiniteSet(r)
  BY FS_Subset
<1>2. SumsTo(F(S), S, k) /\ SumsTo(F(r), r, k)
  BY <1>1, SumsExist
<1>3. Total(S, k) = F(S)[S] /\ Total(r, k) = F(r)[r]
  BY TotalIs
<1> HIDE DEF F
<1>4. F(S)[r] = F(r)[r]
  <2>1. r \subseteq S /\ r \subseteq r
    OBVIOUS
  <2> HIDE DEF r
  <2>2. QED
    BY SMT, <1>1, <1>2, <2>1, SumsAgree
<1>5. F(S)[S] = IF S = {} THEN 0 ELSE In(CostOf(Pick(S)), k) + F(S)[r]
  BY SMT, <1>2, SumsEquation
<1>6. QED
  BY <1>3, <1>4, <1>5

LEMMA TotalNone ==
    ASSUME NEW k
    PROVE  Total({}, k) = 0
BY TotalSums, FS_EmptySet

LEMMA CostIn ==
    ASSUME NEW x \in Entities, NEW k
    PROVE  In(CostOf(x), k) \in Nat
BY Costs DEF In, IsAmounts

LEMMA TotalType ==
    ASSUME NEW S \in SUBSET Entities, IsFiniteSet(S), NEW k
    PROVE  Total(S, k) \in Nat
<1> DEFINE C == {T \in SUBSET S : Total(T, k) \notin Nat}
<1>1. SUFFICES ASSUME C # {} PROVE FALSE
  OBVIOUS
<1>2. PICK m \in C : \A s \in C : s \subseteq m => s = m
  <2>1. C \in SUBSET SUBSET S
    OBVIOUS
  <2> HIDE DEF C
  <2>2. QED
    BY SMT, <1>1, <2>1, Smallest
<1>3. IsFiniteSet(m)
  BY FS_Subset
<1>4. m # {}
  BY SMT, TotalNone
<1>5. Pick(m) \in m /\ Pick(m) \in Entities
  BY <1>4, Picked
<1>6. Total(m \ {Pick(m)}, k) \in Nat
  BY SMT, <1>2, <1>5
<1>7. Total(m, k) = In(CostOf(Pick(m)), k) + Total(m \ {Pick(m)}, k)
  BY <1>3, <1>4, TotalSums
<1>8. In(CostOf(Pick(m)), k) \in Nat
  BY <1>5, CostIn
<1>9. QED
  BY SMT, <1>6, <1>7, <1>8

\* The order in which elements are taken does not matter.
LEMMA TotalWithout ==
    ASSUME NEW S \in SUBSET Entities, IsFiniteSet(S), NEW x \in S, NEW k
    PROVE  Total(S, k) = In(CostOf(x), k) + Total(S \ {x}, k)
<1> DEFINE Splits(T, z) == Total(T, k) = In(CostOf(z), k) + Total(T \ {z}, k)
           C == {T \in SUBSET S : \E z \in T : ~Splits(T, z)}
<1>1. SUFFICES ASSUME C # {} PROVE FALSE
  BY DEF C
<1>2. PICK m \in C : \A s \in C : s \subseteq m => s = m
  <2>1. C \in SUBSET SUBSET S
    OBVIOUS
  <2> HIDE DEF C
  <2>2. QED
    BY SMT, <1>1, <2>1, Smallest
<1>3. m \in SUBSET S /\ (\E z \in m : ~Splits(m, z))
  BY <1>2
<1>4. PICK z \in m : ~Splits(m, z)
  BY <1>3
<1> DEFINE y == Pick(m)
<1>5. y \in m
  BY <1>4, Picked
<1>6. IsFiniteSet(m)
  BY <1>3, FS_Subset
<1>7. Splits(m, y)
  BY <1>4, <1>6, TotalSums
<1>8. y # z
  BY <1>4, <1>7
<1>9. Splits(m \ {y}, z) /\ Splits(m \ {z}, y)
  <2>1. /\ m \ {y} \in SUBSET S /\ m \ {y} # m /\ z \in m \ {y}
        /\ m \ {z} \in SUBSET S /\ m \ {z} # m /\ y \in m \ {z}
    BY <1>3, <1>4, <1>5, <1>8
  <2>2. m \ {y} \notin C /\ m \ {z} \notin C
    BY <1>2, <2>1
  <2> HIDE DEF Splits
  <2>3. QED
    BY <2>1, <2>2
<1>10. Total((m \ {y}) \ {z}, k) = Total((m \ {z}) \ {y}, k)
  <2>1. (m \ {y}) \ {z} = (m \ {z}) \ {y}
    OBVIOUS
  <2>2. QED
    BY <2>1, Zenon
<1>11. /\ In(CostOf(y), k) \in Nat /\ In(CostOf(z), k) \in Nat
       /\ Total((m \ {z}) \ {y}, k) \in Nat
  <2>1. y \in Entities /\ z \in Entities /\ (m \ {z}) \ {y} \in SUBSET Entities
    BY <1>3, <1>4, <1>5
  <2>2. IsFiniteSet((m \ {z}) \ {y})
    BY <1>6, FS_Subset
  <2>3. QED
    BY <2>1, <2>2, CostIn, TotalType
<1>12. QED
  <2> DEFINE a == In(CostOf(y), k)
             b == In(CostOf(z), k)
             c == Total((m \ {z}) \ {y}, k)
  <2>1. a \in Nat /\ b \in Nat /\ c \in Nat
    BY <1>11
  <2>2. Total(m, k) = a + (b + c)
    BY <1>7, <1>9, <1>10
  <2>3. ~(Total(m, k) = b + (a + c))
    BY <1>4, <1>9
  <2> HIDE DEF a, b, c
  <2>4. QED
    BY SMT, <2>1, <2>2, <2>3

LEMMA TotalWith ==
    ASSUME NEW S \in SUBSET Entities, IsFiniteSet(S), NEW x \in Entities \ S, NEW k
    PROVE  /\ IsFiniteSet(S \cup {x})
           /\ Total(S \cup {x}, k) = Total(S, k) + In(CostOf(x), k)
<1> DEFINE T == S \cup {x}
<1>1. IsFiniteSet(T)
  BY FS_AddElement
<1>2. T \in SUBSET Entities /\ x \in T /\ T \ {x} = S
  OBVIOUS
<1> HIDE DEF T
<1>3. Total(T, k) = In(CostOf(x), k) + Total(S, k)
  <2>1. Total(T, k) = In(CostOf(x), k) + Total(T \ {x}, k)
    BY SMT, <1>1, <1>2, TotalWithout
  <2>2. QED
    BY <1>2, <2>1, Zenon
<1>4. In(CostOf(x), k) \in Nat /\ Total(S, k) \in Nat
  BY CostIn, TotalType
<1>5. QED
  BY SMT, <1>1, <1>3, <1>4 DEF T

LEMMA TotalGrows ==
    ASSUME NEW T \in SUBSET Entities, IsFiniteSet(T), NEW S \in SUBSET T, NEW k
    PROVE  Total(S, k) <= Total(T, k)
<1> DEFINE C == {U \in SUBSET T : S \subseteq U /\ ~(Total(S, k) <= Total(U, k))}
<1>1. SUFFICES ASSUME C # {} PROVE FALSE
  BY DEF C
<1>2. PICK m \in C : \A s \in C : s \subseteq m => s = m
  <2>1. C \in SUBSET SUBSET T
    OBVIOUS
  <2> HIDE DEF C
  <2>2. QED
    BY SMT, <1>1, <2>1, Smallest
<1>3. m \in SUBSET T /\ S \subseteq m /\ ~(Total(S, k) <= Total(m, k))
  BY <1>2
<1>4. IsFiniteSet(m) /\ IsFiniteSet(S)
  BY <1>3, FS_Subset
<1>5. Total(m, k) \in Nat /\ Total(S, k) \in Nat
  BY <1>3, <1>4, TotalType
<1>6. m # S
  BY SMT, <1>3, <1>5
<1>7. PICK x \in m : x \notin S
  BY <1>3, <1>6
<1>8. m \ {x} \in SUBSET T /\ S \subseteq m \ {x} /\ m \ {x} # m
  BY <1>3, <1>7
<1>9. Total(S, k) <= Total(m \ {x}, k)
  BY <1>2, <1>8
<1>10. IsFiniteSet(m \ {x})
  BY <1>4, FS_Subset
<1>11. Total(m \ {x}, k) \in Nat /\ In(CostOf(x), k) \in Nat
  BY <1>3, <1>7, <1>10, TotalType, CostIn
<1>12. Total(m, k) = In(CostOf(x), k) + Total(m \ {x}, k)
  BY SMT, <1>3, <1>4, <1>7, TotalWithout
<1>13. QED
  BY SMT, <1>3, <1>5, <1>9, <1>11, <1>12

LEMMA TotalTwo ==
    ASSUME NEW S \in SUBSET Entities, IsFiniteSet(S),
           NEW T \in SUBSET Entities, IsFiniteSet(T), S \cap T = {}, NEW k
    PROVE  Total(S \cup T, k) = Total(S, k) + Total(T, k)
<1> DEFINE Adds(U) == Total(S \cup U, k) = Total(S, k) + Total(U, k)
           C == {U \in SUBSET T : ~Adds(U)}
<1>1. SUFFICES ASSUME C # {} PROVE FALSE
  BY DEF C
<1>2. PICK m \in C : \A s \in C : s \subseteq m => s = m
  <2>1. C \in SUBSET SUBSET T
    OBVIOUS
  <2> HIDE DEF C
  <2>2. QED
    BY SMT, <1>1, <2>1, Smallest
<1>3. m \in SUBSET T /\ ~Adds(m)
  BY <1>2
<1>4. Total(S, k) \in Nat
  BY TotalType
<1>5. m # {}
  <2>1. ASSUME m = {} PROVE FALSE
    <3>1. Total(S \cup m, k) = Total(S, k) /\ Total(m, k) = 0
      <4>1. S \cup m = S
        BY <2>1
      <4>2. Total(S \cup m, k) = Total(S, k)
        BY <4>1, Zenon
      <4>3. Total(m, k) = 0
        BY <2>1, TotalNone
      <4>4. QED
        BY <4>2, <4>3
    <3>2. QED
      BY SMT, <1>3, <1>4, <3>1
  <2>2. QED
    BY <2>1
<1>6. PICK x \in m : TRUE
  BY <1>5
<1> DEFINE r == m \ {x}
<1>7. r \in SUBSET T /\ r # m /\ r \subseteq m
  BY <1>3, <1>6
<1>8. Adds(r)
  BY <1>2, <1>7
<1>9. IsFiniteSet(m) /\ IsFiniteSet(r) /\ IsFiniteSet(S \cup m)
  BY <1>3, FS_Subset, FS_Union
<1>10. Total(m, k) = In(CostOf(x), k) + Total(r, k)
  BY SMT, <1>3, <1>6, <1>9, TotalWithout
<1>11. Total(S \cup m, k) = In(CostOf(x), k) + Total(S \cup r, k)
  <2>1. S \cup m \in SUBSET Entities /\ x \in S \cup m /\ (S \cup m) \ {x} = S \cup r
    BY <1>3, <1>6
  <2> DEFINE V == S \cup m
  <2>2. Total(V, k) = In(CostOf(x), k) + Total(V \ {x}, k)
    <3>1. V \in SUBSET Entities /\ x \in V /\ IsFiniteSet(V)
      BY <1>9, <2>1
    <3> HIDE DEF V
    <3>2. QED
      BY SMT, <3>1, TotalWithout
  <2> HIDE DEF r
  <2>3. QED
    BY <2>1, <2>2, Zenon
<1>12. Total(r, k) \in Nat /\ In(CostOf(x), k) \in Nat
  BY <1>3, <1>6, <1>7, <1>9, TotalType, CostIn
<1> HIDE DEF r
<1>13. QED
  <2> DEFINE a == Total(S, k)
             b == Total(r, k)
             c == In(CostOf(x), k)
  <2>1. Total(S \cup m, k) = c + (a + b) /\ Total(m, k) = c + b
    BY <1>8, <1>10, <1>11
  <2>2. ~(Total(S \cup m, k) = a + (c + b))
    BY <1>3, <1>10
  <2>3. a \in Nat /\ b \in Nat /\ c \in Nat
    BY <1>4, <1>12
  <2> HIDE DEF a, b, c
  <2>4. QED
    BY SMT, <2>1, <2>2, <2>3

\* Items of each project of P sum up to no more than its limit: all of them
\* together to no more than the sum of the limits.
LEMMA TotalByProject ==
    ASSUME NEW P \in SUBSET Projects, IsFiniteSet(P),
           NEW I \in SUBSET Items, IsFiniteSet(I), NEW k,
           \A i \in I : ProjectOf[i] \in P,
           \A p \in P : Total({i \in I : ProjectOf[i] = p}, k) <= In(CostOf(p), k)
    PROVE  Total(I, k) <= Total(P, k)
<1> DEFINE J(Q) == {i \in I : ProjectOf[i] \in Q}
           C == {Q \in SUBSET P : ~(Total(J(Q), k) <= Total(Q, k))}
<1>0. P \in SUBSET Entities /\ I \in SUBSET Entities
  BY DEF Entities
<1>1. SUFFICES ASSUME C # {} PROVE FALSE
  <2>1. J(P) = I
    OBVIOUS
  <2>2. P \notin C
    BY <1>1
  <2>3. Total(J(P), k) <= Total(P, k)
    BY <2>2
  <2> HIDE DEF J
  <2>4. QED
    BY <2>1, <2>3
<1>2. PICK m \in C : \A s \in C : s \subseteq m => s = m
  <2>1. C \in SUBSET SUBSET P
    OBVIOUS
  <2> HIDE DEF C
  <2>2. QED
    BY SMT, <1>1, <2>1, Smallest
<1>3. m \in SUBSET P /\ ~(Total(J(m), k) <= Total(m, k))
  BY <1>2
<1>4. m # {}
  <2>1. ASSUME m = {} PROVE FALSE
    <3>1. J(m) = {}
      BY <2>1
    <3> HIDE DEF J
    <3>2. Total(J(m), k) = 0 /\ Total(m, k) = 0
      BY <2>1, <3>1, TotalNone
    <3>3. QED
      BY SMT, <1>3, <3>2
  <2>2. QED
    BY <2>1
<1>5. PICK p \in m : TRUE
  BY <1>4
<1> DEFINE r == m \ {p}
           own == {i \in I : ProjectOf[i] = p}
<1>6. r \in SUBSET P /\ r # m /\ r \subseteq m
  BY <1>3, <1>5
<1>7. Total(J(r), k) <= Total(r, k)
  BY <1>2, <1>6
<1>8. IsFiniteSet(m) /\ IsFiniteSet(r) /\ IsFiniteSet(J(r)) /\ IsFiniteSet(own)
  BY <1>3, FS_Subset
<1>9. Total(m, k) = In(CostOf(p), k) + Total(r, k)
  BY SMT, <1>0, <1>3, <1>5, <1>8, TotalWithout
<1>10. Total(J(m), k) = Total(J(r), k) + Total(own, k)
  <2>1. /\ J(m) = J(r) \cup own /\ J(r) \cap own = {}
        /\ J(r) \in SUBSET Entities /\ own \in SUBSET Entities
    BY <1>0, <1>5
  <2> HIDE DEF J, own, r
  <2>2. Total(J(r) \cup own, k) = Total(J(r), k) + Total(own, k)
    BY SMT, <1>8, <2>1, TotalTwo
  <2>3. QED
    BY <2>1, <2>2, Zenon
<1>11. Total(own, k) <= In(CostOf(p), k)
  BY <1>3, <1>5
<1>12. /\ Total(r, k) \in Nat /\ Total(J(r), k) \in Nat /\ Total(own, k) \in Nat
       /\ In(CostOf(p), k) \in Nat
  <2>1. r \in SUBSET Entities /\ J(r) \in SUBSET Entities /\ own \in SUBSET Entities
        /\ p \in Entities
    BY <1>0, <1>3, <1>5
  <2> HIDE DEF J, own, r
  <2>2. QED
    BY <1>8, <2>1, TotalType, CostIn
<1> HIDE DEF r, own, J
<1>13. QED
  BY SMT, <1>3, <1>7, <1>9, <1>10, <1>11, <1>12

-----------------------------------------------------------------------------
(* Types.                                                                   *)

LEMMA GotoType ==
    ASSUME TypeOK, NEW r \in Requests, NEW l \in Labels, Goto(r, l)
    PROVE  pc' \in [Requests -> Labels]
BY DEF TypeOK, Goto

LEMMA CountType ==
    ASSUME TypeOK, Answered \/ Fault
    PROVE  faults' \in 0 .. MaxFaults
BY SMT, ClientAssumption DEF ClientAssumption, TypeOK, Answered, Fault

UsageType ==
    /\ DOMAIN usage = Tickets
    /\ \A t \in Tickets : usage[t] \in [DOMAIN usage[t] -> Int]
                          /\ DOMAIN usage[t] \subseteq Keys

LEMMA CostKeys ==
    ASSUME NEW x \in Entities
    PROVE  DOMAIN CostOf(x) \subseteq Keys
BY DEF CostOf, Keys, Entities, Tickets

\* What consumeQuota and returnUsage do to each key, for every ticket.
LEMMA ConsumeEffect ==
    ASSUME UsageType, NEW t \in Tickets, NEW x \in Entities, Consume(t, CostOf(x))
    PROVE  /\ UsageType'
           /\ \A k : In(usage'[t], k) = In(usage[t], k) + In(CostOf(x), k)
           /\ \A u \in Tickets \ {t} : usage'[u] = usage[u]
           /\ \A u \in Tickets : \A k : In(usage[u], k) \in Int
<1> DEFINE c == CostOf(x)
           m == [k \in DOMAIN usage[t] \cup DOMAIN c |-> In(usage[t], k) + In(c, k)]
<1>1. usage' = [usage EXCEPT ![t] = m]
  BY DEF Consume
<1>2. usage'[t] = m /\ (\A u \in Tickets \ {t} : usage'[u] = usage[u])
      /\ DOMAIN usage' = Tickets
  BY <1>1 DEF UsageType
<1>3. \A u \in Tickets : \A k : In(usage[u], k) \in Int
  BY SMT DEF UsageType, In
<1>4. \A k : In(c, k) \in Nat
  BY CostIn
<1>5. m \in [DOMAIN m -> Int] /\ DOMAIN m \subseteq Keys
  BY SMT, <1>3, <1>4, CostKeys DEF UsageType
<1>6. ASSUME NEW k PROVE In(m, k) = In(usage[t], k) + In(c, k)
  BY SMT DEF In
<1> HIDE DEF m, c
<1>7. UsageType'
  BY <1>2, <1>5 DEF UsageType
<1>8. QED
  BY <1>2, <1>3, <1>6, <1>7 DEF c

LEMMA ReturnEffect ==
    ASSUME UsageType, NEW t \in Tickets, NEW x \in Entities, Return(t, CostOf(x)),
           Returnable(t, CostOf(x))
    PROVE  /\ UsageType'
           /\ \A k : In(usage'[t], k) = In(usage[t], k) - In(CostOf(x), k)
           /\ \A u \in Tickets \ {t} : usage'[u] = usage[u]
           /\ \A u \in Tickets : \A k : In(usage[u], k) \in Int
<1> DEFINE c == CostOf(x)
           m == [k \in DOMAIN usage[t] |-> usage[t][k] - In(c, k)]
<1>1. usage' = [usage EXCEPT ![t] = m]
  BY DEF Return
<1>2. usage'[t] = m /\ (\A u \in Tickets \ {t} : usage'[u] = usage[u])
      /\ DOMAIN usage' = Tickets
  BY <1>1 DEF UsageType
<1>3. \A u \in Tickets : \A k : In(usage[u], k) \in Int
  BY SMT DEF UsageType, In
<1>4. \A k : In(c, k) \in Nat
  BY CostIn
<1>5. m \in [DOMAIN m -> Int] /\ DOMAIN m \subseteq Keys
  BY SMT, <1>4 DEF UsageType
<1>6. ASSUME NEW k PROVE In(m, k) = In(usage[t], k) - In(c, k)
  BY SMT DEF In, Returnable
<1> HIDE DEF m, c
<1>7. UsageType'
  BY <1>2, <1>5 DEF UsageType
<1>8. QED
  BY <1>2, <1>3, <1>6, <1>7 DEF c

LEMMA CreateType ==
    ASSUME TypeOK, NEW x \in Entities, CreateStep(x)
    PROVE  TypeOK'
<1>1. x \in Requests /\ TicketOf(x) \in Tickets /\ UsageType
  BY Costs DEF Requests, TypeOK, UsageType
<1>2. pc' \in [Requests -> Labels]
  <2>1. \E l \in Labels : Goto(x, l)
    BY DEF CreateStep, BeginProject, PostTicket, UndoTicket, BeginItem, ConsumeQuota,
       ConsumeQuotaFails, Abandon, PostDocument, Labels
  <2>2. QED
    BY <1>1, <2>1, GotoType
<1>3. Answered \/ Fault
  BY DEF CreateStep, BeginProject, PostTicket, UndoTicket, BeginItem, ConsumeQuota,
     ConsumeQuotaFails, PostDocument, CallFails, Answered
<1>4. UsageType'
  <2>1. UNCHANGED usage \/ Consume(TicketOf(x), CostOf(x))
    BY DEF CreateStep, BeginProject, PostTicket, UndoTicket, BeginItem, ConsumeQuota,
       ConsumeQuotaFails, PostDocument, storeVars
  <2>2. CASE UNCHANGED usage
    BY <1>1, <2>2 DEF UsageType
  <2>3. CASE Consume(TicketOf(x), CostOf(x))
    BY <1>1, <2>3, ConsumeEffect
  <2>4. QED
    BY <2>1, <2>2, <2>3
<1>5. tickets' \subseteq Tickets /\ docs' \subseteq Entities /\ UNCHANGED tombstones
  BY DEF TypeOK, Tickets, CreateStep, BeginProject, PostTicket, UndoTicket, BeginItem,
     ConsumeQuota, ConsumeQuotaFails, PostDocument, storeVars
<1>6. QED
  BY <1>2, <1>3, <1>4, <1>5, CountType DEF TypeOK, UsageType

\* A step of a deletion: what it changes beside the request's own place.
LEMMA DeleteEffect ==
    ASSUME NEW d \in Deletes, DeleteStep(d)
    PROVE  /\ Answered \/ CallFails(d)
           /\ \E l \in Labels : Goto(d, l)
           /\ docs' = docs \/ (pc[d] = "deleteDoc" /\ docs' = docs \ {TargetOf[d]})
           /\ tickets' = tickets
              \/ (pc[d] = "deleteTicket" /\ tickets' = tickets \ {TargetOf[d]})
           /\ \/ tombstones' = tombstones
              \/ pc[d] = "tombstone"
                 /\ tombstones' = [tombstones EXCEPT ![TargetOf[d]] = @ + 1]
           /\ pc[d] # "return" => usage' = usage
<1>1. CASE FindTarget(d) \/ ListVms(d) \/ ListDisks(d) \/ FindTicket(d)
           \/ RunDeleteStep(d) \/ RereadTarget(d) \/ FindProject(d)
  BY <1>1 DEF FindTarget, ListVms, ListDisks, FindTicket, RunDeleteStep,
     RereadTarget, FindProject, storeVars, Labels, Answered
<1>2. CASE ReturnQuota(d)
  BY <1>2 DEF ReturnQuota, Labels
<1>3. CASE CreateTombstone(d)
  BY <1>3 DEF CreateTombstone, Labels
<1>4. CASE DeleteDocument(d)
  BY <1>4 DEF DeleteDocument, AfterDelete, Labels
<1>5. CASE DeleteTicket(d)
  BY <1>5 DEF DeleteTicket, Labels
<1>6. QED
  BY <1>1, <1>2, <1>3, <1>4, <1>5 DEF DeleteStep

LEMMA DeleteType ==
    ASSUME TypeOK, NEW d \in Deletes, DeleteStep(d)
    PROVE  TypeOK'
<1> DEFINE x == TargetOf[d]
<1>1. d \in Requests /\ x \in Entities /\ TicketOf(x) \in Tickets /\ UsageType
  BY QuotaAssumption, Costs DEF QuotaAssumption, Requests, TypeOK, UsageType
<1>2. pc' \in [Requests -> Labels]
  BY <1>1, DeleteEffect, GotoType
<1>3. faults' \in 0 .. MaxFaults
  BY DeleteEffect, CountType DEF CallFails
<1>4. UsageType'
  <2>1. CASE UNCHANGED usage
    BY <1>1, <2>1 DEF UsageType
  <2>2. CASE Returnable(TicketOf(x), CostOf(x)) /\ Return(TicketOf(x), CostOf(x))
    BY <1>1, <2>2, ReturnEffect
  <2>3. pc[d] = "return" => ReturnQuota(d)
    BY DEF DeleteStep, FindTarget, ListVms, ListDisks, FindTicket, RunDeleteStep,
       RereadTarget, FindProject, CreateTombstone, DeleteDocument, DeleteTicket
  <2>4. QED
    BY <2>1, <2>2, <2>3, DeleteEffect DEF ReturnQuota
<1>5. docs' \subseteq Entities /\ tickets' \subseteq Tickets
  BY DeleteEffect DEF TypeOK
<1>6. tombstones' \in [Entities -> Nat]
  BY SMT, <1>1, DeleteEffect DEF TypeOK
<1>7. QED
  BY <1>2, <1>3, <1>4, <1>5, <1>6 DEF TypeOK, UsageType

LEMMA StepType == TypeOK /\ [Next]_vars => TypeOK'
<1>1. ASSUME TypeOK, UNCHANGED vars PROVE TypeOK'
  BY <1>1 DEF TypeOK, vars, storeVars
<1>2. QED
  BY <1>1, CreateType, DeleteType DEF Next, Terminated

LEMMA InitType == Init => TypeOK
<1>1. ASSUME Init PROVE UsageType
  <2>1. ASSUME NEW t \in Tickets
        PROVE  usage[t] \in [DOMAIN usage[t] -> Int] /\ DOMAIN usage[t] \subseteq Keys
    BY SMT, <1>1 DEF Init, Keys
  <2>2. QED
    BY <1>1, <2>1 DEF Init, UsageType
<1>2. ASSUME Init PROVE faults \in 0 .. MaxFaults /\ tombstones \in [Entities -> Nat]
  BY SMT, <1>2, ClientAssumption DEF ClientAssumption, Init
<1>3. ASSUME Init
      PROVE  pc \in [Requests -> Labels] /\ tickets \subseteq Tickets /\ docs \subseteq Entities
  BY <1>3 DEF Init, Labels, Tickets
<1>4. QED
  BY <1>1, <1>2, <1>3 DEF TypeOK, UsageType

\* Type correctness of the quota model, whatever fails: usage maps hold
\* integers for keys that are in use.
THEOREM QuotaTypeCorrect == Spec => []TypeOK
BY InitType, StepType, PTL DEF Spec

-----------------------------------------------------------------------------
(* How creations and deletions see each other.                              *)

\* No call of a deletion has failed, or can fail.
Calm == faults = 0 \/ Unreliable \cap Deletes = {}

\* The creation of x will not write any more.
Ended(x) == pc[x] \in {"created", "failed"}

\* Where a deletion of x relies on the document of x, and where it has
\* deleted it.
Present(x) ==
    IF x \in Disks
    THEN {"findProject", "return", "deleteDoc"}
    ELSE {"listVms", "listDisks", "findTicket", "findProject", "return",
          "tombstone", "deleteDoc"}

Gone(x) ==
    IF x \in Disks THEN {"tombstone", "deleted"} ELSE {"deleteTicket", "deleted"}

TicketFound == {"return", "tombstone", "deleteDoc", "deleteTicket"}

\* d has written the tombstone of its target.
Marked(d) ==
    pc[d] \in IF TargetOf[d] \in Disks THEN {"deleted"}
              ELSE {"deleteDoc", "deleteTicket", "deleted"}

DeleteOK(d) ==
    LET x == TargetOf[d] IN
    /\ pc[d] \notin {"none", "failed"} => Ended(x)
    /\ x \in Items => pc[d] \notin {"listVms", "listDisks", "findTicket", "deleteTicket"}
    /\ x \in Projects => pc[d] \notin {"submitted", "reread", "findProject"}
    /\ Calm => /\ pc[d] \in Present(x) => x \in docs
               /\ pc[d] \in Gone(x) => x \notin docs
               /\ x \in Projects /\ pc[d] \in TicketFound => x \in tickets

\* Of two deletions of a VM or disk one has the lock, and one gives back.
PairOK(d, e) ==
    d # e /\ TargetOf[d] = TargetOf[e] =>
        /\ TargetOf[d] \in Items => ~(InStep(d) /\ InStep(e))
        /\ Calm => ~(Returned(d) /\ Returned(e))

TombstoneOK(x) ==
    \/ tombstones[x] = 0
    \/ tombstones[x] = 1 /\ \E d \in Deletes : TargetOf[d] = x /\ Marked(d)

DocumentOK(x) == Ended(x) /\ (faults = 0 => pc[x] = "created")

RequestInv ==
    /\ \A x \in docs : DocumentOK(x)
    /\ \A d \in Deletes : DeleteOK(d)
    /\ \A d, e \in Deletes : PairOK(d, e)
    /\ Calm => \A x \in Entities : TombstoneOK(x)

\* A project is not deleted by two requests: their returns would be applied
\* both, nothing keeps the second from returning what the first has.
SingleProjectDeletes ==
    \A d, e \in Deletes :
        TargetOf[d] = TargetOf[e] /\ TargetOf[d] \in Projects => d = e

LEMMA CreateEffect ==
    ASSUME TypeOK, NEW x \in Entities, CreateStep(x)
    PROVE  /\ Answered \/ CallFails(x)
           /\ ~Ended(x)
           /\ \A r \in Requests \ {x} : pc'[r] = pc[r]
           /\ UNCHANGED tombstones
           /\ tickets \ {x} \subseteq tickets'
           /\ \/ docs' = docs
              \/ /\ docs' = docs \cup {x} /\ pc[x] = "post" /\ Ended(x)'
                 /\ Answered => pc'[x] = "created"
<1>1. Answered \/ CallFails(x)
  BY DEF CreateStep, BeginProject, PostTicket, UndoTicket, BeginItem, ConsumeQuota,
     ConsumeQuotaFails, PostDocument, CallFails, Answered
<1>2. ~Ended(x)
  BY DEF Ended, CreateStep, BeginProject, PostTicket, UndoTicket, BeginItem,
     ConsumeQuota, ConsumeQuotaFails, PostDocument
<1>3. \A r \in Requests \ {x} : pc'[r] = pc[r]
  BY DEF TypeOK, Goto, Abandon, CreateStep, BeginProject, PostTicket, UndoTicket,
     BeginItem, ConsumeQuota, ConsumeQuotaFails, PostDocument
<1>4. UNCHANGED tombstones /\ tickets \ {x} \subseteq tickets'
  BY DEF CreateStep, BeginProject, PostTicket, UndoTicket, BeginItem, ConsumeQuota,
     ConsumeQuotaFails, PostDocument, storeVars
<1>5. CASE PostDocument(x)
  <2>1. x \in Requests /\ faults \in Nat
    BY SMT DEF Requests, TypeOK
  <2>2. CallFails(x) => ~Answered
    BY SMT, <2>1 DEF CallFails, Fault, Answered
  <2>3. QED
    BY <1>1, <1>2, <1>3, <1>4, <1>5, <2>1, <2>2 DEF PostDocument, Goto, Ended, TypeOK
<1>6. CASE ~PostDocument(x)
  <2>1. docs' = docs
    BY <1>6 DEF CreateStep, BeginProject, PostTicket, UndoTicket, BeginItem,
       ConsumeQuota, ConsumeQuotaFails, storeVars
  <2>2. QED
    BY <1>1, <1>2, <1>3, <1>4, <2>1
<1>7. QED
  BY <1>5, <1>6

LEMMA CalmBefore ==
    ASSUME TypeOK, NEW r \in Requests, Answered \/ CallFails(r)
    PROVE  /\ faults' = 0 => faults = 0 /\ Answered
           /\ Calm' => Calm
           /\ Calm' /\ r \in Deletes => ~CallFails(r)
<1>1. faults \in Nat
  BY SMT DEF TypeOK
<1>2. QED
  BY SMT, <1>1 DEF Calm, CallFails, Fault, Answered

LEMMA CreateKeepsRequests ==
    ASSUME TypeOK, RequestInv, NEW x \in Entities, CreateStep(x)
    PROVE  RequestInv'
<1>1. /\ ~Ended(x)
      /\ \A r \in Requests \ {x} : pc'[r] = pc[r]
      /\ UNCHANGED tombstones
      /\ tickets \ {x} \subseteq tickets'
      /\ \/ docs' = docs
         \/ /\ docs' = docs \cup {x} /\ Ended(x)'
            /\ Answered => pc'[x] = "created"
  BY CreateEffect
<1>2. /\ faults' = 0 => faults = 0 /\ Answered
      /\ Calm' => Calm
  BY CreateEffect, CalmBefore DEF Requests
<1>3. \A d \in Deletes : TargetOf[d] \in Entities /\ pc'[d] = pc[d]
  BY <1>1, QuotaAssumption DEF QuotaAssumption, Requests
<1>4. \A y \in Entities : Ended(y) => Ended(y)' /\ y # x /\ pc'[y] = pc[y]
  BY <1>1 DEF Ended, Requests
<1>5. \A y \in docs' : DocumentOK(y)'
  <2>1. ASSUME NEW y \in docs PROVE DocumentOK(y)'
    BY <1>2, <1>4, <2>1 DEF RequestInv, DocumentOK, TypeOK
  <2>2. ASSUME docs' = docs \cup {x}, docs' # docs PROVE DocumentOK(x)'
    BY <1>1, <1>2, <2>2 DEF DocumentOK
  <2>3. QED
    BY <1>1, <2>1, <2>2
<1>6. ASSUME NEW d \in Deletes PROVE DeleteOK(d)'
  <2> DEFINE y == TargetOf[d]
  <2>1. y \in Entities /\ pc'[d] = pc[d] /\ DeleteOK(d)
    BY <1>3 DEF RequestInv
  <2>2. CASE pc[d] \in {"none", "failed"}
    BY <2>1, <2>2 DEF DeleteOK, Present, Gone, TicketFound
  <2>3. CASE pc[d] \notin {"none", "failed"}
    <3>1. Ended(y) /\ Ended(y)' /\ y # x
      BY <1>4, <2>1, <2>3 DEF DeleteOK
    <3>2. (y \in docs <=> y \in docs') /\ (y \in tickets => y \in tickets')
      BY <1>1, <3>1
    <3>3. QED
      BY <1>2, <2>1, <3>1, <3>2 DEF DeleteOK, Present, Gone
  <2>4. QED
    BY <2>2, <2>3
<1>7. \A d, e \in Deletes : PairOK(d, e)'
  BY <1>2, <1>3 DEF RequestInv, PairOK, InStep, Returned
<1>8. Calm' => \A y \in Entities : TombstoneOK(y)'
  BY SMT, <1>1, <1>2, <1>3 DEF RequestInv, TombstoneOK, Marked
<1>9. QED
  BY <1>5, <1>6, <1>7, <1>8 DEF RequestInv

\* The step of one deletion, as the others see it.
LEMMA DeleteOthers ==
    ASSUME TypeOK, RequestInv, SingleProjectDeletes, NEW d \in Deletes, DeleteStep(d),
           NEW e \in Deletes, e # d
    PROVE  DeleteOK(e)'
<1> DEFINE y == TargetOf[e]
<1>1. /\ y \in Entities /\ e \in Requests /\ d \in Requests /\ d \notin Entities
      /\ y \in Projects \/ y \in Items
  BY QuotaAssumption DEF QuotaAssumption, Requests, Entities
<1>2. DeleteOK(e) /\ PairOK(d, e) /\ DeleteOK(d)
  BY DEF RequestInv
<1>3. \A r \in Requests \ {d} : pc'[r] = pc[r]
  BY DeleteEffect DEF Goto, TypeOK
<1>4. pc'[e] = pc[e] /\ pc'[y] = pc[y]
  BY <1>1, <1>3 DEF Requests
<1>5. Calm' => Calm
  BY <1>1, DeleteEffect, CalmBefore
<1>6. y \in docs' => y \in docs
  BY DeleteEffect
<1>7. ASSUME Calm, pc[e] \in Present(y), y \in docs PROVE y \in docs'
  <2>1. CASE y = TargetOf[d] /\ pc[d] = "deleteDoc"
    <3>1. y \notin Projects
      BY <2>1 DEF SingleProjectDeletes
    <3>2. InStep(d) /\ InStep(e)
      BY <1>1, <1>2, <1>7, <2>1, <3>1 DEF InStep, Present, DeleteOK
    <3>3. QED
      BY <1>1, <1>2, <2>1, <3>1, <3>2 DEF PairOK
  <2>2. QED
    BY <1>7, <2>1, DeleteEffect
<1>8. ASSUME y \in Projects, y \in tickets PROVE y \in tickets'
  BY <1>8, DeleteEffect DEF SingleProjectDeletes
<1>9. QED
  BY <1>2, <1>4, <1>5, <1>6, <1>7, <1>8 DEF DeleteOK, Ended, Present, Gone

LEMMA DeleteOwn ==
    ASSUME TypeOK, RequestInv, SingleProjectDeletes, NEW d \in Deletes, DeleteStep(d)
    PROVE  DeleteOK(d)' /\ (Calm' /\ Marked(d) => Marked(d)')
<1> DEFINE x == TargetOf[d]
<1>1. /\ x \in Entities /\ d \in Requests /\ d \notin Entities /\ x \in Requests
      /\ x \in Projects \/ x \in Vms \/ x \in Disks
      /\ ~(x \in Projects /\ x \in Items) /\ ~(x \in Vms /\ x \in Disks)
      /\ x \in Disks \/ x \in Vms => x \in Items
  BY QuotaAssumption DEF QuotaAssumption, Requests, Entities, Items
<1>2. DeleteOK(d) /\ (\A y \in docs : Ended(y))
  BY DEF RequestInv, DocumentOK
<1>3. pc'[x] = pc[x] /\ (\A l : Goto(d, l) => pc'[d] = l)
  BY <1>1, DeleteEffect DEF Goto, TypeOK
<1>4. Calm' => Calm /\ ~CallFails(d)
  BY <1>1, DeleteEffect, CalmBefore
<1> HIDE DEF x
<1>5. CASE FindTarget(d) \/ ListVms(d) \/ ListDisks(d) \/ FindTicket(d)
           \/ RunDeleteStep(d) \/ RereadTarget(d) \/ FindProject(d)
  <2>1. UNCHANGED <<docs, tickets>>
    BY <1>5 DEF FindTarget, ListVms, ListDisks, FindTicket, RunDeleteStep,
       RereadTarget, FindProject, storeVars
  <2>2. pc'[d] \in {"failed", "listVms", "submitted", "listDisks", "findTicket", "return",
                    "reread", "findProject"}
    BY <1>3, <1>5 DEF FindTarget, ListVms, ListDisks, FindTicket, RunDeleteStep,
       RereadTarget, FindProject
  <2>3. Ended(x) \/ pc'[d] = "failed"
    BY <1>2, <1>3, <1>5 DEF FindTarget, ListVms, ListDisks, FindTicket,
       RunDeleteStep, RereadTarget, FindProject, DeleteOK, x
  <2>4. (x \in Items => pc'[d] \notin {"listVms", "listDisks", "findTicket"})
        /\ (x \in Projects => pc'[d] \notin {"submitted", "reread", "findProject"})
    BY <1>1, <1>2, <1>3, <1>5 DEF FindTarget, ListVms, ListDisks, FindTicket,
       RunDeleteStep, RereadTarget, FindProject, DeleteOK, x
  <2>5. Calm /\ pc'[d] \in Present(x) => x \in docs
    BY <1>1, <1>2, <1>3, <1>5 DEF FindTarget, ListVms, ListDisks, FindTicket,
       RunDeleteStep, RereadTarget, FindProject, DeleteOK, Present, x
  <2>6. x \in Projects /\ pc'[d] = "return" => x \in tickets
    BY <1>1, <1>2, <1>3, <1>5 DEF FindTarget, ListVms, ListDisks, FindTicket,
       RunDeleteStep, RereadTarget, FindProject, DeleteOK, x
  <2>7. ~Marked(d)
    BY <1>5 DEF FindTarget, ListVms, ListDisks, FindTicket, RunDeleteStep,
       RereadTarget, FindProject, Marked
  <2>8. QED
    BY <1>3, <1>4, <2>1, <2>2, <2>3, <2>4, <2>5, <2>6, <2>7
    DEF DeleteOK, Present, Gone, TicketFound, Ended, x
<1>6. CASE ReturnQuota(d)
  <2>1. UNCHANGED <<docs, tickets>> /\ pc[d] = "return"
        /\ pc'[d] \in {"failed", IF x \in Disks THEN "deleteDoc" ELSE "tombstone"}
    BY <1>3, <1>6 DEF ReturnQuota, x
  <2>2. QED
    BY <1>1, <1>2, <1>3, <1>4, <2>1
    DEF DeleteOK, Present, Gone, TicketFound, Marked, Ended, x
<1>7. CASE CreateTombstone(d)
  <2>1. UNCHANGED <<docs, tickets>> /\ pc[d] = "tombstone"
        /\ pc'[d] \in {"failed", IF x \in Disks THEN "deleted" ELSE "deleteDoc"}
    BY <1>3, <1>7 DEF CreateTombstone, x
  <2>2. QED
    BY <1>1, <1>2, <1>3, <1>4, <2>1
    DEF DeleteOK, Present, Gone, TicketFound, Marked, Ended, x
<1>8. CASE DeleteDocument(d)
  <2>1. UNCHANGED tickets /\ pc[d] = "deleteDoc" /\ pc'[d] \in {"failed", AfterDelete(x)}
    BY <1>3, <1>8 DEF DeleteDocument, x
  <2>2. Calm' => pc'[d] = AfterDelete(x) /\ docs' = docs \ {x}
    BY <1>1, <1>2, <1>3, <1>4, <1>8 DEF DeleteDocument, DeleteOK, Present, x
  <2>3. QED
    BY <1>1, <1>2, <1>3, <1>4, <2>1, <2>2
    DEF DeleteOK, Present, Gone, TicketFound, Marked, Ended, AfterDelete, x
<1>9. CASE DeleteTicket(d)
  <2>1. UNCHANGED docs /\ pc[d] = "deleteTicket" /\ pc'[d] \in {"failed", "deleted"}
    BY <1>3, <1>9 DEF DeleteTicket
  <2>2. Calm' => pc'[d] = "deleted"
    BY <1>1, <1>2, <1>3, <1>4, <1>9 DEF DeleteTicket, DeleteOK, TicketFound, x
  <2>3. QED
    BY <1>1, <1>2, <1>3, <1>4, <2>1, <2>2
    DEF DeleteOK, Present, Gone, TicketFound, Marked, Ended, x
<1>10. QED
  BY <1>5, <1>6, <1>7, <1>8, <1>9 DEF DeleteStep

\* How a deletion comes to hold the lock, to give back, and to end.
LEMMA DeleteMoves ==
    ASSUME TypeOK, NEW d \in Deletes, DeleteStep(d)
    PROVE  /\ InStep(d)' => \/ InStep(d) \/ TargetOf[d] \in Projects
                            \/ pc[d] \in {"listVms", "listDisks", "findTicket"}
                            \/ RunDeleteStep(d) /\ pc'[d] = "reread"
           /\ Returned(d)' => Returned(d) \/ pc[d] = "return"
<1>1. \A l : Goto(d, l) => pc'[d] = l
  BY DeleteEffect DEF Goto, TypeOK, Requests
<1>2. QED
  BY <1>1 DEF DeleteStep, FindTarget, ListVms, ListDisks, FindTicket, RunDeleteStep,
     RereadTarget, FindProject, ReturnQuota, CreateTombstone, DeleteDocument,
     AfterDelete, DeleteTicket, InStep, Returned

LEMMA DeletePairs ==
    ASSUME TypeOK, RequestInv, SingleProjectDeletes, NEW d \in Deletes, DeleteStep(d),
           NEW e \in Deletes, e # d, TargetOf[d] = TargetOf[e]
    PROVE  /\ TargetOf[d] \in Items => ~(InStep(d)' /\ InStep(e)')
           /\ Calm' => ~(Returned(d)' /\ Returned(e)')
<1> DEFINE x == TargetOf[d]
<1>1. x \in Items /\ x \notin Projects /\ d \in Requests /\ e \in Requests
  BY QuotaAssumption DEF QuotaAssumption, SingleProjectDeletes, Entities, Requests
<1>2. DeleteOK(d) /\ DeleteOK(e) /\ PairOK(d, e)
  BY DEF RequestInv
<1>3. pc'[e] = pc[e]
  BY <1>1, DeleteEffect DEF Goto, TypeOK
<1>4. ~(InStep(d)' /\ InStep(e)')
  <2>1. InStep(d)' => InStep(d) \/ RunDeleteStep(d)
    BY <1>1, <1>2, DeleteMoves DEF DeleteOK
  <2>2. RunDeleteStep(d) /\ InStep(d)' => ~InStep(e)
    <3>1. RunDeleteStep(d) /\ InStep(d)' => pc'[d] # "failed"
      BY DEF InStep
    <3>2. Goto(d, "failed") => pc'[d] = "failed"
      BY <1>1 DEF Goto, TypeOK
    <3>3. QED
      BY <3>1, <3>2 DEF RunDeleteStep
  <2>3. QED
    BY <1>1, <1>2, <1>3, <2>1, <2>2 DEF PairOK, InStep
<1>5. ASSUME Calm' PROVE ~(Returned(d)' /\ Returned(e)')
  <2>1. Calm
    BY <1>1, <1>5, DeleteEffect, CalmBefore
  <2>2. Returned(d)' => Returned(d) \/ pc[d] = "return"
    BY DeleteMoves
  <2>3. ASSUME pc[d] = "return" PROVE ~Returned(e)
    <3>1. x \in docs /\ ~InStep(e)
      BY <1>1, <1>2, <2>1, <2>3 DEF DeleteOK, Present, PairOK, InStep
    <3>2. pc[e] # "deleted" /\ pc[e] # "deleteTicket"
      BY <1>1, <1>2, <2>1, <3>1 DEF DeleteOK, Gone
    <3>3. QED
      BY <3>1, <3>2 DEF Returned, InStep
  <2>4. QED
    BY <1>2, <1>3, <2>1, <2>2, <2>3 DEF PairOK, Returned
<1>6. QED
  BY <1>4, <1>5

LEMMA DeleteTombstones ==
    ASSUME TypeOK, RequestInv, SingleProjectDeletes, NEW d \in Deletes, DeleteStep(d),
           Calm', NEW x \in Entities
    PROVE  TombstoneOK(x)'
<1>1. d \in Requests /\ Calm /\ ~CallFails(d)
  BY DeleteEffect, CalmBefore DEF Requests
<1>2. TombstoneOK(x)
  BY <1>1 DEF RequestInv
<1>3. ASSUME NEW e \in Deletes, Marked(e) PROVE Marked(e)'
  <2>1. CASE e = d
    BY <1>3, <2>1, DeleteOwn
  <2>2. CASE e # d
    BY <1>3, <2>2, DeleteEffect DEF Goto, TypeOK, Marked, Requests
  <2>3. QED
    BY <2>1, <2>2
<1>4. CASE tombstones'[x] = tombstones[x]
  BY <1>2, <1>3, <1>4 DEF TombstoneOK
<1>5. CASE tombstones'[x] # tombstones[x]
  <2>1. /\ pc[d] = "tombstone" /\ x = TargetOf[d]
        /\ tombstones'[x] = tombstones[x] + 1
    BY <1>5, DeleteEffect DEF TypeOK
  <2>2. tombstones[x] = 0
    <3>1. ASSUME NEW e \in Deletes, TargetOf[e] = x, Marked(e) PROVE FALSE
      <4>1. Returned(e) /\ Returned(d) /\ e # d
        BY <2>1, <3>1 DEF Marked, Returned
      <4>2. QED
        BY <1>1, <2>1, <3>1, <4>1 DEF RequestInv, PairOK
    <3>2. QED
      BY <1>2, <3>1 DEF TombstoneOK
  <2>3. Marked(d)'
    <3>1. CreateTombstone(d)
      BY <2>1 DEF DeleteStep, FindTarget, ListVms, ListDisks, FindTicket,
         RunDeleteStep, RereadTarget, FindProject, ReturnQuota, DeleteDocument,
         DeleteTicket
    <3>2. QED
      BY <1>1, <2>1, <3>1 DEF CreateTombstone, Goto, TypeOK, Marked
  <2>4. QED
    BY SMT, <2>1, <2>2, <2>3 DEF TombstoneOK
<1>6. QED
  BY <1>4, <1>5

LEMMA RequestInductive ==
    ASSUME SingleProjectDeletes, TypeOK, RequestInv, [Next]_vars
    PROVE  RequestInv'
<1>1. ASSUME NEW d \in Deletes, DeleteStep(d) PROVE RequestInv'
  <2>1. d \in Requests
    BY DEF Requests
  <2>2. /\ \A r \in Requests \ {d} : pc'[r] = pc[r]
        /\ docs' \subseteq docs
        /\ faults' = 0 => faults = 0
    BY <1>1, <2>1, DeleteEffect, CalmBefore DEF Goto, TypeOK
  <2>3. \A x \in docs' : DocumentOK(x)'
    BY SMT, <2>2, QuotaAssumption
    DEF QuotaAssumption, RequestInv, DocumentOK, Ended, TypeOK, Requests
  <2>4. \A e \in Deletes : DeleteOK(e)'
    BY <1>1, DeleteOwn, DeleteOthers
  <2>5. ASSUME NEW e \in Deletes, NEW f \in Deletes PROVE PairOK(e, f)'
    <3>1. CASE e = d
      BY <1>1, <3>1, DeletePairs DEF PairOK
    <3>2. CASE f = d
      BY <1>1, <3>2, DeletePairs DEF PairOK
    <3>3. CASE e # d /\ f # d
      <4>1. pc'[e] = pc[e] /\ pc'[f] = pc[f] /\ PairOK(e, f)
        BY <2>2, <3>3 DEF Requests, RequestInv
      <4>2. Calm' => Calm
        BY <1>1, <2>1, DeleteEffect, CalmBefore
      <4>3. QED
        BY <4>1, <4>2 DEF PairOK, InStep, Returned
    <3>4. QED
      BY <3>1, <3>2, <3>3
  <2>6. Calm' => \A x \in Entities : TombstoneOK(x)'
    BY <1>1, DeleteTombstones
  <2>7. QED
    BY <2>3, <2>4, <2>5, <2>6 DEF RequestInv
<1>2. ASSUME UNCHANGED vars PROVE RequestInv'
  <2>1. UNCHANGED <<faults, pc, tickets, docs, tombstones>>
    BY <1>2 DEF vars, storeVars
  <2>2. /\ \A x \in docs' : DocumentOK(x)'
        /\ \A d \in Deletes : DeleteOK(d)'
        /\ \A d, e \in Deletes : PairOK(d, e)'
    BY <2>1 DEF RequestInv, DocumentOK, DeleteOK, PairOK, Ended, Calm, Present, Gone,
       InStep, Returned
  <2>3. Calm' => \A x \in Entities : TombstoneOK(x)'
    BY <2>1 DEF RequestInv, TombstoneOK, Marked, Calm
  <2>4. QED
    BY <2>2, <2>3 DEF RequestInv
<1>3. QED
  BY <1>1, <1>2, CreateKeepsRequests DEF Next, Terminated

LEMMA RequestInit == Init => RequestInv
BY SMT, QuotaAssumption
DEF QuotaAssumption, Init, RequestInv, DeleteOK, PairOK, TombstoneOK, Present, Gone,
    TicketFound, InStep, Returned, Requests

\* Until a call fails, an entity gets one tombstone however often it is
\* deleted: the lock of VmDcpBackend's and DiskDcpBackend's delete step and the
\* read under it keep the second deletion from getting that far.
THEOREM TombstonesAreSingle ==
    ASSUME SingleProjectDeletes PROVE Spec => []OneTombstone
<1>1. TypeOK /\ RequestInv /\ [Next]_vars => (TypeOK /\ RequestInv)'
  BY StepType, RequestInductive
<1>2. TypeOK /\ RequestInv => OneTombstone
  BY SMT DEF RequestInv, OneTombstone, TombstoneOK, Calm
<1>3. QED
  BY <1>1, <1>2, InitType, RequestInit, PTL DEF Spec

-----------------------------------------------------------------------------
(* What a ticket's usage is the sum of.                                     *)

\* The requests somebody has made; a finite number, in any state.
Begun == {r \in Requests : pc[r] # "none"}

\* What is charged to t and not yet given back: its document is there, or
\* its creation has the charge and will post it.
Paid(t) ==
    {x \in Uses(t) : (pc[x] \in {"post", "created"} \/ x \in docs) /\ ~GivenBack(x)}

\* Every failure errs on the side of the ticket: no deletion fails half-way,
\* and no error of a charge is swallowed.
Careful == Unreliable \cap Deletes = {} /\ ~ServerErrors

SumOK(t, k) ==
    /\ faults = 0 => In(usage[t], k) = Total(Paid(t), k)
    /\ Careful => Total(Paid(t), k) <= In(usage[t], k)

SumInv ==
    /\ IsFiniteSet(Begun)
    /\ \A t \in Tickets : \A k \in Keys : SumOK(t, k)

LEMMA BegunStep ==
    ASSUME TypeOK, IsFiniteSet(Begun), [Next]_vars
    PROVE  IsFiniteSet(Begun')
<1>1. \E r : Begun' \subseteq Begun \cup {r}
  <2>1. ASSUME NEW x \in Entities, CreateStep(x) PROVE Begun' \subseteq Begun \cup {x}
    BY <2>1, CreateEffect DEF Begun
  <2>2. ASSUME NEW d \in Deletes, DeleteStep(d) PROVE Begun' \subseteq Begun \cup {d}
    BY <2>2, DeleteEffect DEF Begun, Goto, TypeOK
  <2>3. ASSUME UNCHANGED vars PROVE Begun' = Begun
    BY <2>3 DEF Begun, vars
  <2>4. QED
    BY <2>1, <2>2, <2>3 DEF Next, Terminated
<1>2. PICK r : Begun' \subseteq Begun \cup {r}
  BY <1>1
<1>3. IsFiniteSet(Begun \cup {r})
  BY FS_AddElement
<1>4. QED
  BY <1>2, <1>3, FS_Subset

LEMMA PaidFinite ==
    ASSUME RequestInv, IsFiniteSet(Begun), NEW t \in Tickets
    PROVE  IsFiniteSet(Paid(t)) /\ Paid(t) \in SUBSET Entities
<1>1. Paid(t) \subseteq Begun
  BY DEF Paid, Begun, Uses, Requests, RequestInv, DocumentOK, Ended
<1>2. QED
  BY <1>1, FS_Subset DEF Paid, Uses

\* What a step of a creation does to the sum of a ticket: nothing, or it adds
\* the charge, or a call fails and the ticket keeps too much.
LEMMA CreateSum ==
    ASSUME TypeOK, RequestInv, NEW x \in Entities, CreateStep(x), NEW t \in Tickets
    PROVE  \/ Paid(t)' = Paid(t) /\ usage'[t] = usage[t]
           \/ /\ x \notin Paid(t) /\ Paid(t)' = Paid(t) \cup {x}
              /\ \A k : In(usage'[t], k) = In(usage[t], k) + In(CostOf(x), k)
           \/ /\ CallFails(x)
              /\ \/ ServerErrors
                 \/ Paid(t)' \subseteq Paid(t)
                    /\ \A k : In(usage[t], k) <= In(usage'[t], k)
<1>1. /\ ~Ended(x) /\ x \in Requests /\ TicketOf(x) \in Tickets /\ UsageType
      /\ \A r \in Requests \ {x} : pc'[r] = pc[r]
  BY CreateEffect, Costs DEF Requests, TypeOK, UsageType
<1>2. /\ \A y : GivenBack(y)' <=> GivenBack(y)
      /\ ~GivenBack(x)
      /\ x \notin docs
  <2>1. \A d \in Deletes : pc'[d] = pc[d]
    BY <1>1, QuotaAssumption DEF QuotaAssumption, Requests
  <2>2. ASSUME NEW d \in Deletes, TargetOf[d] = x PROVE ~Returned(d)
    BY <1>1, <2>2 DEF RequestInv, DeleteOK, Returned
  <2>3. QED
    BY <1>1, <2>1, <2>2 DEF GivenBack, Returned, RequestInv, DocumentOK
<1>3. ASSUME NEW y, y # x PROVE y \in Paid(t)' <=> y \in Paid(t)
  <2>1. y \in Entities => pc'[y] = pc[y]
    BY <1>1, <1>3 DEF Requests
  <2>2. y \in docs' <=> y \in docs
    BY <1>3, CreateEffect
  <2>3. QED
    BY <1>2, <2>1, <2>2 DEF Paid, Uses
<1>4. /\ x \in Paid(t) <=> TicketOf(x) = t /\ pc[x] = "post"
      /\ x \in Paid(t)' <=> TicketOf(x) = t /\ (pc'[x] \in {"post", "created"} \/ x \in docs')
  BY <1>1, <1>2 DEF Paid, Uses, Ended
<1>5. \A l : Goto(x, l) => pc'[x] = l
  BY <1>1 DEF Goto, TypeOK
<1>6. \A k : In(usage[t], k) \in Int /\ In(CostOf(x), k) \in Nat
  BY SMT, <1>1, CostIn DEF UsageType, In
<1>7. CASE BeginProject(x) \/ PostTicket(x) \/ UndoTicket(x) \/ BeginItem(x)
  <2>1. UNCHANGED <<usage, docs>> /\ pc[x] # "post" /\ pc'[x] \notin {"post", "created"}
    BY <1>5, <1>7 DEF BeginProject, PostTicket, UndoTicket, BeginItem, storeVars
  <2>2. QED
    BY SMT, <1>2, <1>3, <1>4, <2>1
<1>8. CASE ConsumeQuota(x)
  <2>1. UNCHANGED docs /\ pc[x] = "consume"
    BY <1>8 DEF ConsumeQuota
  <2>2. CASE UNCHANGED usage /\ Abandon(x)
    BY SMT, <1>2, <1>3, <1>4, <1>5, <2>1, <2>2 DEF Abandon
  <2>3. CASE Consume(TicketOf(x), CostOf(x)) /\ Goto(x, "post")
    BY SMT, <1>1, <1>3, <1>4, <1>5, <2>1, <2>3, ConsumeEffect
  <2>4. QED
    BY <1>8, <2>2, <2>3 DEF ConsumeQuota
<1>9. CASE ConsumeQuotaFails(x)
  <2>1. UNCHANGED docs /\ pc[x] = "consume" /\ CallFails(x)
        /\ (ServerErrors \/ pc'[x] \in {"undo", "failed"})
    BY <1>5, <1>9 DEF ConsumeQuotaFails, Abandon
  <2>2. \A k : In(usage[t], k) <= In(usage'[t], k)
    <3>1. CASE UNCHANGED usage
      BY SMT, <1>6, <3>1
    <3>2. CASE Consume(TicketOf(x), CostOf(x))
      BY SMT, <1>1, <1>6, <3>2, ConsumeEffect
    <3>3. QED
      BY <1>9, <3>1, <3>2 DEF ConsumeQuotaFails
  <2>3. QED
    BY <1>2, <1>3, <1>4, <2>1, <2>2
<1>10. CASE PostDocument(x)
  <2>1. UNCHANGED usage /\ pc[x] = "post"
        /\ (CallFails(x) \/ pc'[x] = "created")
    BY <1>5, <1>10 DEF PostDocument
  <2>2. QED
    BY SMT, <1>3, <1>4, <1>6, <2>1
<1>11. QED
  BY <1>7, <1>8, <1>9, <1>10 DEF CreateStep

\* What a step of a deletion does to it: nothing, or it takes the charge off.
LEMMA DeleteSum ==
    ASSUME TypeOK, RequestInv, SingleProjectDeletes, NEW d \in Deletes, DeleteStep(d),
           Calm', NEW t \in Tickets
    PROVE  \/ Paid(t)' = Paid(t) /\ usage'[t] = usage[t]
           \/ /\ TargetOf[d] \in Paid(t) /\ Paid(t)' = Paid(t) \ {TargetOf[d]}
              /\ \A k : In(usage'[t], k) = In(usage[t], k) - In(CostOf(TargetOf[d]), k)
<1> DEFINE x == TargetOf[d]
<1>1. /\ x \in Entities /\ d \in Requests /\ d \notin Entities
      /\ TicketOf(x) \in Tickets /\ UsageType
  BY Costs, QuotaAssumption DEF QuotaAssumption, Requests, TypeOK, UsageType
<1>2. Calm /\ ~CallFails(d) /\ Answered
  BY <1>1, DeleteEffect, CalmBefore
<1>3. \A r \in Requests \ {d} : pc'[r] = pc[r]
  BY <1>1, DeleteEffect DEF Goto, TypeOK
<1>4. \A l : Goto(d, l) => pc'[d] = l
  BY <1>1 DEF Goto, TypeOK
<1>5. /\ \A y \in Entities : pc'[y] = pc[y]
      /\ \A e \in Deletes \ {d} : Returned(e)' <=> Returned(e)
  BY <1>1, <1>3 DEF Requests, Returned
<1>6. \A y \in Entities \ {x} : GivenBack(y)' <=> GivenBack(y)
  BY <1>5 DEF GivenBack
<1>7. \A y \in Entities \ {x} : y \in Paid(t)' <=> y \in Paid(t)
  <2>1. \A y \in Entities \ {x} : y \in docs' <=> y \in docs
    BY DeleteEffect
  <2>2. QED
    BY <1>5, <1>6, <2>1 DEF Paid, Uses
<1>8. Paid(t) \subseteq Entities /\ Paid(t)' \subseteq Entities
  BY DEF Paid, Uses
<1>9. CASE pc[d] = "return"
  <2>1. ReturnQuota(d) /\ UNCHANGED docs
    BY <1>9 DEF DeleteStep, FindTarget, ListVms, ListDisks, FindTicket, RunDeleteStep,
       RereadTarget, FindProject, ReturnQuota, CreateTombstone, DeleteDocument,
       DeleteTicket
  <2>2. CASE UNCHANGED usage /\ Goto(d, "failed")
    <3>1. ~Returned(d) /\ ~Returned(d)'
      BY <1>4, <1>9, <2>2 DEF Returned
    <3>2. GivenBack(x)' <=> GivenBack(x)
      BY <1>5, <3>1 DEF GivenBack
    <3>3. x \in Paid(t)' <=> x \in Paid(t)
      BY <1>1, <1>5, <2>1, <3>2 DEF Paid, Uses
    <3>4. QED
      BY SMT, <1>7, <1>8, <2>2, <3>3
  <2>3. CASE /\ Returnable(TicketOf(x), CostOf(x)) /\ Return(TicketOf(x), CostOf(x))
             /\ Goto(d, IF x \in Disks THEN "deleteDoc" ELSE "tombstone")
    <3>1. Returned(d)' /\ ~Returned(d)
      BY <1>4, <1>9, <2>3 DEF Returned
    <3>2. GivenBack(x)' /\ ~GivenBack(x)
      <4>1. ASSUME NEW e \in Deletes, TargetOf[e] = x, Returned(e) PROVE FALSE
        <5>1. e # d /\ Returned(e)'
          BY <1>5, <3>1, <4>1
        <5>2. QED
          BY <3>1, <4>1, <5>1, DeletePairs
      <4>2. QED
        BY <3>1, <4>1 DEF GivenBack
    <3>3. x \in docs
      BY <1>2, <1>9 DEF RequestInv, DeleteOK, Present
    <3>4. x \notin Paid(t)' /\ (x \in Paid(t) <=> TicketOf(x) = t)
      BY <1>1, <3>2, <3>3 DEF Paid, Uses
    <3>5. CASE TicketOf(x) = t
      BY <1>1, <1>7, <1>8, <2>3, <3>4, <3>5, ReturnEffect
    <3>6. CASE TicketOf(x) # t
      <4>1. usage'[t] = usage[t]
        BY <1>1, <2>3, <3>6, ReturnEffect
      <4>2. QED
        BY SMT, <1>7, <1>8, <3>4, <3>6, <4>1
    <3>7. QED
      BY <3>5, <3>6
  <2>4. QED
    BY <1>2, <2>1, <2>2, <2>3 DEF ReturnQuota
<1>10. CASE pc[d] # "return"
  <2>1. usage' = usage
    BY <1>10, DeleteEffect
  <2>2. Returned(d)' <=> Returned(d)
    <3>1. CASE CreateTombstone(d)
      BY <1>2, <1>4, <3>1 DEF CreateTombstone, Returned
    <3>2. CASE DeleteDocument(d)
      <4>1. x \in docs
        BY <1>2, <3>2 DEF DeleteDocument, RequestInv, DeleteOK, Present
      <4>2. QED
        BY <1>2, <1>4, <3>2, <4>1 DEF DeleteDocument, AfterDelete, Returned
    <3>3. CASE DeleteTicket(d)
      <4>1. x \in tickets
        BY <1>1, <1>2, <3>3
        DEF DeleteTicket, RequestInv, DeleteOK, TicketFound, Entities
      <4>2. QED
        BY <1>2, <1>4, <3>3, <4>1 DEF DeleteTicket, Returned
    <3>4. QED
      BY <1>4, <1>10, <3>1, <3>2, <3>3 DEF DeleteStep, FindTarget, ListVms, ListDisks,
         FindTicket, RunDeleteStep, RereadTarget, FindProject, ReturnQuota, Returned
  <2>3. GivenBack(x)' <=> GivenBack(x)
    BY <1>5, <2>2 DEF GivenBack
  <2>4. GivenBack(x) \/ (x \in docs' <=> x \in docs)
    <3>1. pc[d] = "deleteDoc" => GivenBack(x)
      BY DEF GivenBack, Returned
    <3>2. QED
      BY <3>1, DeleteEffect
  <2>5. x \in Paid(t)' <=> x \in Paid(t)
    BY <1>1, <1>5, <2>3, <2>4 DEF Paid, Uses
  <2>6. QED
    BY SMT, <1>7, <1>8, <2>1, <2>5
<1>11. QED
  BY <1>9, <1>10

LEMMA SumCreate ==
    ASSUME TypeOK, RequestInv, SumInv, NEW x \in Entities, CreateStep(x),
           NEW t \in Tickets, NEW k \in Keys
    PROVE  SumOK(t, k)'
<1> DEFINE s == Total(Paid(t), k)
           n == Total(Paid(t)', k)
           u == In(usage[t], k)
           v == In(usage'[t], k)
           c == In(CostOf(x), k)
<1>1. /\ faults = 0 => u = s
      /\ Careful => s <= u
  BY DEF SumInv, SumOK
<1>2. IsFiniteSet(Paid(t)) /\ Paid(t) \in SUBSET Entities
  BY PaidFinite DEF SumInv
<1>3. c \in Nat /\ s \in Nat /\ u \in Int
  BY SMT, <1>2, CostIn, TotalType DEF TypeOK, In
<1>4. /\ faults' = 0 => faults = 0
      /\ CallFails(x) => faults' # 0
  BY SMT, CreateEffect, CalmBefore DEF CallFails, Fault, TypeOK, Requests
<1>5. SUFFICES (faults' = 0 => v = n) /\ (Careful => n <= v)
  BY DEF SumOK, Careful
<1>6. CASE Paid(t)' = Paid(t) /\ usage'[t] = usage[t]
  BY <1>1, <1>4, <1>6
<1>7. CASE /\ x \notin Paid(t) /\ Paid(t)' = Paid(t) \cup {x}
           /\ \A j : In(usage'[t], j) = In(usage[t], j) + In(CostOf(x), j)
  <2>1. Total(Paid(t) \cup {x}, k) = s + c
    BY SMT, <1>2, <1>7, TotalWith
  <2>2. n = s + c /\ v = u + c
    BY <1>7, <2>1
  <2> HIDE DEF s, n, u, v, c
  <2>3. QED
    BY SMT, <1>1, <1>3, <1>4, <2>2
<1>8. CASE /\ CallFails(x)
           /\ \/ ServerErrors
              \/ Paid(t)' \subseteq Paid(t)
                 /\ \A j : In(usage[t], j) <= In(usage'[t], j)
  <2>1. CASE ServerErrors
    BY <1>4, <1>8, <2>1 DEF Careful
  <2>2. CASE Paid(t)' \subseteq Paid(t) /\ (\A j : In(usage[t], j) <= In(usage'[t], j))
    <3>1. IsFiniteSet(Paid(t)') /\ Paid(t)' \in SUBSET Entities
      BY <1>2, <2>2, FS_Subset
    <3>2. n <= s /\ n \in Nat
      BY <1>2, <2>2, <3>1, TotalGrows, TotalType
    <3>3. u <= v /\ v \in Int
      BY SMT, <2>2, StepType DEF Next, TypeOK, In
    <3> HIDE DEF s, n, u, v, c
    <3>4. QED
      BY SMT, <1>1, <1>3, <1>4, <1>8, <3>2, <3>3
  <2>3. QED
    BY <1>8, <2>1, <2>2
<1>9. QED
  BY <1>6, <1>7, <1>8, CreateSum

LEMMA SumDelete ==
    ASSUME TypeOK, RequestInv, SingleProjectDeletes, SumInv, NEW d \in Deletes,
           DeleteStep(d), NEW t \in Tickets, NEW k \in Keys
    PROVE  SumOK(t, k)'
<1> DEFINE x == TargetOf[d]
           s == Total(Paid(t), k)
           n == Total(Paid(t)', k)
           u == In(usage[t], k)
           v == In(usage'[t], k)
           c == In(CostOf(x), k)
<1>1. /\ faults = 0 => u = s
      /\ Careful => s <= u
  BY DEF SumInv, SumOK
<1>2. IsFiniteSet(Paid(t)) /\ Paid(t) \in SUBSET Entities /\ x \in Entities
  BY PaidFinite, QuotaAssumption DEF SumInv, QuotaAssumption
<1>3. c \in Nat /\ s \in Nat /\ u \in Int
  BY SMT, <1>2, CostIn, TotalType DEF TypeOK, In
<1>4. faults' = 0 => faults = 0
  BY DeleteEffect, CalmBefore DEF Requests
<1>5. SUFFICES ASSUME Calm' PROVE (faults' = 0 => v = n) /\ (Careful => n <= v)
  BY DEF SumOK, Careful, Calm
<1>6. CASE Paid(t)' = Paid(t) /\ usage'[t] = usage[t]
  BY <1>1, <1>4, <1>6
<1>7. CASE /\ x \in Paid(t) /\ Paid(t)' = Paid(t) \ {x}
           /\ \A j : In(usage'[t], j) = In(usage[t], j) - In(CostOf(x), j)
  <2>1. s = c + Total(Paid(t) \ {x}, k)
    BY <1>2, <1>7, TotalWithout
  <2>2. s = c + n /\ v = u - c
    BY <1>7, <2>1
  <2>3. n \in Nat
    <3>1. IsFiniteSet(Paid(t) \ {x}) /\ Paid(t) \ {x} \in SUBSET Entities
      BY <1>2, FS_Subset
    <3>2. QED
      BY <1>7, <3>1, TotalType
  <2> HIDE DEF s, n, u, v, c
  <2>4. QED
    BY SMT, <1>1, <1>3, <1>4, <2>2, <2>3
<1>8. QED
  BY <1>5, <1>6, <1>7, DeleteSum

QuotaSums == TypeOK /\ RequestInv /\ SumInv

LEMMA SumInductive ==
    ASSUME SingleProjectDeletes, QuotaSums, [Next]_vars
    PROVE  QuotaSums'
<1>1. TypeOK' /\ RequestInv'
  BY StepType, RequestInductive DEF QuotaSums
<1>2. IsFiniteSet(Begun')
  BY BegunStep DEF QuotaSums, SumInv
<1>3. ASSUME NEW t \in Tickets, NEW k \in Keys PROVE SumOK(t, k)'
  <2>1. CASE \E x \in Entities : CreateStep(x)
    BY <2>1, SumCreate DEF QuotaSums
  <2>2. CASE \E d \in Deletes : DeleteStep(d)
    BY <2>2, SumDelete DEF QuotaSums
  <2>3. CASE UNCHANGED vars
    <3>1. UNCHANGED <<faults, usage>> /\ Paid(t)' = Paid(t)
      BY <2>3 DEF vars, storeVars, Paid, GivenBack, Returned
    <3>2. SumOK(t, k)
      BY DEF QuotaSums, SumInv
    <3>3. QED
      BY <3>1, <3>2 DEF SumOK
  <2>4. QED
    BY <2>1, <2>2, <2>3 DEF Next, Terminated
<1>4. QED
  BY <1>1, <1>2, <1>3 DEF QuotaSums, SumInv

LEMMA SumInit == Init => QuotaSums
<1> SUFFICES ASSUME Init PROVE SumInv
  BY InitType, RequestInit DEF QuotaSums
<1>1. Begun = {}
  BY DEF Init, Begun
<1>2. \A t \in Tickets : Paid(t) = {}
  BY DEF Init, Paid, Uses, Requests
<1>3. \A t \in Tickets : \A k : In(usage[t], k) = 0
  BY DEF Init, In
<1>4. \A k : Total({}, k) = 0
  BY TotalNone
<1>5. QED
  BY SMT, <1>1, <1>2, <1>3, <1>4, FS_EmptySet DEF SumInv, SumOK

LEMMA QuotaSumsHold ==
    ASSUME SingleProjectDeletes PROVE Spec => []QuotaSums
BY SumInit, SumInductive, PTL DEF Spec

\* As long as no call fails, a ticket's usage is exactly the sum of what is
\* charged to it, for any number of creations and deletions that interleave:
\* nothing is charged twice, forgotten, or kept after a deletion or a refused
\* subdivide.
THEOREM UsageIsTheSum ==
    ASSUME SingleProjectDeletes PROVE Spec => []UsageIsExact
<1>1. QuotaSums => UsageIsExact
  <2> SUFFICES ASSUME QuotaSums, faults = 0, NEW t \in tickets, NEW k \in Keys
               PROVE  In(usage[t], k) =
                        Total({x \in Uses(t) : pc[x] \in {"post", "created"} /\ ~GivenBack(x)}, k)
    BY DEF UsageIsExact
  <2>1. t \in Tickets
    BY DEF QuotaSums, TypeOK
  <2>2. Paid(t) = {x \in Uses(t) : pc[x] \in {"post", "created"} /\ ~GivenBack(x)}
    BY DEF Paid, QuotaSums, RequestInv, DocumentOK
  <2>3. In(usage[t], k) = Total(Paid(t), k)
    BY <2>1 DEF QuotaSums, SumInv, SumOK
  <2>4. QED
    BY <2>2, <2>3, Zenon
<1>2. QED
  BY <1>1, QuotaSumsHold, PTL

LEMMA Covered ==
    ASSUME QuotaSums, Careful, NEW t \in Tickets, NEW k \in Keys,
           NEW S \in SUBSET {x \in Uses(t) \cap docs : ~GivenBack(x)}
    PROVE  Total(S, k) <= In(usage[t], k)
<1>1. IsFiniteSet(Paid(t)) /\ Paid(t) \in SUBSET Entities
  BY PaidFinite DEF QuotaSums, SumInv
<1>2. S \in SUBSET Paid(t)
  BY DEF Paid
<1>3. Total(S, k) <= Total(Paid(t), k)
  BY <1>1, <1>2, TotalGrows
<1>4. Total(Paid(t), k) <= In(usage[t], k)
  BY DEF QuotaSums, SumInv, SumOK
<1>5. Total(S, k) \in Nat /\ Total(Paid(t), k) \in Nat /\ In(usage[t], k) \in Int
  <2>1. IsFiniteSet(S) /\ S \in SUBSET Entities
    BY <1>1, <1>2, FS_Subset
  <2>2. QED
    BY SMT, <1>1, <2>1, TotalType DEF QuotaSums, TypeOK, In
<1>6. QED
  BY SMT, <1>3, <1>4, <1>5

\* Whatever exists is paid for, although charge and document are two calls
\* and calls of creations time out: VmDcpBackend, DiskDcpBackend and
\* ProjectDcpBackend charge first.  Where a deletion fails half-way or a
\* server error is taken for a charge, it need not be.
THEOREM DocumentsArePaidFor ==
    ASSUME SingleProjectDeletes, Careful
    PROVE  Spec => []UsageCoversDocuments
<1>1. QuotaSums => UsageCoversDocuments
  <2> SUFFICES ASSUME QuotaSums, NEW t \in tickets, NEW k \in Keys
               PROVE  Total({x \in Uses(t) \cap docs : ~GivenBack(x)}, k) <= In(usage[t], k)
    BY DEF UsageCoversDocuments
  <2>1. t \in Tickets
    BY DEF QuotaSums, TypeOK
  <2>2. QED
    BY <2>1, Covered
<1>2. QED
  BY <1>1, QuotaSumsHold, PTL

\* No project is deleted: a VM or disk may be created in a project that is.
ProjectsStay == \A d \in Deletes : TargetOf[d] \in Items

\* An item whose creation got as far as the charge has a project, and a
\* project has a limit for every key the tenant limits.
HomeInv ==
    /\ \A i \in Items :
           pc[i] \notin {"none", "failed"} \/ i \in docs => ProjectOf[i] \in docs
    /\ \A p \in Projects :
           pc[p] \notin {"none", "failed"} \/ p \in docs
               => DOMAIN Limits[Tenant] \subseteq DOMAIN Limits[p]

LEMMA HomeInductive ==
    ASSUME ProjectsStay, TypeOK, HomeInv, [Next]_vars
    PROVE  HomeInv'
<1>0. /\ \A i \in Items : ProjectOf[i] \in Projects /\ i \in Requests /\ i \in Entities
                          /\ i \notin Projects /\ i \notin Deletes
      /\ \A p \in Projects : p \in Requests /\ p \in Entities /\ p \notin Deletes
  BY QuotaAssumption DEF QuotaAssumption, Requests, Entities
<1>1. ASSUME NEW x \in Entities, CreateStep(x) PROVE HomeInv'
  <2>1. /\ \A r \in Requests \ {x} : pc'[r] = pc[r]
        /\ docs' = docs \/ (docs' = docs \cup {x} /\ pc[x] = "post")
    BY <1>1, CreateEffect
  <2>2. x \in Requests /\ \A l : Goto(x, l) => pc'[x] = l
    BY DEF Requests, Goto, TypeOK
  <2>3. \/ pc'[x] = "failed"
        \/ pc[x] \notin {"none", "failed"}
        \/ x \in Items /\ ProjectOf[x] \in docs
        \/ x \in Projects /\ DOMAIN Limits[Tenant] \subseteq DOMAIN Limits[x]
    BY <1>1, <2>2 DEF CreateStep, BeginProject, PostTicket, UndoTicket, BeginItem,
       ConsumeQuota, ConsumeQuotaFails, PostDocument
  <2>4. ASSUME NEW i \in Items, pc'[i] \notin {"none", "failed"} \/ i \in docs'
        PROVE  ProjectOf[i] \in docs'
    BY <1>0, <2>1, <2>3, <2>4 DEF HomeInv
  <2>5. ASSUME NEW p \in Projects, pc'[p] \notin {"none", "failed"} \/ p \in docs'
        PROVE  DOMAIN Limits[Tenant] \subseteq DOMAIN Limits[p]
    BY <1>0, <2>1, <2>3, <2>5 DEF HomeInv
  <2>6. QED
    BY <2>4, <2>5 DEF HomeInv
<1>2. ASSUME NEW d \in Deletes, DeleteStep(d) PROVE HomeInv'
  <2>1. \A r \in Requests \ {d} : pc'[r] = pc[r]
    BY <1>2, DeleteEffect DEF Goto, TypeOK
  <2>2. docs' \subseteq docs /\ \A p \in Projects : p \in docs => p \in docs'
    BY SMT, <1>0, <1>2, DeleteEffect DEF ProjectsStay
  <2>3. QED
    BY <1>0, <2>1, <2>2 DEF HomeInv
<1>3. ASSUME UNCHANGED vars PROVE HomeInv'
  BY <1>3 DEF HomeInv, vars, storeVars
<1>4. QED
  BY <1>1, <1>2, <1>3 DEF Next, Terminated

\* The two levels together: the VMs and disks of all projects stay within the
\* limits of the tenant, although ResourceTicketService only ever compares
\* each with the limits of its project and subdivide checks the tenant's.
THEOREM TenantNeverExceeded ==
    ASSUME ProjectsStay, Careful
    PROVE  Spec => []TenantWithinLimits
<1>0. /\ Projects \cap Items = {} /\ Tenant \in Tickets /\ Projects \subseteq Tickets
      /\ DOMAIN Limits = Tickets /\ (\A t \in Tickets : IsAmounts(Limits[t]))
      /\ \A i \in Items : ProjectOf[i] \in Projects
  BY QuotaAssumption DEF QuotaAssumption, Tickets
<1>1. SingleProjectDeletes
  BY <1>0 DEF SingleProjectDeletes, ProjectsStay
<1>2. Init => HomeInv
  BY DEF Init, HomeInv, Requests, Entities
<1>3. QuotaSums /\ HomeInv /\ [Next]_vars => (QuotaSums /\ HomeInv)'
  BY <1>1, SumInductive, HomeInductive DEF QuotaSums
<1>4. ASSUME QuotaSums, HomeInv, UsageWithinLimits PROVE TenantWithinLimits
  <2> SUFFICES ASSUME NEW k \in DOMAIN Limits[Tenant]
               PROVE  Total({i \in docs \cap Items : ~GivenBack(i)}, k) <= Limits[Tenant][k]
    BY DEF TenantWithinLimits
  <2> DEFINE I == {i \in docs \cap Items : ~GivenBack(i)}
             P == docs \cap Projects
             Own(p) == {i \in I : ProjectOf[i] = p}
  <2>1. k \in Keys
    BY <1>0 DEF Keys
  <2>2. P \in SUBSET Projects /\ I \in SUBSET Items /\ IsFiniteSet(P) /\ IsFiniteSet(I)
        /\ P \in SUBSET Entities /\ I \in SUBSET Entities
    <3>1. docs \subseteq Begun
      BY <1>4 DEF QuotaSums, TypeOK, RequestInv, DocumentOK, Ended, Begun, Requests
    <3>2. IsFiniteSet(Begun) /\ P \subseteq Begun /\ I \subseteq Begun
      BY <1>4, <3>1 DEF QuotaSums, SumInv
    <3>3. QED
      BY <3>2, FS_Subset DEF Entities
  <2>3. \A i \in I : ProjectOf[i] \in P
    BY <1>0, <1>4 DEF HomeInv
  <2>4. ASSUME NEW p \in P PROVE Total(Own(p), k) <= In(CostOf(p), k)
    <3>1. p \in Tickets /\ k \in DOMAIN Limits[p] /\ In(CostOf(p), k) = Limits[p][k]
      BY <1>0, <1>4 DEF HomeInv, CostOf, In
    <3>2. Own(p) \in SUBSET {x \in Uses(p) \cap docs : ~GivenBack(x)}
      BY <1>0 DEF Uses, TicketOf, Entities
    <3>3. Total(Own(p), k) <= In(usage[p], k)
      BY <1>4, <2>1, <3>1, <3>2, Covered
    <3>4. In(usage[p], k) <= Limits[p][k]
      BY <1>4, <3>1 DEF UsageWithinLimits
    <3>5. Total(Own(p), k) \in Nat /\ In(usage[p], k) \in Int /\ Limits[p][k] \in Nat
      <4>1. Own(p) \in SUBSET Entities /\ IsFiniteSet(Own(p))
        BY <2>2, FS_Subset
      <4>2. Total(Own(p), k) \in Nat
        BY <4>1, TotalType
      <4>3. QED
        BY SMT, <1>0, <1>4, <3>1, <4>2 DEF QuotaSums, TypeOK, In, IsAmounts
    <3> HIDE DEF Own
    <3>6. QED
      BY SMT, <3>1, <3>3, <3>4, <3>5
  <2>5. Total(I, k) <= Total(P, k)
    BY <2>2, <2>3, <2>4, TotalByProject
  <2>6. Total(P, k) <= In(usage[Tenant], k)
    <3>1. P \in SUBSET {x \in Uses(Tenant) \cap docs : ~GivenBack(x)}
      BY <1>0 DEF Uses, TicketOf, Entities, GivenBack, ProjectsStay
    <3>2. QED
      BY <1>0, <1>4, <2>1, <3>1, Covered
  <2>7. In(usage[Tenant], k) <= Limits[Tenant][k]
    BY <1>0, <1>4 DEF UsageWithinLimits
  <2>8. Total(I, k) \in Nat /\ Total(P, k) \in Nat /\ In(usage[Tenant], k) \in Int
        /\ Limits[Tenant][k] \in Nat
    <3>1. Total(I, k) \in Nat /\ Total(P, k) \in Nat
      BY <2>2, TotalType
    <3>2. QED
      BY SMT, <1>0, <1>4, <3>1 DEF QuotaSums, TypeOK, In, IsAmounts
  <2> HIDE DEF I, P
  <2>9. Total(I, k) <= Limits[Tenant][k]
    BY SMT, <2>5, <2>6, <2>7, <2>8
  <2>10. QED
    BY <2>9 DEF I
<1>5. QED
  BY <1>2, <1>3, <1>4, SumInit, QuotaNeverExceeded, PTL DEF Spec
=============================================================================

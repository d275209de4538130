------------------------- MODULE RecursiveTreeProofs -------------------------
(***************************************************************************)
(* Proofs of the safety properties of RecursiveTree, for any depth, any    *)
(* number of retries and any budgets: usage is charged once, a result that *)
(* fits its node is never refused, the tree and the rows of its run agree, *)
(* and a tree that has ended stays so.                                     *)
(***************************************************************************)
EXTENDS RecursiveTree, FiniteSetTheorems, WellFoundedInduction, TLAPS

(* Types. *)

States == {"absent", "running", "operator_paused"} \cup Ended

NodeRecs ==
    [status : Statuses, lease : 0 .. (MaxRetries + 1), retries : 0 .. MaxRetries, children : Nat,
     budget : Nat, limit : Nat, childBudget : Nat, childLimit : Nat,
     reservation : Nat, usage : Nat, reason : Reasons]

ReceiptRecs == [within : BOOLEAN, usage : Nat, known : BOOLEAN]

Trees ==
    [state : States, rootBudget : Nat, spent : Nat, reserved : Nat,
     node : [Ids -> NodeRecs], receipts : [ReceiptIds -> ReceiptRecs]]

Candidates == [usage : Nat, proposes : BOOLEAN, tree : Trees, fresh : BOOLEAN]

RowStates == {"absent", "pending", "running", "completed", "failed", "ready"}

\* The amounts one node may be charged.
Amounts == {FixtureUsage} \cup Usages

\* What is left and what is reserved never exceed what there was.  Unlike the sums of
\* Valid this outlives an overrun, so that a release never gives back too much.
Below(t, n) == IF n < MaxDepth THEN t.node[n + 1].reservation ELSE 0

Covered(t) ==
    /\ t.rootBudget + t.reserved <= TreeBudget
    /\ t.rootBudget + SumFunction(Held(t)) <= TreeBudget
    /\ \A n \in Ids : t.node[n].childBudget + Below(t, n) <= t.node[n].childLimit

\* What Valid says of the amounts, of all the ids alike: there is nothing where there
\* is no node.
Books(t) ==
    /\ Overrun(t) \/ t.rootBudget + t.spent + t.reserved = TreeBudget
    /\ \A n \in Ids : /\ t.node[n].budget <= t.node[n].limit
                      /\ AddsUp(t, t.node[n].budget + t.node[n].usage, t.node[n].limit)
                      /\ AddsUp(t, t.node[n].childBudget + OfChild(t, n), t.node[n].childLimit)
    /\ SumFunction(Used(t)) = t.spent
    /\ SumFunction(Held(t)) = t.reserved

\* What it says of the life of a node.
Standing(t, n) ==
    /\ t.node[n].reservation = IF n = Root \/ t.node[n].status \in Terminal THEN 0 ELSE t.node[n].budget
    /\ (t.node[n].status = "leased") <=> (t.node[n].lease # 0)
    /\ t.node[n].children = IF n + 1 \in Nodes(t) THEN 1 ELSE 0

\* No node.
Blank(x) ==
    /\ x.lease = 0 /\ x.retries = 0 /\ x.children = 0
    /\ x.budget = 0 /\ x.limit = 0 /\ x.childBudget = 0 /\ x.childLimit = 0
    /\ x.reservation = 0 /\ x.usage = 0

\* The nodes are a line from the root.
Line(t) ==
    /\ t.node[Root].status # "absent"
    /\ \A n \in Ids : t.node[n].status = "absent" => Blank(t.node[n])
    /\ \A n \in Ids : n # Root /\ t.node[n].status # "absent" => t.node[n - 1].status # "absent"

\* A tree that is open has no failed node; one that has ended has only children that
\* were attempted, and unless its budget ran out, none.
EndInv(t, att) ==
    /\ t.state \notin Ended => \A n \in Ids : t.node[n].status # "failed"
    /\ t.state \in Ended => \A n \in Ids : t.node[n].status \in Live /\ n # Root => att[n] > 0
    /\ t.state \in Ended \ {"budget_exhausted"} =>
          \A n \in Ids : t.node[n].status \in Live => n = Root

\* The rows, node by node.
RowAt(t, rows, att, n) ==
    /\ rows[n] = "absent" <=> t.node[n].status = "absent"
    /\ rows[n] = "running" <=> t.node[n].status = "leased"
    /\ rows[n] = "running" => t.node[n].lease = att[n]
    /\ rows[n] = "pending" => t.node[n].status = "ready"
    /\ t.node[n].status = "ready" => rows[n] \in {"pending", "ready"}
    /\ rows[n] = "completed" <=> t.node[n].status = "completed"
    /\ rows[n] = "failed" => t.node[n].status = "failed"

\* A node is attempted when everything above it is completed.
Above(t, rows, att) ==
    \A n \in Ids : att[n] > 0 =>
      /\ t.state # "absent" /\ t.node[n].status # "absent"
      /\ \A m \in Ids : m < n => rows[m] = "completed"

\* What is completed was attempted.
Begun(rows, att) == \A n \in Ids : rows[n] = "completed" => att[n] > 0

\* An action is committed before its child is there.
Parents(t, acts) == \A n \in Ids : n + 1 \in Nodes(t) => acts[n] # 0

\* What a receipt was written for.
ReceiptInv(t, acts, ms) ==
    \A n \in Ids :
      /\ t.receipts[<<n, 0>>].known => acts[n] # 0 /\ t.receipts[<<n, 0>>].usage = acts[n]
      /\ \A a \in Attempts : t.receipts[<<n, a>>].known =>
            t.receipts[<<n, a>>].usage = IF ms THEN 0 ELSE FixtureUsage

\* ChargedOnce without the sum, which is part of Valid.
Known(t, n) == {a \in Attempts : t.receipts[<<n, a>>].known}

UsageInv(t, acts, ms) ==
    \A n \in Ids :
      t.node[n].usage = (IF t.receipts[<<n, 0>>].known THEN acts[n] ELSE 0) +
                        (IF ms THEN 0 ELSE FixtureUsage * Cardinality(Known(t, n)))

\* The tree and its rows.
Account(t, rows, att, acts, ms) ==
    /\ t \in Trees /\ rows \in [Ids -> RowStates]
    /\ Valid(t) /\ Covered(t) /\ Line(t)
    /\ t.state = "absent" => t = NoTree
    /\ EndInv(t, att) /\ \A n \in Ids : RowAt(t, rows, att, n)
    /\ Above(t, rows, att) /\ Begun(rows, att) /\ Parents(t, acts)
    /\ ReceiptInv(t, acts, ms) /\ UsageInv(t, acts, ms)

\* An attempt that is doing something was leased; what it returns is committed; what it
\* has decided on the current tree is what the tree says.
JobAt(t, jobs, cands, att, acts, n, a) ==
    /\ jobs[<<n, a>>] # "idle" => a <= att[n]
    /\ jobs[<<n, a>>] = "completed" => acts[n] # 0
    /\ jobs[<<n, a>>] = "deciding" => cands[<<n, a>>].usage \in Amounts
    /\ cands[<<n, a>>].fresh /\ cands[<<n, a>>].proposes =>
          cands[<<n, a>>].tree = IF Admits(t, n) THEN AdmitChild(t, n) ELSE t

JobTypes(jobs, cands) ==
    /\ jobs \in [Jobs -> {"idle", "working", "deciding", "completed", "failed"}]
    /\ cands \in [Jobs -> Candidates]

Counts(att, acts, p, ret, ms) ==
    /\ ms \in BOOLEAN
    /\ att \in [Ids -> 0 .. (MaxRetries + 1)]
    /\ acts \in [Ids -> {0} \cup Amounts]
    /\ p \in 0 .. MaxPauses
    /\ ret \subseteq Ids

TreeInv ==
    /\ Counts(attempt, action, pauses, returned, measured)
    /\ Account(tree, row, attempt, action, measured)
    /\ JobTypes(job, candidate)
    /\ \A n \in Ids, a \in Attempts : JobAt(tree, job, candidate, attempt, action, n, a)
    /\ FittingResultIsSaved

-----------------------------------------------------------------------------
(* Sums, by induction: a set of numbers has a least element, so a statement  *)
(* that fails for a subset fails for a smallest one.                         *)

\* A nonempty set of numbers has a least element: what every induction below uses.
LEMMA Least ==
    ASSUME NEW T, T \subseteq Nat, T # {}
    PROVE  \E k \in T : \A j \in T : k <= j
  <1> DEFINE R == OpToRel(<, Nat)
  <1>1. IsWellFoundedOn(R, Nat)
    BY NatLessThanWellFounded
  <1>2. \A x, y \in Nat : x < y => <<x, y>> \in R
    BY DEF OpToRel
  <1> HIDE DEF R
  <1>3. \E x \in T : \A y \in T : ~ (<<y, x>> \in R)
    BY <1>1, WFMin
  <1>4. PICK x \in T : \A y \in T : ~ (<<y, x>> \in R)
    BY <1>3
  <1>5. \A y \in T : ~ (y < x)
    BY <1>2, <1>4, Zenon
  <1>6. \A y \in T : x <= y
    BY <1>5
  <1> QED
    BY <1>4, <1>6

\* A property of subsets that fails has a smallest subset it fails for.
LEMMA SmallestSubset ==
    ASSUME NEW S, IsFiniteSet(S), NEW B, B \subseteq SUBSET S, B # {}
    PROVE  \E s \in B : \A r \in SUBSET S : r # s /\ r \subseteq s => r \notin B
  <1> DEFINE T == {k \in Nat : \E s \in B : Cardinality(s) = k}
  <1>1. \A s \in SUBSET S : IsFiniteSet(s) /\ Cardinality(s) \in Nat
    BY FS_Subset, FS_CardinalityType
  <1>2. T # {} /\ T \subseteq Nat
    BY <1>1
  <1>3. PICK k \in T : \A j \in T : k <= j
    BY <1>2, Least
  <1>4. PICK s \in B : Cardinality(s) = k
    BY <1>3
  <1>5. ASSUME NEW r \in SUBSET S, r # s, r \subseteq s, r \in B PROVE FALSE
    <2>1. Cardinality(r) < Cardinality(s)
      BY <1>1, <1>5, FS_Subset
    <2>2. Cardinality(r) \in T
      BY <1>1, <1>5
    <2> QED
      BY <1>1, <1>3, <1>4, <2>1, <2>2
  <1> QED
    BY <1>4, <1>5

\* The element SumFunction takes next.
One(s) == CHOOSE x \in s : TRUE

\* The recursion of a sum, on the sets in D.
Adds(it, f, D) ==
    \A s \in D : it[s] = IF s = {} THEN 0 ELSE f[One(s)] + it[s \ {One(s)}]

\* It is an element.
LEMMA Ones == \A s : s # {} => One(s) \in s /\ s \ {One(s)} \subseteq s /\ s \ {One(s)} # s
  BY DEF One

\* There is a function with that recursion.
LEMMA SumsExist ==
    ASSUME NEW S, IsFiniteSet(S), NEW f \in [S -> Nat]
    PROVE  \E it \in [SUBSET S -> Nat] : Adds(it, f, SUBSET S)
  <1> DEFINE D(k) == {s \in SUBSET S : Cardinality(s) <= k}
             B == {k \in Nat : ~ \E it \in [D(k) -> Nat] : Adds(it, f, D(k))}
  <1>1. \A s \in SUBSET S : IsFiniteSet(s) /\ Cardinality(s) \in Nat /\ Cardinality(s) <= Cardinality(S)
    BY FS_Subset, FS_CardinalityType
  <1>2. ASSUME B # {} PROVE FALSE
    <2>1. PICK k \in B : \A j \in B : k <= j
      BY <1>2, Least
    <2>2. k # 0
      <3>1. SUFFICES ASSUME k = 0 PROVE FALSE
        OBVIOUS
      <3>2. \A s \in D(0) : s = {}
        BY <1>1, FS_EmptySet
      <3>3. [s \in D(0) |-> 0] \in [D(0) -> Nat] /\ Adds([s \in D(0) |-> 0], f, D(0))
        BY <3>2 DEF Adds
      <3> QED
        BY <2>1, <3>1, <3>3
    <2>3. k - 1 \in Nat /\ k - 1 \notin B
      <3> HIDE DEF B
      <3>1. k \in Nat
        BY DEF B
      <3> QED
        BY <2>1, <2>2, <3>1
    <2>4. PICK it \in [D(k - 1) -> Nat] : Adds(it, f, D(k - 1))
      BY <2>3
    <2> DEFINE g == [s \in D(k) |-> IF s = {} THEN 0 ELSE f[One(s)] + it[s \ {One(s)}]]
    <2>5. ASSUME NEW s \in D(k), s # {}
          PROVE  s \ {One(s)} \in D(k - 1) /\ f[One(s)] \in Nat /\ s \ {One(s)} \in D(k)
      <3>1. Cardinality(s \ {One(s)}) = Cardinality(s) - 1
        BY <1>1, <2>5, Ones, FS_RemoveElement
      <3> QED
        BY <1>1, <2>1, <2>5, <3>1, Ones
    <2>6. g \in [D(k) -> Nat]
      BY <2>4, <2>5
    <2>7. \A s \in D(k - 1) : s \in D(k) /\ g[s] = it[s]
      <3>1. D(k - 1) \subseteq D(k)
        BY <1>1, <2>1
      <3> QED
        BY <3>1, <2>4 DEF Adds
    <2>8. Adds(g, f, D(k))
      BY <2>5, <2>7 DEF Adds
    <2> QED
      BY <2>1, <2>6, <2>8
  <1>3. Cardinality(S) \in Nat /\ D(Cardinality(S)) = SUBSET S
    BY <1>1
  <1>4. Cardinality(S) \notin B
    BY <1>2
  <1>5. \E it \in [D(Cardinality(S)) -> Nat] : Adds(it, f, D(Cardinality(S)))
    BY <1>3, <1>4
  <1> HIDE DEF D
  <1> QED
    BY <1>3, <1>5

\* The sum is such a function, at the set itself.
LEMMA SumIs ==
    ASSUME NEW S, IsFiniteSet(S), NEW f \in [S -> Nat]
    PROVE  \E it \in [SUBSET S -> Nat] : Adds(it, f, SUBSET S) /\ SumFunction(f) = it[S]
  <1> DEFINE Def(it) == [s \in SUBSET S |-> IF s = {} THEN 0 ELSE f[One(s)] + it[s \ {One(s)}]]
             sum == CHOOSE it : it = Def(it)
  <1>1. PICK it \in [SUBSET S -> Nat] : Adds(it, f, SUBSET S)
    BY SumsExist
  <1>2. it = Def(it)
    BY <1>1 DEF Adds
  <1>3. sum = Def(sum)
    BY <1>2, Zenon
  <1>4. SumFunction(f) = sum[S]
    BY DEF SumFunction, SumFunctionOnSet, FoldFunctionOnSet, MapThenFoldSet, One
  <1> HIDE DEF sum
  <1>5. DOMAIN sum = SUBSET S /\ Adds(sum, f, SUBSET S)
    BY <1>3 DEF Adds
  <1>6. \A s \in SUBSET S : sum[s] = it[s]
    <2> DEFINE B == {s \in SUBSET S : sum[s] # it[s]}
    <2>1. SUFFICES ASSUME B # {} PROVE FALSE
      OBVIOUS
    <2>2. PICK s \in B : \A r \in SUBSET S : r # s /\ r \subseteq s => r \notin B
      <3> HIDE DEF B
      <3>1. B \subseteq SUBSET S
        BY DEF B
      <3> QED
        BY <2>1, <3>1, SmallestSubset
    <2>3. s # {}
      BY <1>1, <1>5, <2>2 DEF Adds
    <2>4. sum[s \ {One(s)}] = it[s \ {One(s)}]
      BY <2>2, <2>3, Ones
    <2> QED
      BY <1>1, <1>5, <2>2, <2>3, <2>4 DEF Adds
  <1>7. sum = it
    BY <1>3, <1>5, <1>6
  <1> QED
    BY <1>1, <1>4, <1>7

\* Sums are numbers, and add up.
LEMMA SumPlus ==
    ASSUME NEW S, IsFiniteSet(S), NEW f \in [S -> Nat], NEW g \in [S -> Nat], NEW h \in [S -> Nat],
           \A x \in S : h[x] = f[x] + g[x]
    PROVE  /\ SumFunction(f) \in Nat /\ SumFunction(g) \in Nat /\ SumFunction(h) \in Nat
           /\ SumFunction(h) = SumFunction(f) + SumFunction(g)
  <1>1. PICK a \in [SUBSET S -> Nat] : Adds(a, f, SUBSET S) /\ SumFunction(f) = a[S]
    BY SumIs
  <1>2. PICK b \in [SUBSET S -> Nat] : Adds(b, g, SUBSET S) /\ SumFunction(g) = b[S]
    BY SumIs
  <1>3. PICK c \in [SUBSET S -> Nat] : Adds(c, h, SUBSET S) /\ SumFunction(h) = c[S]
    BY SumIs
  <1> DEFINE B == {s \in SUBSET S : c[s] # a[s] + b[s]}
  <1>4. ASSUME B # {} PROVE FALSE
    <2>1. PICK s \in B : \A r \in SUBSET S : r # s /\ r \subseteq s => r \notin B
      <3> HIDE DEF B
      <3>1. B \subseteq SUBSET S
        BY DEF B
      <3> QED
        BY <1>4, <3>1, SmallestSubset
    <2>2. s # {}
      <3>1. a[{}] = 0 /\ b[{}] = 0 /\ c[{}] = 0
        BY <1>1, <1>2, <1>3 DEF Adds
      <3>2. c[s] # a[s] + b[s]
        BY <2>1
      <3>3. 0 = 0 + 0
        OBVIOUS
      <3> QED
        BY <3>1, <3>2, <3>3, Zenon
    <2> DEFINE x == One(s)
               r == s \ {x}
    <2>3. x \in S /\ r \in SUBSET S /\ r \notin B
      BY <2>1, <2>2, Ones
    <2>4. a[s] = f[x] + a[r] /\ b[s] = g[x] + b[r] /\ c[s] = h[x] + c[r]
      BY <1>1, <1>2, <1>3, <2>1, <2>2 DEF Adds
    <2> HIDE DEF x, r
    <2>5. c[r] = a[r] + b[r] /\ h[x] = f[x] + g[x]
      BY <2>3
    <2>6. /\ a[r] \in Nat /\ b[r] \in Nat /\ f[x] \in Nat /\ g[x] \in Nat
          /\ c[s] # a[s] + b[s]
      BY <2>1, <2>3
    <2> QED
      BY <2>4, <2>5, <2>6
  <1>5. c[S] = a[S] + b[S]
    BY <1>4
  <1> QED
    BY <1>1, <1>2, <1>3, <1>5

\* The sum of nothing, and of one amount.
LEMMA SumOne ==
    ASSUME NEW S, IsFiniteSet(S), NEW f \in [S -> Nat], NEW x \in S,
           \A y \in S : y # x => f[y] = 0
    PROVE  SumFunction(f) = f[x]
  <1>1. PICK a \in [SUBSET S -> Nat] : Adds(a, f, SUBSET S) /\ SumFunction(f) = a[S]
    BY SumIs
  <1> DEFINE v(s) == IF x \in s THEN f[x] ELSE 0
             B == {s \in SUBSET S : a[s] # v(s)}
  <1>2. ASSUME B # {} PROVE FALSE
    <2>1. PICK s \in B : \A r \in SUBSET S : r # s /\ r \subseteq s => r \notin B
      <3> HIDE DEF B
      <3>1. B \subseteq SUBSET S
        BY DEF B
      <3> QED
        BY <1>2, <3>1, SmallestSubset
    <2>2. s # {}
      BY <1>1, <2>1 DEF Adds
    <2> DEFINE o == One(s)
               r == s \ {o}
    <2>3. o \in s /\ r \in SUBSET S /\ r \notin B
      BY <2>1, <2>2, Ones
    <2>4. a[s] = f[o] + a[r]
      BY <1>1, <2>1, <2>2 DEF Adds
    <2>5. a[r] = v(r) /\ a[s] # v(s) /\ s \in SUBSET S
      BY <2>1, <2>3
    <2> HIDE DEF o
    <2> QED
      BY <2>3, <2>4, <2>5
  <1>3. a[S] = v(S)
    BY <1>2
  <1> QED
    BY <1>1, <1>3

\* A sum is a number.
LEMMA SumType ==
    ASSUME NEW S, IsFiniteSet(S), NEW f \in [S -> Nat]
    PROVE  SumFunction(f) \in Nat
  <1>1. PICK it \in [SUBSET S -> Nat] : Adds(it, f, SUBSET S) /\ SumFunction(f) = it[S]
    BY SumIs
  <1> QED
    BY <1>1

\* A larger function has a larger sum.
LEMMA SumLess ==
    ASSUME NEW S, IsFiniteSet(S), NEW f \in [S -> Nat], NEW g \in [S -> Nat],
           \A x \in S : f[x] <= g[x]
    PROVE  SumFunction(f) \in Nat /\ SumFunction(g) \in Nat /\ SumFunction(f) <= SumFunction(g)
  <1> DEFINE d == [x \in S |-> g[x] - f[x]]
  <1>1. d \in [S -> Nat] /\ \A x \in S : g[x] = f[x] + d[x]
    OBVIOUS
  <1> HIDE DEF d
  <1> QED
    BY <1>1, SumPlus

\* One amount changes: so does the sum.
LEMMA SumChange ==
    ASSUME NEW S, IsFiniteSet(S), NEW f \in [S -> Nat], NEW g \in [S -> Nat], NEW x \in S,
           \A y \in S : y # x => f[y] = g[y]
    PROVE  /\ SumFunction(f) \in Nat /\ SumFunction(g) \in Nat
           /\ f[x] <= SumFunction(f)
           /\ SumFunction(f) - f[x] = SumFunction(g) - g[x]
  <1> DEFINE rest == [y \in S |-> IF y = x THEN 0 ELSE f[y]]
             F == [y \in S |-> IF y = x THEN f[x] ELSE 0]
             G == [y \in S |-> IF y = x THEN g[x] ELSE 0]
  <1>1. /\ rest \in [S -> Nat] /\ F \in [S -> Nat] /\ G \in [S -> Nat]
        /\ \A y \in S : f[y] = rest[y] + F[y] /\ g[y] = rest[y] + G[y]
        /\ \A y \in S : y # x => F[y] = 0 /\ G[y] = 0
        /\ F[x] = f[x] /\ G[x] = g[x]
    OBVIOUS
  <1> HIDE DEF rest, F, G
  <1>2. SumFunction(F) = f[x] /\ SumFunction(G) = g[x]
    BY <1>1, SumOne
  <1>3. /\ SumFunction(rest) \in Nat /\ SumFunction(f) \in Nat /\ SumFunction(g) \in Nat
        /\ SumFunction(f) = SumFunction(rest) + SumFunction(F)
        /\ SumFunction(g) = SumFunction(rest) + SumFunction(G)
    BY <1>1, SumPlus
  <1>4. f[x] \in Nat /\ g[x] \in Nat
    OBVIOUS
  <1> QED
    BY <1>2, <1>3, <1>4

-----------------------------------------------------------------------------
(* Trees, field by field. *)

\* The constants.
LEMMA Constants ==
    /\ MaxDepth \in Nat /\ MaxRetries \in Nat /\ TreeBudget \in Nat /\ ChildBudget \in Nat
    /\ FixtureUsage \in Nat \ {0} /\ Usages \subseteq Nat \ {0}
    /\ IsFiniteSet(Ids) /\ Ids \subseteq Nat /\ Root \in Ids
    /\ \A n \in Ids : n < MaxDepth <=> n + 1 \in Ids
    /\ \A n \in Ids : n # Root => n - 1 \in Ids /\ n - 1 < MaxDepth
  <1>1. MaxDepth \in Nat
    BY RecursiveAssumption
  <1>2. IsFiniteSet(0 .. MaxDepth)
    BY <1>1, FS_Interval
  <1> QED
    BY <1>1, <1>2, RecursiveAssumption DEF Ids, Root

\* Subtraction that saturates.
LEMMA SpendIs ==
    ASSUME NEW b \in Nat, NEW u \in Nat
    PROVE  /\ Spend(b, u) \in Nat /\ Spend(b, u) <= b
           /\ u <= b => Spend(b, u) = b - u
           /\ u >= b => Spend(b, u) = 0
  BY DEF Spend

\* The fields of a tree.
LEMMA TreeFields ==
    ASSUME NEW t \in Trees
    PROVE  /\ t.state \in States /\ t.rootBudget \in Nat /\ t.spent \in Nat /\ t.reserved \in Nat
           /\ t.node \in [Ids -> NodeRecs] /\ t.receipts \in [ReceiptIds -> ReceiptRecs]
           /\ \A n \in Ids :
                 /\ t.node[n] \in NodeRecs
                 /\ t.node[n].status \in Statuses /\ t.node[n].lease \in 0 .. (MaxRetries + 1)
                 /\ t.node[n].retries \in 0 .. MaxRetries /\ t.node[n].children \in Nat
                 /\ t.node[n].budget \in Nat /\ t.node[n].limit \in Nat
                 /\ t.node[n].childBudget \in Nat /\ t.node[n].childLimit \in Nat
                 /\ t.node[n].reservation \in Nat /\ t.node[n].usage \in Nat
                 /\ t.node[n].reason \in Reasons
           /\ \A r \in ReceiptIds :
                 /\ t.receipts[r] \in ReceiptRecs /\ t.receipts[r].within \in BOOLEAN
                 /\ t.receipts[r].known \in BOOLEAN /\ t.receipts[r].usage \in Nat
           /\ Used(t) \in [Ids -> Nat] /\ Held(t) \in [Ids -> Nat]
  BY DEF Trees, NodeRecs, ReceiptRecs, Used, Held

\* What FailAndRelease gives back.
Given(t, S) == [n \in Ids |-> IF n \in S THEN t.node[n].reservation ELSE 0]

\* FailAndRelease never gives back more than the nodes of the tree hold.
LEMMA GivenSum ==
    ASSUME NEW t \in Trees, NEW S
    PROVE  /\ Given(t, S) \in [Ids -> Nat] /\ SumFunction(Given(t, S)) \in Nat
           /\ SumFunction(Held(t)) \in Nat /\ SumFunction(Given(t, S)) <= SumFunction(Held(t))
  <1>1. Given(t, S) \in [Ids -> Nat] /\ Held(t) \in [Ids -> Nat]
    BY TreeFields DEF Given
  <1>2. \A n \in Ids : Given(t, S)[n] <= Held(t)[n]
    BY TreeFields DEF Given, Held
  <1> QED
    BY <1>1, <1>2, Constants, SumLess

\* u is t with the nodes of S failed and their reservations given back.
Fails(t, u, S, reason) ==
    /\ u \in Trees
    /\ u.state = t.state /\ u.spent = t.spent /\ u.receipts = t.receipts
    /\ u.reserved = Spend(t.reserved, SumFunction(Given(t, S)))
    /\ u.rootBudget = t.rootBudget + SumFunction(Given(t, S))
    /\ \A n \in Ids :
          /\ u.node[n].status = IF n \in S THEN "failed" ELSE t.node[n].status
          /\ u.node[n].reason = IF n \in S THEN reason ELSE t.node[n].reason
          /\ u.node[n].lease = IF n \in S THEN 0 ELSE t.node[n].lease
          /\ u.node[n].reservation = IF n \in S THEN 0 ELSE t.node[n].reservation
          /\ u.node[n].childBudget =
                t.node[n].childBudget + (IF n < MaxDepth THEN Given(t, S)[n + 1] ELSE 0)
          /\ u.node[n].retries = t.node[n].retries /\ u.node[n].children = t.node[n].children
          /\ u.node[n].budget = t.node[n].budget /\ u.node[n].limit = t.node[n].limit
          /\ u.node[n].childLimit = t.node[n].childLimit /\ u.node[n].usage = t.node[n].usage

\* FailAndRelease, field by field.
LEMMA FailFields ==
    ASSUME NEW t \in Trees, NEW S, NEW reason \in Reasons
    PROVE  Fails(t, FailAndRelease(t, S, reason), S, reason)
  <1> DEFINE g == Given(t, S)
             total == SumFunction(g)
             repaid(n) == [t.node[n] EXCEPT !.childBudget = @ + (IF n < MaxDepth THEN g[n + 1] ELSE 0)]
             nd(n) == IF n \in S
                      THEN [repaid(n) EXCEPT !.status = "failed", !.reason = reason,
                                             !.lease = 0, !.reservation = 0]
                      ELSE repaid(n)
             u == [t EXCEPT !.reserved = Spend(@, total), !.rootBudget = @ + total,
                            !.node = [n \in Ids |-> nd(n)]]
  <1>1. FailAndRelease(t, S, reason) = u
    BY DEF FailAndRelease, Given
  <1>2. g \in [Ids -> Nat] /\ total \in Nat
    BY GivenSum
  <1> HIDE DEF g, total
  <1>3. ASSUME NEW n \in Ids
        PROVE  /\ nd(n) \in NodeRecs
               /\ nd(n).status = IF n \in S THEN "failed" ELSE t.node[n].status
               /\ nd(n).reason = IF n \in S THEN reason ELSE t.node[n].reason
               /\ nd(n).lease = IF n \in S THEN 0 ELSE t.node[n].lease
               /\ nd(n).reservation = IF n \in S THEN 0 ELSE t.node[n].reservation
               /\ nd(n).childBudget =
                     t.node[n].childBudget + (IF n < MaxDepth THEN g[n + 1] ELSE 0)
               /\ nd(n).retries = t.node[n].retries /\ nd(n).children = t.node[n].children
               /\ nd(n).budget = t.node[n].budget /\ nd(n).limit = t.node[n].limit
               /\ nd(n).childLimit = t.node[n].childLimit /\ nd(n).usage = t.node[n].usage
    <2>1. t.node[n] \in NodeRecs
      BY TreeFields
    <2>2. (IF n < MaxDepth THEN g[n + 1] ELSE 0) \in Nat
      BY <1>2, Constants
    <2>3. "failed" \in Statuses /\ 0 \in 0 .. (MaxRetries + 1)
      BY Constants DEF Statuses, Terminal
    <2>4. /\ repaid(n) \in NodeRecs
          /\ repaid(n).childBudget = t.node[n].childBudget + (IF n < MaxDepth THEN g[n + 1] ELSE 0)
          /\ repaid(n).status = t.node[n].status /\ repaid(n).reason = t.node[n].reason
          /\ repaid(n).lease = t.node[n].lease /\ repaid(n).reservation = t.node[n].reservation
          /\ repaid(n).retries = t.node[n].retries /\ repaid(n).children = t.node[n].children
          /\ repaid(n).budget = t.node[n].budget /\ repaid(n).limit = t.node[n].limit
          /\ repaid(n).childLimit = t.node[n].childLimit /\ repaid(n).usage = t.node[n].usage
      BY <2>1, <2>2 DEF NodeRecs
    <2> HIDE DEF repaid
    <2> QED
      BY <2>3, <2>4 DEF NodeRecs
  <1> HIDE DEF nd
  <1>4. Spend(t.reserved, total) \in Nat /\ t.rootBudget + total \in Nat
    <2>1. t.reserved \in Nat /\ t.rootBudget \in Nat
      BY TreeFields
    <2>2. Spend(t.reserved, total) \in Nat
      BY <1>2, <2>1, SpendIs
    <2> QED
      BY <1>2, <2>1, <2>2
  <1>5. [n \in Ids |-> nd(n)] \in [Ids -> NodeRecs]
    BY <1>3
  <1>6. /\ u \in Trees /\ u.state = t.state /\ u.spent = t.spent /\ u.receipts = t.receipts
        /\ u.reserved = Spend(t.reserved, total) /\ u.rootBudget = t.rootBudget + total
        /\ u.node = [n \in Ids |-> nd(n)]
    BY <1>4, <1>5 DEF Trees
  <1> HIDE DEF u
  <1>7. \A n \in Ids : u.node[n] = nd(n)
    BY <1>6
  <1> QED
    BY <1>1, <1>3, <1>6, <1>7 DEF Fails, g, total

-----------------------------------------------------------------------------
(* How a step changes a tree: what happens to the nodes (Moves), and to the  *)
(* books (Keeps).  Both compose.                                             *)

\* Valid is the books and the standing of every node.
LEMMA ValidParts ==
    ASSUME NEW t \in Trees, Line(t), Valid(t)
    PROVE  Books(t) /\ \A n \in Ids : Standing(t, n)
  <1>1. ASSUME NEW n \in Ids, t.node[n].status = "absent"
        PROVE  /\ Blank(t.node[n]) /\ OfChild(t, n) = 0 /\ n + 1 \notin Nodes(t)
               /\ n # Root
    <2>1. n + 1 \in Ids => t.node[n + 1].status = "absent"
      BY <1>1, Constants DEF Line, Root
    <2>2. n < MaxDepth <=> n + 1 \in Ids
      BY Constants
    <2>3. n + 1 \in Ids => t.node[n + 1].usage = 0 /\ t.node[n + 1].reservation = 0
      BY <2>1 DEF Line, Blank
    <2> QED
      BY <1>1, <2>1, <2>2, <2>3 DEF Line, OfChild, Nodes
  <1>2. \A n \in Ids : t.node[n].status # "absent" => ValidNode(t, n)
    BY DEF Valid, Nodes
  <1>3. ASSUME NEW n \in Ids
        PROVE  /\ t.node[n].budget <= t.node[n].limit
               /\ AddsUp(t, t.node[n].budget + t.node[n].usage, t.node[n].limit)
               /\ AddsUp(t, t.node[n].childBudget + OfChild(t, n), t.node[n].childLimit)
               /\ Standing(t, n)
    <2>1. CASE t.node[n].status # "absent"
      BY <1>2, <2>1 DEF ValidNode, Standing
    <2>2. CASE t.node[n].status = "absent"
      BY <1>1, <2>2 DEF Blank, Standing, AddsUp, Terminal
    <2> QED
      BY <2>1, <2>2
  <1> QED
    BY <1>3 DEF Books, Valid

\* The other way.
LEMMA ValidFrom ==
    ASSUME NEW t \in Trees, Books(t), Covered(t), \A n \in Ids : Standing(t, n)
    PROVE  Valid(t)
  <1>1. t.rootBudget <= TreeBudget
    BY TreeFields, Constants DEF Covered
  <1>2. ASSUME NEW n \in Ids PROVE ValidNode(t, n)
    <2>1. Below(t, n) \in Nat /\ t.node[n].childBudget \in Nat /\ t.node[n].childLimit \in Nat
      BY TreeFields, Constants DEF Below
    <2>2. t.node[n].childBudget <= t.node[n].childLimit
      BY <2>1 DEF Covered
    <2> QED
      BY <2>2 DEF ValidNode, Books, Standing
  <1> QED
    BY <1>1, <1>2 DEF Valid, Books, Nodes

\* A node is as it was, or it is a live child that has ended.
Falls(x, y, m) ==
    \/ y.status = x.status /\ y.lease = x.lease /\ y.reason = x.reason
    \/ /\ m # Root /\ x.status \in Live /\ y.status = "failed" /\ y.lease = 0
       /\ y.reason \in {"tree_budget_exhausted", "terminal_failed"}

\* Only n, and live children, change; the tree stays ended, stays a line, stays covered.
Moves(t, u, n) ==
    /\ u \in Trees
    /\ t.state \in Ended => u.state \in Ended
    /\ t.state # "absent" => u.state # "absent"
    /\ Covered(t) => Covered(u)
    /\ Line(t) => Line(u)
    /\ \A m \in Ids : /\ u.node[m].status = "absent" <=> t.node[m].status = "absent"
                      /\ m # n => Falls(t.node[m], u.node[m], m)

\* Nothing is charged, and the books stay right.
Keeps(t, u, n) ==
    /\ Moves(t, u, n)
    /\ u.receipts = t.receipts
    /\ \A m \in Ids : u.node[m].usage = t.node[m].usage
    /\ Books(t) => Books(u)
    /\ \A m \in Ids : m # n /\ Standing(t, m) => Standing(u, m)
    /\ u.node[n].children = t.node[n].children /\ u.node[n].budget = t.node[n].budget

\* The node itself is left alone.
AtNode(t, u, n) ==
    /\ u.node[n].status = t.node[n].status /\ u.node[n].lease = t.node[n].lease
    /\ u.node[n].reason = t.node[n].reason /\ u.node[n].retries = t.node[n].retries
    /\ u.node[n].reservation = t.node[n].reservation

\* Two moves of one node are a move of it.
LEMMA MovesCompose ==
    ASSUME NEW t, NEW u, NEW v, NEW n, Moves(t, u, n), Moves(u, v, n)
    PROVE  Moves(t, v, n)
  <1>1. ASSUME NEW m \in Ids, m # n PROVE Falls(t.node[m], v.node[m], m)
    <2>1. Falls(t.node[m], u.node[m], m) /\ Falls(u.node[m], v.node[m], m)
      BY <1>1 DEF Moves
    <2> QED
      BY <2>1 DEF Falls, Live
  <1> QED
    BY <1>1 DEF Moves

\* Two steps of one node that charge nothing are one.
LEMMA KeepsCompose ==
    ASSUME NEW t, NEW u, NEW v, NEW n, Keeps(t, u, n), Keeps(u, v, n)
    PROVE  Keeps(t, v, n)
  <1>1. Moves(t, v, n)
    BY MovesCompose DEF Keeps
  <1> QED
    BY <1>1 DEF Keeps

\* A node left alone twice is left alone.
LEMMA AtCompose ==
    ASSUME NEW t, NEW u, NEW v, NEW n, AtNode(t, u, n), AtNode(u, v, n)
    PROVE  AtNode(t, v, n)
  BY DEF AtNode

\* A step that changes nothing keeps everything.
LEMMA KeepsNothing ==
    ASSUME NEW t \in Trees, NEW n
    PROVE  Keeps(t, t, n) /\ AtNode(t, t, n)
  BY DEF Keeps, Moves, Falls, AtNode

\* The status, the lease, the reason or the retries of one node change, or the state.
Marks(t, u, n) ==
    /\ u \in Trees
    /\ t.state \in Ended => u.state \in Ended
    /\ t.state # "absent" => u.state # "absent"
    /\ u.rootBudget = t.rootBudget /\ u.spent = t.spent /\ u.reserved = t.reserved
    /\ u.receipts = t.receipts
    /\ \A m \in Ids :
          /\ u.node[m].budget = t.node[m].budget /\ u.node[m].limit = t.node[m].limit
          /\ u.node[m].childBudget = t.node[m].childBudget
          /\ u.node[m].childLimit = t.node[m].childLimit
          /\ u.node[m].reservation = t.node[m].reservation
          /\ u.node[m].usage = t.node[m].usage /\ u.node[m].children = t.node[m].children
          /\ m # n => /\ u.node[m].status = t.node[m].status /\ u.node[m].lease = t.node[m].lease
                      /\ u.node[m].reason = t.node[m].reason
                      /\ u.node[m].retries = t.node[m].retries
          /\ u.node[m].status = "absent" <=> t.node[m].status = "absent"

\* A change of status, lease, reason, retries or state costs nothing: the books stay
\* right and the tree stays covered.
LEMMA MarksKeep ==
    ASSUME NEW t \in Trees, NEW n \in Ids, NEW u, Marks(t, u, n), t.node[n].status # "absent"
    PROVE  Keeps(t, u, n)
  <1>1. u \in Trees
    BY DEF Marks
  <1>2. Held(u) = Held(t) /\ Used(u) = Used(t)
    BY DEF Marks, Held, Used
  <1>3. \A m \in Ids : Below(u, m) = Below(t, m) /\ OfChild(u, m) = OfChild(t, m)
    BY Constants DEF Marks, Below, OfChild
  <1>4. Covered(t) => Covered(u)
    BY <1>2, <1>3 DEF Marks, Covered
  <1>5. Line(t) => Line(u)
    BY Constants DEF Marks, Line, Blank
  <1>6. Overrun(u) = Overrun(t)
    BY DEF Marks, Overrun
  <1>7. Books(t) => Books(u)
    BY <1>2, <1>3, <1>6 DEF Marks, Books, AddsUp
  <1>8. Nodes(u) = Nodes(t)
    BY DEF Marks, Nodes
  <1>9. ASSUME NEW m \in Ids, m # n, Standing(t, m) PROVE Standing(u, m)
    BY <1>8, <1>9 DEF Marks, Standing
  <1>10. Moves(t, u, n)
    BY <1>1, <1>4, <1>5 DEF Marks, Moves, Falls
  <1> QED
    BY <1>7, <1>9, <1>10 DEF Marks, Keeps

\* Reservations are given back.
Frees(t, u, S) ==
    /\ u \in Trees
    /\ u.state = t.state /\ u.spent = t.spent /\ u.receipts = t.receipts
    /\ u.reserved = Spend(t.reserved, SumFunction(Given(t, S)))
    /\ u.rootBudget = t.rootBudget + SumFunction(Given(t, S))
    /\ \A n \in Ids :
          /\ u.node[n].status = "absent" <=> t.node[n].status = "absent"
          /\ u.node[n].status = "absent" => u.node[n].lease = t.node[n].lease
          /\ u.node[n].reservation = IF n \in S THEN 0 ELSE t.node[n].reservation
          /\ u.node[n].childBudget =
                t.node[n].childBudget + (IF n < MaxDepth THEN Given(t, S)[n + 1] ELSE 0)
          /\ u.node[n].retries = t.node[n].retries /\ u.node[n].children = t.node[n].children
          /\ u.node[n].budget = t.node[n].budget /\ u.node[n].limit = t.node[n].limit
          /\ u.node[n].childLimit = t.node[n].childLimit /\ u.node[n].usage = t.node[n].usage

\* Giving reservations back moves amounts between the tree, the parents and the nodes,
\* and the sums stay what they were.
LEMMA FreesKeep ==
    ASSUME NEW t \in Trees, NEW S, NEW u, Frees(t, u, S)
    PROVE  /\ Covered(t) => Covered(u)
           /\ Books(t) => Books(u)
           /\ Line(t) => Line(u)
           /\ Nodes(u) = Nodes(t)
  <1> DEFINE g == Given(t, S)
             total == SumFunction(g)
  <1>1. u \in Trees
    BY DEF Frees
  <1>2. /\ g \in [Ids -> Nat] /\ total \in Nat /\ SumFunction(Held(t)) \in Nat
        /\ total <= SumFunction(Held(t))
    BY GivenSum
  <1>3. /\ Held(t) \in [Ids -> Nat] /\ Held(u) \in [Ids -> Nat]
        /\ \A m \in Ids : Held(t)[m] = Held(u)[m] + g[m]
    <2>1. Held(t) \in [Ids -> Nat] /\ Held(u) \in [Ids -> Nat]
      BY <1>1, TreeFields
    <2>2. ASSUME NEW m \in Ids PROVE Held(t)[m] = Held(u)[m] + g[m]
      <3>1. t.node[m].reservation \in Nat
        BY TreeFields
      <3>2. g[m] = IF m \in S THEN t.node[m].reservation ELSE 0
        BY DEF Given
      <3>3. u.node[m].reservation = IF m \in S THEN 0 ELSE t.node[m].reservation
        BY DEF Frees
      <3>4. Held(t)[m] = t.node[m].reservation /\ Held(u)[m] = u.node[m].reservation
        BY DEF Held
      <3> HIDE DEF g
      <3> QED
        BY <3>1, <3>2, <3>3, <3>4
    <2> QED
      BY <2>1, <2>2
  <1>4. SumFunction(Held(u)) \in Nat /\ SumFunction(Held(t)) = SumFunction(Held(u)) + total
    <2> HIDE DEF g
    <2>1. IsFiniteSet(Ids)
      BY Constants
    <2> QED
      BY <1>2, <1>3, <2>1, SumPlus
  <1>5. u.reserved = Spend(t.reserved, total) /\ u.rootBudget = t.rootBudget + total
    BY DEF Frees
  <1>6. t.reserved \in Nat /\ t.rootBudget \in Nat /\ TreeBudget \in Nat /\ t.spent \in Nat
    BY TreeFields, Constants
  <1>7. ASSUME NEW m \in Ids
        PROVE  /\ Below(t, m) \in Nat /\ Below(u, m) \in Nat
               /\ u.node[m].childBudget \in Nat /\ t.node[m].childBudget \in Nat
               /\ u.node[m].childBudget + Below(u, m) = t.node[m].childBudget + Below(t, m)
               /\ u.node[m].childBudget + OfChild(u, m) = t.node[m].childBudget + OfChild(t, m)
    <2>1. CASE m < MaxDepth
      <3>1. m + 1 \in Ids
        BY <2>1, Constants
      <3>2. u.node[m].childBudget = t.node[m].childBudget + g[m + 1]
        BY <2>1 DEF Frees
      <3>3. /\ t.node[m + 1].reservation = u.node[m + 1].reservation + g[m + 1]
            /\ t.node[m + 1].usage = u.node[m + 1].usage
        BY <1>3, <3>1 DEF Held, Frees
      <3>4. /\ g[m + 1] \in Nat /\ t.node[m].childBudget \in Nat /\ u.node[m + 1].reservation \in Nat
            /\ t.node[m + 1].reservation \in Nat /\ u.node[m + 1].usage \in Nat
        BY <1>1, <1>2, <3>1, TreeFields
      <3>5. Below(t, m) = t.node[m + 1].reservation /\ Below(u, m) = u.node[m + 1].reservation
        BY <2>1 DEF Below
      <3>6. /\ OfChild(t, m) = t.node[m + 1].usage + t.node[m + 1].reservation
            /\ OfChild(u, m) = u.node[m + 1].usage + u.node[m + 1].reservation
        BY <2>1 DEF OfChild
      <3> HIDE DEF g
      <3> QED
        BY <3>2, <3>3, <3>4, <3>5, <3>6
    <2>2. CASE ~ (m < MaxDepth)
      <3>1. u.node[m].childBudget = t.node[m].childBudget + 0 /\ t.node[m].childBudget \in Nat
        BY <2>2, TreeFields DEF Frees
      <3> QED
        BY <2>2, <3>1 DEF Below, OfChild
    <2> QED
      BY <2>1, <2>2
  <1>8. Covered(t) => Covered(u)
    <2>1. SUFFICES ASSUME Covered(t) PROVE Covered(u)
      OBVIOUS
    <2>2. t.rootBudget + t.reserved <= TreeBudget /\ t.rootBudget + SumFunction(Held(t)) <= TreeBudget
      BY <2>1 DEF Covered
    <2> HIDE DEF total
    <2>3. u.rootBudget + SumFunction(Held(u)) <= TreeBudget
      BY <1>2, <1>4, <1>5, <1>6, <2>2
    <2>4. u.rootBudget + u.reserved <= TreeBudget
      BY <1>2, <1>4, <1>5, <1>6, <2>2 DEF Spend
    <2>5. \A m \in Ids : u.node[m].childLimit = t.node[m].childLimit
      BY DEF Frees
    <2>6. \A m \in Ids : u.node[m].childBudget + Below(u, m) <= u.node[m].childLimit
      BY <1>7, <2>1, <2>5 DEF Covered
    <2> QED
      BY <2>3, <2>4, <2>6 DEF Covered
  <1>9. Overrun(u) = Overrun(t)
    BY DEF Frees, Overrun
  <1>10. Used(u) = Used(t)
    BY DEF Frees, Used
  <1>11. Books(t) => Books(u)
    <2>1. SUFFICES ASSUME Books(t) PROVE Books(u)
      OBVIOUS
    <2>2. SumFunction(Used(u)) = u.spent
      BY <1>10, <2>1 DEF Books, Frees
    <2> HIDE DEF total
    <2>3. SumFunction(Held(u)) = u.reserved
      BY <1>2, <1>4, <1>5, <1>6, <2>1 DEF Books, Spend
    <2>4. Overrun(u) \/ u.rootBudget + u.spent + u.reserved = TreeBudget
      <3>1. SumFunction(Held(t)) = t.reserved
        BY <2>1 DEF Books
      <3>2. Overrun(t) \/ t.rootBudget + t.spent + t.reserved = TreeBudget
        BY <2>1 DEF Books
      <3>3. u.spent = t.spent
        BY DEF Frees
      <3> QED
        BY <1>2, <1>4, <1>5, <1>6, <1>9, <2>3, <3>1, <3>2, <3>3
    <2>5. ASSUME NEW m \in Ids
          PROVE  /\ u.node[m].budget <= u.node[m].limit
                 /\ AddsUp(u, u.node[m].budget + u.node[m].usage, u.node[m].limit)
                 /\ AddsUp(u, u.node[m].childBudget + OfChild(u, m), u.node[m].childLimit)
      <3>1. /\ u.node[m].budget = t.node[m].budget /\ u.node[m].limit = t.node[m].limit
            /\ u.node[m].usage = t.node[m].usage /\ u.node[m].childLimit = t.node[m].childLimit
        BY DEF Frees
      <3>2. /\ t.node[m].budget <= t.node[m].limit
            /\ AddsUp(t, t.node[m].budget + t.node[m].usage, t.node[m].limit)
            /\ AddsUp(t, t.node[m].childBudget + OfChild(t, m), t.node[m].childLimit)
        BY <2>1 DEF Books
      <3>3. u.node[m].childBudget + OfChild(u, m) = t.node[m].childBudget + OfChild(t, m)
        BY <1>7
      <3> QED
        BY <1>9, <3>1, <3>2, <3>3 DEF AddsUp
    <2> QED
      BY <2>2, <2>3, <2>4, <2>5 DEF Books
  <1>12. \A m \in Ids : u.node[m].status = "absent" <=> t.node[m].status = "absent"
    BY DEF Frees
  <1>13. Nodes(u) = Nodes(t)
    BY <1>12 DEF Nodes
  <1>14. Line(t) => Line(u)
    <2>1. SUFFICES ASSUME Line(t) PROVE Line(u)
      OBVIOUS
    <2>2. ASSUME NEW m \in Ids, u.node[m].status = "absent" PROVE Blank(u.node[m])
      <3>1. t.node[m].status = "absent"
        BY <1>12, <2>2
      <3>2. Blank(t.node[m])
        BY <2>1, <3>1 DEF Line
      <3>3. m + 1 \in Ids => t.node[m + 1].status = "absent"
        BY <2>1, <3>1, Constants DEF Line, Root
      <3>4. m < MaxDepth => g[m + 1] = 0
        BY <2>1, <3>3, Constants DEF Given, Line, Blank
      <3>5. u.node[m].childBudget = t.node[m].childBudget + (IF m < MaxDepth THEN g[m + 1] ELSE 0)
        BY DEF Frees
      <3>6. u.node[m].childBudget = 0
        <4> HIDE DEF g
        <4> QED
          BY <3>2, <3>4, <3>5 DEF Blank
      <3> QED
        BY <2>2, <3>1, <3>2, <3>6 DEF Blank, Frees
    <2> QED
      BY <1>12, <2>1, <2>2, Constants DEF Line
  <1> QED
    BY <1>8, <1>11, <1>13, <1>14

\* Ending live children.
LEMMA FailsKeep ==
    ASSUME NEW t \in Trees, NEW n \in Ids, NEW S, NEW reason, NEW u, Fails(t, u, S, reason),
           \A m \in S : m \in Ids /\ m # n /\ m # Root /\ t.node[m].status \in Live,
           reason \in {"tree_budget_exhausted", "terminal_failed"}
    PROVE  Keeps(t, u, n) /\ AtNode(t, u, n)
  <1>1. \A m \in Ids : u.node[m].status = "absent" <=> t.node[m].status = "absent"
    BY DEF Fails, Live
  <1>2. Frees(t, u, S)
    BY <1>1 DEF Fails, Frees, Live
  <1>3. /\ Covered(t) => Covered(u)
        /\ Books(t) => Books(u)
        /\ Line(t) => Line(u)
        /\ Nodes(u) = Nodes(t)
    BY <1>2, FreesKeep
  <1>4. ASSUME NEW m \in Ids, m # n PROVE Falls(t.node[m], u.node[m], m)
    BY <1>4 DEF Fails, Falls
  <1>5. ASSUME NEW m \in Ids, m # n, Standing(t, m) PROVE Standing(u, m)
    BY <1>3, <1>5 DEF Fails, Standing, Live, Terminal
  <1>6. Moves(t, u, n)
    BY <1>1, <1>3, <1>4 DEF Moves, Fails
  <1>7. AtNode(t, u, n)
    BY DEF Fails, AtNode
  <1> QED
    BY <1>3, <1>5, <1>6, <1>7 DEF Keeps, Fails

\* Ending the children of a tree but one.
LEMMA TerminalizeKeeps ==
    ASSUME NEW t \in Trees, NEW n \in Ids, NEW reason,
           reason \in {"tree_budget_exhausted", "terminal_failed"}
    PROVE  /\ Keeps(t, Terminalize(t, n, reason), n) /\ AtNode(t, Terminalize(t, n, reason), n)
           /\ Terminalize(t, n, reason).state = t.state
           /\ \A m \in Ids : m # n /\ m # Root => Terminalize(t, n, reason).node[m].status \notin Live
  <1> DEFINE S == {m \in Nodes(t) \ {Root, n} : t.node[m].status \in Live}
             u == Terminalize(t, n, reason)
  <1>1. Fails(t, u, S, reason)
    BY FailFields DEF Terminalize, Reasons
  <1>2. \A m \in S : m \in Ids /\ m # n /\ m # Root /\ t.node[m].status \in Live
    BY DEF Nodes
  <1>3. \A m \in Ids : m # n /\ m # Root => m \in S \/ t.node[m].status \notin Live
    BY DEF Nodes, Live
  <1> HIDE DEF S, u
  <1>4. Keeps(t, u, n) /\ AtNode(t, u, n)
    BY <1>1, <1>2, FailsKeep
  <1>5. u.state = t.state
    BY <1>1 DEF Fails
  <1>6. \A m \in Ids : m # n /\ m # Root => u.node[m].status \notin Live
    BY <1>1, <1>3 DEF Fails, Live
  <1> QED
    BY <1>4, <1>5, <1>6 DEF u

\* Setting the state of a tree.
LEMMA StateMarks ==
    ASSUME NEW t \in Trees, NEW n \in Ids, NEW s \in States,
           s # "absent", t.state \in Ended => s \in Ended
    PROVE  /\ Marks(t, [t EXCEPT !.state = s], n) /\ AtNode(t, [t EXCEPT !.state = s], n)
           /\ [t EXCEPT !.state = s].state = s
           /\ [t EXCEPT !.state = s].node = t.node
  <1> DEFINE u == [t EXCEPT !.state = s]
  <1>1. /\ u \in Trees /\ u.state = s /\ u.rootBudget = t.rootBudget /\ u.spent = t.spent
        /\ u.reserved = t.reserved /\ u.receipts = t.receipts /\ u.node = t.node
    BY DEF Trees
  <1> HIDE DEF u
  <1> QED
    BY <1>1 DEF Marks, AtNode, u

\* Ending the tree when its nodes have ended.
LEMMA FinalizeKeeps ==
    ASSUME NEW t \in Trees, NEW n \in Ids, t.node[n].status # "absent",
           NEW F, F = {} \/ (F = {n} /\ t.node[n].status \notin Live)
    PROVE  LET u == Finalize(t, F)
           IN  /\ Keeps(t, u, n) /\ AtNode(t, u, n)
               /\ t.state \in Ended =>
                    /\ u.state = t.state
                    /\ \A m \in Ids : u.node[m].status = t.node[m].status
               /\ t.state \notin Ended =>
                    /\ \A m \in Ids : u.node[m].status =
                          IF F # {} /\ n < m /\ t.node[m].status \in Live THEN "failed" ELSE t.node[m].status
                    /\ u.state = IF \A m \in Ids : u.node[m].status \in Terminal \cup {"absent"}
                                 THEN (IF \A m \in Ids : u.node[m].status \in {"completed", "absent"}
                                       THEN "completed" ELSE "terminal_failed")
                                 ELSE t.state
  <1> DEFINE S == {m \in Nodes(t) : t.node[m].status \in Live /\ \E f \in F : f < m}
             cut == IF F = {} THEN t ELSE FailAndRelease(t, S, "terminal_failed")
             s == IF \A m \in Nodes(cut) : cut.node[m].status = "completed"
                  THEN "completed" ELSE "terminal_failed"
             all == \A m \in Nodes(cut) : cut.node[m].status \in Terminal
             u == Finalize(t, F)
  <1>1. CASE t.state \in Ended
    <2>1. u = t
      BY <1>1 DEF Finalize
    <2> QED
      BY <1>1, <2>1, KeepsNothing
  <1>2. CASE t.state \notin Ended
    <2>1. u = IF all THEN [cut EXCEPT !.state = s] ELSE cut
      BY <1>2 DEF Finalize
    <2>2. /\ cut \in Trees /\ Keeps(t, cut, n) /\ AtNode(t, cut, n) /\ cut.state = t.state
          /\ \A m \in Ids : cut.node[m].status =
                IF F # {} /\ n < m /\ t.node[m].status \in Live THEN "failed" ELSE t.node[m].status
      <3>1. CASE F = {}
        BY <3>1, KeepsNothing
      <3>2. CASE F = {n}
        <4>1. Fails(t, cut, S, "terminal_failed")
          BY <3>2, FailFields DEF Reasons
        <4>2. \A m \in S : m \in Ids /\ m # n /\ m # Root /\ t.node[m].status \in Live
          BY <3>2, Constants DEF Nodes, Root
        <4>3. \A m \in Ids : m \in S <=> F # {} /\ n < m /\ t.node[m].status \in Live
          BY <3>2 DEF Nodes, Live
        <4> HIDE DEF S, cut
        <4>4. Keeps(t, cut, n) /\ AtNode(t, cut, n)
          BY <4>1, <4>2, FailsKeep
        <4> QED
          BY <4>1, <4>3, <4>4 DEF Fails
      <3> QED
        BY <3>1, <3>2
    <2>3. all <=> \A m \in Ids : cut.node[m].status \in Terminal \cup {"absent"}
      BY DEF Nodes
    <2>4. s = IF \A m \in Ids : cut.node[m].status \in {"completed", "absent"}
              THEN "completed" ELSE "terminal_failed"
      BY DEF Nodes
    <2>5. s \in States /\ s \in Ended /\ s # "absent"
      BY DEF States, Ended
    <2> HIDE DEF cut, s, all
    <2>6. CASE all
      <3>1. Marks(cut, u, n) /\ AtNode(cut, u, n) /\ u.state = s /\ u.node = cut.node
        BY <2>1, <2>2, <2>5, <2>6, StateMarks
      <3>2. cut.node[n].status # "absent"
        BY <2>2 DEF AtNode
      <3>3. Keeps(cut, u, n)
        BY <2>2, <3>1, <3>2, MarksKeep
      <3>4. Keeps(t, u, n) /\ AtNode(t, u, n)
        BY <2>2, <3>1, <3>3, KeepsCompose, AtCompose
      <3> HIDE DEF u
      <3> QED
        BY <1>2, <2>2, <2>3, <2>4, <2>6, <3>1, <3>4 DEF u
    <2>7. CASE ~ all
      <3>1. u = cut
        BY <2>1, <2>7
      <3> HIDE DEF u
      <3> QED
        BY <1>2, <2>2, <2>3, <2>7, <3>1 DEF u
    <2> QED
      BY <2>6, <2>7
  <1> QED
    BY <1>1, <1>2

\* Giving back what one node holds.
LEMMA ReleaseKeeps ==
    ASSUME NEW t \in Trees, NEW n \in Ids, t.node[n].status # "absent"
    PROVE  LET u == Release(t, n)
           IN  /\ Keeps(t, u, n) /\ u.state = t.state
               /\ \A m \in Ids : u.node[m].status = t.node[m].status
               /\ u.node[n].lease = t.node[n].lease /\ u.node[n].reason = t.node[n].reason
               /\ u.node[n].retries = t.node[n].retries /\ u.node[n].reservation = 0
  <1> DEFINE left == t.node[n].reservation
             u == Release(t, n)
             x == [t.node[n] EXCEPT !.reservation = 0]
             parent == [t.node[n - 1] EXCEPT !.childBudget = @ + left]
             nd == [m \in Ids |-> IF m = n THEN x ELSE IF n # Root /\ m = n - 1 THEN parent ELSE t.node[m]]
  <1>1. left \in Nat /\ t.reserved \in Nat /\ t.rootBudget \in Nat
    BY TreeFields
  <1>2. n \in Nat /\ n - 1 # n
    BY Constants
  <1>3. x \in NodeRecs /\ (n # Root => n - 1 \in Ids /\ parent \in NodeRecs)
    <2>1. t.node[n] \in NodeRecs /\ (n # Root => n - 1 \in Ids /\ t.node[n - 1] \in NodeRecs)
      BY TreeFields, Constants
    <2>2. x \in NodeRecs
      BY <2>1 DEF NodeRecs
    <2>3. ASSUME n # Root PROVE parent \in NodeRecs
      <3>1. t.node[n - 1].childBudget + left \in Nat
        BY <1>1, <2>1, <2>3, TreeFields
      <3> QED
        BY <2>1, <2>3, <3>1 DEF NodeRecs
    <2> QED
      BY <2>1, <2>2, <2>3
  <1>4. nd \in [Ids -> NodeRecs]
    BY <1>3, TreeFields
  <1>5. u = [t EXCEPT !.reserved = Spend(@, left), !.rootBudget = @ + left, !.node = nd]
    BY <1>2, <1>3, TreeFields, ZenonT(60) DEF Release, Trees, Root
  <1>6. Spend(t.reserved, left) \in Nat /\ t.rootBudget + left \in Nat
    <2> HIDE DEF left
    <2>1. Spend(t.reserved, left) \in Nat
      BY <1>1, SpendIs
    <2> QED
      BY <1>1, <2>1
  <1>7. /\ u \in Trees /\ u.state = t.state /\ u.spent = t.spent /\ u.receipts = t.receipts
        /\ u.reserved = Spend(t.reserved, left) /\ u.rootBudget = t.rootBudget + left /\ u.node = nd
    <2> HIDE DEF nd, left
    <2> QED
      BY <1>4, <1>5, <1>6 DEF Trees
  <1> HIDE DEF u
  <1>8. ASSUME NEW m \in Ids
        PROVE  /\ u.node[m].status = t.node[m].status /\ u.node[m].lease = t.node[m].lease
               /\ u.node[m].reason = t.node[m].reason /\ u.node[m].retries = t.node[m].retries
               /\ u.node[m].children = t.node[m].children
               /\ u.node[m].budget = t.node[m].budget /\ u.node[m].limit = t.node[m].limit
               /\ u.node[m].childLimit = t.node[m].childLimit /\ u.node[m].usage = t.node[m].usage
               /\ u.node[m].reservation = IF m = n THEN 0 ELSE t.node[m].reservation
               /\ u.node[m].childBudget =
                    IF n # Root /\ m = n - 1 THEN t.node[m].childBudget + left ELSE t.node[m].childBudget
    <2>1. t.node[m] \in NodeRecs /\ t.node[n] \in NodeRecs /\ u.node[m] = nd[m]
      BY <1>7, TreeFields
    <2> HIDE DEF left
    <2>2. CASE m = n
      BY <1>2, <2>1, <2>2 DEF NodeRecs
    <2>3. CASE n # Root /\ m = n - 1
      BY <1>2, <2>1, <2>3 DEF NodeRecs
    <2>4. CASE m # n /\ ~ (n # Root /\ m = n - 1)
      BY <2>1, <2>4
    <2> QED
      BY <2>2, <2>3, <2>4
  <1>9. SumFunction(Given(t, {n})) = left /\ Given(t, {n}) \in [Ids -> Nat]
    <2>1. Given(t, {n}) \in [Ids -> Nat]
      BY GivenSum
    <2>2. \A m \in Ids : m # n => Given(t, {n})[m] = 0
      BY DEF Given
    <2>3. Given(t, {n})[n] = left
      BY DEF Given
    <2>4. IsFiniteSet(Ids)
      BY Constants
    <2>5. SumFunction(Given(t, {n})) = Given(t, {n})[n]
      BY <2>1, <2>2, <2>4, SumOne
    <2> QED
      BY <2>1, <2>3, <2>5
  <1>10. ASSUME NEW m \in Ids
         PROVE  u.node[m].childBudget =
                  t.node[m].childBudget + (IF m < MaxDepth THEN Given(t, {n})[m + 1] ELSE 0)
    <2>1. t.node[m].childBudget \in Nat /\ m \in Nat /\ (m < MaxDepth <=> m + 1 \in Ids)
      BY TreeFields, Constants
    <2>2. m + 1 \in Ids => Given(t, {n})[m + 1] = IF m + 1 = n THEN left ELSE 0
      BY DEF Given
    <2>3. m + 1 = n <=> n # Root /\ m = n - 1
      BY <1>2, <2>1 DEF Root
    <2> HIDE DEF left
    <2>4. CASE m + 1 = n
      BY <1>8, <2>1, <2>2, <2>3, <2>4
    <2>5. CASE m + 1 # n
      BY <1>8, <2>1, <2>2, <2>3, <2>5
    <2> QED
      BY <2>4, <2>5
  <1>11. Frees(t, u, {n})
    BY <1>7, <1>8, <1>9, <1>10 DEF Frees
  <1>12. /\ Covered(t) => Covered(u)
         /\ Books(t) => Books(u)
         /\ Line(t) => Line(u)
         /\ Nodes(u) = Nodes(t)
    BY <1>11, FreesKeep
  <1>13. Moves(t, u, n)
    BY <1>7, <1>8, <1>12 DEF Moves, Falls
  <1>14. \A m \in Ids : m # n /\ Standing(t, m) => Standing(u, m)
    BY <1>8, <1>12 DEF Standing
  <1>15. Keeps(t, u, n)
    BY <1>7, <1>8, <1>12, <1>13, <1>14 DEF Keeps
  <1> QED
    BY <1>7, <1>8, <1>15 DEF u

-----------------------------------------------------------------------------
(* Charging usage. *)

\* x is charged to node n under the new receipt r.
Charges(t, c, n, r, x) ==
    /\ c \in Trees
    /\ t.state \in Ended => c.state \in Ended
    /\ t.state # "absent" => c.state # "absent"
    /\ \E w \in BOOLEAN : /\ c.receipts = [t.receipts EXCEPT ![r] = Receipt(w, x)]
                          /\ w => t.spent + x + c.reserved <= TreeBudget
    /\ c.spent = t.spent + x
    /\ c.reserved = IF n = Root THEN t.reserved ELSE Spend(t.reserved, x)
    /\ c.rootBudget = IF n = Root THEN Spend(t.rootBudget, x) ELSE t.rootBudget
    /\ \A m \in Ids :
          /\ c.node[m].limit = t.node[m].limit
          /\ c.node[m].childBudget = t.node[m].childBudget
          /\ c.node[m].childLimit = t.node[m].childLimit
          /\ c.node[m].children = t.node[m].children
          /\ c.node[m].status = t.node[m].status /\ c.node[m].lease = t.node[m].lease
          /\ c.node[m].reason = t.node[m].reason /\ c.node[m].retries = t.node[m].retries
          /\ m # n => /\ c.node[m].budget = t.node[m].budget /\ c.node[m].usage = t.node[m].usage
                      /\ c.node[m].reservation = t.node[m].reservation
    /\ c.node[n].budget = Spend(t.node[n].budget, x)
    /\ c.node[n].usage = t.node[n].usage + x
    /\ c.node[n].reservation =
          IF n = Root THEN t.node[n].reservation ELSE Spend(t.node[n].reservation, x)

\* A live node has in reserve what it may spend; usage that fits is within that.
Fit(t, n, r, x) ==
    \/ t.receipts[r].known
    \/ /\ x <= t.node[n].budget
       /\ t.node[n].reservation = IF n = Root THEN 0 ELSE t.node[n].budget

\* u is t after usage x of node n under r: charged, or not when r is known.
Settles(t, u, n, r, x) ==
    /\ Moves(t, u, n)
    /\ t.receipts[r].known => u.receipts = t.receipts
    /\ ~ t.receipts[r].known =>
          \E w \in BOOLEAN : u.receipts = [t.receipts EXCEPT ![r] = Receipt(w, x)]
    /\ \A m \in Ids : u.node[m].usage =
          t.node[m].usage + (IF m = n /\ ~ t.receipts[r].known THEN x ELSE 0)
    /\ Books(t) /\ Fit(t, n, r, x) => Books(u)
    /\ \A m \in Ids : m # n /\ Standing(t, m) => Standing(u, m)
    /\ u.node[n].children = t.node[n].children
    /\ u.node[n].budget = IF t.receipts[r].known THEN t.node[n].budget ELSE Spend(t.node[n].budget, x)

\* Charging leaves the tree covered, and a line.
LEMMA ChargesMove ==
    ASSUME NEW t \in Trees, NEW n \in Ids, t.node[n].status # "absent",
           NEW r \in ReceiptIds, NEW x \in Nat, NEW c, Charges(t, c, n, r, x)
    PROVE  Moves(t, c, n) /\ \A m \in Ids : m # n /\ Standing(t, m) => Standing(c, m)
  <1>1. c \in Trees
    BY DEF Charges
  <1>2. \A m \in Ids : c.node[m].reservation <= t.node[m].reservation
    <2>1. t.node[n].reservation \in Nat
      BY TreeFields
    <2>2. Spend(t.node[n].reservation, x) <= t.node[n].reservation
      BY <2>1, SpendIs
    <2> QED
      BY <2>1, <2>2, TreeFields DEF Charges
  <1>3. /\ SumFunction(Held(c)) <= SumFunction(Held(t))
        /\ SumFunction(Held(c)) \in Nat /\ SumFunction(Held(t)) \in Nat
    <2>1. Held(c) \in [Ids -> Nat] /\ Held(t) \in [Ids -> Nat] /\ IsFiniteSet(Ids)
      BY <1>1, TreeFields, Constants
    <2>2. \A m \in Ids : Held(c)[m] <= Held(t)[m]
      BY <1>2 DEF Held
    <2> QED
      BY <2>1, <2>2, SumLess
  <1>4. /\ c.rootBudget <= t.rootBudget /\ c.reserved <= t.reserved
        /\ t.rootBudget \in Nat /\ c.rootBudget \in Nat /\ t.reserved \in Nat /\ c.reserved \in Nat
    <2>1. t.rootBudget \in Nat /\ c.rootBudget \in Nat /\ t.reserved \in Nat /\ c.reserved \in Nat
      BY <1>1, TreeFields
    <2>2. Spend(t.rootBudget, x) <= t.rootBudget /\ Spend(t.reserved, x) <= t.reserved
      BY <2>1, SpendIs
    <2> QED
      BY <2>1, <2>2 DEF Charges
  <1>5. ASSUME Covered(t) PROVE Covered(c)
    <2>1. c.rootBudget + c.reserved <= TreeBudget /\ c.rootBudget + SumFunction(Held(c)) <= TreeBudget
      BY <1>3, <1>4, <1>5, Constants DEF Covered
    <2>2. ASSUME NEW m \in Ids PROVE c.node[m].childBudget + Below(c, m) <= c.node[m].childLimit
      <3>1. /\ Below(c, m) <= Below(t, m) /\ Below(c, m) \in Nat /\ Below(t, m) \in Nat
        BY <1>1, <1>2, TreeFields, Constants DEF Below
      <3>2. /\ t.node[m].childBudget + Below(t, m) <= t.node[m].childLimit
            /\ t.node[m].childBudget \in Nat /\ t.node[m].childLimit \in Nat
            /\ c.node[m].childBudget = t.node[m].childBudget
            /\ c.node[m].childLimit = t.node[m].childLimit
        BY <1>5, TreeFields DEF Covered, Charges
      <3> QED
        BY <3>1, <3>2
    <2> QED
      BY <2>1, <2>2 DEF Covered
  <1>6. ASSUME Line(t) PROVE Line(c)
    BY <1>6, Constants, SMTT(30) DEF Line, Charges, Blank
  <1>7. Nodes(c) = Nodes(t)
    BY DEF Nodes, Charges
  <1>8. ASSUME NEW m \in Ids, m # n, Standing(t, m) PROVE Standing(c, m)
    BY <1>7, <1>8 DEF Standing, Charges
  <1>9. Moves(t, c, n)
    BY <1>1, <1>5, <1>6 DEF Moves, Charges, Falls
  <1> QED
    BY <1>8, <1>9

\* Charging what fits keeps the books right.
LEMMA ChargesBooks ==
    ASSUME NEW t \in Trees, NEW n \in Ids, NEW r \in ReceiptIds, NEW x \in Nat, NEW c,
           Charges(t, c, n, r, x), ~ t.receipts[r].known, Books(t), Fit(t, n, r, x)
    PROVE  Books(c)
  <1>1. c \in Trees
    BY DEF Charges
  <1>2. /\ x <= t.node[n].budget /\ t.node[n].budget \in Nat /\ t.node[n].usage \in Nat
        /\ t.node[n].reservation = IF n = Root THEN 0 ELSE t.node[n].budget
    BY TreeFields DEF Fit
  <1>3. PICK w \in BOOLEAN : /\ c.receipts = [t.receipts EXCEPT ![r] = Receipt(w, x)]
                             /\ w => t.spent + x + c.reserved <= TreeBudget
    BY DEF Charges
  <1>4. t.receipts \in [ReceiptIds -> ReceiptRecs]
    BY TreeFields
  <1>5. Overrun(t) => Overrun(c)
    <2>1. SUFFICES ASSUME Overrun(t) PROVE Overrun(c)
      OBVIOUS
    <2>2. PICK q \in ReceiptIds : t.receipts[q].known /\ ~ t.receipts[q].within
      BY <2>1 DEF Overrun
    <2>3. c.receipts[q] = t.receipts[q]
      BY <1>3, <1>4, <2>2
    <2> QED
      BY <2>2, <2>3 DEF Overrun
  <1>6. ~ w => Overrun(c)
    <2>1. SUFFICES ASSUME ~ w PROVE Overrun(c)
      OBVIOUS
    <2>2. c.receipts[r] = Receipt(w, x)
      BY <1>3, <1>4
    <2> QED
      BY <2>1, <2>2 DEF Overrun, Receipt
  <1>7. /\ t.spent \in Nat /\ t.reserved \in Nat /\ t.rootBudget \in Nat /\ TreeBudget \in Nat
        /\ SumFunction(Used(t)) = t.spent /\ SumFunction(Held(t)) = t.reserved
    BY TreeFields, Constants DEF Books
  <1>8. SumFunction(Used(c)) = c.spent
    <2>1. Used(t) \in [Ids -> Nat] /\ Used(c) \in [Ids -> Nat] /\ IsFiniteSet(Ids)
      BY <1>1, TreeFields, Constants
    <2>2. \A m \in Ids : m # n => Used(t)[m] = Used(c)[m]
      BY DEF Used, Charges
    <2>3. Used(t)[n] = t.node[n].usage /\ Used(c)[n] = t.node[n].usage + x
      BY DEF Used, Charges
    <2>4. /\ SumFunction(Used(t)) \in Nat /\ SumFunction(Used(c)) \in Nat
          /\ SumFunction(Used(t)) - Used(t)[n] = SumFunction(Used(c)) - Used(c)[n]
      BY <2>1, <2>2, SumChange
    <2>5. c.spent = t.spent + x
      BY DEF Charges
    <2> QED
      BY <1>2, <1>7, <2>3, <2>4, <2>5
  <1>9. c.node[n].budget = t.node[n].budget - x
    BY <1>2, SpendIs DEF Charges
  <1>10. ASSUME n # Root
         PROVE  /\ c.node[n].reservation = t.node[n].reservation - x /\ x <= t.reserved
                /\ c.reserved = t.reserved - x /\ SumFunction(Held(c)) = c.reserved
    <2>1. Held(t) \in [Ids -> Nat] /\ Held(c) \in [Ids -> Nat] /\ IsFiniteSet(Ids)
      BY <1>1, TreeFields, Constants
    <2>2. \A m \in Ids : m # n => Held(t)[m] = Held(c)[m]
      BY DEF Held, Charges
    <2>3. c.node[n].reservation = t.node[n].reservation - x
      BY <1>2, <1>10, SpendIs, SMTT(30) DEF Charges
    <2>4. Held(t)[n] = t.node[n].reservation /\ Held(c)[n] = c.node[n].reservation
      BY DEF Held
    <2>5. /\ SumFunction(Held(t)) \in Nat /\ SumFunction(Held(c)) \in Nat
          /\ Held(t)[n] <= SumFunction(Held(t))
          /\ SumFunction(Held(t)) - Held(t)[n] = SumFunction(Held(c)) - Held(c)[n]
      BY <2>1, <2>2, SumChange
    <2>6. x <= t.reserved
      BY <1>2, <1>7, <1>10, <2>4, <2>5
    <2>7. c.reserved = t.reserved - x
      BY <1>7, <1>10, <2>6, SpendIs DEF Charges
    <2> QED
      BY <1>2, <1>7, <1>10, <2>3, <2>4, <2>5, <2>6, <2>7
  <1>11. ASSUME n = Root
         PROVE  c.reserved = t.reserved /\ SumFunction(Held(c)) = c.reserved
    <2>1. Held(c) = Held(t)
      BY <1>11 DEF Held, Charges
    <2> QED
      BY <1>7, <1>11, <2>1 DEF Charges
  <1>12. Overrun(c) \/ c.rootBudget + c.spent + c.reserved = TreeBudget
    <2>1. SUFFICES ASSUME ~ Overrun(c) PROVE c.rootBudget + c.spent + c.reserved = TreeBudget
      OBVIOUS
    <2>2. t.rootBudget + t.spent + t.reserved = TreeBudget
      BY <1>5, <2>1 DEF Books
    <2>3. t.spent + x + c.reserved <= TreeBudget
      BY <1>3, <1>6, <2>1
    <2>4. CASE n = Root
      <3>1. x <= t.rootBudget
        BY <1>7, <1>11, <2>2, <2>3, <2>4
      <3>2. c.rootBudget = t.rootBudget - x /\ c.spent = t.spent + x
        BY <1>7, <2>4, <3>1, SpendIs DEF Charges
      <3> QED
        BY <1>7, <1>11, <2>2, <2>4, <3>2
    <2>5. CASE n # Root
      <3>1. c.rootBudget = t.rootBudget /\ c.spent = t.spent + x
        BY <2>5 DEF Charges
      <3> QED
        BY <1>7, <1>10, <2>2, <2>5, <3>1
    <2> QED
      BY <2>4, <2>5
  <1>13. ASSUME NEW m \in Ids
         PROVE  /\ c.node[m].budget <= c.node[m].limit
                /\ AddsUp(c, c.node[m].budget + c.node[m].usage, c.node[m].limit)
                /\ AddsUp(c, c.node[m].childBudget + OfChild(c, m), c.node[m].childLimit)
    <2>1. /\ t.node[m].budget <= t.node[m].limit
          /\ AddsUp(t, t.node[m].budget + t.node[m].usage, t.node[m].limit)
          /\ AddsUp(t, t.node[m].childBudget + OfChild(t, m), t.node[m].childLimit)
      BY DEF Books
    <2>2. /\ c.node[m].limit = t.node[m].limit /\ c.node[m].childLimit = t.node[m].childLimit
          /\ c.node[m].childBudget = t.node[m].childBudget
          /\ t.node[m].budget \in Nat /\ t.node[m].limit \in Nat /\ t.node[m].usage \in Nat
      BY TreeFields DEF Charges
    <2>3. /\ c.node[m].budget <= t.node[m].budget /\ c.node[m].budget \in Nat
          /\ c.node[m].budget + c.node[m].usage = t.node[m].budget + t.node[m].usage
      <3>1. CASE m = n
        <4>1. c.node[n].usage = t.node[n].usage + x
          BY DEF Charges
        <4> QED
          BY <1>2, <1>9, <3>1, <4>1
      <3>2. CASE m # n
        BY <2>2, <3>2 DEF Charges
      <3> QED
        BY <3>1, <3>2
    <2>4. OfChild(c, m) = OfChild(t, m)
      <3>1. CASE m < MaxDepth
        <4>1. m + 1 \in Ids
          BY <3>1, Constants
        <4>2. CASE m + 1 = n
          <5>1. n # Root
            BY <4>2, Constants DEF Root
          <5>2. /\ c.node[n].usage = t.node[n].usage + x
                /\ c.node[n].reservation = t.node[n].reservation - x /\ t.node[n].reservation \in Nat
            BY <1>10, <5>1, TreeFields DEF Charges
          <5>3. c.node[n].usage + c.node[n].reservation = t.node[n].usage + t.node[n].reservation
            BY <1>2, <5>2
          <5> QED
            BY <3>1, <4>2, <5>3 DEF OfChild
        <4>3. CASE m + 1 # n
          BY <3>1, <4>1, <4>3 DEF OfChild, Charges
        <4> QED
          BY <4>2, <4>3
      <3>2. CASE ~ (m < MaxDepth)
        BY <3>2 DEF OfChild
      <3> QED
        BY <3>1, <3>2
    <2>5. c.node[m].budget <= c.node[m].limit
      BY <2>1, <2>2, <2>3
    <2> QED
      BY <1>5, <2>1, <2>2, <2>3, <2>4, <2>5 DEF AddsUp
  <1> QED
    BY <1>8, <1>10, <1>11, <1>12, <1>13 DEF Books

\* A charge settles, a known receipt needs none, and what keeps the books may follow.
LEMMA ChargesSettle ==
    ASSUME NEW t \in Trees, NEW n \in Ids, t.node[n].status # "absent",
           NEW r \in ReceiptIds, NEW x \in Nat, NEW c, Charges(t, c, n, r, x),
           ~ t.receipts[r].known
    PROVE  Settles(t, c, n, r, x)
  <1>1. Moves(t, c, n) /\ \A m \in Ids : m # n /\ Standing(t, m) => Standing(c, m)
    BY ChargesMove
  <1>2. Books(t) /\ Fit(t, n, r, x) => Books(c)
    BY ChargesBooks
  <1>3. \A m \in Ids : c.node[m].usage =
          t.node[m].usage + (IF m = n /\ ~ t.receipts[r].known THEN x ELSE 0)
    BY TreeFields DEF Charges
  <1> QED
    BY <1>1, <1>2, <1>3 DEF Settles, Charges

\* A receipt that is known already is settled by leaving the tree alone.
LEMMA KnownSettles ==
    ASSUME NEW t \in Trees, NEW n \in Ids, NEW r \in ReceiptIds, NEW x, t.receipts[r].known
    PROVE  Settles(t, t, n, r, x)
  <1>1. Keeps(t, t, n)
    BY KeepsNothing
  <1>2. \A m \in Ids : t.node[m].usage = t.node[m].usage + 0
    BY TreeFields
  <1> QED
    BY <1>1, <1>2 DEF Settles, Keeps

\* What follows a charge without charging again does not undo it.
LEMMA SettlesCompose ==
    ASSUME NEW t, NEW n, NEW r, NEW x, NEW c, NEW u, Settles(t, c, n, r, x), Keeps(c, u, n)
    PROVE  Settles(t, u, n, r, x)
  <1>1. Moves(t, u, n)
    BY MovesCompose DEF Settles, Keeps
  <1> QED
    BY <1>1 DEF Settles, Keeps

\* The tree with x charged to n, as a record.
Paid(y, x, reserves) ==
    [y EXCEPT !.budget = Spend(@, x), !.usage = @ + x,
              !.reservation = IF reserves THEN Spend(@, x) ELSE @]

ChargedAs(t, n, r, x, w, s) ==
    [state |-> s,
     rootBudget |-> IF n = Root THEN Spend(t.rootBudget, x) ELSE t.rootBudget,
     spent |-> t.spent + x,
     reserved |-> IF n = Root THEN t.reserved ELSE Spend(t.reserved, x),
     node |-> [t.node EXCEPT ![n] = Paid(t.node[n], x, n # Root)],
     receipts |-> [t.receipts EXCEPT ![r] = Receipt(w, x)]]

\* Charging a node is one charge of the tree.
LEMMA ChargedFields ==
    ASSUME NEW t \in Trees, NEW n \in Ids, NEW r \in ReceiptIds, NEW x \in Nat,
           NEW w \in BOOLEAN, NEW s \in States, t.state \in Ended => s \in Ended,
           t.state # "absent" => s # "absent",
           w => t.spent + x + (IF n = Root THEN t.reserved ELSE Spend(t.reserved, x)) <= TreeBudget
    PROVE  LET c == ChargedAs(t, n, r, x, w, s)
           IN  Charges(t, c, n, r, x) /\ c.state = s
  <1> DEFINE c == ChargedAs(t, n, r, x, w, s)
             y == Paid(t.node[n], x, n # Root)
  <1>1. /\ c.state = s /\ c.rootBudget = (IF n = Root THEN Spend(t.rootBudget, x) ELSE t.rootBudget)
        /\ c.spent = t.spent + x
        /\ c.reserved = (IF n = Root THEN t.reserved ELSE Spend(t.reserved, x))
        /\ c.node = [t.node EXCEPT ![n] = y] /\ c.receipts = [t.receipts EXCEPT ![r] = Receipt(w, x)]
    BY DEF ChargedAs
  <1>2. /\ t.node[n] \in NodeRecs /\ t.node \in [Ids -> NodeRecs]
        /\ t.receipts \in [ReceiptIds -> ReceiptRecs]
        /\ t.rootBudget \in Nat /\ t.reserved \in Nat /\ t.spent \in Nat
        /\ t.node[n].budget \in Nat /\ t.node[n].usage \in Nat /\ t.node[n].reservation \in Nat
    BY TreeFields
  <1>3. /\ Spend(t.rootBudget, x) \in Nat /\ Spend(t.reserved, x) \in Nat
        /\ Spend(t.node[n].budget, x) \in Nat /\ Spend(t.node[n].reservation, x) \in Nat
    BY <1>2, SpendIs
  <1>4. t.spent + x \in Nat /\ t.node[n].usage + x \in Nat
    BY <1>2
  <1>5. /\ y \in NodeRecs
        /\ y.budget = Spend(t.node[n].budget, x) /\ y.usage = t.node[n].usage + x
        /\ y.reservation = (IF n = Root THEN t.node[n].reservation ELSE Spend(t.node[n].reservation, x))
        /\ y.limit = t.node[n].limit /\ y.childBudget = t.node[n].childBudget
        /\ y.childLimit = t.node[n].childLimit /\ y.children = t.node[n].children
        /\ y.status = t.node[n].status /\ y.lease = t.node[n].lease
        /\ y.reason = t.node[n].reason /\ y.retries = t.node[n].retries
    BY <1>2, <1>3, <1>4 DEF NodeRecs, Paid
  <1> HIDE DEF y
  <1>6. c.node \in [Ids -> NodeRecs] /\ c.node[n] = y /\ \A m \in Ids : m # n => c.node[m] = t.node[m]
    BY <1>1, <1>2, <1>5
  <1>7. c.receipts \in [ReceiptIds -> ReceiptRecs]
    BY <1>1, <1>2 DEF Receipt, ReceiptRecs
  <1>8. c = [state |-> c.state, rootBudget |-> c.rootBudget, spent |-> c.spent,
             reserved |-> c.reserved, node |-> c.node, receipts |-> c.receipts]
    BY DEF ChargedAs
  <1> HIDE DEF c
  <1>9. c \in Trees
    BY <1>1, <1>3, <1>4, <1>2, <1>6, <1>7, <1>8 DEF Trees
  <1>10. \A m \in Ids :
          /\ c.node[m].limit = t.node[m].limit
          /\ c.node[m].childBudget = t.node[m].childBudget
          /\ c.node[m].childLimit = t.node[m].childLimit
          /\ c.node[m].children = t.node[m].children
          /\ c.node[m].status = t.node[m].status /\ c.node[m].lease = t.node[m].lease
          /\ c.node[m].reason = t.node[m].reason /\ c.node[m].retries = t.node[m].retries
          /\ m # n => /\ c.node[m].budget = t.node[m].budget /\ c.node[m].usage = t.node[m].usage
                      /\ c.node[m].reservation = t.node[m].reservation
    BY <1>5, <1>6
  <1>11. Charges(t, c, n, r, x)
    BY <1>1, <1>5, <1>6, <1>9, <1>10 DEF Charges
  <1> QED
    BY <1>1, <1>11 DEF c

\* Several changes of one node are one.
LEMMA ChargeNodeIs ==
    ASSUME NEW t \in Trees, NEW n \in Ids, NEW x, NEW reserves \in BOOLEAN
    PROVE  ChargeNode(t, n, x, reserves) =
             [state |-> t.state, rootBudget |-> t.rootBudget, spent |-> t.spent,
              reserved |-> t.reserved, node |-> [t.node EXCEPT ![n] = Paid(t.node[n], x, reserves)],
              receipts |-> t.receipts]
  <1>1. t.node[n] \in NodeRecs /\ t.node \in [Ids -> NodeRecs]
    BY TreeFields
  <1>2. Paid(t.node[n], x, TRUE) =
          [t.node[n] EXCEPT !.budget = Spend(@, x), !.usage = @ + x, !.reservation = Spend(@, x)]
    BY DEF Paid
  <1>4. ChargeNode(t, n, x, TRUE) =
          [t EXCEPT !.node = [t.node EXCEPT ![n] = Paid(t.node[n], x, TRUE)]]
    BY <1>1, <1>2, ZenonT(60) DEF ChargeNode, Trees, NodeRecs
  <1>5. ChargeNode(t, n, x, FALSE) =
          [t EXCEPT !.node = [t.node EXCEPT ![n] = Paid(t.node[n], x, FALSE)]]
    BY <1>1, ZenonT(60) DEF ChargeNode, Trees, NodeRecs, Paid
  <1>6. ASSUME NEW nd
        PROVE  [t EXCEPT !.node = nd] =
                 [state |-> t.state, rootBudget |-> t.rootBudget, spent |-> t.spent,
                  reserved |-> t.reserved, node |-> nd, receipts |-> t.receipts]
    BY DEF Trees
  <1>7. CASE reserves = TRUE
    BY <1>4, <1>6, <1>7
  <1>8. CASE reserves = FALSE
    BY <1>5, <1>6, <1>8
  <1> QED
    BY <1>7, <1>8

\* What record_usage_internal and the charge of the node make of a tree.
UsageState(t, w) ==
    IF ~ w /\ t.state \notin {"completed", "kill_stopped", "terminal_failed"}
    THEN "budget_exhausted" ELSE t.state

RootCharged(t, x) == [ChargeNode(t, Root, x, FALSE) EXCEPT !.rootBudget = Spend(@, x)]
RootSpent(t, x) == [t EXCEPT !.rootBudget = Spend(@, x)]
Overdrawn(t, r, x) == [t EXCEPT !.receipts[r] = Receipt(FALSE, x)]

Within(t, n, r, x) == IF n = Root THEN WithinTree(t, r, x, FALSE) ELSE WithinTree(t, r, x, TRUE)

\* The different ways in which the code books usage, to a child, to the root or too
\* late, give the same tree.
LEMMA ChargedIs ==
    ASSUME NEW t \in Trees, NEW n \in Ids, NEW r \in ReceiptIds, NEW x \in Nat,
           ~ t.receipts[r].known
    PROVE  LET w == Within(t, n, r, x)
               paid == RecordUsage(t, r, x, FALSE)
               c == ChargedAs(t, n, r, x, w, UsageState(t, w))
           IN  /\ w \in BOOLEAN
               /\ w => t.spent + x + (IF n = Root THEN t.reserved ELSE Spend(t.reserved, x)) <= TreeBudget
               /\ n # Root => ChargeNode(RecordUsage(t, r, x, TRUE), n, x, TRUE) = c
               /\ n = Root => RootCharged(paid, x) = c
               /\ n = Root => ChargeNode(RootSpent(paid, x), Root, x, FALSE) = c
               /\ Overdrawn(c, r, x) = ChargedAs(t, n, r, x, FALSE, UsageState(t, w))
  <1> DEFINE w == Within(t, n, r, x)
             used == IF n = Root THEN RecordUsage(t, r, x, FALSE) ELSE RecordUsage(t, r, x, TRUE)
             c == ChargedAs(t, n, r, x, w, UsageState(t, w))
  <1>1. w \in BOOLEAN
    <2>1. WithinTree(t, r, x, TRUE) \in BOOLEAN /\ WithinTree(t, r, x, FALSE) \in BOOLEAN
      BY DEF WithinTree, CanSpend
    <2> QED
      BY <2>1 DEF Within
  <1>2. w => t.spent + x + (IF n = Root THEN t.reserved ELSE Spend(t.reserved, x)) <= TreeBudget
    BY DEF Within, WithinTree, CanSpend
  <1>3. used = [t EXCEPT !.spent = @ + x, !.reserved = IF n # Root THEN Spend(@, x) ELSE @,
                         !.receipts = [t.receipts EXCEPT ![r] = Receipt(w, x)],
                         !.state = UsageState(t, w)]
    <2>1. CASE n = Root
      BY <2>1 DEF RecordUsage, UsageState, Trees, Within
    <2>2. CASE n # Root
      BY <2>2 DEF RecordUsage, UsageState, Trees, Within
    <2> QED
      BY <2>1, <2>2
  <1>8. /\ n = Root => used = RecordUsage(t, r, x, FALSE)
        /\ n # Root => used = RecordUsage(t, r, x, TRUE)
    OBVIOUS
  <1> HIDE DEF w, used
  <1>4. /\ used \in Trees /\ used.state = UsageState(t, w) /\ used.rootBudget = t.rootBudget
        /\ used.spent = t.spent + x
        /\ used.reserved = (IF n = Root THEN t.reserved ELSE Spend(t.reserved, x))
        /\ used.node = t.node /\ used.receipts = [t.receipts EXCEPT ![r] = Receipt(w, x)]
    <2>1. t.receipts \in [ReceiptIds -> ReceiptRecs] /\ t.reserved \in Nat /\ t.spent \in Nat
      BY TreeFields
    <2>2. Spend(t.reserved, x) \in Nat
      BY <2>1, SpendIs
    <2>5. t.spent + x \in Nat
      BY <2>1
    <2>3. UsageState(t, w) \in States
      BY TreeFields DEF UsageState, States, Ended
    <2>4. [t.receipts EXCEPT ![r] = Receipt(w, x)] \in [ReceiptIds -> ReceiptRecs]
      BY <1>1, <2>1 DEF Receipt, ReceiptRecs
    <2> QED
      BY <1>3, <2>2, <2>3, <2>4, <2>5 DEF Trees
  <1> HIDE DEF c
  <1>5. ASSUME n # Root PROVE ChargeNode(used, n, x, TRUE) = c
    <2>1. ChargeNode(used, n, x, TRUE) =
             [state |-> used.state, rootBudget |-> used.rootBudget, spent |-> used.spent,
              reserved |-> used.reserved, node |-> [used.node EXCEPT ![n] = Paid(used.node[n], x, TRUE)],
              receipts |-> used.receipts]
      BY <1>4, ChargeNodeIs
    <2>2. (n # Root) = TRUE
      BY <1>5
    <2> QED
      BY <1>4, <1>5, <2>1, <2>2 DEF ChargedAs, c
  <1>6. ASSUME n = Root
        PROVE  /\ [ChargeNode(used, Root, x, FALSE) EXCEPT !.rootBudget = Spend(@, x)] = c
               /\ ChargeNode([used EXCEPT !.rootBudget = Spend(@, x)], Root, x, FALSE) = c
    <2> DEFINE used2 == [used EXCEPT !.rootBudget = Spend(@, x)]
               d == ChargeNode(used, n, x, FALSE)
    <2>1. d = [state |-> used.state, rootBudget |-> used.rootBudget, spent |-> used.spent,
               reserved |-> used.reserved, node |-> [used.node EXCEPT ![n] = Paid(used.node[n], x, FALSE)],
               receipts |-> used.receipts]
      BY <1>4, ChargeNodeIs
    <2>2. Spend(used.rootBudget, x) \in Nat
      BY <1>4, TreeFields, SpendIs
    <2>3. /\ used2 \in Trees /\ used2.state = used.state
          /\ used2.rootBudget = Spend(used.rootBudget, x) /\ used2.spent = used.spent
          /\ used2.reserved = used.reserved /\ used2.node = used.node /\ used2.receipts = used.receipts
      BY <1>4, <2>2 DEF Trees
    <2> HIDE DEF d, used2
    <2>4. ChargeNode(used2, n, x, FALSE) =
              [state |-> used2.state, rootBudget |-> used2.rootBudget, spent |-> used2.spent,
               reserved |-> used2.reserved, node |-> [used2.node EXCEPT ![n] = Paid(used2.node[n], x, FALSE)],
               receipts |-> used2.receipts]
      BY <2>3, ChargeNodeIs
    <2>5. (n # Root) = FALSE
      BY <1>6
    <2>6. c = [state |-> used.state, rootBudget |-> Spend(used.rootBudget, x), spent |-> used.spent,
               reserved |-> used.reserved, node |-> [used.node EXCEPT ![n] = Paid(used.node[n], x, FALSE)],
               receipts |-> used.receipts]
      BY <1>4, <1>6, <2>5 DEF ChargedAs, c
    <2>7. [d EXCEPT !.rootBudget = Spend(@, x)] = c
      <3> DEFINE nd == [used.node EXCEPT ![n] = Paid(used.node[n], x, FALSE)]
      <3> HIDE DEF nd
      <3>1. [[state |-> used.state, rootBudget |-> used.rootBudget, spent |-> used.spent,
              reserved |-> used.reserved, node |-> nd, receipts |-> used.receipts]
                 EXCEPT !.rootBudget = Spend(@, x)]
             = [state |-> used.state, rootBudget |-> Spend(used.rootBudget, x), spent |-> used.spent,
                reserved |-> used.reserved, node |-> nd, receipts |-> used.receipts]
        OBVIOUS
      <3> QED
        BY <2>1, <2>6, <3>1, Zenon DEF nd
    <2>8. ChargeNode(used2, n, x, FALSE) = c
      BY <2>3, <2>4, <2>6
    <2> QED
      BY <1>6, <2>7, <2>8 DEF d, used2
  <1>7. [c EXCEPT !.receipts[r] = Receipt(FALSE, x)] = ChargedAs(t, n, r, x, FALSE, UsageState(t, w))
    <2>1. [[t.receipts EXCEPT ![r] = Receipt(w, x)] EXCEPT ![r] = Receipt(FALSE, x)]
            = [t.receipts EXCEPT ![r] = Receipt(FALSE, x)]
      BY TreeFields
    <2>2. c \in Trees
      <3>1. UsageState(t, w) \in States
        BY TreeFields DEF UsageState, States, Ended
      <3>2. t.state \in Ended => UsageState(t, w) \in Ended
        BY DEF UsageState, Ended
      <3>3. t.state # "absent" => UsageState(t, w) # "absent"
        BY DEF UsageState
      <3> QED
        BY <1>1, <1>2, <3>1, <3>2, <3>3, ChargedFields DEF c, Charges
    <2>3. [c EXCEPT !.receipts[r] = Receipt(FALSE, x)] =
             [state |-> c.state, rootBudget |-> c.rootBudget, spent |-> c.spent, reserved |-> c.reserved,
              node |-> c.node, receipts |-> [c.receipts EXCEPT ![r] = Receipt(FALSE, x)]]
      <3>1. ASSUME NEW v
            PROVE  [c EXCEPT !.receipts[r] = v] =
                     [state |-> c.state, rootBudget |-> c.rootBudget, spent |-> c.spent,
                      reserved |-> c.reserved, node |-> c.node,
                      receipts |-> [c.receipts EXCEPT ![r] = v]]
        BY <2>2 DEF Trees
      <3> QED
        BY <3>1
    <2>4. /\ c.state = UsageState(t, w) /\ c.spent = t.spent + x
          /\ c.rootBudget = (IF n = Root THEN Spend(t.rootBudget, x) ELSE t.rootBudget)
          /\ c.reserved = (IF n = Root THEN t.reserved ELSE Spend(t.reserved, x))
          /\ c.node = [t.node EXCEPT ![n] = Paid(t.node[n], x, n # Root)]
          /\ c.receipts = [t.receipts EXCEPT ![r] = Receipt(w, x)]
      BY DEF c, ChargedAs
    <2> QED
      BY <2>1, <2>3, <2>4 DEF ChargedAs
  <1> QED
    BY <1>1, <1>2, <1>5, <1>6, <1>7, <1>8 DEF w, c, RootCharged, RootSpent, Overdrawn

\* Changing the status, the reason and the lease of a node.
Marked(t, n, s, why) ==
    [t EXCEPT !.node[n].status = s, !.node[n].reason = why, !.node[n].lease = 0]

\* Ending a node marks it and leaves the amounts alone.
LEMMA StatusMarks ==
    ASSUME NEW t \in Trees, NEW n \in Ids, t.node[n].status # "absent",
           NEW s \in Statuses \ {"absent"}, NEW why \in Reasons
    PROVE  LET u == Marked(t, n, s, why)
           IN  /\ Marks(t, u, n) /\ u.state = t.state
               /\ u.node[n].status = s /\ u.node[n].lease = 0 /\ u.node[n].retries = t.node[n].retries
  <1> DEFINE u == Marked(t, n, s, why)
             y == [t.node[n] EXCEPT !.status = s, !.reason = why, !.lease = 0]
  <1>1. /\ t.node[n] \in NodeRecs /\ t.node \in [Ids -> NodeRecs] /\ 0 \in 0 .. (MaxRetries + 1)
    BY TreeFields, Constants
  <1>2. u = [t EXCEPT !.node = [t.node EXCEPT ![n] = y]]
    BY <1>1 DEF Trees, NodeRecs, Marked
  <1>3. /\ y \in NodeRecs /\ y.status = s /\ y.lease = 0 /\ y.retries = t.node[n].retries
        /\ y.budget = t.node[n].budget /\ y.limit = t.node[n].limit
        /\ y.childBudget = t.node[n].childBudget /\ y.childLimit = t.node[n].childLimit
        /\ y.reservation = t.node[n].reservation /\ y.usage = t.node[n].usage
        /\ y.children = t.node[n].children
    BY <1>1 DEF NodeRecs
  <1> HIDE DEF y, u
  <1>4. /\ u \in Trees /\ u.state = t.state /\ u.rootBudget = t.rootBudget /\ u.spent = t.spent
        /\ u.reserved = t.reserved /\ u.receipts = t.receipts
        /\ u.node[n] = y /\ \A m \in Ids : m # n => u.node[m] = t.node[m]
    BY <1>1, <1>2, <1>3 DEF Trees
  <1>5. Marks(t, u, n)
    BY <1>3, <1>4 DEF Marks
  <1> QED
    BY <1>3, <1>4, <1>5 DEF u

-----------------------------------------------------------------------------
(* The operations on a tree. *)

\* What a node has left in reserve once x is charged.
Rest(t, n, r, x) ==
    IF t.receipts[r].known \/ n = Root THEN t.node[n].reservation
    ELSE Spend(t.node[n].reservation, x)

\* The tree with the usage charged, once.
Billed(t, n, r, x) ==
    LET w == Within(t, n, r, x)
    IN  IF t.receipts[r].known THEN t ELSE ChargedAs(t, n, r, x, w, UsageState(t, w))

\* A result is charged under its receipt, unless that is known.
LEMMA BilledIs ==
    ASSUME NEW t \in Trees, NEW n \in Ids, t.node[n].status # "absent",
           NEW r \in ReceiptIds, NEW x \in Nat
    PROVE  LET c == Billed(t, n, r, x)
           IN  /\ c \in Trees /\ Settles(t, c, n, r, x)
               /\ Within(t, n, r, x) \in BOOLEAN
               /\ Within(t, n, r, x) => c.state = t.state
               /\ c.state \in {t.state, "budget_exhausted"}
               /\ \A m \in Ids : c.node[m].status = t.node[m].status
               /\ c.node[n].lease = t.node[n].lease /\ c.node[n].retries = t.node[n].retries
               /\ c.node[n].reason = t.node[n].reason
               /\ c.node[n].reservation = Rest(t, n, r, x)
  <1> DEFINE w == Within(t, n, r, x)
             c == Billed(t, n, r, x)
  <1>1. CASE t.receipts[r].known
    <2>1. c = t
      BY <1>1 DEF Billed
    <2>2. Settles(t, t, n, r, x)
      BY <1>1, KnownSettles
    <2>3. w \in BOOLEAN
      BY <1>1, TreeFields DEF Within, WithinTree
    <2> QED
      BY <1>1, <2>1, <2>2, <2>3 DEF Rest
  <1>2. CASE ~ t.receipts[r].known
    <2>1. /\ w \in BOOLEAN
          /\ w => t.spent + x + (IF n = Root THEN t.reserved ELSE Spend(t.reserved, x)) <= TreeBudget
      BY <1>2, ChargedIs
    <2>2. c = ChargedAs(t, n, r, x, w, UsageState(t, w))
      BY <1>2 DEF Billed
    <2>3. UsageState(t, w) \in States
      BY TreeFields DEF UsageState, States, Ended
    <2>4. t.state \in Ended => UsageState(t, w) \in Ended
      BY DEF UsageState, Ended
    <2>5. /\ t.state # "absent" => UsageState(t, w) # "absent"
          /\ w => UsageState(t, w) = t.state
          /\ UsageState(t, w) \in {t.state, "budget_exhausted"}
      BY DEF UsageState
    <2> HIDE DEF c, w
    <2>6. Charges(t, c, n, r, x) /\ c.state = UsageState(t, w)
      BY <2>1, <2>2, <2>3, <2>4, <2>5, ChargedFields
    <2>7. Settles(t, c, n, r, x)
      BY <1>2, <2>6, ChargesSettle
    <2> QED
      BY <1>2, <2>1, <2>5, <2>6, <2>7 DEF Charges, Rest, c, w
  <1> QED
    BY <1>1, <1>2

\* Then the node is completed, or failed.
LEMMA DoneIs ==
    ASSUME NEW t \in Trees, NEW n \in Ids, t.node[n].status # "absent",
           NEW r \in ReceiptIds, NEW x \in Nat, NEW s \in Terminal, NEW why \in Reasons
    PROVE  LET c == Billed(t, n, r, x)
               d == Marked(c, n, s, why)
           IN  /\ d \in Trees /\ Settles(t, d, n, r, x)
               /\ Within(t, n, r, x) => d.state = t.state
               /\ \A m \in Ids : m # n => d.node[m].status = t.node[m].status
               /\ d.node[n].status = s /\ d.node[n].lease = 0
               /\ d.node[n].retries = t.node[n].retries
               /\ d.node[n].reservation = Rest(t, n, r, x)
  <1> DEFINE c == Billed(t, n, r, x)
             d == Marked(c, n, s, why)
  <1>1. /\ c \in Trees /\ Settles(t, c, n, r, x)
        /\ Within(t, n, r, x) => c.state = t.state
        /\ \A m \in Ids : c.node[m].status = t.node[m].status
        /\ c.node[n].retries = t.node[n].retries
        /\ c.node[n].reservation = Rest(t, n, r, x)
    BY BilledIs
  <1> HIDE DEF c
  <1>2. s \in Statuses \ {"absent"}
    BY DEF Terminal, Statuses
  <1>3. /\ Marks(c, d, n) /\ d.state = c.state
        /\ d.node[n].status = s /\ d.node[n].lease = 0 /\ d.node[n].retries = c.node[n].retries
    BY <1>1, <1>2, StatusMarks
  <1> HIDE DEF d
  <1>4. Keeps(c, d, n)
    BY <1>1, <1>3, MarksKeep
  <1>5. Settles(t, d, n, r, x)
    BY <1>1, <1>4, SettlesCompose
  <1>6. d \in Trees
    BY <1>3 DEF Marks
  <1> QED
    BY <1>1, <1>3, <1>5, <1>6 DEF Marks, d, c

\* The budget that ran out, and the children it ended.
LEMMA ExhaustedIs ==
    ASSUME NEW t \in Trees, NEW n \in Ids, t.node[n].status # "absent",
           NEW s \in Ended, NEW why, why \in {"tree_budget_exhausted", "terminal_failed"}
    PROVE  LET u == Terminalize([t EXCEPT !.state = s], n, why)
           IN  /\ u \in Trees /\ Keeps(t, u, n) /\ AtNode(t, u, n) /\ u.state = s
               /\ \A m \in Ids : m # n /\ m # Root => u.node[m].status \notin Live
  <1> DEFINE v == [t EXCEPT !.state = s]
             u == Terminalize(v, n, why)
  <1>1. s \in States /\ s # "absent"
    BY DEF States, Ended
  <1>2. Marks(t, v, n) /\ AtNode(t, v, n) /\ v.state = s /\ v.node = t.node
    BY <1>1, StateMarks
  <1> HIDE DEF v
  <1>3. Keeps(t, v, n) /\ v \in Trees
    BY <1>2, MarksKeep DEF Marks
  <1>4. /\ Keeps(v, u, n) /\ AtNode(v, u, n) /\ u.state = v.state
        /\ \A m \in Ids : m # n /\ m # Root => u.node[m].status \notin Live
    BY <1>3, TerminalizeKeeps
  <1> HIDE DEF u
  <1>5. Keeps(t, u, n) /\ AtNode(t, u, n)
    BY <1>2, <1>3, <1>4, KeepsCompose, AtCompose
  <1>6. u \in Trees
    BY <1>4 DEF Keeps, Moves
  <1> QED
    BY <1>2, <1>4, <1>5, <1>6 DEF u, v

\* Whether a result is within the budgets.
Inside(t, n, r, x) ==
    (t.receipts[r].known \/ CanSpend(t.node[n].budget, x)) /\ Within(t, n, r, x)

\* complete_node_with_usage_receipt settles the usage of a child, once, and ends it;
\* one that is not within the budgets ends every other live child too.
LEMMA CompleteNodeIs ==
    ASSUME NEW t \in Trees, NEW n \in Ids, n # Root, t.node[n].status # "absent",
           NEW r \in ReceiptIds, NEW x \in Nat, NEW ok \in BOOLEAN
    PROVE  LET u == CompleteNode(t, n, r, ok, x)
           IN  /\ u \in Trees /\ Settles(t, u, n, r, x)
               /\ u.node[n].status = (IF ok /\ Inside(t, n, r, x) THEN "completed" ELSE "failed")
               /\ u.node[n].lease = 0 /\ u.node[n].retries = t.node[n].retries
               /\ u.node[n].reservation = Rest(t, n, r, x)
               /\ Inside(t, n, r, x) =>
                    u.state = t.state /\ \A m \in Ids : m # n => u.node[m].status = t.node[m].status
               /\ ~ Inside(t, n, r, x) =>
                    /\ u.state = "budget_exhausted"
                    /\ \A m \in Ids : m # n /\ m # Root => u.node[m].status \notin Live
  <1> DEFINE in == Inside(t, n, r, x)
             c == Billed(t, n, r, x)
             s == IF ok /\ in THEN "completed" ELSE "failed"
             why == CASE ~ in -> "tree_budget_exhausted"
                      [] in /\ ~ ok -> IF t.node[n].retries >= MaxRetries
                                       THEN "retry_exhausted" ELSE "execution_failure"
                      [] OTHER -> "none"
             d == Marked(c, n, s, why)
             u == CompleteNode(t, n, r, ok, x)
             over == Terminalize([d EXCEPT !.state = "budget_exhausted"], n, "tree_budget_exhausted")
  <1>1. Within(t, n, r, x) = WithinTree(t, r, x, TRUE)
    BY DEF Within
  <1>2. c = IF t.receipts[r].known THEN RecordUsage(t, r, x, TRUE)
            ELSE ChargeNode(RecordUsage(t, r, x, TRUE), n, x, TRUE)
    <2>1. CASE t.receipts[r].known
      BY <2>1 DEF Billed, RecordUsage
    <2>2. CASE ~ t.receipts[r].known
      BY <1>1, <2>2, ChargedIs DEF Billed
    <2> QED
      BY <2>1, <2>2
  <1>3. u = IF in THEN d ELSE over
    <2> HIDE DEF c
    <2> QED
      BY <1>1, <1>2 DEF CompleteNode, Inside, Marked
  <1>4. s \in Terminal /\ why \in Reasons
    BY DEF Terminal, Reasons
  <1> HIDE DEF s, why
  <1>5. /\ d \in Trees /\ Settles(t, d, n, r, x)
        /\ Within(t, n, r, x) => d.state = t.state
        /\ \A m \in Ids : m # n => d.node[m].status = t.node[m].status
        /\ d.node[n].status = s /\ d.node[n].lease = 0
        /\ d.node[n].retries = t.node[n].retries
        /\ d.node[n].reservation = Rest(t, n, r, x)
    BY <1>4, DoneIs
  <1> HIDE DEF d
  <1>6. d.node[n].status # "absent" /\ "budget_exhausted" \in Ended
    BY <1>4, <1>5 DEF Terminal, Ended
  <1>7. /\ over \in Trees /\ Keeps(d, over, n) /\ AtNode(d, over, n) /\ over.state = "budget_exhausted"
        /\ \A m \in Ids : m # n /\ m # Root => over.node[m].status \notin Live
    BY <1>5, <1>6, ExhaustedIs
  <1>8. Settles(t, over, n, r, x)
    BY <1>5, <1>7, SettlesCompose
  <1>9. in => Within(t, n, r, x)
    BY DEF Inside
  <1> HIDE DEF u, over, in
  <1>10. s = IF ok /\ in THEN "completed" ELSE "failed"
    BY DEF s
  <1>11. CASE in
    BY <1>3, <1>5, <1>9, <1>10, <1>11 DEF u, in
  <1>12. CASE ~ in
    BY <1>3, <1>5, <1>7, <1>8, <1>10, <1>12 DEF u, in, AtNode
  <1> QED
    BY <1>11, <1>12

\* complete_root_with_usage_receipt does so for the root; a root that has not succeeded
\* ends every live child.
LEMMA CompleteRootIs ==
    ASSUME NEW t \in Trees, t.node[Root].status # "absent",
           NEW r \in ReceiptIds, NEW x \in Nat, NEW ok \in BOOLEAN
    PROVE  LET u == CompleteRoot(t, r, ok, x)
               in == Inside(t, Root, r, x)
           IN  /\ u \in Trees /\ Settles(t, u, Root, r, x)
               /\ u.node[Root].status = (IF ok /\ in THEN "completed" ELSE "failed")
               /\ u.node[Root].lease = 0 /\ u.node[Root].retries = t.node[Root].retries
               /\ u.node[Root].reservation = t.node[Root].reservation
               /\ ~ (in /\ ok) =>
                    /\ u.state \in Ended
                    /\ \A m \in Ids : m # Root => u.node[m].status \notin Live
               /\ in /\ ok =>
                    /\ \A m \in Ids : m # Root => u.node[m].status = t.node[m].status
                    /\ t.state \in Ended => u.state = t.state
                    /\ t.state \notin Ended =>
                         u.state = t.state \/ \A m \in Ids : u.node[m].status \notin Live
  <1> DEFINE in == Inside(t, Root, r, x)
             c == Billed(t, Root, r, x)
             s == IF ok /\ in THEN "completed" ELSE "failed"
             why == CASE ~ in -> "tree_budget_exhausted"
                      [] in /\ ~ ok -> "execution_failure"
                      [] OTHER -> "none"
             d == Marked(c, Root, s, why)
             u == CompleteRoot(t, r, ok, x)
             over == Terminalize([d EXCEPT !.state = "budget_exhausted"], Root, "tree_budget_exhausted")
             bad == Terminalize([d EXCEPT !.state = "terminal_failed"], Root, "terminal_failed")
             fin == Finalize(d, {})
  <1>1. Within(t, Root, r, x) = WithinTree(t, r, x, FALSE) /\ Root \in Ids
    BY Constants DEF Within
  <1>2. c = IF t.receipts[r].known THEN RecordUsage(t, r, x, FALSE)
            ELSE RootCharged(RecordUsage(t, r, x, FALSE), x)
    <2>1. CASE t.receipts[r].known
      BY <2>1 DEF Billed, RecordUsage
    <2>2. CASE ~ t.receipts[r].known
      BY <1>1, <2>2, ChargedIs DEF Billed
    <2> QED
      BY <2>1, <2>2
  <1>3. in \in BOOLEAN
    BY <1>1, BilledIs DEF Inside
  <1>4. u = IF ~ in THEN over ELSE IF ~ ok THEN bad ELSE fin
    <2>1. u = CASE ~ in -> over [] in /\ ~ ok -> bad [] OTHER -> fin
      <3> HIDE DEF c
      <3> QED
        BY <1>1, <1>2 DEF CompleteRoot, Inside, Marked, RootCharged
    <2> HIDE DEF over, bad, fin, u, in
    <2> QED
      BY <1>3, <2>1
  <1>5. s \in Terminal /\ why \in Reasons
    BY DEF Terminal, Reasons
  <1> HIDE DEF s, why
  <1>6. /\ d \in Trees /\ Settles(t, d, Root, r, x)
        /\ Within(t, Root, r, x) => d.state = t.state
        /\ \A m \in Ids : m # Root => d.node[m].status = t.node[m].status
        /\ d.node[Root].status = s /\ d.node[Root].lease = 0
        /\ d.node[Root].retries = t.node[Root].retries
        /\ d.node[Root].reservation = Rest(t, Root, r, x)
    <2> HIDE DEF c
    <2>1. c = Billed(t, Root, r, x)
      BY DEF c
    <2>2. PICK n \in Ids : n = Root
      BY <1>1
    <2>3. LET e == Marked(Billed(t, n, r, x), n, s, why)
          IN  /\ e \in Trees /\ Settles(t, e, n, r, x)
              /\ Within(t, n, r, x) => e.state = t.state
              /\ \A m \in Ids : m # n => e.node[m].status = t.node[m].status
              /\ e.node[n].status = s /\ e.node[n].lease = 0
              /\ e.node[n].retries = t.node[n].retries
              /\ e.node[n].reservation = Rest(t, n, r, x)
      BY <1>5, <2>2, DoneIs
    <2> QED
      BY <2>1, <2>2, <2>3
  <1> HIDE DEF d
  <1>7. /\ d.node[Root].status # "absent" /\ "budget_exhausted" \in Ended /\ "terminal_failed" \in Ended
        /\ Rest(t, Root, r, x) = t.node[Root].reservation
    BY <1>5, <1>6 DEF Terminal, Ended, Rest
  <1>8. /\ over \in Trees /\ Keeps(d, over, Root) /\ AtNode(d, over, Root)
        /\ over.state = "budget_exhausted"
        /\ \A m \in Ids : m # Root => over.node[m].status \notin Live
    BY <1>1, <1>6, <1>7, ExhaustedIs
  <1>9. /\ bad \in Trees /\ Keeps(d, bad, Root) /\ AtNode(d, bad, Root)
        /\ bad.state = "terminal_failed"
        /\ \A m \in Ids : m # Root => bad.node[m].status \notin Live
    BY <1>1, <1>6, <1>7, ExhaustedIs
  <1>10. /\ Keeps(d, fin, Root) /\ AtNode(d, fin, Root)
         /\ \A m \in Ids : fin.node[m].status = d.node[m].status
         /\ d.state \in Ended => fin.state = d.state
         /\ d.state \notin Ended =>
              fin.state = d.state \/ \A m \in Ids : fin.node[m].status \in Terminal \cup {"absent"}
    BY <1>1, <1>6, <1>7, FinalizeKeeps
  <1>11. in => Within(t, Root, r, x)
    BY DEF Inside
  <1> HIDE DEF u, over, in, bad, fin
  <1>12. /\ Settles(t, over, Root, r, x) /\ Settles(t, bad, Root, r, x) /\ Settles(t, fin, Root, r, x)
         /\ fin \in Trees
    BY <1>6, <1>8, <1>9, <1>10, SettlesCompose DEF Keeps, Moves
  <1>13. s = IF ok /\ in THEN "completed" ELSE "failed"
    BY DEF s
  <1>14. CASE ~ in
    BY <1>4, <1>6, <1>7, <1>8, <1>12, <1>13, <1>14 DEF u, in, AtNode
  <1>15. CASE in /\ ~ ok
    BY <1>4, <1>6, <1>7, <1>9, <1>12, <1>13, <1>15 DEF u, in, AtNode
  <1>16. CASE in /\ ok
    <2>1. u = fin
      BY <1>4, <1>16
    <2>2. d.state = t.state
      BY <1>6, <1>11, <1>16
    <2>3. \A m \in Ids : fin.node[m].status \in Terminal \cup {"absent"} => fin.node[m].status \notin Live
      BY DEF Live, Terminal
    <2> QED
      BY <1>6, <1>7, <1>10, <1>12, <1>13, <1>16, <2>1, <2>2, <2>3 DEF u, in, AtNode
  <1> QED
    BY <1>3, <1>14, <1>15, <1>16

\* One node is replaced by one with the same amounts.
WithNode(t, n, y) == [t EXCEPT !.node = [t.node EXCEPT ![n] = y]]

\* Such a replacement costs nothing.
LEMMA NodeMarks ==
    ASSUME NEW t \in Trees, NEW n \in Ids, t.node[n].status # "absent", NEW y \in NodeRecs,
           y.status # "absent", y.budget = t.node[n].budget, y.limit = t.node[n].limit,
           y.childBudget = t.node[n].childBudget, y.childLimit = t.node[n].childLimit,
           y.reservation = t.node[n].reservation, y.usage = t.node[n].usage,
           y.children = t.node[n].children,
           NEW u, u = WithNode(t, n, y)
    PROVE  /\ u \in Trees /\ Keeps(t, u, n) /\ u.state = t.state /\ u.node[n] = y
           /\ \A m \in Ids : m # n => u.node[m] = t.node[m]
  <1>1. t.node \in [Ids -> NodeRecs]
    BY TreeFields
  <1>2. /\ u \in Trees /\ u.state = t.state /\ u.rootBudget = t.rootBudget /\ u.spent = t.spent
        /\ u.reserved = t.reserved /\ u.receipts = t.receipts
        /\ u.node[n] = y /\ \A m \in Ids : m # n => u.node[m] = t.node[m]
    BY <1>1 DEF Trees, WithNode
  <1>3. Marks(t, u, n)
    BY <1>2 DEF Marks
  <1> QED
    BY <1>2, <1>3, MarksKeep

\* A retry makes the node ready again and costs nothing.
LEMMA RetryIs ==
    ASSUME NEW t \in Trees, NEW n \in Ids, t.node[n].status # "absent",
           t.node[n].retries < MaxRetries
    PROVE  LET u == RetryNode(t, n)
           IN  /\ u \in Trees /\ Keeps(t, u, n) /\ u.state = t.state
               /\ u.node[n].status = "ready" /\ u.node[n].lease = t.node[n].lease
               /\ u.node[n].reservation = t.node[n].reservation
               /\ \A m \in Ids : m # n => u.node[m].status = t.node[m].status
  <1> DEFINE u == RetryNode(t, n)
             y == [t.node[n] EXCEPT !.retries = @ + 1, !.status = "ready", !.reason = "none"]
  <1>1. /\ t.node[n] \in NodeRecs /\ t.node \in [Ids -> NodeRecs]
        /\ t.node[n].retries + 1 \in 0 .. MaxRetries
    BY TreeFields, Constants
  <1>2. u = WithNode(t, n, y)
    BY <1>1 DEF Trees, NodeRecs, RetryNode, WithNode
  <1>3. /\ y \in NodeRecs /\ y.status = "ready" /\ y.lease = t.node[n].lease
        /\ y.budget = t.node[n].budget /\ y.limit = t.node[n].limit
        /\ y.childBudget = t.node[n].childBudget /\ y.childLimit = t.node[n].childLimit
        /\ y.reservation = t.node[n].reservation /\ y.usage = t.node[n].usage
        /\ y.children = t.node[n].children
    BY <1>1 DEF NodeRecs, Statuses, Live, Reasons
  <1> HIDE DEF y, u
  <1>4. /\ u \in Trees /\ Keeps(t, u, n) /\ u.state = t.state /\ u.node[n] = y
        /\ \A m \in Ids : m # n => u.node[m] = t.node[m]
    BY <1>2, <1>3, NodeMarks
  <1> QED
    BY <1>3, <1>4 DEF u

\* An attempt is working on node n: the nodes above it are completed.
Working(t, n, att) ==
    /\ t.state # "absent" /\ EndInv(t, att) /\ t.node[n].status = "leased" /\ att[n] > 0
    /\ \A m \in Ids : m < n => t.node[m].status = "completed"

\* What becomes of the node and of the tree.
Outcome(t, u, n, att) ==
    /\ u \in Trees
    /\ Standing(t, n) => Standing(u, n)
    /\ u.node[n].status \in {"completed", "failed", "ready"} /\ u.node[n].lease = 0
    /\ EndInv(u, att)

\* A failed node ends the tree, with all that is below it.
LEMMA FailedEnds ==
    ASSUME NEW t \in Trees, NEW n \in Ids, NEW att, Working(t, n, att),
           NEW v \in Trees, v.node[n].status = "failed", v.node[n].lease = 0, v.state = t.state,
           \A m \in Ids : m # n => v.node[m].status = t.node[m].status,
           v.node[n].reservation = 0
    PROVE  /\ Keeps(v, Finalize(v, {n}), n) /\ AtNode(v, Finalize(v, {n}), n)
           /\ EndInv(Finalize(v, {n}), att)
  <1> DEFINE F == {n}
             u == Finalize(v, F)
  <1>1. F # {} /\ F = {n} /\ u = Finalize(v, F)
    OBVIOUS
  <1>5. v.node[n].status # "absent" /\ v.node[n].status \notin Live
    BY DEF Live
  <1>6. F = {} \/ (F = {n} /\ v.node[n].status \notin Live)
    BY <1>5
  <1>7. u = Finalize(v, F)
    OBVIOUS
  <1> HIDE DEF F, u
  <1>2. /\ Keeps(v, u, n) /\ AtNode(v, u, n)
        /\ v.state \in Ended => u.state = v.state /\ \A m \in Ids : u.node[m].status = v.node[m].status
        /\ v.state \notin Ended =>
              /\ \A m \in Ids : u.node[m].status =
                    IF F # {} /\ n < m /\ v.node[m].status \in Live THEN "failed" ELSE v.node[m].status
              /\ u.state = IF \A m \in Ids : u.node[m].status \in Terminal \cup {"absent"}
                           THEN (IF \A m \in Ids : u.node[m].status \in {"completed", "absent"}
                                 THEN "completed" ELSE "terminal_failed")
                           ELSE v.state
    BY <1>5, <1>6, <1>7, FinalizeKeeps
  <1>3. ASSUME v.state \in Ended PROVE EndInv(u, att)
    <2>1. /\ u.state = t.state /\ u.node[n].status = "failed"
          /\ \A m \in Ids : m # n => u.node[m].status = t.node[m].status
      BY <1>2, <1>3
    <2> QED
      BY <1>3, <2>1 DEF EndInv, Working, Live
  <1>4. ASSUME v.state \notin Ended PROVE EndInv(u, att)
    <2>1. ASSUME NEW m \in Ids PROVE u.node[m].status \in Terminal \cup {"absent"}
      <3>1. m \in Nat /\ n \in Nat
        BY Constants
      <3>2. CASE m < n
        BY <1>1, <1>2, <1>4, <3>1, <3>2 DEF Working, Terminal, Live
      <3>3. CASE m = n
        BY <1>2, <1>4, <3>3 DEF Terminal, AtNode
      <3>4. CASE n < m
        <4>1. v.node[m].status \in Statuses
          BY TreeFields
        <4>2. u.node[m].status = IF v.node[m].status \in Live THEN "failed" ELSE v.node[m].status
          BY <1>1, <1>2, <1>4, <3>4
        <4> QED
          BY <4>1, <4>2 DEF Terminal, Live, Statuses
      <3> QED
        BY <3>1, <3>2, <3>3, <3>4
    <2>2. u.state \in Ended
      BY <1>2, <1>4, <2>1 DEF Ended
    <2>3. \A m \in Ids : u.node[m].status \notin Live
      BY <2>1 DEF Terminal, Live
    <2> QED
      BY <2>2, <2>3 DEF EndInv
  <1> QED
    BY <1>1, <1>2, <1>3, <1>4

\* complete, release, finalize; or retry.
LEMMA CompletionIs ==
    ASSUME NEW t \in Trees, NEW n \in Ids, n # Root, NEW r \in ReceiptIds, NEW x \in Nat,
           NEW ok \in BOOLEAN, NEW att, Working(t, n, att), NEW retry \in BOOLEAN,
           retry => ~ ok /\ t.state = "running" /\ t.node[n].retries < MaxRetries
    PROVE  LET u == Completion(t, n, r, ok, x, retry)
           IN  /\ Settles(t, u, n, r, x) /\ Outcome(t, u, n, att)
               /\ ~ retry => u.node[n].status \in Terminal
  <1> DEFINE d == CompleteNode(t, n, r, ok, x)
             in == Inside(t, n, r, x)
             u == Completion(t, n, r, ok, x, retry)
             v == Release(d, n)
             F == IF d.node[n].status = "failed" THEN {n} ELSE {}
  <1>1. t.node[n].status # "absent"
    BY DEF Working
  <1>2. /\ d \in Trees /\ Settles(t, d, n, r, x)
        /\ d.node[n].status = (IF ok /\ in THEN "completed" ELSE "failed")
        /\ d.node[n].lease = 0 /\ d.node[n].retries = t.node[n].retries
        /\ d.node[n].reservation = Rest(t, n, r, x)
        /\ in => d.state = t.state /\ \A m \in Ids : m # n => d.node[m].status = t.node[m].status
        /\ ~ in => /\ d.state = "budget_exhausted"
                   /\ \A m \in Ids : m # n /\ m # Root => d.node[m].status \notin Live
    BY <1>1, CompleteNodeIs
  <1>3. u = IF retry THEN RetryNode(d, n) ELSE Finalize(v, F)
    BY DEF Completion
  <1> HIDE DEF d, in
  <1>4. d.node[n].status # "absent"
    BY <1>2
  <1>5. CASE retry
    <2>1. u = RetryNode(d, n) /\ d.node[n].retries < MaxRetries
      BY <1>2, <1>3, <1>5
    <2> HIDE DEF u
    <2>2. /\ u \in Trees /\ Keeps(d, u, n) /\ u.state = d.state
          /\ u.node[n].status = "ready" /\ u.node[n].lease = d.node[n].lease
          /\ u.node[n].reservation = d.node[n].reservation
          /\ \A m \in Ids : m # n => u.node[m].status = d.node[m].status
      BY <1>2, <1>4, <2>1, RetryIs
    <2>3. Settles(t, u, n, r, x)
      BY <1>2, <2>2, SettlesCompose
    <2>4. Nodes(u) = Nodes(t)
      BY <2>3 DEF Settles, Moves, Nodes
    <2>5. ASSUME Standing(t, n) PROVE Standing(u, n)
      <3>1. t.node[n].reservation = t.node[n].budget
        BY <2>5 DEF Standing, Working, Terminal
      <3>2. u.node[n].reservation = u.node[n].budget
        BY <1>2, <2>2, <2>3, <3>1 DEF Rest, Settles
      <3>3. u.node[n].children = t.node[n].children
        BY <2>3 DEF Settles
      <3> QED
        BY <1>2, <2>2, <2>4, <2>5, <3>2, <3>3 DEF Standing, Terminal
    <2>6. EndInv(u, att)
      <3>1. CASE in
        BY <1>2, <1>5, <2>2, <3>1 DEF EndInv, Working, Ended
      <3>2. CASE ~ in
        BY <1>2, <2>2, <3>2 DEF EndInv, Working, Ended
      <3> QED
        BY <3>1, <3>2
    <2> QED
      BY <1>2, <1>5, <2>2, <2>3, <2>5, <2>6 DEF Outcome, u
  <1>6. CASE ~ retry
    <2>1. u = Finalize(v, F)
      BY <1>3, <1>6
    <2>2. /\ Keeps(d, v, n) /\ v.state = d.state
          /\ \A m \in Ids : v.node[m].status = d.node[m].status
          /\ v.node[n].lease = d.node[n].lease /\ v.node[n].reservation = 0
      BY <1>2, <1>4, ReleaseKeeps
    <2>3. v \in Trees
      BY <2>2 DEF Keeps, Moves
    <2> HIDE DEF u, v
    <2>4. v.node[n].status # "absent" /\ v.node[n].status \notin Live
      BY <1>2, <2>2 DEF Live
    <2>5. F = {} \/ (F = {n} /\ v.node[n].status \notin Live)
      BY <2>4
    <2>6. /\ Keeps(v, u, n) /\ AtNode(v, u, n)
          /\ v.state \in Ended => u.state = v.state /\ \A m \in Ids : u.node[m].status = v.node[m].status
          /\ v.state \notin Ended =>
                /\ \A m \in Ids : u.node[m].status =
                      IF F # {} /\ n < m /\ v.node[m].status \in Live THEN "failed" ELSE v.node[m].status
                /\ u.state = IF \A m \in Ids : u.node[m].status \in Terminal \cup {"absent"}
                             THEN (IF \A m \in Ids : u.node[m].status \in {"completed", "absent"}
                                   THEN "completed" ELSE "terminal_failed")
                             ELSE v.state
      <3> HIDE DEF F
      <3> QED
        BY <2>1, <2>3, <2>4, <2>5, FinalizeKeeps
    <2>7. Settles(t, v, n, r, x)
      BY <1>2, <2>2, SettlesCompose
    <2>8. Settles(t, u, n, r, x)
      BY <2>6, <2>7, SettlesCompose
    <2>9. u.node[n].status \in Terminal /\ u.node[n].lease = 0 /\ u.node[n].reservation = 0
      BY <1>2, <2>2, <2>6 DEF AtNode, Terminal
    <2>10. ASSUME Standing(t, n) PROVE Standing(u, n)
      <3>1. Nodes(u) = Nodes(t)
        BY <2>8 DEF Settles, Moves, Nodes
      <3>2. u.node[n].children = t.node[n].children
        BY <2>8 DEF Settles
      <3> QED
        BY <2>9, <2>10, <3>1, <3>2 DEF Standing, Terminal
    <2>11. EndInv(u, att)
      <3>1. CASE ~ in
        BY <1>2, <2>2, <2>6, <2>9, <3>1 DEF EndInv, Ended, Terminal, Live
      <3>2. CASE in /\ ~ ok
        <4>1. F = {n} /\ v.node[n].status = "failed" /\ v.node[n].lease = 0 /\ v.state = t.state
          BY <1>2, <2>2, <3>2
        <4>2. \A m \in Ids : m # n => v.node[m].status = t.node[m].status
          BY <1>2, <2>2, <3>2
        <4> HIDE DEF F
        <4> QED
          BY <2>1, <2>2, <2>3, <4>1, <4>2, FailedEnds
      <3>3. CASE in /\ ok
        <4>1. F = {} /\ v.state = t.state /\ u.node[n].status = "completed"
          BY <1>2, <2>2, <2>6, <3>3 DEF AtNode
        <4>2. \A m \in Ids : m # n => u.node[m].status = t.node[m].status
          BY <1>2, <2>2, <2>6, <3>3, <4>1
        <4>3. CASE t.state \in Ended
          BY <2>6, <4>1, <4>2, <4>3 DEF EndInv, Working, Live
        <4>4. CASE t.state \notin Ended
          <5>1. \A m \in Ids : u.node[m].status # "failed"
            BY <4>1, <4>2, <4>4 DEF EndInv, Working
          <5>2. u.state = t.state \/ \A m \in Ids : u.node[m].status \in Terminal \cup {"absent"}
            BY <2>6, <4>1, <4>4
          <5> QED
            BY <4>4, <5>1, <5>2 DEF EndInv, Terminal, Live
        <4> QED
          BY <4>3, <4>4
      <3> QED
        BY <3>1, <3>2, <3>3
    <2>12. u \in Trees
      BY <2>6 DEF Keeps, Moves
    <2> QED
      BY <2>8, <2>9, <2>10, <2>11, <2>12 DEF Outcome, Terminal, u
  <1> QED
    BY <1>5, <1>6

\* The settlement of a root that works: charged once, ended, and the tree with it when
\* it failed.
LEMMA RootCompletionIs ==
    ASSUME NEW t \in Trees, NEW r \in ReceiptIds, NEW x \in Nat,
           NEW ok \in BOOLEAN, NEW att, Working(t, Root, att)
    PROVE  LET u == RootCompletion(t, r, ok, x)
           IN  /\ Settles(t, u, Root, r, x) /\ Outcome(t, u, Root, att)
               /\ u.node[Root].status \in Terminal
  <1> DEFINE d == CompleteRoot(t, r, ok, x)
             in == Inside(t, Root, r, x)
             F == {}
             u == Finalize(d, F)
  <1>1. t.node[Root].status # "absent" /\ Root \in Ids
    BY Constants DEF Working
  <1>2. /\ d \in Trees /\ Settles(t, d, Root, r, x)
        /\ d.node[Root].status = (IF ok /\ in THEN "completed" ELSE "failed")
        /\ d.node[Root].lease = 0 /\ d.node[Root].reservation = t.node[Root].reservation
        /\ ~ (in /\ ok) =>
             d.state \in Ended /\ \A m \in Ids : m # Root => d.node[m].status \notin Live
        /\ in /\ ok =>
             /\ \A m \in Ids : m # Root => d.node[m].status = t.node[m].status
             /\ t.state \in Ended => d.state = t.state
             /\ t.state \notin Ended =>
                  d.state = t.state \/ \A m \in Ids : d.node[m].status \notin Live
    BY <1>1, CompleteRootIs
  <1> HIDE DEF d, in
  <1>3. d.node[Root].status # "absent" /\ d.node[Root].status \notin Live
    BY <1>2 DEF Live
  <1>4. F = {} /\ u = Finalize(d, F)
    OBVIOUS
  <1> HIDE DEF F, u
  <1>5. /\ Keeps(d, u, Root) /\ AtNode(d, u, Root)
        /\ d.state \in Ended => u.state = d.state /\ \A m \in Ids : u.node[m].status = d.node[m].status
        /\ d.state \notin Ended =>
              /\ \A m \in Ids : u.node[m].status =
                    IF F # {} /\ Root < m /\ d.node[m].status \in Live THEN "failed" ELSE d.node[m].status
              /\ u.state = IF \A m \in Ids : u.node[m].status \in Terminal \cup {"absent"}
                           THEN (IF \A m \in Ids : u.node[m].status \in {"completed", "absent"}
                                 THEN "completed" ELSE "terminal_failed")
                           ELSE d.state
    BY <1>1, <1>2, <1>3, <1>4, FinalizeKeeps
  <1>6. /\ \A m \in Ids : u.node[m].status = d.node[m].status
        /\ u.state = d.state \/ (d.state \notin Ended /\ \A m \in Ids : u.node[m].status \notin Live)
    BY <1>4, <1>5 DEF Terminal, Live
  <1>7. Settles(t, u, Root, r, x) /\ u \in Trees
    BY <1>2, <1>5, SettlesCompose DEF Keeps, Moves
  <1>8. u.node[Root].status \in Terminal /\ u.node[Root].lease = 0
    BY <1>2, <1>5 DEF Terminal, AtNode
  <1>9. ASSUME Standing(t, Root) PROVE Standing(u, Root)
    <2>1. Nodes(u) = Nodes(t) /\ u.node[Root].children = t.node[Root].children
      BY <1>7 DEF Settles, Moves, Nodes
    <2>2. u.node[Root].reservation = 0
      BY <1>2, <1>5, <1>9 DEF Standing, AtNode
    <2> QED
      BY <1>8, <1>9, <2>1, <2>2 DEF Standing, Terminal
  <1>10. EndInv(u, att)
    <2>1. CASE ~ (in /\ ok)
      <3>1. u.state \in Ended /\ \A m \in Ids : m # Root => u.node[m].status \notin Live
        BY <1>2, <1>6, <2>1
      <3> QED
        BY <3>1 DEF EndInv
    <2>2. CASE in /\ ok
      <3>1. /\ u.node[Root].status = "completed"
            /\ \A m \in Ids : m # Root => u.node[m].status = t.node[m].status
            /\ t.state \in Ended => u.state = t.state
            /\ t.state \notin Ended => u.state = t.state \/ \A m \in Ids : u.node[m].status \notin Live
        <4>1. /\ u.node[Root].status = "completed"
              /\ \A m \in Ids : m # Root => u.node[m].status = t.node[m].status
          BY <1>1, <1>2, <1>6, <2>2
        <4>2. t.state \in Ended => u.state = t.state
          BY <1>2, <1>6, <2>2
        <4>3. ASSUME t.state \notin Ended
              PROVE  u.state = t.state \/ \A m \in Ids : u.node[m].status \notin Live
          <5>1. CASE d.state = t.state
            BY <1>6, <5>1
          <5>2. CASE \A m \in Ids : d.node[m].status \notin Live
            BY <1>6, <5>2
          <5> QED
            BY <1>2, <2>2, <4>3, <5>1, <5>2
        <4> QED
          BY <4>1, <4>2, <4>3
      <3> HIDE DEF u
      <3>2. CASE t.state \in Ended
        BY <3>1, <3>2 DEF EndInv, Working, Live
      <3>3. CASE t.state \notin Ended
        <4>1. \A m \in Ids : u.node[m].status # "failed"
          BY <3>1, <3>3 DEF EndInv, Working
        <4> QED
          BY <3>1, <3>3, <4>1 DEF EndInv
      <3> QED
        BY <3>2, <3>3
    <2> QED
      BY <2>1, <2>2
  <1>11. RootCompletion(t, r, ok, x) = u
    BY DEF RootCompletion, u, d, F
  <1> QED
    BY <1>7, <1>8, <1>9, <1>10, <1>11 DEF Outcome, Terminal

\* An attempt without usable usage fails the tree it is settled in.
LEMMA FailTreeIs ==
    ASSUME NEW t \in Trees, NEW n \in Ids, NEW att, t.node[n].status \in Terminal, t.node[n].lease = 0
    PROVE  LET u == FailTree(t, n)
           IN  /\ u \in Trees /\ Keeps(t, u, n) /\ u.node[n].status = "failed" /\ u.node[n].lease = 0
               /\ Standing(t, n) => Standing(u, n)
               /\ EndInv(u, att)
  <1> DEFINE d == Marked(t, n, "failed", "recursive_usage_unavailable")
             v == [t EXCEPT !.node[n].reason = "recursive_usage_unavailable",
                            !.node[n].status = "failed", !.state = "terminal_failed"]
             u == Terminalize([d EXCEPT !.state = "terminal_failed"], n, "terminal_failed")
  <1>1. t.node[n] \in NodeRecs /\ t.node \in [Ids -> NodeRecs] /\ t.node[n].status # "absent"
    BY TreeFields DEF Terminal
  <1>2. v = [d EXCEPT !.state = "terminal_failed"]
    <2> DEFINE y == [t.node[n] EXCEPT !.reason = "recursive_usage_unavailable", !.status = "failed"]
               z == [t.node[n] EXCEPT !.status = "failed", !.reason = "recursive_usage_unavailable",
                                      !.lease = 0]
    <2>1. y = z
      BY <1>1 DEF NodeRecs
    <2>2. v = [t EXCEPT !.node = [t.node EXCEPT ![n] = y], !.state = "terminal_failed"]
      BY <1>1 DEF Trees, NodeRecs
    <2>3. d = [t EXCEPT !.node = [t.node EXCEPT ![n] = z]]
      BY <1>1 DEF Marked, Trees, NodeRecs
    <2> HIDE DEF v, d, y, z
    <2> QED
      BY <2>1, <2>2, <2>3 DEF Trees
  <1>3. FailTree(t, n) = u
    <2> HIDE DEF d
    <2> QED
      BY <1>2 DEF FailTree
  <1>4. "failed" \in Statuses \ {"absent"} /\ "recursive_usage_unavailable" \in Reasons
    BY DEF Statuses, Terminal, Reasons
  <1>5. /\ Marks(t, d, n) /\ d.state = t.state
        /\ d.node[n].status = "failed" /\ d.node[n].lease = 0
    BY <1>1, <1>4, StatusMarks
  <1> HIDE DEF d
  <1>6. Keeps(t, d, n) /\ d \in Trees /\ d.node[n].reservation = t.node[n].reservation
    BY <1>1, <1>5, MarksKeep DEF Marks
  <1>7. d.node[n].status # "absent" /\ "terminal_failed" \in Ended
    BY <1>5 DEF Ended
  <1>8. /\ u \in Trees /\ Keeps(d, u, n) /\ AtNode(d, u, n) /\ u.state = "terminal_failed"
        /\ \A m \in Ids : m # n /\ m # Root => u.node[m].status \notin Live
    BY <1>6, <1>7, ExhaustedIs
  <1> HIDE DEF u
  <1>9. Keeps(t, u, n)
    BY <1>6, <1>8, KeepsCompose
  <1>10. u.node[n].status = "failed" /\ u.node[n].lease = 0 /\ u.node[n].reservation = t.node[n].reservation
    BY <1>5, <1>6, <1>8 DEF AtNode
  <1>11. ASSUME Standing(t, n) PROVE Standing(u, n)
    <2>1. Nodes(u) = Nodes(t) /\ u.node[n].children = t.node[n].children
      BY <1>9 DEF Keeps, Moves, Nodes
    <2> QED
      BY <1>10, <1>11, <2>1 DEF Standing, Terminal
  <1>12. EndInv(u, att)
    BY <1>7, <1>8, <1>10 DEF EndInv, Live
  <1> QED
    BY <1>3, <1>8, <1>9, <1>10, <1>11, <1>12

\* A late result changes the amounts of its node and may end the others.
LEMMA LateUsageIs ==
    ASSUME NEW t \in Trees, NEW n \in Ids, NEW r \in ReceiptIds, NEW x \in Nat, NEW att,
           t.node[n].status # "absent", t.state # "absent", EndInv(t, att), att[n] > 0
    PROVE  LET u == LateUsage(t, n, r, x)
           IN  /\ u \in Trees /\ Settles(t, u, n, r, x)
               /\ Standing(t, n) => Standing(u, n)
               /\ u.node[n].status = t.node[n].status /\ u.node[n].lease = t.node[n].lease
               /\ u.node[n].reason = t.node[n].reason
               /\ EndInv(u, att)
  <1> DEFINE u == LateUsage(t, n, r, x)
             w == Within(t, n, r, x)
             in == CanSpend(t.node[n].budget, x) /\ w
             c == ChargedAs(t, n, r, x, w, UsageState(t, w))
             over == ChargedAs(t, n, r, x, FALSE, UsageState(t, w))
             end == Terminalize([over EXCEPT !.state = "budget_exhausted"], n, "tree_budget_exhausted")
  <1>1. CASE t.receipts[r].known
    <2>1. u = t
      BY <1>1 DEF LateUsage
    <2>2. Settles(t, t, n, r, x)
      BY <1>1, KnownSettles
    <2> QED
      BY <2>1, <2>2
  <1>2. CASE ~ t.receipts[r].known
    <2>1. /\ w \in BOOLEAN
          /\ w => t.spent + x + (IF n = Root THEN t.reserved ELSE Spend(t.reserved, x)) <= TreeBudget
          /\ n # Root => ChargeNode(RecordUsage(t, r, x, TRUE), n, x, TRUE) = c
          /\ n = Root => ChargeNode(RootSpent(RecordUsage(t, r, x, FALSE), x), Root, x, FALSE) = c
          /\ Overdrawn(c, r, x) = over
      BY <1>2, ChargedIs
    <2>2. /\ n # Root => w = WithinTree(t, r, x, TRUE)
          /\ n = Root => w = WithinTree(t, r, x, FALSE)
      BY DEF Within
    <2> HIDE DEF c, over, w
    <2>3. u = IF in THEN c ELSE IF over.state \in {"completed", "kill_stopped", "terminal_failed"}
                                THEN over ELSE end
      <3>1. CASE n # Root
        <4>1. (n = Root) = FALSE /\ (~ (n = Root)) = TRUE
          BY <3>1
        <4> QED
          BY <1>2, <2>1, <2>2, <3>1, <4>1 DEF LateUsage, Overdrawn
      <3>2. CASE n = Root
        <4>1. (n = Root) = TRUE /\ (~ (n = Root)) = FALSE
          BY <3>2
        <4> QED
          BY <1>2, <2>1, <2>2, <3>2, <4>1 DEF LateUsage, Overdrawn, RootSpent
      <3> QED
        BY <3>1, <3>2
    <2>4. /\ UsageState(t, w) \in States
          /\ t.state \in Ended => UsageState(t, w) \in Ended
          /\ t.state # "absent" => UsageState(t, w) # "absent"
          /\ w => UsageState(t, w) = t.state
          /\ UsageState(t, w) \in {t.state, "budget_exhausted"}
      BY TreeFields DEF UsageState, States, Ended
    <2>5. Charges(t, c, n, r, x) /\ c.state = UsageState(t, w)
      BY <2>1, <2>4, ChargedFields DEF c
    <2>6. Charges(t, over, n, r, x) /\ over.state = UsageState(t, w)
      BY <2>4, ChargedFields, ZenonT(40) DEF over
    <2>7. Settles(t, c, n, r, x) /\ Settles(t, over, n, r, x)
      BY <1>2, <2>5, <2>6, ChargesSettle
    <2>8. ASSUME NEW d, Charges(t, d, n, r, x), Settles(t, d, n, r, x), Standing(t, n)
          PROVE  Standing(d, n)
      <3>1. Nodes(d) = Nodes(t)
        BY <2>8 DEF Charges, Nodes
      <3>2. d.node[n].reservation = IF n = Root \/ t.node[n].status \in Terminal THEN 0 ELSE d.node[n].budget
        <4>1. Spend(0, x) = 0
          BY DEF Spend
        <4> QED
          BY <2>8, <4>1 DEF Charges, Standing
      <3> QED
        BY <2>8, <3>1, <3>2 DEF Standing, Charges
    <2>9. CASE in
      <3>1. u = c /\ c.state = t.state
        BY <2>3, <2>4, <2>5, <2>9
      <3>2. /\ \A m \in Ids : c.node[m].status = t.node[m].status
            /\ c.node[n].lease = t.node[n].lease /\ c.node[n].reason = t.node[n].reason /\ c \in Trees
        BY <2>5 DEF Charges
      <3>3. EndInv(c, att)
        BY <3>1, <3>2 DEF EndInv
      <3> HIDE DEF u
      <3> QED
        BY <2>5, <2>7, <2>8, <3>1, <3>2, <3>3 DEF u
    <2>10. /\ \A m \in Ids : over.node[m].status = t.node[m].status
           /\ over.node[n].lease = t.node[n].lease /\ over.node[n].reason = t.node[n].reason
           /\ over \in Trees
      BY <2>6 DEF Charges
    <2>11. CASE ~ in /\ over.state \in {"completed", "kill_stopped", "terminal_failed"}
      <3>1. u = over
        BY <2>3, <2>11
      <3>2. over.state = t.state
        BY <2>4, <2>6, <2>11
      <3>3. EndInv(over, att)
        BY <2>10, <3>2 DEF EndInv
      <3> HIDE DEF u
      <3> QED
        BY <2>6, <2>7, <2>8, <2>10, <3>1, <3>3 DEF u
    <2>12. CASE ~ in /\ over.state \notin {"completed", "kill_stopped", "terminal_failed"}
      <3>1. u = end
        BY <2>3, <2>12
      <3>2. over.node[n].status # "absent" /\ "budget_exhausted" \in Ended
        BY <2>10 DEF Ended
      <3>3. /\ end \in Trees /\ Keeps(over, end, n) /\ AtNode(over, end, n)
            /\ end.state = "budget_exhausted"
            /\ \A m \in Ids : m # n /\ m # Root => end.node[m].status \notin Live
        BY <2>10, <3>2, ExhaustedIs
      <3> HIDE DEF end, u
      <3>4. Settles(t, end, n, r, x)
        BY <2>7, <3>3, SettlesCompose
      <3>5. ASSUME Standing(t, n) PROVE Standing(end, n)
        <4>1. Standing(over, n)
          BY <2>6, <2>7, <2>8, <3>5
        <4>2. Nodes(end) = Nodes(over)
          BY <3>3 DEF Keeps, Moves, Nodes
        <4> QED
          BY <3>3, <4>1, <4>2 DEF Standing, Keeps, AtNode
      <3>6. EndInv(end, att)
        BY <3>2, <3>3 DEF EndInv
      <3> QED
        BY <2>10, <3>1, <3>3, <3>4, <3>5, <3>6 DEF AtNode, u
    <2> QED
      BY <2>1, <2>9, <2>11, <2>12
  <1> QED
    BY <1>1, <1>2

\* A lease that is recovered, with a retry or without.
LEMMA RecoverLeaseIs ==
    ASSUME NEW t \in Trees, NEW n \in Ids, NEW att, Working(t, n, att), NEW retry \in BOOLEAN,
           retry => t.state = "running" /\ t.node[n].retries < MaxRetries
    PROVE  LET u == RecoverLease(t, n, retry)
           IN  /\ Keeps(t, u, n) /\ Outcome(t, u, n, att)
               /\ u.node[n].status = IF retry THEN "ready" ELSE "failed"
  <1> DEFINE freed == [t EXCEPT !.node[n].lease = 0]
             y == [t.node[n] EXCEPT !.lease = 0]
             gone == [freed EXCEPT !.node[n].status = "failed", !.node[n].reason = "retry_exhausted"]
             z == [t.node[n] EXCEPT !.lease = 0, !.status = "failed", !.reason = "retry_exhausted"]
             F == {n}
             u == RecoverLease(t, n, retry)
  <1>1. /\ t.node[n] \in NodeRecs /\ t.node \in [Ids -> NodeRecs] /\ t.node[n].status = "leased"
        /\ t.node[n].status # "absent" /\ 0 \in 0 .. (MaxRetries + 1)
    BY TreeFields, Constants DEF Working
  <1>2. freed = WithNode(t, n, y) /\ gone = WithNode(t, n, z)
    BY <1>1, ZenonT(40) DEF Trees, NodeRecs, WithNode
  <1>3. /\ y \in NodeRecs /\ y.status = t.node[n].status /\ y.lease = 0 /\ y.retries = t.node[n].retries
        /\ y.budget = t.node[n].budget /\ y.limit = t.node[n].limit
        /\ y.childBudget = t.node[n].childBudget /\ y.childLimit = t.node[n].childLimit
        /\ y.reservation = t.node[n].reservation /\ y.usage = t.node[n].usage
        /\ y.children = t.node[n].children
    BY <1>1 DEF NodeRecs
  <1>4. /\ z \in NodeRecs /\ z.status = "failed" /\ z.lease = 0
        /\ z.budget = t.node[n].budget /\ z.limit = t.node[n].limit
        /\ z.childBudget = t.node[n].childBudget /\ z.childLimit = t.node[n].childLimit
        /\ z.reservation = t.node[n].reservation /\ z.usage = t.node[n].usage
        /\ z.children = t.node[n].children
    BY <1>1 DEF NodeRecs, Statuses, Terminal, Reasons
  <1>5. u = IF retry THEN RetryNode(freed, n) ELSE Finalize(Release(gone, n), F)
    BY DEF RecoverLease
  <1> HIDE DEF y, z, freed, gone, F
  <1>6. /\ freed \in Trees /\ Keeps(t, freed, n) /\ freed.state = t.state /\ freed.node[n] = y
        /\ \A m \in Ids : m # n => freed.node[m] = t.node[m]
    BY <1>1, <1>2, <1>3, NodeMarks
  <1>7. /\ gone \in Trees /\ Keeps(t, gone, n) /\ gone.state = t.state /\ gone.node[n] = z
        /\ \A m \in Ids : m # n => gone.node[m] = t.node[m]
    BY <1>1, <1>2, <1>4, NodeMarks
  <1>8. CASE retry
    <2>1. u = RetryNode(freed, n) /\ freed.node[n].retries < MaxRetries /\ freed.node[n].status # "absent"
      BY <1>1, <1>3, <1>5, <1>6, <1>8
    <2> HIDE DEF u
    <2>2. /\ u \in Trees /\ Keeps(freed, u, n) /\ u.state = freed.state
          /\ u.node[n].status = "ready" /\ u.node[n].lease = freed.node[n].lease
          /\ u.node[n].reservation = freed.node[n].reservation
          /\ \A m \in Ids : m # n => u.node[m].status = freed.node[m].status
      BY <1>6, <2>1, RetryIs
    <2>3. Keeps(t, u, n)
      BY <1>6, <2>2, KeepsCompose
    <2>4. ASSUME Standing(t, n) PROVE Standing(u, n)
      <3>1. Nodes(u) = Nodes(t) /\ u.node[n].children = t.node[n].children /\ u.node[n].budget = t.node[n].budget
        BY <2>3 DEF Keeps, Moves, Nodes
      <3>2. u.node[n].lease = 0 /\ u.node[n].reservation = t.node[n].reservation
        BY <1>3, <1>6, <2>2
      <3> QED
        BY <1>1, <2>2, <2>4, <3>1, <3>2 DEF Standing, Terminal
    <2>5. EndInv(u, att)
      <3>1. u.state \notin Ended
        BY <1>6, <1>8, <2>2 DEF Ended
      <3>2. \A m \in Ids : u.node[m].status # "failed"
        BY <1>6, <1>8, <2>2 DEF EndInv, Working, Ended
      <3> QED
        BY <3>1, <3>2 DEF EndInv
    <2> QED
      BY <1>3, <1>6, <1>8, <2>2, <2>3, <2>4, <2>5 DEF Outcome, u
  <1>9. CASE ~ retry
    <2> DEFINE v == Release(gone, n)
    <2>1. u = Finalize(v, F) /\ gone.node[n].status # "absent"
      BY <1>4, <1>5, <1>7, <1>9
    <2>2. /\ Keeps(gone, v, n) /\ v.state = gone.state
          /\ \A m \in Ids : v.node[m].status = gone.node[m].status
          /\ v.node[n].lease = gone.node[n].lease /\ v.node[n].reservation = 0
      BY <1>7, <2>1, ReleaseKeeps
    <2>3. v \in Trees
      BY <2>2 DEF Keeps, Moves
    <2> HIDE DEF u, v
    <2>4. v.node[n].status = "failed" /\ v.node[n].lease = 0 /\ v.state = t.state
      BY <1>4, <1>7, <2>2
    <2>5. \A m \in Ids : m # n => v.node[m].status = t.node[m].status
      BY <1>7, <2>2
    <2>6. Keeps(v, u, n) /\ AtNode(v, u, n) /\ EndInv(u, att)
      BY <2>1, <2>2, <2>3, <2>4, <2>5, FailedEnds DEF F
    <2>7. Keeps(t, u, n)
      BY <1>7, <2>2, <2>6, KeepsCompose
    <2>8. ASSUME Standing(t, n) PROVE Standing(u, n)
      <3>1. Nodes(u) = Nodes(t) /\ u.node[n].children = t.node[n].children
        BY <2>7 DEF Keeps, Moves, Nodes
      <3> QED
        BY <2>2, <2>4, <2>6, <2>8, <3>1 DEF Standing, Terminal, AtNode
    <2>9. u \in Trees
      BY <2>6 DEF Keeps, Moves
    <2> QED
      BY <1>9, <2>4, <2>6, <2>7, <2>8, <2>9 DEF Outcome, AtNode, u
  <1> QED
    BY <1>8, <1>9

-----------------------------------------------------------------------------
(* The tree and its rows, step by step. *)

\* The row a step leaves to a node other than its own: SyncRows.
Synced(u, rows, R, m) ==
    R[m] = IF /\ m # Root /\ u.node[m].status = "failed"
              /\ u.node[m].reason \in {"tree_budget_exhausted", "terminal_failed",
                                       "recursive_usage_unavailable"}
              /\ rows[m] \in {"pending", "running"}
           THEN "failed" ELSE rows[m]

\* SyncRows gives a node that has fallen the row it needs, and others their old one.
LEMMA RowFollows ==
    ASSUME NEW t \in Trees, NEW u \in Trees, NEW rows \in [Ids -> RowStates], NEW att, NEW R,
           NEW m \in Ids, RowAt(t, rows, att, m), Falls(t.node[m], u.node[m], m),
           Synced(u, rows, R, m)
    PROVE  RowAt(u, R, att, m) /\ R[m] \in RowStates /\ (rows[m] = "completed" => R[m] = "completed")
  <1>1. t.node[m].status \in Statuses /\ u.node[m].status \in Statuses /\ rows[m] \in RowStates
    BY TreeFields
  <1>2. CASE /\ u.node[m].status = t.node[m].status /\ u.node[m].lease = t.node[m].lease
             /\ u.node[m].reason = t.node[m].reason
    <2>1. R[m] = rows[m]
      BY <1>2 DEF RowAt, Synced
    <2> QED
      BY <1>1, <1>2, <2>1 DEF RowAt
  <1>3. CASE /\ m # Root /\ t.node[m].status \in Live /\ u.node[m].status = "failed"
             /\ u.node[m].lease = 0
             /\ u.node[m].reason \in {"tree_budget_exhausted", "terminal_failed"}
    <2>1. R[m] = IF rows[m] \in {"pending", "running"} THEN "failed" ELSE rows[m]
      BY <1>3 DEF Synced
    <2>2. rows[m] \in {"pending", "ready", "running"}
      BY <1>1, <1>3 DEF RowAt, Live
    <2> QED
      BY <1>3, <2>1, <2>2 DEF RowAt, RowStates
  <1> QED
    BY <1>2, <1>3 DEF Falls

\* A step of node n that moves the tree and leaves the rows to SyncRows.
LEMMA AccountMoves ==
    ASSUME NEW t, NEW rows, NEW att, NEW acts, NEW ms, Account(t, rows, att, acts, ms),
           NEW n \in Ids, NEW u, Moves(t, u, n), t.state # "absent", EndInv(u, att), Valid(u),
           NEW R, DOMAIN R = Ids, R = [m \in Ids |-> R[m]],
           \A m \in Ids : m # n => Synced(u, rows, R, m),
           RowAt(u, R, att, n), R[n] \in RowStates, rows[n] = "completed" => R[n] = "completed",
           R[n] = "completed" => att[n] > 0,
           ReceiptInv(u, acts, ms), UsageInv(u, acts, ms)
    PROVE  Account(u, R, att, acts, ms)
  <1>1. /\ t \in Trees /\ u \in Trees /\ rows \in [Ids -> RowStates] /\ Covered(u) /\ Line(u)
        /\ u.state # "absent"
    BY DEF Account, Moves
  <1>2. ASSUME NEW m \in Ids
        PROVE  RowAt(u, R, att, m) /\ R[m] \in RowStates /\ (rows[m] = "completed" => R[m] = "completed")
    <2>1. CASE m = n
      BY <2>1
    <2>2. CASE m # n
      <3>1. RowAt(t, rows, att, m) /\ Falls(t.node[m], u.node[m], m) /\ Synced(u, rows, R, m)
        BY <2>2 DEF Account, Moves
      <3> QED
        BY <1>1, <3>1, RowFollows
    <2> QED
      BY <2>1, <2>2
  <1>3. R \in [Ids -> RowStates]
    BY <1>2
  <1>4. Above(u, R, att)
    <2>1. Above(t, rows, att) /\ \A m \in Ids : u.node[m].status = "absent" <=> t.node[m].status = "absent"
      BY DEF Account, Moves
    <2>2. \A m \in Ids : rows[m] = "completed" => R[m] = "completed"
      BY <1>2
    <2> QED
      BY <1>1, <2>1, <2>2 DEF Above
  <1>5. Nodes(u) = Nodes(t)
    BY DEF Moves, Nodes
  <1>6. Parents(u, acts)
    BY <1>5 DEF Account, Parents
  <1>7. Begun(R, att)
    <2>1. \A m \in Ids : m # n /\ R[m] = "completed" => rows[m] = "completed"
      BY DEF Synced
    <2> QED
      BY <2>1 DEF Account, Begun
  <1> QED
    BY <1>1, <1>2, <1>3, <1>4, <1>6, <1>7 DEF Account

\* Known receipts of a node are finitely many.
LEMMA KnownFinite ==
    ASSUME NEW t, NEW n PROVE IsFiniteSet(Known(t, n)) /\ Cardinality(Known(t, n)) \in Nat
  <1>1. IsFiniteSet(Attempts)
    BY Constants, FS_Interval DEF Attempts
  <1>2. Known(t, n) \subseteq Attempts
    BY DEF Known
  <1> QED
    BY <1>1, <1>2, FS_Subset, FS_CardinalityType

\* What a result is charged under: the action of the node, or one of its attempts.
Charge(n, r, x, acts, ms) ==
    \/ r = <<n, 0>> /\ acts[n] # 0 /\ x = acts[n]
    \/ \E a \in Attempts : r = <<n, a>> /\ x = IF ms THEN 0 ELSE FixtureUsage

\* Amounts are natural numbers, and what is charged is not nothing.
LEMMA AmountsAre == {0} \cup Amounts \subseteq Nat /\ 0 \notin Amounts
  BY Constants DEF Amounts

\* A charge is an amount under a receipt.
LEMMA ChargeTypes ==
    ASSUME NEW n \in Ids, NEW acts \in [Ids -> {0} \cup Amounts], NEW ms \in BOOLEAN, NEW r, NEW x,
           Charge(n, r, x, acts, ms)
    PROVE  r \in ReceiptIds /\ x \in Nat
  <1>1. acts[n] \in Nat
    BY AmountsAre
  <1>2. Attempts \subseteq 0 .. (MaxRetries + 1) /\ 0 \in 0 .. (MaxRetries + 1)
    BY Constants DEF Attempts
  <1> QED
    BY <1>1, <1>2, Constants DEF Charge, ReceiptIds

\* Settling a charge keeps receipts and usage in step, whether it is new or repeated.
LEMMA SettledReceipts ==
    ASSUME NEW t \in Trees, NEW acts \in [Ids -> {0} \cup Amounts], NEW ms \in BOOLEAN,
           ReceiptInv(t, acts, ms), UsageInv(t, acts, ms), NEW n \in Ids, NEW r, NEW x, NEW u,
           Settles(t, u, n, r, x), Charge(n, r, x, acts, ms)
    PROVE  ReceiptInv(u, acts, ms) /\ UsageInv(u, acts, ms)
  <1>1. r \in ReceiptIds /\ x \in Nat
    BY ChargeTypes
  <1>2. \A m \in Ids : t.node[m].usage \in Nat /\ acts[m] \in Nat
    BY TreeFields, AmountsAre
  <1>3. CASE t.receipts[r].known
    <2>1. /\ u.receipts = t.receipts
          /\ \A m \in Ids : u.node[m].usage = t.node[m].usage
      BY <1>2, <1>3 DEF Settles
    <2>2. \A m \in Ids : Known(u, m) = Known(t, m)
      BY <2>1 DEF Known
    <2> QED
      BY <2>1, <2>2 DEF ReceiptInv, UsageInv
  <1>4. CASE ~ t.receipts[r].known
    <2>1. PICK w \in BOOLEAN : u.receipts = [t.receipts EXCEPT ![r] = Receipt(w, x)]
      BY <1>4 DEF Settles
    <2>2. t.receipts \in [ReceiptIds -> ReceiptRecs]
      BY TreeFields
    <2>3. /\ u.receipts[r].known /\ u.receipts[r].usage = x
          /\ \A q \in ReceiptIds : q # r => u.receipts[q] = t.receipts[q]
      BY <1>1, <2>1, <2>2 DEF Receipt
    <2>4. \A m \in Ids : u.node[m].usage = t.node[m].usage + (IF m = n THEN x ELSE 0)
      BY <1>4 DEF Settles
    <2>5. \A m \in Ids, a \in Attempts : <<m, a>> \in ReceiptIds /\ a # 0
      BY Constants DEF Attempts, ReceiptIds
    <2>6. \A m \in Ids : <<m, 0>> \in ReceiptIds
      BY Constants DEF ReceiptIds
    <2>7. ReceiptInv(u, acts, ms)
      <3>1. ASSUME NEW m \in Ids, u.receipts[<<m, 0>>].known
            PROVE  acts[m] # 0 /\ u.receipts[<<m, 0>>].usage = acts[m]
        <4>1. CASE r = <<m, 0>>
          BY <2>3, <2>5, <4>1 DEF Charge
        <4>2. CASE r # <<m, 0>>
          BY <2>3, <2>6, <3>1, <4>2 DEF ReceiptInv
        <4> QED
          BY <4>1, <4>2
      <3>2. ASSUME NEW m \in Ids, NEW a \in Attempts, u.receipts[<<m, a>>].known
            PROVE  u.receipts[<<m, a>>].usage = IF ms THEN 0 ELSE FixtureUsage
        <4>1. CASE r = <<m, a>>
          BY <2>3, <2>5, <4>1 DEF Charge
        <4>2. CASE r # <<m, a>>
          <5>1. u.receipts[<<m, a>>] = t.receipts[<<m, a>>]
            BY <2>3, <2>5, <4>2
          <5> QED
            BY <3>2, <5>1, ZenonT(40) DEF ReceiptInv
        <4> QED
          BY <4>1, <4>2
      <3> QED
        BY <3>1, <3>2 DEF ReceiptInv
    <2>8. ASSUME NEW m \in Ids
          PROVE  u.node[m].usage = (IF u.receipts[<<m, 0>>].known THEN acts[m] ELSE 0) +
                                   (IF ms THEN 0 ELSE FixtureUsage * Cardinality(Known(u, m)))
      <3>1. t.node[m].usage = (IF t.receipts[<<m, 0>>].known THEN acts[m] ELSE 0) +
                              (IF ms THEN 0 ELSE FixtureUsage * Cardinality(Known(t, m)))
        BY DEF UsageInv
      <3>2. FixtureUsage \in Nat /\ Cardinality(Known(t, m)) \in Nat /\ IsFiniteSet(Known(t, m))
        BY Constants, KnownFinite
      <3>3. CASE m # n
        <4>1. u.receipts[<<m, 0>>] = t.receipts[<<m, 0>>]
          BY <2>3, <2>6, <3>3 DEF Charge
        <4>2. Known(u, m) = Known(t, m)
          BY <2>3, <2>5, <3>3 DEF Charge, Known
        <4> QED
          BY <1>2, <2>4, <3>1, <3>3, <4>1, <4>2
      <3>4. CASE m = n /\ r = <<n, 0>> /\ acts[n] # 0 /\ x = acts[n]
        <4>1. Known(u, m) = Known(t, m)
          BY <2>3, <2>5, <3>4 DEF Known
        <4>2. u.receipts[<<m, 0>>].known /\ ~ t.receipts[<<m, 0>>].known
          BY <1>4, <2>3, <3>4
        <4>3. u.node[m].usage = t.node[m].usage + acts[m]
          BY <2>4, <3>4
        <4> DEFINE k == IF ms THEN 0 ELSE FixtureUsage * Cardinality(Known(t, m))
        <4>4. k \in Nat
          BY <3>2
        <4>5. t.node[m].usage = k
          BY <3>1, <4>2, <4>4
        <4> HIDE DEF k
        <4>6. u.node[m].usage = acts[m] + k
          BY <1>2, <4>3, <4>4, <4>5
        <4> QED
          BY <4>1, <4>2, <4>6 DEF k
      <3>5. ASSUME m = n, NEW a \in Attempts, r = <<n, a>>, x = IF ms THEN 0 ELSE FixtureUsage
            PROVE  u.node[m].usage = (IF u.receipts[<<m, 0>>].known THEN acts[m] ELSE 0) +
                                     (IF ms THEN 0 ELSE FixtureUsage * Cardinality(Known(u, m)))
        <4>1. u.receipts[<<m, 0>>] = t.receipts[<<m, 0>>]
          BY <2>3, <2>5, <2>6, <3>5
        <4>2. Known(u, m) = Known(t, m) \cup {a} /\ a \notin Known(t, m)
          BY <1>4, <2>3, <2>5, <3>5 DEF Known
        <4>3. Cardinality(Known(u, m)) = Cardinality(Known(t, m)) + 1
          BY <3>2, <4>2, FS_AddElement
        <4>4. u.node[m].usage = t.node[m].usage + x
          BY <2>4, <3>5
        <4> DEFINE k == Cardinality(Known(t, m))
                   b == IF t.receipts[<<m, 0>>].known THEN acts[m] ELSE 0
        <4>5. b \in Nat /\ k \in Nat
          BY <1>2, <3>2
        <4>6. t.node[m].usage = b + (IF ms THEN 0 ELSE FixtureUsage * k)
          BY <3>1
        <4> HIDE DEF k, b
        <4>7. FixtureUsage * (k + 1) = FixtureUsage * k + FixtureUsage /\ FixtureUsage * k \in Nat
          BY <3>2, <4>5
        <4>8. u.node[m].usage = b + (IF ms THEN 0 ELSE FixtureUsage * (k + 1))
          BY <3>2, <3>5, <4>4, <4>5, <4>6, <4>7
        <4> QED
          BY <4>1, <4>3, <4>8 DEF k, b
      <3> QED
        BY <3>3, <3>4, <3>5 DEF Charge
    <2> QED
      BY <2>7, <2>8 DEF UsageInv
  <1> QED
    BY <1>3, <1>4

-----------------------------------------------------------------------------
(* Settlement. *)

\* A candidate made before the tree changed is not fresh.
LEMMA OutdatedIs ==
    ASSUME JobTypes(job, candidate)
    PROVE  /\ Outdated \in [Jobs -> Candidates]
           /\ \A j \in Jobs : ~ Outdated[j].fresh /\ Outdated[j].usage = candidate[j].usage
  <1>1. ASSUME NEW j \in Jobs
        PROVE  /\ [candidate[j] EXCEPT !.fresh = FALSE] \in Candidates
               /\ [candidate[j] EXCEPT !.fresh = FALSE].fresh = FALSE
               /\ [candidate[j] EXCEPT !.fresh = FALSE].usage = candidate[j].usage
    <2>1. candidate[j] \in Candidates
      BY DEF JobTypes
    <2> QED
      BY <2>1 DEF Candidates
  <1> QED
    BY <1>1 DEF Outdated

\* Jobs are pairs.
LEMMA JobsAre == \A n \in Ids, a \in Attempts : <<n, a>> \in Jobs
  BY DEF Jobs

\* When the tree changes the candidates are outdated; the jobs may end.
LEMMA JobsEnd ==
    ASSUME TreeInv, NEW u, NEW jobs, NEW cands \in [Jobs -> Candidates],
           \A j \in Jobs : ~ cands[j].fresh /\ cands[j].usage = candidate[j].usage,
           \A j \in Jobs : jobs[j] = job[j] \/ jobs[j] = "idle"
    PROVE  \A n \in Ids, a \in Attempts : JobAt(u, jobs, cands, attempt, action, n, a)
  <1> SUFFICES ASSUME NEW n \in Ids, NEW a \in Attempts
               PROVE  JobAt(u, jobs, cands, attempt, action, n, a)
    OBVIOUS
  <1>1. JobAt(tree, job, candidate, attempt, action, n, a) /\ <<n, a>> \in Jobs
    BY JobsAre DEF TreeInv
  <1> QED
    BY <1>1 DEF JobAt

\* An attempt that holds the lease of its row.
LEMMA CurrentWorks ==
    ASSUME TreeInv, NEW n \in Ids, row[n] = "running"
    PROVE  Working(tree, n, attempt) /\ tree.node[n].lease = attempt[n]
  <1>1. /\ tree \in Trees /\ RowAt(tree, row, attempt, n) /\ EndInv(tree, attempt)
        /\ Above(tree, row, attempt) /\ Standing(tree, n)
        /\ \A m \in Ids : RowAt(tree, row, attempt, m)
    BY ValidParts DEF TreeInv, Account
  <1>2. tree.node[n].status = "leased" /\ tree.node[n].lease = attempt[n]
    BY <1>1 DEF RowAt
  <1>3. attempt[n] > 0
    <2>1. attempt[n] # 0 /\ attempt[n] \in Nat
      BY <1>1, <1>2, Constants DEF Standing, TreeInv, Counts
    <2> QED
      BY <2>1
  <1> QED
    BY <1>1, <1>2, <1>3 DEF Working, Above, RowAt

\* What an attempt that has ended is charged.
LEMMA ChargeOf ==
    ASSUME TreeInv, NEW n \in Ids, NEW a \in Attempts
    PROVE  /\ Charge(n, ReceiptOf(n, a), UsageOf(n, a), action, measured)
           /\ ReceiptOf(n, a) \in ReceiptIds /\ UsageOf(n, a) \in Nat
           /\ ~ Conflicts(tree, ReceiptOf(n, a), UsageOf(n, a))
  <1>1. JobAt(tree, job, candidate, attempt, action, n, a)
    BY DEF TreeInv
  <1>2. Charge(n, ReceiptOf(n, a), UsageOf(n, a), action, measured)
    BY <1>1 DEF JobAt, Charge, ReceiptOf, UsageOf, Completed
  <1>3. ReceiptOf(n, a) \in ReceiptIds /\ UsageOf(n, a) \in Nat
    BY <1>2, ChargeTypes DEF TreeInv, Counts
  <1>4. ~ Conflicts(tree, ReceiptOf(n, a), UsageOf(n, a))
    <2>1. ReceiptInv(tree, action, measured)
      BY DEF TreeInv, Account
    <2> DEFINE r == ReceiptOf(n, a)
               x == UsageOf(n, a)
    <2> HIDE DEF r, x
    <2>2. Charge(n, r, x, action, measured)
      BY <1>2 DEF r, x
    <2>3. tree.receipts[r].known => tree.receipts[r].usage = x
      <3>1. CASE r = <<n, 0>> /\ action[n] # 0 /\ x = action[n]
        BY <2>1, <3>1, ZenonT(40) DEF ReceiptInv
      <3>2. ASSUME NEW b \in Attempts, r = <<n, b>>, x = IF measured THEN 0 ELSE FixtureUsage
            PROVE  tree.receipts[r].known => tree.receipts[r].usage = x
        BY <2>1, <3>2, ZenonT(40) DEF ReceiptInv
      <3> QED
        BY <2>2, <3>1, <3>2 DEF Charge
    <2> QED
      BY <2>3 DEF Conflicts, r, x
  <1> QED
    BY <1>2, <1>3, <1>4

\* A step that settles what fits gives a tree that validates.
LEMMA FitIsValid ==
    ASSUME TreeInv, NEW n \in Ids, NEW r, NEW x, NEW u, Settles(tree, u, n, r, x),
           Standing(tree, n) => Standing(u, n), Fit(tree, n, r, x)
    PROVE  Valid(u)
  <1>1. /\ tree \in Trees /\ Books(tree) /\ Covered(tree) /\ \A m \in Ids : Standing(tree, m)
    BY ValidParts DEF TreeInv, Account
  <1>2. u \in Trees /\ Covered(u) /\ Books(u)
    BY <1>1 DEF Settles, Moves
  <1>3. \A m \in Ids : Standing(u, m)
    BY <1>1 DEF Settles
  <1> QED
    BY <1>2, <1>3, ValidFrom

\* A result that fits the budget of a live node fits its reservation.
LEMMA FitsFit ==
    ASSUME TreeInv, NEW n \in Ids, NEW a \in Attempts, Fits(n, a), tree.node[n].status \in Live
    PROVE  Fit(tree, n, ReceiptOf(n, a), UsageOf(n, a))
  <1>1. Standing(tree, n)
    BY ValidParts DEF TreeInv, Account
  <1> QED
    BY <1>1 DEF Fits, Fit, CanSpend, Standing, Live, Terminal

\* The two trees a settlement stores.
LEMMA SettledIs ==
    ASSUME TreeInv, NEW n \in Ids, NEW a \in Attempts, Current(n, a)
    PROVE  /\ Settles(tree, ChargedTree(n, a), n, ReceiptOf(n, a), UsageOf(n, a))
           /\ Outcome(tree, ChargedTree(n, a), n, attempt)
           /\ Settles(tree, SettledTree(n, a), n, ReceiptOf(n, a), UsageOf(n, a))
           /\ Outcome(tree, SettledTree(n, a), n, attempt)
  <1> DEFINE r == ReceiptOf(n, a)
             x == UsageOf(n, a)
             ok == Completed(n, a)
             retry == ShouldRetry(n, a)
             v == ChargedTree(n, a)
             u == SettledTree(n, a)
  <1>1. Working(tree, n, attempt) /\ tree \in Trees
    BY CurrentWorks DEF TreeInv, Account, Current
  <1>2. r \in ReceiptIds /\ x \in Nat
    BY ChargeOf
  <1>3. ok \in BOOLEAN /\ retry \in BOOLEAN
    BY DEF Completed, ShouldRetry
  <1>4. retry => ~ ok /\ ~ Unavailable(n, a) /\ tree.state = "running" /\ tree.node[n].retries < MaxRetries
    BY DEF ShouldRetry, RetryAllowed
  <1>5. v = IF n = Root THEN RootCompletion(tree, r, ok, x) ELSE Completion(tree, n, r, ok, x, retry)
    BY DEF ChargedTree
  <1>6. u = IF Unavailable(n, a) THEN FailTree(v, n) ELSE v
    BY DEF SettledTree
  <1> HIDE DEF r, x, ok, retry, u, v
  <1>7. /\ Settles(tree, v, n, r, x) /\ Outcome(tree, v, n, attempt)
        /\ ~ retry => v.node[n].status \in Terminal
    <2>1. CASE n = Root
      <3>1. LET z == RootCompletion(tree, r, ok, x)
            IN  /\ Settles(tree, z, Root, r, x) /\ Outcome(tree, z, Root, attempt)
                /\ z.node[Root].status \in Terminal
        BY <1>1, <1>2, <1>3, <2>1, RootCompletionIs
      <3> QED
        BY <1>5, <2>1, <3>1
    <2>2. CASE n # Root
      <3>1. LET z == Completion(tree, n, r, ok, x, retry)
            IN  /\ Settles(tree, z, n, r, x) /\ Outcome(tree, z, n, attempt)
                /\ ~ retry => z.node[n].status \in Terminal
        BY <1>1, <1>2, <1>3, <1>4, <2>2, CompletionIs
      <3> QED
        BY <1>5, <2>2, <3>1
    <2> QED
      BY <2>1, <2>2
  <1>8. Settles(tree, u, n, r, x) /\ Outcome(tree, u, n, attempt)
    <2>1. CASE ~ Unavailable(n, a)
      BY <1>6, <1>7, <2>1
    <2>2. CASE Unavailable(n, a)
      <3>1. u = FailTree(v, n) /\ v.node[n].status \in Terminal
        BY <1>4, <1>6, <1>7, <2>2
      <3>2. v \in Trees /\ v.node[n].lease = 0
        BY <1>7 DEF Outcome
      <3>3. /\ u \in Trees /\ Keeps(v, u, n) /\ u.node[n].status = "failed" /\ u.node[n].lease = 0
            /\ Standing(v, n) => Standing(u, n)
            /\ EndInv(u, attempt)
        BY <3>1, <3>2, FailTreeIs
      <3>4. Settles(tree, u, n, r, x)
        BY <1>7, <3>3, SettlesCompose
      <3> QED
        BY <1>7, <3>3, <3>4 DEF Outcome
    <2> QED
      BY <2>1, <2>2
  <1> QED
    BY <1>7, <1>8 DEF r, x, u, v

\* A result is settled.
LEMMA SettleStep ==
    ASSUME TreeInv, NEW n \in Ids, NEW a \in Attempts, Settle(n, a), measured' = measured
    PROVE  TreeInv'
  <1> DEFINE u == SettledTree(n, a)
             R == [SyncRows(u, row) EXCEPT ![n] = u.node[n].status]
             r == ReceiptOf(n, a)
             x == UsageOf(n, a)
  <1>1. /\ Current(n, a) /\ Valid(u) /\ tree' = u /\ candidate' = Outdated /\ row' = R
        /\ job' = [job EXCEPT ![<<n, a>>] = "idle"]
        /\ returned' \subseteq Ids
        /\ UNCHANGED <<attempt, action, pauses, refused>>
    BY DEF Settle, Saves, Return, TreeInv, Counts
  <1>2. Settles(tree, u, n, r, x) /\ Outcome(tree, u, n, attempt)
    BY <1>1, SettledIs
  <1>3. Working(tree, n, attempt) /\ tree \in Trees /\ row[n] = "running"
    BY <1>1, CurrentWorks DEF TreeInv, Account, Current
  <1>4. ReceiptInv(u, action, measured) /\ UsageInv(u, action, measured)
    BY <1>2, ChargeOf, SettledReceipts DEF TreeInv, Account, Counts
  <1> HIDE DEF u, r, x
  <1>5. /\ DOMAIN R = Ids /\ R = [m \in Ids |-> R[m]] /\ R[n] = u.node[n].status
        /\ \A m \in Ids : m # n => Synced(u, row, R, m)
    BY DEF SyncRows, Synced
  <1> HIDE DEF R
  <1>6. /\ RowAt(u, R, attempt, n) /\ R[n] \in RowStates /\ row[n] # "completed" /\ attempt[n] > 0
    BY <1>2, <1>3, <1>5 DEF RowAt, Outcome, RowStates, Working
  <1>7. Moves(tree, u, n) /\ EndInv(u, attempt) /\ tree.state # "absent"
    BY <1>2, <1>3 DEF Settles, Outcome, Working
  <1>8. Account(u, R, attempt, action, measured)
    BY <1>1, <1>4, <1>5, <1>6, <1>7, AccountMoves DEF TreeInv
  <1>9. /\ Outdated \in [Jobs -> Candidates]
        /\ \A j \in Jobs : ~ Outdated[j].fresh /\ Outdated[j].usage = candidate[j].usage
    BY OutdatedIs DEF TreeInv
  <1>10. /\ job' \in [Jobs -> {"idle", "working", "deciding", "completed", "failed"}]
         /\ \A j \in Jobs : job'[j] = job[j] \/ job'[j] = "idle"
    BY <1>1 DEF TreeInv, JobTypes
  <1>11. \A m \in Ids, b \in Attempts : JobAt(u, job', Outdated, attempt, action, m, b)
    BY <1>9, <1>10, JobsEnd
  <1>12. FittingResultIsSaved'
    BY <1>1 DEF TreeInv, FittingResultIsSaved
  <1>13. JobTypes(job', Outdated)
    BY <1>9, <1>10 DEF JobTypes
  <1> QED
    BY <1>1, <1>8, <1>11, <1>12, <1>13 DEF TreeInv, Counts

\* A result that is not saved: it did not fit.
LEMMA SettleRefusedStep ==
    ASSUME TreeInv, NEW n \in Ids, NEW a \in Attempts, SettleRefused(n, a), measured' = measured
    PROVE  TreeInv'
  <1>1. /\ Current(n, a) /\ ~ Saves(n, a) /\ tree' = tree /\ candidate' = candidate /\ row' = row
        /\ job' = [job EXCEPT ![<<n, a>>] = "idle"]
        /\ returned' \subseteq Ids
        /\ refused' = refused \cup {Refusal(n, a, FALSE)}
        /\ UNCHANGED <<attempt, action, pauses>>
    BY DEF SettleRefused, Return, TreeInv, Counts
  <1>2. ASSUME Fits(n, a) PROVE FALSE
    <2>1. Working(tree, n, attempt) /\ tree.node[n].lease = a
      BY <1>1, CurrentWorks DEF Current
    <2>2. Fit(tree, n, ReceiptOf(n, a), UsageOf(n, a))
      BY <1>2, <2>1, FitsFit DEF Working, Live
    <2>3. /\ Settles(tree, ChargedTree(n, a), n, ReceiptOf(n, a), UsageOf(n, a))
          /\ Outcome(tree, ChargedTree(n, a), n, attempt)
          /\ Settles(tree, SettledTree(n, a), n, ReceiptOf(n, a), UsageOf(n, a))
          /\ Outcome(tree, SettledTree(n, a), n, attempt)
      BY <1>1, SettledIs
    <2>4. Valid(ChargedTree(n, a)) /\ Valid(SettledTree(n, a))
      BY <2>2, <2>3, FitIsValid DEF Outcome
    <2>5. ~ Conflicts(tree, ReceiptOf(n, a), UsageOf(n, a))
      BY ChargeOf
    <2> QED
      BY <1>1, <2>1, <2>4, <2>5 DEF Saves
  <1>3. ~ Refusal(n, a, FALSE).fits
    BY <1>2 DEF Refusal
  <1>4. FittingResultIsSaved'
    BY <1>1, <1>3 DEF TreeInv, FittingResultIsSaved
  <1>5. job' \in [Jobs -> {"idle", "working", "deciding", "completed", "failed"}]
    BY <1>1 DEF TreeInv, JobTypes
  <1>6. ASSUME NEW m \in Ids, NEW b \in Attempts
        PROVE  JobAt(tree, job', candidate, attempt, action, m, b)
    <2>1. JobAt(tree, job, candidate, attempt, action, m, b) /\ <<m, b>> \in Jobs
      BY JobsAre DEF TreeInv
    <2>2. job'[<<m, b>>] \in {job[<<m, b>>], "idle"}
      BY <1>1, <2>1 DEF TreeInv, JobTypes
    <2> QED
      BY <2>1, <2>2 DEF JobAt
  <1> QED
    BY <1>1, <1>4, <1>5, <1>6 DEF TreeInv, Counts, JobTypes

-----------------------------------------------------------------------------
(* Late results, recovery, pause, resume and kill. *)

\* The tree that a late result makes.
LEMMA LateIs ==
    ASSUME TreeInv, NEW n \in Ids, NEW a \in Attempts, job[<<n, a>>] # "idle"
    PROVE  LET u == LateUsage(tree, n, ReceiptOf(n, a), UsageOf(n, a))
           IN  /\ tree.state # "absent" /\ u \in Trees
               /\ Settles(tree, u, n, ReceiptOf(n, a), UsageOf(n, a))
               /\ Standing(tree, n) => Standing(u, n)
               /\ u.node[n].status = tree.node[n].status /\ u.node[n].lease = tree.node[n].lease
               /\ u.node[n].reason = tree.node[n].reason
               /\ EndInv(u, attempt)
  <1>1. JobAt(tree, job, candidate, attempt, action, n, a)
    BY DEF TreeInv
  <1>2. attempt[n] > 0
    <2>1. attempt[n] \in 0 .. (MaxRetries + 1)
      BY DEF TreeInv, Counts
    <2> QED
      BY <1>1, <2>1, Constants DEF JobAt, Attempts
  <1>3. tree.state # "absent" /\ tree.node[n].status # "absent" /\ EndInv(tree, attempt) /\ tree \in Trees
    BY <1>2 DEF TreeInv, Account, Above
  <1>4. ReceiptOf(n, a) \in ReceiptIds /\ UsageOf(n, a) \in Nat
    BY ChargeOf
  <1> QED
    BY <1>2, <1>3, <1>4, LateUsageIs

\* A result that comes too late is charged.
LEMMA LateResultStep ==
    ASSUME TreeInv, NEW n \in Ids, NEW a \in Attempts, LateResult(n, a), measured' = measured
    PROVE  TreeInv'
  <1> DEFINE r == ReceiptOf(n, a)
             x == UsageOf(n, a)
             u == LateUsage(tree, n, r, x)
             R == SyncRows(u, row)
  <1>1. /\ Valid(u) /\ tree' = u /\ row' = R
        /\ candidate' = IF u = tree THEN candidate ELSE Outdated
        /\ job' = [job EXCEPT ![<<n, a>>] = "idle"] /\ job[<<n, a>>] # "idle"
        /\ returned' \subseteq Ids
        /\ UNCHANGED <<attempt, action, pauses, refused>>
    BY DEF LateResult, LateSaves, Return, TreeInv, Counts
  <1>2. /\ tree.state # "absent" /\ u \in Trees
        /\ Settles(tree, u, n, r, x)
        /\ u.node[n].status = tree.node[n].status /\ u.node[n].lease = tree.node[n].lease
        /\ u.node[n].reason = tree.node[n].reason
        /\ EndInv(u, attempt)
    BY <1>1, LateIs
  <1>3. ReceiptInv(u, action, measured) /\ UsageInv(u, action, measured)
    BY <1>2, ChargeOf, SettledReceipts DEF TreeInv, Account, Counts
  <1> HIDE DEF u, r, x
  <1>4. DOMAIN R = Ids /\ R = [m \in Ids |-> R[m]] /\ \A m \in Ids : Synced(u, row, R, m)
    BY DEF SyncRows, Synced
  <1> HIDE DEF R
  <1>5. /\ RowAt(u, R, attempt, n) /\ R[n] \in RowStates /\ (row[n] = "completed" => R[n] = "completed")
    <2>1. Falls(tree.node[n], u.node[n], n)
      BY <1>2 DEF Falls
    <2>2. tree \in Trees /\ row \in [Ids -> RowStates] /\ RowAt(tree, row, attempt, n)
      BY DEF TreeInv, Account
    <2> QED
      BY <1>2, <1>4, <2>1, <2>2, RowFollows
  <1>6. Moves(tree, u, n) /\ (R[n] = "completed" => attempt[n] > 0)
    BY <1>2, <1>4 DEF Settles, Synced, TreeInv, Account, Begun
  <1>7. Account(u, R, attempt, action, measured)
    BY <1>1, <1>2, <1>3, <1>4, <1>5, <1>6, AccountMoves DEF TreeInv
  <1>8. job' \in [Jobs -> {"idle", "working", "deciding", "completed", "failed"}]
    BY <1>1 DEF TreeInv, JobTypes
  <1>9. candidate' \in [Jobs -> Candidates]
    BY <1>1, OutdatedIs DEF TreeInv, JobTypes
  <1>10. \A j \in Jobs : job'[j] = job[j] \/ job'[j] = "idle"
    BY <1>1 DEF TreeInv, JobTypes
  <1>11. ASSUME NEW m \in Ids, NEW b \in Attempts
         PROVE  JobAt(u, job', candidate', attempt, action, m, b)
    <2>1. CASE u = tree
      <3>1. JobAt(tree, job, candidate, attempt, action, m, b) /\ <<m, b>> \in Jobs /\ candidate' = candidate
        BY <1>1, <2>1, JobsAre DEF TreeInv
      <3> QED
        BY <1>10, <2>1, <3>1 DEF JobAt
    <2>2. CASE u # tree
      <3>1. candidate' = Outdated
        BY <1>1, <2>2
      <3>2. /\ Outdated \in [Jobs -> Candidates]
            /\ \A j \in Jobs : ~ Outdated[j].fresh /\ Outdated[j].usage = candidate[j].usage
        BY OutdatedIs DEF TreeInv
      <3>3. JobAt(u, job', Outdated, attempt, action, m, b)
        BY <1>10, <3>2, JobsEnd
      <3> QED
        BY <3>1, <3>3
    <2> QED
      BY <2>1, <2>2
  <1>12. FittingResultIsSaved'
    BY <1>1 DEF TreeInv, FittingResultIsSaved
  <1> QED
    BY <1>1, <1>7, <1>8, <1>9, <1>11, <1>12 DEF TreeInv, Counts, JobTypes

\* A late result that is not saved: it did not fit, or its node has ended.
LEMMA LateRefusedStep ==
    ASSUME TreeInv, NEW n \in Ids, NEW a \in Attempts, LateRefused(n, a), measured' = measured
    PROVE  TreeInv'
  <1>1. /\ ~ LateSaves(n, a) /\ tree' = tree /\ candidate' = candidate /\ row' = row
        /\ job' = [job EXCEPT ![<<n, a>>] = "idle"] /\ job[<<n, a>>] # "idle"
        /\ returned' \subseteq Ids
        /\ refused' = IF Unavailable(n, a) THEN refused ELSE refused \cup {Refusal(n, a, TRUE)}
        /\ UNCHANGED <<attempt, action, pauses>>
    BY DEF LateRefused, Return, TreeInv, Counts
  <1>2. ASSUME Fits(n, a), tree.node[n].status \in Live, ~ Unavailable(n, a) PROVE FALSE
    <2> DEFINE u == LateUsage(tree, n, ReceiptOf(n, a), UsageOf(n, a))
    <2>1. Fit(tree, n, ReceiptOf(n, a), UsageOf(n, a))
      BY <1>2, FitsFit
    <2>2. Settles(tree, u, n, ReceiptOf(n, a), UsageOf(n, a)) /\ (Standing(tree, n) => Standing(u, n))
      BY <1>1, LateIs
    <2>3. Valid(u)
      BY <2>1, <2>2, FitIsValid
    <2>4. ~ Conflicts(tree, ReceiptOf(n, a), UsageOf(n, a))
      BY ChargeOf
    <2> QED
      BY <1>1, <1>2, <2>3, <2>4 DEF LateSaves
  <1>3. FittingResultIsSaved'
    <2>1. CASE Unavailable(n, a)
      BY <1>1, <2>1 DEF TreeInv, FittingResultIsSaved
    <2>2. CASE ~ Unavailable(n, a)
      <3>1. ~ Refusal(n, a, TRUE).fits \/ (Refusal(n, a, TRUE).late /\ ~ Refusal(n, a, TRUE).live)
        BY <1>2, <2>2 DEF Refusal
      <3> QED
        BY <1>1, <2>2, <3>1 DEF TreeInv, FittingResultIsSaved
    <2> QED
      BY <2>1, <2>2
  <1>5. job' \in [Jobs -> {"idle", "working", "deciding", "completed", "failed"}]
    BY <1>1 DEF TreeInv, JobTypes
  <1>6. ASSUME NEW m \in Ids, NEW b \in Attempts
        PROVE  JobAt(tree, job', candidate, attempt, action, m, b)
    <2>1. JobAt(tree, job, candidate, attempt, action, m, b) /\ <<m, b>> \in Jobs
      BY JobsAre DEF TreeInv
    <2>2. job'[<<m, b>>] \in {job[<<m, b>>], "idle"}
      BY <1>1, <2>1 DEF TreeInv, JobTypes
    <2> QED
      BY <2>1, <2>2 DEF JobAt
  <1> QED
    BY <1>1, <1>3, <1>5, <1>6 DEF TreeInv, Counts, JobTypes

\* A lease is recovered.
LEMMA RecoverStaleIs ==
    ASSUME TreeInv, NEW n \in Ids, row[n] = "running"
    PROVE  LET u == RecoverLease(tree, n, RecoveryRetries(n))
           IN  /\ Keeps(tree, u, n) /\ Outcome(tree, u, n, attempt)
               /\ u.node[n].status = IF RecoveryRetries(n) THEN "ready" ELSE "failed"
  <1>1. Working(tree, n, attempt) /\ tree \in Trees
    BY CurrentWorks DEF TreeInv, Account
  <1>2. RecoveryRetries(n) \in BOOLEAN
    BY DEF RecoveryRetries
  <1>3. RecoveryRetries(n) => tree.state = "running" /\ tree.node[n].retries < MaxRetries
    BY DEF RecoveryRetries, RetryAllowed
  <1> QED
    BY <1>1, <1>2, <1>3, RecoverLeaseIs

\* The lease of an attempt is taken from it.
LEMMA RecoverStaleStep ==
    ASSUME TreeInv, NEW n \in Ids, RecoverStale(n), measured' = measured
    PROVE  TreeInv'
  <1> DEFINE retry == RecoveryRetries(n)
             u == RecoverLease(tree, n, retry)
             R == SyncRows(u, [row EXCEPT ![n] = IF retry THEN "pending" ELSE "failed"])
  <1>1. /\ row[n] = "running" /\ Valid(u) /\ tree' = u /\ row' = R /\ candidate' = Outdated
        /\ UNCHANGED <<attempt, job, action, pauses, refused, returned>>
    BY DEF RecoverStale, CanRecover
  <1>2. Keeps(tree, u, n) /\ Outcome(tree, u, n, attempt) /\ u.node[n].status = IF retry THEN "ready" ELSE "failed"
    BY <1>1, RecoverStaleIs
  <1>3. Working(tree, n, attempt) /\ tree \in Trees /\ row \in [Ids -> RowStates]
    BY <1>1, CurrentWorks DEF TreeInv, Account
  <1> HIDE DEF u, retry
  <1>4. /\ DOMAIN R = Ids /\ R = [m \in Ids |-> R[m]]
        /\ \A m \in Ids : m # n => Synced(u, row, R, m)
        /\ R[n] = IF retry THEN "pending" ELSE "failed"
    <2>1. DOMAIN R = Ids /\ R = [m \in Ids |-> R[m]]
      BY DEF SyncRows
    <2>2. \A m \in Ids : m # n => Synced(u, row, R, m)
      BY <1>3 DEF SyncRows, Synced
    <2>3. R[n] = IF retry THEN "pending" ELSE "failed"
      BY <1>2, <1>3 DEF SyncRows
    <2> QED
      BY <2>1, <2>2, <2>3
  <1> HIDE DEF R
  <1>5. RowAt(u, R, attempt, n) /\ R[n] \in RowStates /\ row[n] # "completed" /\ R[n] # "completed"
    BY <1>1, <1>2, <1>4 DEF RowAt, RowStates
  <1>6. Moves(tree, u, n) /\ EndInv(u, attempt) /\ tree.state # "absent"
    BY <1>2, <1>3 DEF Keeps, Outcome, Working
  <1>7. ReceiptInv(u, action, measured) /\ UsageInv(u, action, measured)
    <2>1. u.receipts = tree.receipts /\ \A m \in Ids : u.node[m].usage = tree.node[m].usage
      BY <1>2 DEF Keeps
    <2>2. \A m \in Ids : Known(u, m) = Known(tree, m)
      BY <2>1 DEF Known
    <2> QED
      BY <2>1, <2>2 DEF TreeInv, Account, ReceiptInv, UsageInv
  <1>8. Account(u, R, attempt, action, measured)
    BY <1>1, <1>4, <1>5, <1>6, <1>7, AccountMoves DEF TreeInv
  <1>9. /\ Outdated \in [Jobs -> Candidates]
        /\ \A j \in Jobs : ~ Outdated[j].fresh /\ Outdated[j].usage = candidate[j].usage
    BY OutdatedIs DEF TreeInv
  <1>10. \A m \in Ids, b \in Attempts : JobAt(u, job, Outdated, attempt, action, m, b)
    BY <1>9, JobsEnd
  <1>11. FittingResultIsSaved'
    BY <1>1 DEF TreeInv, FittingResultIsSaved
  <1>12. JobTypes(job, Outdated)
    BY <1>9 DEF TreeInv, JobTypes
  <1> QED
    BY <1>1, <1>8, <1>10, <1>11, <1>12 DEF TreeInv, Counts

\* What the operator wants, and what the tree allows.
LEMMA EffectiveIs ==
    ASSUME NEW t \in Trees, t.state # "absent",
           NEW wanted \in {"operator_paused", "running", "kill_stopped"}
    PROVE  LET s == EffectiveState(t, wanted)
           IN  /\ s \in States /\ s # "absent" /\ (t.state \in Ended => s \in Ended)
               /\ s = "completed" => t.state = "completed"
  <1>1. t.state \in States
    BY TreeFields
  <1> DEFINE b == t.state = "budget_exhausted" \/ \E n \in Nodes(t) : t.node[n].reason = "tree_budget_exhausted"
  <1>2. EffectiveState(t, wanted) \in {"budget_exhausted", t.state, wanted, "running"}
    BY DEF EffectiveState
  <1>3. t.state \in Ended => EffectiveState(t, wanted) \in {"budget_exhausted", t.state}
    BY DEF EffectiveState
  <1> QED
    BY <1>1, <1>2, <1>3 DEF States, Ended

\* Pause, resume and kill charge nothing, end only live nodes and reopen no tree.
LEMMA ControlIs ==
    ASSUME NEW t \in Trees, t.state # "absent", NEW att, EndInv(t, att),
           NEW wanted \in {"operator_paused", "running", "kill_stopped"}
    PROVE  LET u == Control(t, wanted)
               S == ControlEnds(t, wanted)
           IN  /\ u \in Trees /\ u.state # "absent" /\ (t.state \in Ended => u.state \in Ended)
               /\ Covered(t) => Covered(u)
               /\ Line(t) => Line(u)
               /\ u.receipts = t.receipts
               /\ \A m \in S : m \in Ids /\ t.node[m].status \in Live
               /\ \A m \in Ids : /\ u.node[m].status = IF m \in S THEN "failed" ELSE t.node[m].status
                                 /\ u.node[m].lease = IF m \in S THEN 0 ELSE t.node[m].lease
                                 /\ u.node[m].usage = t.node[m].usage
               /\ EndInv(u, att)
  <1> DEFINE s == EffectiveState(t, wanted)
             S == ControlEnds(t, wanted)
             v == [t EXCEPT !.state = s]
             why == CASE s = "kill_stopped" -> "recursive_kill_switch_active"
                      [] s = "budget_exhausted" -> "tree_budget_exhausted"
                      [] OTHER -> "terminal_failed"
             u == FailAndRelease(v, S, why)
  <1>1. Control(t, wanted) = u
    BY DEF Control
  <1>2. s \in States /\ s # "absent" /\ (t.state \in Ended => s \in Ended) /\ (s = "completed" => t.state = "completed")
    BY EffectiveIs
  <1>3. why \in Reasons
    BY DEF Reasons
  <1>4. /\ \A m \in S : m \in Ids /\ t.node[m].status \in Live
        /\ s \notin Ended \ {"completed"} => S = {}
        /\ s \in Ended \ {"completed"} => \A m \in Ids : t.node[m].status \in Live /\ m # Root => m \in S
    BY DEF ControlEnds, Nodes, Live
  <1> HIDE DEF s, S, why
  <1>5. /\ v \in Trees /\ Marks(t, v, Root) /\ v.state = s /\ v.node = t.node
    BY <1>2, StateMarks, Constants DEF Marks
  <1>6. Fails(v, u, S, why)
    BY <1>3, <1>5, FailFields
  <1> HIDE DEF u, v
  <1>7. \A m \in Ids : u.node[m].status = "absent" <=> v.node[m].status = "absent"
    BY <1>4, <1>5, <1>6 DEF Fails, Live
  <1>8. Frees(v, u, S)
    BY <1>4, <1>5, <1>6, <1>7 DEF Fails, Frees, Live
  <1>9. (Covered(v) => Covered(u)) /\ (Line(v) => Line(u))
    BY <1>5, <1>8, FreesKeep
  <1>10. (Covered(t) => Covered(v)) /\ (Line(t) => Line(v))
    <2>1. v.rootBudget = t.rootBudget /\ v.reserved = t.reserved
      BY <1>5 DEF Marks
    <2> QED
      BY <1>5, <2>1 DEF Covered, Line, Held, Below
  <1>11. /\ u \in Trees /\ u.state = s /\ u.receipts = t.receipts
         /\ \A m \in Ids : /\ u.node[m].status = IF m \in S THEN "failed" ELSE t.node[m].status
                           /\ u.node[m].lease = IF m \in S THEN 0 ELSE t.node[m].lease
                           /\ u.node[m].usage = t.node[m].usage
    BY <1>5, <1>6 DEF Fails, Marks
  <1>12. EndInv(u, att)
    <2>1. CASE s \notin Ended
      <3>1. S = {} /\ t.state \notin Ended
        BY <1>2, <1>4, <2>1
      <3> QED
        BY <1>11, <2>1, <3>1 DEF EndInv
    <2>2. CASE s = "completed"
      <3>1. S = {} /\ t.state = "completed"
        BY <1>2, <1>4, <2>2
      <3> QED
        BY <1>11, <2>2, <3>1 DEF EndInv, Ended
    <2>3. CASE s \in Ended \ {"completed"}
      <3>1. \A m \in Ids : u.node[m].status \in Live => m = Root
        BY <1>4, <1>11, <2>3 DEF Live
      <3> QED
        BY <1>11, <2>3, <3>1 DEF EndInv
    <2> QED
      BY <2>1, <2>2, <2>3
  <1> QED
    BY <1>1, <1>2, <1>4, <1>9, <1>10, <1>11, <1>12 DEF S

\* The operator pauses, resumes or kills.
LEMMA SetPausedStep ==
    ASSUME TreeInv, NEW wanted \in {"operator_paused", "running", "kill_stopped"},
           SetPaused(wanted), measured' = measured, pauses' \in 0 .. MaxPauses
    PROVE  TreeInv'
  <1> DEFINE u == Control(tree, wanted)
             S == ControlEnds(tree, wanted)
             R == [n \in Ids |-> IF n \in S THEN "failed" ELSE row[n]]
  <1>1. /\ tree.state # "absent" /\ \A n \in S : row[n] \in {"pending", "running"}
        /\ Valid(u) /\ tree' = u /\ candidate' = Outdated /\ row' = R
        /\ UNCHANGED <<attempt, job, action, refused, returned>>
    BY DEF SetPaused
  <1>2. tree \in Trees /\ EndInv(tree, attempt)
    BY DEF TreeInv, Account
  <1>3. /\ u \in Trees /\ u.state # "absent"
        /\ Covered(tree) => Covered(u)
        /\ Line(tree) => Line(u)
        /\ u.receipts = tree.receipts
        /\ \A m \in S : m \in Ids /\ tree.node[m].status \in Live
        /\ \A m \in Ids : /\ u.node[m].status = IF m \in S THEN "failed" ELSE tree.node[m].status
                          /\ u.node[m].lease = IF m \in S THEN 0 ELSE tree.node[m].lease
                          /\ u.node[m].usage = tree.node[m].usage
        /\ EndInv(u, attempt)
    BY <1>1, <1>2, ControlIs
  <1> HIDE DEF u, S
  <1>4. R \in [Ids -> RowStates]
    BY DEF TreeInv, Account, RowStates
  <1>5. ASSUME NEW m \in Ids PROVE RowAt(u, R, attempt, m)
    <2>1. RowAt(tree, row, attempt, m) /\ R[m] = IF m \in S THEN "failed" ELSE row[m]
      BY DEF TreeInv, Account
    <2>2. CASE m \in S
      BY <1>3, <2>1, <2>2 DEF RowAt
    <2>3. CASE m \notin S
      <3>1. u.node[m].status = tree.node[m].status /\ u.node[m].lease = tree.node[m].lease /\ R[m] = row[m]
        BY <1>3, <2>1, <2>3
      <3> QED
        BY <2>1, <3>1 DEF RowAt
    <2> QED
      BY <2>2, <2>3
  <1>6. \A m \in Ids : row[m] = "completed" => R[m] = "completed"
    BY <1>1
  <1>7. \A m \in Ids : u.node[m].status = "absent" <=> tree.node[m].status = "absent"
    BY <1>3 DEF Live
  <1>8. Above(u, R, attempt)
    <2>1. Above(tree, row, attempt)
      BY DEF TreeInv, Account
    <2> HIDE DEF R
    <2> QED
      BY <1>3, <1>6, <1>7, <2>1 DEF Above
  <1>9. Parents(u, action)
    <2>1. Nodes(u) = Nodes(tree)
      BY <1>7 DEF Nodes
    <2> QED
      BY <2>1 DEF TreeInv, Account, Parents
  <1>10. ReceiptInv(u, action, measured) /\ UsageInv(u, action, measured)
    <2>1. \A m \in Ids : Known(u, m) = Known(tree, m)
      BY <1>3 DEF Known
    <2> QED
      BY <1>3, <2>1 DEF TreeInv, Account, ReceiptInv, UsageInv
  <1>11. Covered(tree) /\ Line(tree) /\ Begun(R, attempt)
    BY DEF TreeInv, Account, Begun
  <1> HIDE DEF R
  <1>12. Account(u, R, attempt, action, measured)
    BY <1>1, <1>3, <1>4, <1>5, <1>8, <1>9, <1>10, <1>11 DEF Account
  <1>13. /\ Outdated \in [Jobs -> Candidates]
         /\ \A j \in Jobs : ~ Outdated[j].fresh /\ Outdated[j].usage = candidate[j].usage
    BY OutdatedIs DEF TreeInv
  <1>14. \A m \in Ids, b \in Attempts : JobAt(u, job, Outdated, attempt, action, m, b)
    BY <1>13, JobsEnd
  <1>15. FittingResultIsSaved'
    BY <1>1 DEF TreeInv, FittingResultIsSaved
  <1>16. JobTypes(job, Outdated)
    BY <1>13 DEF TreeInv, JobTypes
  <1> QED
    BY <1>1, <1>12, <1>14, <1>15, <1>16 DEF TreeInv, Counts

-----------------------------------------------------------------------------
(* The tree as it is made, and its leases. *)

\* Nothing adds up to nothing.
LEMMA ZeroSum ==
    ASSUME NEW f \in [Ids -> Nat], \A n \in Ids : f[n] = 0
    PROVE  SumFunction(f) = 0
  <1>1. IsFiniteSet(Ids) /\ Root \in Ids
    BY Constants
  <1>2. PICK n \in Ids : n = Root
    BY <1>1
  <1>3. SumFunction(f) = f[n]
    BY <1>1, SumOne
  <1> QED
    BY <1>3

\* A node that is not there, and the root of a new tree.
LEMMA NewNodesAre ==
    /\ NoNode \in NodeRecs /\ NoNode.status = "absent" /\ Blank(NoNode)
    /\ \A b \in Nat, c \in Nat, r \in Nat :
          LET x == NewNode(b, c, r)
          IN  /\ x \in NodeRecs /\ x.status = "ready" /\ x.lease = 0 /\ x.retries = 0 /\ x.children = 0
              /\ x.budget = b /\ x.limit = b /\ x.childBudget = c /\ x.childLimit = c
              /\ x.reservation = r /\ x.usage = 0 /\ x.reason = "none"
  <1>1. 0 \in 0 .. (MaxRetries + 1) /\ 0 \in 0 .. MaxRetries
    BY Constants
  <1>2. /\ NoNode \in NodeRecs /\ NoNode.status = "absent" /\ Blank(NoNode) /\ NoNode.reason = "none"
    BY <1>1 DEF NoNode, NodeRecs, Blank, Statuses, Reasons
  <1>3. ASSUME NEW b \in Nat, NEW c \in Nat, NEW r \in Nat
        PROVE  LET x == NewNode(b, c, r)
               IN  /\ x \in NodeRecs /\ x.status = "ready" /\ x.lease = 0 /\ x.retries = 0 /\ x.children = 0
                   /\ x.budget = b /\ x.limit = b /\ x.childBudget = c /\ x.childLimit = c
                   /\ x.reservation = r /\ x.usage = 0 /\ x.reason = "none"
    <2>1. "ready" \in Statuses
      BY DEF Statuses, Live
    <2> QED
      BY <1>2, <2>1 DEF NewNode, NodeRecs, Blank
  <1> QED
    BY <1>2, <1>3

\* The tree before and after the first lease differ in their state.
LEMMA NewTreeIs ==
    /\ NewTree \in Trees /\ NewTree.state = "running"
    /\ NoTree \in Trees /\ NoTree.state = "absent"
    /\ NoTree.rootBudget = TreeBudget /\ NoTree.spent = 0 /\ NoTree.reserved = 0
    /\ NoTree.node = NewTree.node /\ NoTree.receipts = NewTree.receipts
    /\ NoTree.rootBudget = NewTree.rootBudget /\ NoTree.spent = NewTree.spent
    /\ NoTree.reserved = NewTree.reserved
    /\ \A n \in Ids : NoTree.node[n] = IF n = Root THEN NewNode(TreeBudget, ChildBudget, 0) ELSE NoNode
    /\ \A r \in ReceiptIds : ~ NoTree.receipts[r].known
  <1>1. NewNode(TreeBudget, ChildBudget, 0) \in NodeRecs /\ NoNode \in NodeRecs
    BY NewNodesAre, Constants
  <1>2. NoReceipt \in ReceiptRecs /\ ~ NoReceipt.known
    BY DEF NoReceipt, ReceiptRecs
  <1>3. TreeBudget \in Nat /\ "running" \in States /\ "absent" \in States
    BY Constants DEF States
  <1> HIDE DEF NewNode, NoNode, NoReceipt
  <1>4. /\ NewTree.node = [n \in Ids |-> IF n = Root THEN NewNode(TreeBudget, ChildBudget, 0) ELSE NoNode]
        /\ NewTree.receipts = [r \in ReceiptIds |-> NoReceipt]
        /\ NewTree.state = "running" /\ NewTree.rootBudget = TreeBudget /\ NewTree.spent = 0
        /\ NewTree.reserved = 0 /\ NewTree \in Trees
    BY <1>1, <1>2, <1>3 DEF NewTree, Trees
  <1>5. /\ NoTree \in Trees /\ NoTree.state = "absent" /\ NoTree.rootBudget = NewTree.rootBudget
        /\ NoTree.spent = NewTree.spent /\ NoTree.reserved = NewTree.reserved
        /\ NoTree.node = NewTree.node /\ NoTree.receipts = NewTree.receipts
    BY <1>3, <1>4 DEF NoTree, Trees
  <1> QED
    BY <1>2, <1>4, <1>5

\* Its books are right.
LEMMA NoTreeValid == Valid(NoTree) /\ Covered(NoTree) /\ Line(NoTree)
  <1> DEFINE t == NoTree
             top == NewNode(TreeBudget, ChildBudget, 0)
  <1>1. /\ t \in Trees /\ t.rootBudget = TreeBudget /\ t.spent = 0 /\ t.reserved = 0
        /\ \A n \in Ids : t.node[n] = IF n = Root THEN top ELSE NoNode
    BY NewTreeIs
  <1>2. /\ top.status = "ready" /\ top.lease = 0 /\ top.children = 0
        /\ top.budget = TreeBudget /\ top.limit = TreeBudget
        /\ top.childBudget = ChildBudget /\ top.childLimit = ChildBudget
        /\ top.reservation = 0 /\ top.usage = 0
    BY NewNodesAre, Constants
  <1>3. NoNode.status = "absent" /\ Blank(NoNode)
    BY NewNodesAre
  <1> HIDE DEF t, top
  <1>4. \A n \in Ids : t.node[n].usage = 0 /\ t.node[n].reservation = 0
    BY <1>1, <1>2, <1>3 DEF Blank
  <1>5. SumFunction(Used(t)) = 0 /\ SumFunction(Held(t)) = 0
    <2>1. /\ Used(t) \in [Ids -> Nat] /\ Held(t) \in [Ids -> Nat]
          /\ \A n \in Ids : Used(t)[n] = 0 /\ Held(t)[n] = 0
      BY <1>1, <1>4, TreeFields DEF Used, Held
    <2> QED
      BY <2>1, ZeroSum
  <1>6. ASSUME NEW n \in Ids PROVE Below(t, n) = 0 /\ OfChild(t, n) = 0
    <2>1. n < MaxDepth => t.node[n + 1].usage = 0 /\ t.node[n + 1].reservation = 0
      BY <1>4, Constants
    <2> QED
      BY <2>1 DEF Below, OfChild
  <1>7. \A n \in Ids : n + 1 \notin Nodes(t)
    BY <1>1, <1>3, Constants DEF Nodes, Root
  <1>8. Covered(t)
    BY <1>1, <1>2, <1>3, <1>5, <1>6, Constants DEF Covered, Blank
  <1>9. Line(t)
    BY <1>1, <1>2, <1>3, Constants DEF Line
  <1>10. Books(t)
    BY <1>1, <1>2, <1>3, <1>5, <1>6, Constants DEF Books, AddsUp, Blank
  <1>11. ASSUME NEW n \in Ids PROVE Standing(t, n)
    BY <1>1, <1>2, <1>3, <1>7 DEF Standing, Blank
  <1> QED
    BY <1>1, <1>8, <1>9, <1>10, <1>11, ValidFrom DEF t

\* The books say nothing of the state.
LEMMA LeasedTreeIs ==
    ASSUME TreeInv, LeasedTree.state = "running"
    PROVE  /\ LeasedTree \in Trees /\ LeasedTree.node = tree.node /\ LeasedTree.receipts = tree.receipts
           /\ Books(LeasedTree) /\ Covered(LeasedTree) /\ Line(LeasedTree)
           /\ \A m \in Ids : Standing(LeasedTree, m) /\ tree.node[m].status # "failed"
  <1>1. /\ tree \in Trees /\ Valid(tree) /\ Covered(tree) /\ Line(tree) /\ EndInv(tree, attempt)
        /\ tree.state = "absent" => tree = NoTree
    BY DEF TreeInv, Account
  <1>2. Books(tree) /\ \A m \in Ids : Standing(tree, m)
    BY <1>1, ValidParts
  <1>3. \A m \in Ids : tree.node[m].status # "failed"
    BY <1>1 DEF EndInv, Ended, LeasedTree
  <1>4. CASE tree.state = "absent"
    <2>1. /\ LeasedTree \in Trees /\ LeasedTree.node = tree.node /\ LeasedTree.receipts = tree.receipts
          /\ LeasedTree.rootBudget = tree.rootBudget /\ LeasedTree.spent = tree.spent
          /\ LeasedTree.reserved = tree.reserved
      BY <1>1, <1>4, NewTreeIs DEF LeasedTree
    <2>2. /\ Overrun(LeasedTree) = Overrun(tree) /\ Used(LeasedTree) = Used(tree)
          /\ Held(LeasedTree) = Held(tree) /\ Nodes(LeasedTree) = Nodes(tree)
          /\ \A m \in Ids : OfChild(LeasedTree, m) = OfChild(tree, m) /\ Below(LeasedTree, m) = Below(tree, m)
      BY <2>1 DEF Overrun, Used, Held, Nodes, OfChild, Below
    <2>3. Covered(LeasedTree)
      BY <1>1, <2>1, <2>2 DEF Covered
    <2>4. Line(LeasedTree)
      BY <1>1, <2>1 DEF Line
    <2>5. Books(LeasedTree)
      BY <1>2, <2>1, <2>2 DEF Books, AddsUp
    <2>6. \A m \in Ids : Standing(LeasedTree, m)
      BY <1>2, <2>1, <2>2 DEF Standing
    <2> QED
      BY <1>3, <2>1, <2>3, <2>4, <2>5, <2>6
  <1>5. CASE tree.state # "absent"
    BY <1>1, <1>2, <1>3, <1>5 DEF LeasedTree
  <1> QED
    BY <1>4, <1>5

\* A node is leased to its next attempt.
LEMMA LeaseStep ==
    ASSUME TreeInv, NEW n \in Ids, Lease(n), measured' = measured
    PROVE  TreeInv'
  <1> DEFINE a == attempt[n] + 1
             v == LeasedTree
             y == [v.node[n] EXCEPT !.status = "leased", !.lease = a]
             u == [v EXCEPT !.node[n].status = "leased", !.node[n].lease = a]
             A == [attempt EXCEPT ![n] = a]
             R == [row EXCEPT ![n] = "running"]
  <1>1. /\ CanLease(n) /\ tree' = u /\ candidate' = Outdated /\ row' = R /\ attempt' = A
        /\ job' = [job EXCEPT ![<<n, a>>] = "working"]
        /\ UNCHANGED <<action, pauses, refused, returned>>
    BY DEF Lease
  <1>2. /\ row[n] = "pending" /\ a \in Attempts /\ v.state = "running" /\ v.node[n].status = "ready"
        /\ n # Root => row[n - 1] = "completed"
    BY <1>1 DEF CanLease
  <1>3. /\ attempt \in [Ids -> 0 .. (MaxRetries + 1)] /\ row \in [Ids -> RowStates]
        /\ \A m \in Ids : RowAt(tree, row, attempt, m)
        /\ Above(tree, row, attempt) /\ Begun(row, attempt) /\ Parents(tree, action)
        /\ ReceiptInv(tree, action, measured) /\ UsageInv(tree, action, measured)
    BY DEF TreeInv, Counts, Account
  <1>4. /\ v \in Trees /\ v.node = tree.node /\ v.receipts = tree.receipts
        /\ Books(v) /\ Covered(v) /\ Line(v)
        /\ \A m \in Ids : Standing(v, m) /\ tree.node[m].status # "failed"
    BY <1>2, LeasedTreeIs
  <1>5. a \in 0 .. (MaxRetries + 1) /\ a > 0 /\ attempt[n] \in Nat
    BY <1>2, <1>3, Constants DEF Attempts
  <1>6. /\ A \in [Ids -> 0 .. (MaxRetries + 1)] /\ A[n] = a /\ \A m \in Ids : m # n => A[m] = attempt[m]
    BY <1>3, <1>5
  <1>7. /\ R \in [Ids -> RowStates] /\ R[n] = "running" /\ \A m \in Ids : m # n => R[m] = row[m]
    BY <1>3 DEF RowStates
  <1> HIDE DEF v, A, R
  <1>8. v.node[n] \in NodeRecs /\ v.node \in [Ids -> NodeRecs] /\ "leased" \in Statuses
    BY <1>4, TreeFields DEF Statuses, Live
  <1>9. u = WithNode(v, n, y)
    BY <1>4, <1>8 DEF Trees, NodeRecs, WithNode
  <1>10. /\ y \in NodeRecs /\ y.status = "leased" /\ y.lease = a
         /\ y.budget = v.node[n].budget /\ y.limit = v.node[n].limit
         /\ y.childBudget = v.node[n].childBudget /\ y.childLimit = v.node[n].childLimit
         /\ y.reservation = v.node[n].reservation /\ y.usage = v.node[n].usage
         /\ y.children = v.node[n].children
    BY <1>5, <1>8 DEF NodeRecs
  <1> HIDE DEF y, u, a
  <1>11. /\ u \in Trees /\ Keeps(v, u, n) /\ u.state = v.state /\ u.node[n] = y
         /\ \A m \in Ids : m # n => u.node[m] = v.node[m]
    BY <1>2, <1>4, <1>9, <1>10, NodeMarks
  <1>12. \A m \in Ids : u.node[m].status = "absent" <=> tree.node[m].status = "absent"
    BY <1>2, <1>4, <1>10, <1>11
  <1>13. Nodes(u) = Nodes(tree) /\ Nodes(v) = Nodes(tree)
    BY <1>4, <1>12 DEF Nodes
  <1>14. Covered(u) /\ Books(u) /\ Line(u) /\ u.receipts = tree.receipts
         /\ \A m \in Ids : u.node[m].usage = tree.node[m].usage
    BY <1>4, <1>11 DEF Keeps, Moves
  <1>15. ASSUME NEW m \in Ids PROVE Standing(u, m)
    <2>1. CASE m # n
      BY <1>4, <1>11, <2>1 DEF Keeps
    <2>2. CASE m = n
      <3>1. Standing(v, n)
        BY <1>4
      <3> QED
        BY <1>2, <1>5, <1>10, <1>11, <1>13, <2>2, <3>1 DEF Standing, Terminal
    <2> QED
      BY <2>1, <2>2
  <1>16. Valid(u)
    BY <1>11, <1>14, <1>15, ValidFrom
  <1>17. EndInv(u, A)
    BY <1>2, <1>4, <1>10, <1>11 DEF EndInv, Ended
  <1>18. ASSUME NEW m \in Ids PROVE RowAt(u, R, A, m)
    <2>1. CASE m # n
      <3>1. u.node[m] = tree.node[m] /\ R[m] = row[m] /\ A[m] = attempt[m] /\ RowAt(tree, row, attempt, m)
        BY <1>3, <1>4, <1>6, <1>7, <1>11, <2>1
      <3> QED
        BY <3>1 DEF RowAt
    <2>2. CASE m = n
      BY <1>6, <1>7, <1>10, <1>11, <2>2 DEF RowAt
    <2> QED
      BY <2>1, <2>2
  <1>19. Above(u, R, A)
    <2>1. \A m \in Ids : row[m] = "completed" => R[m] = "completed"
      BY <1>2, <1>7
    <2>2. u.state # "absent"
      BY <1>2, <1>11
    <2>3. ASSUME NEW m \in Ids, m < n PROVE row[m] = "completed"
      <3>1. n \in Nat /\ m \in Nat /\ n # Root /\ n - 1 \in Ids /\ Ids \subseteq Nat
        BY <2>3, Constants DEF Root
      <3>2. attempt[n - 1] > 0 /\ row[n - 1] = "completed"
        BY <1>2, <1>3, <3>1 DEF Begun
      <3>3. m = n - 1 \/ m < n - 1
        BY <2>3, <3>1
      <3> QED
        BY <1>3, <3>1, <3>2, <3>3 DEF Above
    <2>4. ASSUME NEW m \in Ids, A[m] > 0
          PROVE  u.node[m].status # "absent" /\ \A k \in Ids : k < m => R[k] = "completed"
      <3>1. CASE m = n
        BY <1>10, <1>11, <2>1, <2>3, <3>1
      <3>2. CASE m # n
        <4>1. attempt[m] > 0
          BY <1>6, <2>4, <3>2
        <4> QED
          BY <1>3, <1>12, <2>1, <4>1 DEF Above
      <3> QED
        BY <3>1, <3>2
    <2> QED
      BY <2>2, <2>4 DEF Above
  <1>20. Begun(R, A)
    BY <1>3, <1>6, <1>7 DEF Begun
  <1>21. Parents(u, action)
    BY <1>3, <1>13 DEF Parents
  <1>22. ReceiptInv(u, action, measured) /\ UsageInv(u, action, measured)
    <2>1. \A m \in Ids : Known(u, m) = Known(tree, m)
      BY <1>14 DEF Known
    <2> QED
      BY <1>3, <1>14, <2>1 DEF ReceiptInv, UsageInv
  <1>23. Account(u, R, A, action, measured)
    BY <1>2, <1>7, <1>11, <1>14, <1>16, <1>17, <1>18, <1>19, <1>20, <1>21, <1>22 DEF Account
  <1>24. /\ Outdated \in [Jobs -> Candidates]
         /\ \A j \in Jobs : ~ Outdated[j].fresh /\ Outdated[j].usage = candidate[j].usage
    BY OutdatedIs DEF TreeInv
  <1>25. /\ job \in [Jobs -> {"idle", "working", "deciding", "completed", "failed"}] /\ <<n, a>> \in Jobs
         /\ \A m \in Ids, b \in Attempts : JobAt(tree, job, candidate, attempt, action, m, b)
    BY <1>2, JobsAre DEF TreeInv, JobTypes
  <1>26. /\ job' \in [Jobs -> {"idle", "working", "deciding", "completed", "failed"}]
         /\ job'[<<n, a>>] = "working" /\ \A j \in Jobs : j # <<n, a>> => job'[j] = job[j]
    BY <1>1, <1>25
  <1>27. ASSUME NEW m \in Ids, NEW b \in Attempts
         PROVE  JobAt(u, job', Outdated, A, action, m, b)
    <2>1. <<m, b>> \in Jobs /\ JobAt(tree, job, candidate, attempt, action, m, b)
      BY <1>25, JobsAre
    <2>2. ~ Outdated[<<m, b>>].fresh /\ Outdated[<<m, b>>].usage = candidate[<<m, b>>].usage
      BY <1>24, <2>1
    <2>3. CASE <<m, b>> = <<n, a>>
      <3>1. b <= A[m]
        BY <1>5, <1>6, <2>3 DEF a
      <3> QED
        BY <1>26, <2>2, <2>3, <3>1 DEF JobAt
    <2>4. CASE <<m, b>> # <<n, a>>
      <3>1. job'[<<m, b>>] = job[<<m, b>>]
        BY <1>26, <2>1, <2>4
      <3>2. b <= attempt[m] => b <= A[m]
        <4>1. b \in Nat /\ attempt[m] \in Nat /\ A[m] \in Nat /\ attempt[m] <= A[m]
          BY <1>3, <1>5, <1>6, Constants DEF Attempts, a
        <4> QED
          BY <4>1
      <3> QED
        BY <2>1, <2>2, <3>1, <3>2 DEF JobAt
    <2> QED
      BY <2>3, <2>4
  <1>28. FittingResultIsSaved'
    BY <1>1 DEF TreeInv, FittingResultIsSaved
  <1>29. JobTypes(job', Outdated) /\ Counts(A, action, pauses, returned, measured)
    BY <1>6, <1>24, <1>26 DEF TreeInv, JobTypes, Counts
  <1> QED
    BY <1>1, <1>23, <1>27, <1>28, <1>29 DEF TreeInv

-----------------------------------------------------------------------------
(* Admission of a child. *)

\* What a child is given: no more than its parent and the tree have left.
LEMMA GrantIs ==
    ASSUME NEW t \in Trees, NEW n \in Ids
    PROVE  /\ Grant(t, n) \in Nat
           /\ Grant(t, n) <= t.node[n].childBudget /\ Grant(t, n) <= t.rootBudget
  <1> DEFINE x == ChildBudget
             y == t.node[n].childBudget
             z == t.rootBudget
             S == {x, y, z}
  <1>1. x \in Nat /\ y \in Nat /\ z \in Nat
    BY TreeFields, Constants
  <1> HIDE DEF x, y, z
  <1>2. \E k \in S : \A j \in S : k <= j
    BY <1>1
  <1>3. Min(S) \in S /\ \A j \in S : Min(S) <= j
    BY <1>2 DEF Min
  <1>4. Grant(t, n) = Min(S)
    BY DEF Grant, x, y, z
  <1>5. Min(S) \in Nat /\ Min(S) <= y /\ Min(S) <= z
    BY <1>1, <1>3
  <1> QED
    BY <1>4, <1>5 DEF y, z

\* The tree with a child, field by field.
LEMMA AdmitIs ==
    ASSUME NEW t \in Trees, NEW n \in Ids, n + 1 \in Ids
    PROVE  LET u == AdmitChild(t, n)
               b == Grant(t, n)
           IN  /\ u \in Trees /\ u.state = t.state /\ u.spent = t.spent /\ u.receipts = t.receipts
               /\ u.rootBudget = t.rootBudget - b /\ u.reserved = t.reserved + b
               /\ u.node[n + 1] = NewNode(b, b, b)
               /\ u.node[n].children = t.node[n].children + 1
               /\ u.node[n].childBudget = t.node[n].childBudget - b
               /\ u.node[n].status = t.node[n].status /\ u.node[n].lease = t.node[n].lease
               /\ u.node[n].budget = t.node[n].budget /\ u.node[n].limit = t.node[n].limit
               /\ u.node[n].childLimit = t.node[n].childLimit
               /\ u.node[n].reservation = t.node[n].reservation /\ u.node[n].usage = t.node[n].usage
               /\ \A m \in Ids : m # n /\ m # n + 1 => u.node[m] = t.node[m]
  <1> DEFINE u == AdmitChild(t, n)
             b == Grant(t, n)
             x == [t.node[n] EXCEPT !.children = @ + 1, !.childBudget = Spend(@, b)]
             y == NewNode(b, b, b)
             N == [t.node EXCEPT ![n] = x, ![n + 1] = y]
  <1>1. b \in Nat /\ b <= t.node[n].childBudget /\ b <= t.rootBudget
    BY GrantIs
  <1>2. /\ t.node \in [Ids -> NodeRecs] /\ t.node[n] \in NodeRecs /\ t.node[n].childBudget \in Nat
        /\ t.rootBudget \in Nat /\ t.reserved \in Nat /\ t.node[n].children \in Nat
    BY TreeFields
  <1> HIDE DEF b
  <1>3. /\ Spend(t.rootBudget, b) = t.rootBudget - b /\ t.rootBudget - b \in Nat
        /\ Spend(t.node[n].childBudget, b) = t.node[n].childBudget - b
        /\ t.node[n].childBudget - b \in Nat /\ t.reserved + b \in Nat /\ t.node[n].children + 1 \in Nat
    <2>1. Spend(t.rootBudget, b) = t.rootBudget - b
      BY <1>1, <1>2, SpendIs
    <2>2. Spend(t.node[n].childBudget, b) = t.node[n].childBudget - b
      BY <1>1, <1>2, SpendIs
    <2>3. /\ t.rootBudget - b \in Nat /\ t.node[n].childBudget - b \in Nat
          /\ t.reserved + b \in Nat /\ t.node[n].children + 1 \in Nat
      BY <1>1, <1>2
    <2> QED
      BY <2>1, <2>2, <2>3
  <1>4. n # n + 1
    BY Constants
  <1>5. y \in NodeRecs
    BY <1>1, NewNodesAre
  <1> HIDE DEF y
  <1>6. u = [t EXCEPT !.node = N, !.rootBudget = Spend(t.rootBudget, b), !.reserved = t.reserved + b]
    <2> HIDE DEF NewNode
    <2> QED
      BY <1>2, <1>4, ZenonT(60) DEF AdmitChild, Trees, NodeRecs, b, y
  <1>7. /\ x \in NodeRecs /\ x.children = t.node[n].children + 1
        /\ x.childBudget = t.node[n].childBudget - b
        /\ x.status = t.node[n].status /\ x.lease = t.node[n].lease
        /\ x.budget = t.node[n].budget /\ x.limit = t.node[n].limit
        /\ x.childLimit = t.node[n].childLimit
        /\ x.reservation = t.node[n].reservation /\ x.usage = t.node[n].usage
    BY <1>2, <1>3 DEF NodeRecs
  <1> HIDE DEF x, u
  <1>8. N \in [Ids -> NodeRecs] /\ N[n] = x /\ N[n + 1] = y /\ \A m \in Ids : m # n /\ m # n + 1 => N[m] = t.node[m]
    BY <1>2, <1>4, <1>5, <1>7
  <1> HIDE DEF N
  <1>9. /\ u \in Trees /\ u.state = t.state /\ u.spent = t.spent /\ u.receipts = t.receipts
        /\ u.rootBudget = t.rootBudget - b /\ u.reserved = t.reserved + b /\ u.node = N
    BY <1>3, <1>6, <1>8 DEF Trees
  <1> QED
    BY <1>7, <1>8, <1>9 DEF u, b, y

\* A tree with a child admitted, under a node that has none.
LEMMA AdmitKeeps ==
    ASSUME NEW t \in Trees, NEW n \in Ids, Admits(t, n), Covered(t), Line(t),
           t.node[n].status # "absent", n + 1 \notin Nodes(t)
    PROVE  LET u == AdmitChild(t, n)
           IN  Covered(u) /\ Line(u) /\ u \in Trees /\ n + 1 \in Ids
  <1> DEFINE u == AdmitChild(t, n)
             b == Grant(t, n)
  <1>1. n + 1 \in Ids /\ n \in Nat /\ n # n + 1 /\ n + 1 # Root /\ n < MaxDepth
    BY Constants DEF Admits, Root
  <1>2. b \in Nat /\ b <= t.node[n].childBudget /\ b <= t.rootBudget
    BY GrantIs
  <1>3. /\ u \in Trees /\ u.rootBudget = t.rootBudget - b /\ u.reserved = t.reserved + b
        /\ u.node[n + 1] = NewNode(b, b, b)
        /\ u.node[n].childBudget = t.node[n].childBudget - b
        /\ u.node[n].status = t.node[n].status
        /\ u.node[n].childLimit = t.node[n].childLimit
        /\ u.node[n].reservation = t.node[n].reservation
        /\ \A m \in Ids : m # n /\ m # n + 1 => u.node[m] = t.node[m]
    BY <1>1, AdmitIs
  <1>4. LET x == NewNode(b, b, b)
        IN  x.status = "ready" /\ x.childBudget = b /\ x.childLimit = b /\ x.reservation = b
    BY <1>2, NewNodesAre
  <1>5. t.node[n + 1].status = "absent"
    BY <1>1 DEF Nodes
  <1>6. Blank(t.node[n + 1])
    BY <1>1, <1>5 DEF Line
  <1> HIDE DEF u, b
  <1>7. /\ u.node[n + 1].status = "ready" /\ u.node[n + 1].childBudget = b
        /\ u.node[n + 1].childLimit = b /\ u.node[n + 1].reservation = b
    BY <1>3, <1>4
  <1>8. t.node[n + 1].reservation = 0
    BY <1>6 DEF Blank
  <1>9. n + 2 \in Ids => t.node[n + 2].status = "absent" /\ t.node[n + 2].reservation = 0
    <2>1. n + 2 \in Ids => n + 2 # Root /\ (n + 2) - 1 = n + 1
      BY <1>1 DEF Root
    <2>2. n + 2 \in Ids => t.node[n + 2].status = "absent"
      BY <1>5, <2>1 DEF Line
    <2> QED
      BY <2>2 DEF Line, Blank
  <1>10. Held(t) \in [Ids -> Nat] /\ Held(u) \in [Ids -> Nat]
    BY <1>3, TreeFields
  <1>11. /\ Held(t)[n + 1] = 0 /\ Held(u)[n + 1] = b
         /\ \A m \in Ids : m # n + 1 => Held(t)[m] = Held(u)[m]
    BY <1>1, <1>3, <1>7, <1>8 DEF Held
  <1>12. /\ SumFunction(Held(t)) \in Nat /\ SumFunction(Held(u)) \in Nat
         /\ SumFunction(Held(t)) - Held(t)[n + 1] = SumFunction(Held(u)) - Held(u)[n + 1]
    <2>1. IsFiniteSet(Ids)
      BY Constants
    <2>2. PICK k \in Ids : k = n + 1
      BY <1>1
    <2> DEFINE f == Held(t)
               g == Held(u)
    <2>3. f \in [Ids -> Nat] /\ g \in [Ids -> Nat] /\ \A m \in Ids : m # k => f[m] = g[m]
      BY <1>10, <1>11, <2>2
    <2> HIDE DEF f, g
    <2>4. SumFunction(f) \in Nat /\ SumFunction(g) \in Nat /\ SumFunction(f) - f[k] = SumFunction(g) - g[k]
      BY <2>1, <2>3, SumChange
    <2>5. /\ SumFunction(Held(t)) \in Nat /\ SumFunction(Held(u)) \in Nat
          /\ SumFunction(Held(t)) - Held(t)[k] = SumFunction(Held(u)) - Held(u)[k]
      BY <2>4 DEF f, g
    <2> QED
      BY <2>2, <2>5
  <1>13. SumFunction(Held(u)) = SumFunction(Held(t)) + b
    BY <1>2, <1>11, <1>12
  <1>14. t.rootBudget \in Nat /\ t.reserved \in Nat /\ TreeBudget \in Nat
    BY TreeFields, Constants
  <1>15. u.rootBudget + u.reserved <= TreeBudget /\ u.rootBudget + SumFunction(Held(u)) <= TreeBudget
    BY <1>2, <1>3, <1>12, <1>13, <1>14 DEF Covered
  <1>16. ASSUME NEW m \in Ids PROVE u.node[m].childBudget + Below(u, m) <= u.node[m].childLimit
    <2>1. /\ t.node[m].childBudget + Below(t, m) <= t.node[m].childLimit
          /\ t.node[m].childBudget \in Nat /\ t.node[m].childLimit \in Nat
      BY TreeFields DEF Covered
    <2>2. m \in Nat /\ (m < MaxDepth <=> m + 1 \in Ids)
      BY Constants
    <2>3. CASE m = n
      <3>1. Below(u, m) = b /\ Below(t, m) = 0
        BY <1>1, <1>7, <1>8, <2>3 DEF Below
      <3> QED
        BY <1>2, <1>3, <2>1, <2>3, <3>1
    <2>4. CASE m = n + 1
      <3>1. Below(u, m) = 0
        <4>1. m + 1 = n + 2 /\ n + 2 # n /\ n + 2 # n + 1
          BY <1>1, <2>4
        <4>2. n + 2 \in Ids => u.node[n + 2].reservation = 0
          BY <1>3, <1>9, <4>1
        <4> QED
          BY <2>2, <4>1, <4>2 DEF Below
      <3> QED
        BY <1>2, <1>7, <2>4, <3>1
    <2>5. CASE m # n /\ m # n + 1
      <3>1. u.node[m] = t.node[m]
        BY <1>3, <2>5
      <3>2. m < MaxDepth => u.node[m + 1].reservation = t.node[m + 1].reservation
        <4>1. m + 1 # n + 1
          BY <1>1, <2>2, <2>5
        <4> QED
          BY <1>3, <2>2, <4>1
      <3>3. Below(u, m) = Below(t, m)
        BY <3>2 DEF Below
      <3> QED
        BY <2>1, <3>1, <3>3
    <2> QED
      BY <2>3, <2>4, <2>5
  <1>17. Covered(u)
    BY <1>15, <1>16 DEF Covered
  <1>18. Line(u)
    <2>1. \A m \in Ids : u.node[m].status = "absent" => m # n /\ m # n + 1 /\ u.node[m] = t.node[m]
      BY <1>3, <1>7
    <2>2. \A m \in Ids : t.node[m].status # "absent" => u.node[m].status # "absent"
      BY <1>3, <1>7
    <2>3. ASSUME NEW m \in Ids, m # Root, u.node[m].status # "absent"
          PROVE  u.node[m - 1].status # "absent"
      <3>1. m - 1 \in Ids /\ m \in Nat
        BY <2>3, Constants
      <3>2. CASE m = n + 1
        <4>1. m - 1 = n
          BY <1>1, <3>2
        <4> QED
          BY <1>3, <4>1
      <3>3. CASE m # n + 1
        <4>1. t.node[m].status # "absent"
          BY <1>3, <2>3, <3>3
        <4> QED
          BY <2>2, <2>3, <3>1, <4>1 DEF Line
      <3> QED
        BY <3>2, <3>3
    <2>4. u.node[Root].status # "absent"
      BY <2>2, Constants DEF Line
    <2>5. \A m \in Ids : u.node[m].status = "absent" => Blank(u.node[m])
      BY <2>1 DEF Line
    <2> QED
      BY <2>3, <2>4, <2>5 DEF Line
  <1> QED
    BY <1>1, <1>3, <1>17, <1>18 DEF u

-----------------------------------------------------------------------------
(* The attempts. *)

\* A job moves on, with or without a decision; the tree is not touched.
LEMMA JobStep ==
    ASSUME TreeInv, NEW n \in Ids, NEW a \in Attempts,
           NEW s \in {"idle", "working", "deciding", "completed", "failed"}, NEW c \in Candidates,
           job' = [job EXCEPT ![<<n, a>>] = s], candidate' = [candidate EXCEPT ![<<n, a>>] = c],
           UNCHANGED <<measured, tree, row, attempt, action, pauses, refused, returned>>,
           s # "idle" => a <= attempt[n], s = "completed" => action[n] # 0,
           s = "deciding" => c.usage \in Amounts,
           c.fresh /\ c.proposes => c.tree = IF Admits(tree, n) THEN AdmitChild(tree, n) ELSE tree
    PROVE  TreeInv'
  <1>1. <<n, a>> \in Jobs /\ JobTypes(job, candidate)
    BY JobsAre DEF TreeInv
  <1>2. /\ JobTypes(job', candidate')
        /\ job'[<<n, a>>] = s /\ candidate'[<<n, a>>] = c
        /\ \A j \in Jobs : j # <<n, a>> => job'[j] = job[j] /\ candidate'[j] = candidate[j]
    BY <1>1 DEF JobTypes
  <1>3. ASSUME NEW m \in Ids, NEW b \in Attempts
        PROVE  JobAt(tree, job', candidate', attempt, action, m, b)
    <2>1. CASE <<m, b>> = <<n, a>>
      <3>1. m = n /\ b = a /\ job'[<<m, b>>] = s /\ candidate'[<<m, b>>] = c
        BY <1>2, <2>1
      <3> QED
        BY <3>1 DEF JobAt
    <2>2. CASE <<m, b>> # <<n, a>>
      <3>1. JobAt(tree, job, candidate, attempt, action, m, b) /\ <<m, b>> \in Jobs
        BY JobsAre DEF TreeInv
      <3>2. job'[<<m, b>>] = job[<<m, b>>] /\ candidate'[<<m, b>>] = candidate[<<m, b>>]
        BY <1>2, <2>2, <3>1
      <3> QED
        BY <3>1, <3>2 DEF JobAt
    <2> QED
      BY <2>1, <2>2
  <1>4. Counts(attempt, action, pauses, returned, measured)' /\ FittingResultIsSaved'
    BY DEF TreeInv, Counts, FittingResultIsSaved
  <1>5. Account(tree, row, attempt, action, measured)
    BY DEF TreeInv
  <1> QED
    BY <1>2, <1>3, <1>4, <1>5 DEF TreeInv

\* No decision.
LEMMA NoCandidateIs == NoCandidate \in Candidates /\ ~ NoCandidate.fresh
  BY NewTreeIs DEF NoCandidate, Candidates

\* An attempt replays the action of its node.
LEMMA ReplayStep ==
    ASSUME TreeInv, NEW n \in Ids, NEW a \in Attempts, Replay(n, a), measured' = measured
    PROVE  TreeInv'
  <1> DEFINE c == candidate[<<n, a>>]
  <1>1. /\ job[<<n, a>>] = "working" /\ action[n] # 0 /\ candidate' = candidate
        /\ job' = [job EXCEPT ![<<n, a>>] = "completed"]
        /\ UNCHANGED <<measured, tree, row, attempt, action, pauses, refused, returned>>
    BY DEF Replay
  <1>2. <<n, a>> \in Jobs /\ JobAt(tree, job, candidate, attempt, action, n, a) /\ JobTypes(job, candidate)
    BY JobsAre DEF TreeInv
  <1>3. c \in Candidates /\ candidate' = [candidate EXCEPT ![<<n, a>>] = c]
    BY <1>1, <1>2 DEF JobTypes
  <1>4. /\ a <= attempt[n]
        /\ c.fresh /\ c.proposes => c.tree = IF Admits(tree, n) THEN AdmitChild(tree, n) ELSE tree
    BY <1>1, <1>2 DEF JobAt
  <1> HIDE DEF c
  <1> QED
    BY <1>1, <1>3, <1>4, JobStep

\* An attempt decides.
LEMMA DecideStep ==
    ASSUME TreeInv, NEW n \in Ids, NEW a \in Attempts, Decide(n, a), measured' = measured
    PROVE  TreeInv'
  <1>1. /\ job[<<n, a>>] = "working"
        /\ job' = [job EXCEPT ![<<n, a>>] = "deciding"]
        /\ UNCHANGED <<measured, tree, row, attempt, action, pauses, refused, returned>>
    BY DEF Decide
  <1>2. PICK u \in (IF measured THEN Usages ELSE {FixtureUsage}), p \in BOOLEAN :
            candidate' = [candidate EXCEPT ![<<n, a>>] =
               [usage |-> u, proposes |-> p, fresh |-> TRUE,
                tree |-> IF p /\ Admits(tree, n) THEN AdmitChild(tree, n)
                         ELSE IF p THEN tree ELSE NoTree]]
    BY DEF Decide
  <1> DEFINE v == IF p /\ Admits(tree, n) THEN AdmitChild(tree, n)
                  ELSE IF p THEN tree ELSE NoTree
             c == [usage |-> u, proposes |-> p, fresh |-> TRUE, tree |-> v]
  <1>3. u \in Amounts /\ u \in Nat
    BY Constants DEF Amounts
  <1>4. v \in Trees
    <2>1. tree \in Trees /\ NoTree \in Trees
      BY NewTreeIs DEF TreeInv, Account
    <2>2. ASSUME Admits(tree, n) PROVE AdmitChild(tree, n) \in Trees
      <3>1. n + 1 \in Ids
        BY <2>2, Constants DEF Admits
      <3> QED
        BY <2>1, <3>1, AdmitIs
    <2> QED
      BY <2>1, <2>2
  <1>5. p => v = IF Admits(tree, n) THEN AdmitChild(tree, n) ELSE tree
    OBVIOUS
  <1>6. candidate' = [candidate EXCEPT ![<<n, a>>] = c]
    BY <1>2
  <1> HIDE DEF v
  <1>7. c \in Candidates /\ c.usage = u /\ c.proposes = p /\ c.tree = v
    BY <1>3, <1>4 DEF Candidates
  <1>8. a <= attempt[n]
    BY <1>1 DEF TreeInv, JobAt
  <1> HIDE DEF c
  <1> QED
    BY <1>1, <1>3, <1>5, <1>6, <1>7, <1>8, JobStep

\* An attempt fails, finds another's action, or is lost.
LEMMA DropStep ==
    ASSUME TreeInv, NEW n \in Ids, NEW a \in Attempts, measured' = measured,
           StepFails(n, a) \/ LosesReceipt(n, a) \/ Crash(n, a)
    PROVE  TreeInv'
  <1>1. PICK s \in {"idle", "working", "deciding", "completed", "failed"} :
           /\ job' = [job EXCEPT ![<<n, a>>] = s] /\ job[<<n, a>>] # "idle"
           /\ s # "deciding" /\ (s = "completed" => action[n] # 0)
    BY DEF StepFails, LosesReceipt, Crash
  <1>2. /\ candidate' = [candidate EXCEPT ![<<n, a>>] = NoCandidate]
        /\ UNCHANGED <<measured, tree, row, attempt, action, pauses, refused, returned>>
    BY DEF StepFails, LosesReceipt, Crash
  <1>3. NoCandidate \in Candidates /\ ~ NoCandidate.fresh
    BY NoCandidateIs
  <1>4. a <= attempt[n]
    BY <1>1 DEF TreeInv, JobAt
  <1> HIDE DEF NoCandidate
  <1> QED
    BY <1>1, <1>2, <1>3, <1>4, JobStep

\* The action of a node is committed: it has no child yet, nor a receipt for it.
LEMMA ActionCommits ==
    ASSUME NEW t, NEW rows, NEW att, NEW acts \in [Ids -> {0} \cup Amounts], NEW ms,
           Account(t, rows, att, acts, ms), NEW n \in Ids, acts[n] = 0, NEW x \in Amounts
    PROVE  LET B == [acts EXCEPT ![n] = x]
           IN  /\ B \in [Ids -> {0} \cup Amounts] /\ B[n] # 0 /\ n + 1 \notin Nodes(t)
               /\ \A m \in Ids : acts[m] # 0 => B[m] = acts[m]
               /\ Account(t, rows, att, B, ms)
  <1> DEFINE B == [acts EXCEPT ![n] = x]
  <1>1. /\ B \in [Ids -> {0} \cup Amounts] /\ B[n] = x /\ \A m \in Ids : m # n => B[m] = acts[m]
    OBVIOUS
  <1>2. x # 0
    BY AmountsAre
  <1> HIDE DEF B
  <1>3. n + 1 \notin Nodes(t) /\ ~ t.receipts[<<n, 0>>].known
    BY DEF Account, Parents, ReceiptInv
  <1>4. \A m \in Ids : acts[m] # 0 => B[m] = acts[m]
    BY <1>1
  <1>5. Parents(t, B)
    BY <1>1, <1>2 DEF Account, Parents
  <1>6. ReceiptInv(t, B, ms)
    BY <1>1, <1>3 DEF Account, ReceiptInv
  <1>7. UsageInv(t, B, ms)
    <2>1. \A m \in Ids : t.receipts[<<m, 0>>].known => B[m] = acts[m]
      BY <1>1, <1>3
    <2> QED
      BY <2>1 DEF Account, UsageInv
  <1> QED
    BY <1>1, <1>2, <1>3, <1>4, <1>5, <1>6, <1>7 DEF Account, B

\* A child is admitted with its row.
LEMMA AdmitAccount ==
    ASSUME NEW t, NEW rows, NEW att \in [Ids -> Nat], NEW acts, NEW ms, Account(t, rows, att, acts, ms),
           NEW n \in Ids, Admits(t, n), Valid(AdmitChild(t, n)), t.node[n].status # "absent",
           n + 1 \notin Nodes(t), acts[n] # 0
    PROVE  Account(AdmitChild(t, n), [rows EXCEPT ![n + 1] = "pending"], att, acts, ms)
  <1> DEFINE u == AdmitChild(t, n)
             R == [rows EXCEPT ![n + 1] = "pending"]
             b == Grant(t, n)
  <1>1. /\ t \in Trees /\ Covered(t) /\ Line(t) /\ rows \in [Ids -> RowStates] /\ EndInv(t, att)
        /\ \A m \in Ids : RowAt(t, rows, att, m)
        /\ Above(t, rows, att) /\ Begun(rows, att) /\ Parents(t, acts)
        /\ ReceiptInv(t, acts, ms) /\ UsageInv(t, acts, ms)
    BY DEF Account
  <1>2. u \in Trees /\ Covered(u) /\ Line(u) /\ n + 1 \in Ids
    BY <1>1, AdmitKeeps
  <1>3. /\ u.state = t.state /\ u.receipts = t.receipts
        /\ u.node[n + 1] = NewNode(b, b, b)
        /\ u.node[n].status = t.node[n].status /\ u.node[n].lease = t.node[n].lease
        /\ u.node[n].usage = t.node[n].usage
        /\ \A m \in Ids : m # n /\ m # n + 1 => u.node[m] = t.node[m]
    BY <1>1, <1>2, AdmitIs
  <1>4. b \in Nat
    BY <1>1, GrantIs
  <1>5. NewNode(b, b, b).status = "ready" /\ NewNode(b, b, b).usage = 0
    BY <1>4, NewNodesAre
  <1>6. t.node[n + 1].status = "absent" /\ t.node[n + 1].usage = 0
    BY <1>1, <1>2 DEF Nodes, Line, Blank
  <1> HIDE DEF u, b
  <1>7. /\ u.node[n + 1].status = "ready"
        /\ \A m \in Ids : m # n + 1 => /\ u.node[m].status = t.node[m].status
                                       /\ u.node[m].lease = t.node[m].lease
        /\ \A m \in Ids : u.node[m].usage = t.node[m].usage
    BY <1>3, <1>5, <1>6
  <1>8. /\ R \in [Ids -> RowStates] /\ R[n + 1] = "pending"
        /\ \A m \in Ids : m # n + 1 => R[m] = rows[m]
    BY <1>1, <1>2 DEF RowStates
  <1> HIDE DEF R
  <1>9. t.state = "running" /\ u.state = "running"
    BY <1>3 DEF Admits
  <1>10. EndInv(u, att)
    BY <1>1, <1>7, <1>9 DEF EndInv, Ended
  <1>11. ASSUME NEW m \in Ids PROVE RowAt(u, R, att, m)
    <2>1. CASE m = n + 1
      BY <1>7, <1>8, <2>1 DEF RowAt
    <2>2. CASE m # n + 1
      <3>1. /\ RowAt(t, rows, att, m) /\ u.node[m].status = t.node[m].status
            /\ u.node[m].lease = t.node[m].lease /\ R[m] = rows[m]
        BY <1>1, <1>7, <1>8, <2>2
      <3> QED
        BY <3>1 DEF RowAt
    <2> QED
      BY <2>1, <2>2
  <1>12. rows[n + 1] # "completed"
    BY <1>1, <1>2, <1>6 DEF RowAt
  <1>13. Above(u, R, att)
    <2>1. \A m \in Ids : rows[m] = "completed" => R[m] = "completed"
      BY <1>8, <1>12
    <2>2. \A m \in Ids : t.node[m].status # "absent" => u.node[m].status # "absent"
      BY <1>7
    <2>3. u.state # "absent"
      BY <1>9
    <2> QED
      BY <1>1, <2>1, <2>2, <2>3 DEF Above
  <1>14. Begun(R, att)
    BY <1>1, <1>8 DEF Begun
  <1>15. Parents(u, acts)
    <2>1. ASSUME NEW m \in Ids, m + 1 \in Nodes(u) PROVE acts[m] # 0
      <3>1. CASE m = n
        BY <3>1
      <3>2. CASE m # n
        <4>1. m + 1 # n + 1 /\ m + 1 \in Ids
          BY <2>1, <3>2, Constants DEF Nodes
        <4>2. m + 1 \in Nodes(t)
          BY <1>7, <2>1, <4>1 DEF Nodes
        <4> QED
          BY <1>1, <4>2 DEF Parents
      <3> QED
        BY <3>1, <3>2
    <2> QED
      BY <2>1 DEF Parents
  <1>16. ReceiptInv(u, acts, ms) /\ UsageInv(u, acts, ms)
    <2>1. \A m \in Ids : Known(u, m) = Known(t, m)
      BY <1>3 DEF Known
    <2> QED
      BY <1>1, <1>3, <1>7, <2>1 DEF ReceiptInv, UsageInv
  <1>17. Valid(u)
    BY DEF u
  <1> QED
    BY <1>2, <1>8, <1>9, <1>10, <1>11, <1>13, <1>14, <1>15, <1>16, <1>17 DEF Account, u, R

\* The first attempt to commit the action of a node.
LEMMA CommitActionStep ==
    ASSUME TreeInv, NEW n \in Ids, NEW a \in Attempts, CommitAction(n, a), measured' = measured
    PROVE  TreeInv'
  <1> DEFINE c == candidate[<<n, a>>]
             B == [action EXCEPT ![n] = c.usage]
  <1>1. /\ job[<<n, a>>] = "deciding" /\ action[n] = 0 /\ action' = B
        /\ job' = [job EXCEPT ![<<n, a>>] = "completed"]
        /\ UNCHANGED <<attempt, pauses, refused, returned>>
    BY DEF CommitAction
  <1>2. IF c.proposes
        THEN /\ c.fresh => Valid(c.tree)
             /\ tree' = IF c.fresh THEN c.tree ELSE tree
             /\ candidate' = [Outdated EXCEPT ![<<n, a>>] = NoCandidate]
             /\ row' = IF c.fresh /\ n < MaxDepth /\ c.tree.node[n].children = 1
                       THEN [row EXCEPT ![n + 1] = "pending"] ELSE row
        ELSE /\ candidate' = [candidate EXCEPT ![<<n, a>>] = NoCandidate]
             /\ UNCHANGED <<tree, row>>
    BY DEF CommitAction, StoresCandidate
  <1>3. /\ <<n, a>> \in Jobs /\ JobTypes(job, candidate) /\ JobAt(tree, job, candidate, attempt, action, n, a)
        /\ Counts(attempt, action, pauses, returned, measured)
        /\ Account(tree, row, attempt, action, measured)
    BY JobsAre DEF TreeInv
  <1>4. /\ c.usage \in Amounts /\ a <= attempt[n]
        /\ c.fresh /\ c.proposes => c.tree = IF Admits(tree, n) THEN AdmitChild(tree, n) ELSE tree
    BY <1>1, <1>3 DEF JobAt
  <1>5. attempt \in [Ids -> Nat] /\ attempt[n] > 0
    <2>1. attempt \in [Ids -> Nat] /\ a \in Nat /\ a > 0
      BY <1>3, Constants DEF Counts, Attempts
    <2> QED
      BY <1>4, <2>1
  <1>6. tree \in Trees /\ tree.state # "absent" /\ tree.node[n].status # "absent"
    BY <1>3, <1>5 DEF Account, Above
  <1>7. /\ B \in [Ids -> {0} \cup Amounts] /\ B[n] # 0 /\ n + 1 \notin Nodes(tree)
        /\ \A m \in Ids : action[m] # 0 => B[m] = action[m]
        /\ Account(tree, row, attempt, B, measured)
    <2>1. action \in [Ids -> {0} \cup Amounts]
      BY <1>3 DEF Counts
    <2>2. PICK x \in Amounts : x = c.usage
      BY <1>4
    <2> HIDE DEF c
    <2>3. LET D == [action EXCEPT ![n] = x]
          IN  /\ D \in [Ids -> {0} \cup Amounts] /\ D[n] # 0 /\ n + 1 \notin Nodes(tree)
              /\ \A m \in Ids : action[m] # 0 => D[m] = action[m]
              /\ Account(tree, row, attempt, D, measured)
      BY <1>1, <1>3, <2>1, ActionCommits
    <2> QED
      BY <2>2, <2>3
  <1>8. tree.node[n].children = 0
    <2>1. Standing(tree, n)
      BY <1>3, ValidParts DEF Account
    <2> QED
      BY <1>7, <2>1 DEF Standing
  <1> HIDE DEF c, B
  <1>9. Account(tree', row', attempt, B, measured)
    <2>1. CASE c.proposes /\ c.fresh /\ Admits(tree, n)
      <3>1. c.tree = AdmitChild(tree, n) /\ tree' = AdmitChild(tree, n) /\ Valid(AdmitChild(tree, n))
        BY <1>2, <1>4, <2>1
      <3>2. n + 1 \in Ids /\ n < MaxDepth
        BY <2>1, Constants DEF Admits
      <3>3. AdmitChild(tree, n).node[n].children = tree.node[n].children + 1
        BY <1>6, <3>2, AdmitIs
      <3>4. row' = [row EXCEPT ![n + 1] = "pending"]
        BY <1>2, <1>8, <2>1, <3>1, <3>2, <3>3
      <3>5. Account(AdmitChild(tree, n), [row EXCEPT ![n + 1] = "pending"], attempt, B, measured)
        BY <1>5, <1>6, <1>7, <2>1, <3>1, AdmitAccount
      <3> QED
        BY <3>1, <3>4, <3>5
    <2>2. CASE ~ (c.proposes /\ c.fresh /\ Admits(tree, n))
      <3>1. tree' = tree /\ row' = row
        BY <1>2, <1>4, <1>8, <2>2
      <3> QED
        BY <1>7, <3>1
    <2> QED
      BY <2>1, <2>2
  <1>10. /\ candidate' \in [Jobs -> Candidates] /\ ~ candidate'[<<n, a>>].fresh
         /\ \A j \in Jobs : j # <<n, a>> =>
               /\ candidate'[j].usage = candidate[j].usage
               /\ candidate'[j].fresh => candidate'[j] = candidate[j] /\ tree' = tree
    <2>1. /\ Outdated \in [Jobs -> Candidates]
          /\ \A j \in Jobs : ~ Outdated[j].fresh /\ Outdated[j].usage = candidate[j].usage
      BY <1>3, OutdatedIs
    <2>2. NoCandidate \in Candidates /\ ~ NoCandidate.fresh
      BY NoCandidateIs
    <2> HIDE DEF NoCandidate, Outdated
    <2>3. CASE c.proposes
      <3>1. candidate' = [Outdated EXCEPT ![<<n, a>>] = NoCandidate]
        BY <1>2, <2>3
      <3> QED
        BY <1>3, <2>1, <2>2, <3>1
    <2>4. CASE ~ c.proposes
      <3>1. candidate' = [candidate EXCEPT ![<<n, a>>] = NoCandidate] /\ tree' = tree
        BY <1>2, <2>4
      <3> QED
        BY <1>3, <2>2, <3>1 DEF JobTypes
    <2> QED
      BY <2>3, <2>4
  <1>11. /\ job' \in [Jobs -> {"idle", "working", "deciding", "completed", "failed"}]
         /\ job'[<<n, a>>] = "completed" /\ \A j \in Jobs : j # <<n, a>> => job'[j] = job[j]
    BY <1>1, <1>3 DEF JobTypes
  <1>12. ASSUME NEW m \in Ids, NEW b \in Attempts
         PROVE  JobAt(tree', job', candidate', attempt, B, m, b)
    <2>1. CASE <<m, b>> = <<n, a>>
      <3>1. m = n /\ b = a /\ job'[<<m, b>>] = "completed" /\ ~ candidate'[<<m, b>>].fresh
        BY <1>10, <1>11, <2>1
      <3> QED
        BY <1>4, <1>7, <3>1 DEF JobAt
    <2>2. CASE <<m, b>> # <<n, a>>
      <3>1. <<m, b>> \in Jobs /\ JobAt(tree, job, candidate, attempt, action, m, b)
        BY JobsAre DEF TreeInv
      <3>2. /\ job'[<<m, b>>] = job[<<m, b>>] /\ candidate'[<<m, b>>].usage = candidate[<<m, b>>].usage
            /\ candidate'[<<m, b>>].fresh => candidate'[<<m, b>>] = candidate[<<m, b>>] /\ tree' = tree
        BY <1>10, <1>11, <2>2, <3>1
      <3> QED
        BY <1>7, <3>1, <3>2 DEF JobAt
    <2> QED
      BY <2>1, <2>2
  <1>13. FittingResultIsSaved'
    BY <1>1 DEF TreeInv, FittingResultIsSaved
  <1>14. JobTypes(job', candidate') /\ Counts(attempt, B, pauses, returned, measured)
    BY <1>3, <1>7, <1>10, <1>11 DEF JobTypes, Counts
  <1> QED
    BY <1>1, <1>9, <1>12, <1>13, <1>14 DEF TreeInv

-----------------------------------------------------------------------------
(* The invariant. *)

\* Before anything is leased.
LEMMA TreeInit == Init => TreeInv
  <1> SUFFICES ASSUME Init PROVE TreeInv
    OBVIOUS
  <1>1. /\ tree = NoTree /\ measured \in BOOLEAN
        /\ row = [n \in Ids |-> IF n = Root THEN "pending" ELSE "absent"]
        /\ attempt = [n \in Ids |-> 0] /\ job = [j \in Jobs |-> "idle"]
        /\ action = [n \in Ids |-> 0] /\ candidate = [j \in Jobs |-> NoCandidate]
        /\ pauses = 0 /\ refused = {} /\ returned = {}
    BY DEF Init
  <1>2. NoCandidate \in Candidates /\ ~ NoCandidate.fresh
    BY NoCandidateIs
  <1>3. /\ NoTree \in Trees /\ NoTree.state = "absent" /\ \A r \in ReceiptIds : ~ NoTree.receipts[r].known
        /\ \A n \in Ids : NoTree.node[n] = IF n = Root THEN NewNode(TreeBudget, ChildBudget, 0) ELSE NoNode
    BY NewTreeIs
  <1>4. /\ NewNode(TreeBudget, ChildBudget, 0).status = "ready" /\ NewNode(TreeBudget, ChildBudget, 0).usage = 0
        /\ NoNode.status = "absent" /\ NoNode.usage = 0
    BY NewNodesAre, Constants DEF Blank
  <1>5. /\ \A n \in Ids : /\ tree.node[n].status = IF n = Root THEN "ready" ELSE "absent"
                          /\ tree.node[n].usage = 0
        /\ \A r \in ReceiptIds : ~ tree.receipts[r].known
    BY <1>1, <1>3, <1>4
  <1>6. Valid(tree) /\ Covered(tree) /\ Line(tree) /\ tree \in Trees
    BY <1>1, <1>3, NoTreeValid
  <1> HIDE DEF NoTree, NoNode, NewNode, NoCandidate
  <1>7. row \in [Ids -> RowStates] /\ Begun(row, attempt) /\ Above(tree, row, attempt)
    BY <1>1 DEF RowStates, Begun, Above
  <1>8. \A n \in Ids : RowAt(tree, row, attempt, n)
    BY <1>1, <1>5 DEF RowAt
  <1>9. EndInv(tree, attempt)
    BY <1>1, <1>3, <1>5 DEF EndInv, Ended
  <1>10. Parents(tree, action)
    <2>1. ASSUME NEW n \in Ids PROVE n + 1 \notin Nodes(tree)
      <3>1. n + 1 # Root
        BY Constants DEF Root
      <3> QED
        BY <1>5, <3>1 DEF Nodes
    <2> QED
      BY <2>1 DEF Parents
  <1>11. \A n \in Ids : <<n, 0>> \in ReceiptIds /\ \A a \in Attempts : <<n, a>> \in ReceiptIds
    BY Constants DEF ReceiptIds, Attempts
  <1>12. ReceiptInv(tree, action, measured)
    BY <1>5, <1>11 DEF ReceiptInv
  <1>13. UsageInv(tree, action, measured)
    <2>1. ASSUME NEW n \in Ids PROVE Cardinality(Known(tree, n)) = 0
      <3>1. Known(tree, n) = {}
        BY <1>5, <1>11 DEF Known
      <3> QED
        BY <3>1, FS_EmptySet
    <2>2. FixtureUsage * 0 = 0
      BY Constants
    <2>3. \A n \in Ids : ~ tree.receipts[<<n, 0>>].known
      BY <1>5, <1>11
    <2>4. \A n \in Ids : FixtureUsage * Cardinality(Known(tree, n)) = 0
      BY <2>1, <2>2
    <2>5. \A n \in Ids : (IF tree.receipts[<<n, 0>>].known THEN action[n] ELSE 0) = 0
      BY <2>3
    <2>6. \A n \in Ids : (IF measured THEN 0 ELSE FixtureUsage * Cardinality(Known(tree, n))) = 0
      BY <2>4
    <2>7. \A n \in Ids : tree.node[n].usage = 0 + 0
      BY <1>5
    <2> QED
      BY <2>5, <2>6, <2>7 DEF UsageInv
  <1>14. Account(tree, row, attempt, action, measured)
    BY <1>1, <1>6, <1>7, <1>8, <1>9, <1>10, <1>12, <1>13 DEF Account
  <1>15. Counts(attempt, action, pauses, returned, measured)
    BY <1>1, Constants, RecursiveAssumption DEF Counts
  <1>16. JobTypes(job, candidate)
    BY <1>1, <1>2 DEF JobTypes
  <1>17. \A n \in Ids, a \in Attempts : JobAt(tree, job, candidate, attempt, action, n, a)
    BY <1>1, <1>2, JobsAre DEF JobAt
  <1> QED
    BY <1>1, <1>14, <1>15, <1>16, <1>17 DEF TreeInv, FittingResultIsSaved

\* Nothing happens.
LEMMA TreeStutters == ASSUME TreeInv, UNCHANGED vars PROVE TreeInv'
  BY DEF TreeInv, vars, FittingResultIsSaved

\* Every step keeps the invariant.
LEMMA TreeSteps == ASSUME TreeInv, Next PROVE TreeInv'
  <1>1. measured' = measured
    BY DEF Next
  <1>2. ASSUME NEW n \in Ids, Lease(n) PROVE TreeInv'
    BY <1>1, <1>2, LeaseStep
  <1>3. ASSUME NEW n \in Ids, RecoverStale(n) PROVE TreeInv'
    BY <1>1, <1>3, RecoverStaleStep
  <1>4. ASSUME NEW n \in Ids, NEW a \in Attempts, Replay(n, a) PROVE TreeInv'
    BY <1>1, <1>4, ReplayStep
  <1>5. ASSUME NEW n \in Ids, NEW a \in Attempts, Decide(n, a) PROVE TreeInv'
    BY <1>1, <1>5, DecideStep
  <1>6. ASSUME NEW n \in Ids, NEW a \in Attempts, StepFails(n, a) \/ LosesReceipt(n, a) \/ Crash(n, a)
        PROVE TreeInv'
    BY <1>1, <1>6, DropStep
  <1>7. ASSUME NEW n \in Ids, NEW a \in Attempts, CommitAction(n, a) PROVE TreeInv'
    BY <1>1, <1>7, CommitActionStep
  <1>8. ASSUME NEW n \in Ids, NEW a \in Attempts, Settle(n, a) PROVE TreeInv'
    BY <1>1, <1>8, SettleStep
  <1>9. ASSUME NEW n \in Ids, NEW a \in Attempts, SettleRefused(n, a) PROVE TreeInv'
    BY <1>1, <1>9, SettleRefusedStep
  <1>10. ASSUME NEW n \in Ids, NEW a \in Attempts, LateResult(n, a) PROVE TreeInv'
    BY <1>1, <1>10, LateResultStep
  <1>11. ASSUME NEW n \in Ids, NEW a \in Attempts, LateRefused(n, a) PROVE TreeInv'
    BY <1>1, <1>11, LateRefusedStep
  <1>12. pauses \in 0 .. MaxPauses /\ MaxPauses \in Nat
    BY RecursiveAssumption DEF TreeInv, Counts
  <1>13. CASE Pause
    <2>1. SetPaused("operator_paused") /\ pauses' \in 0 .. MaxPauses
      BY <1>12, <1>13 DEF Pause
    <2> QED
      BY <1>1, <2>1, SetPausedStep
  <1>14. CASE Resume
    <2>1. SetPaused("running") /\ pauses' \in 0 .. MaxPauses
      BY <1>12, <1>14 DEF Resume
    <2> QED
      BY <1>1, <2>1, SetPausedStep
  <1>15. CASE Kill
    <2>1. SetPaused("kill_stopped") /\ pauses' \in 0 .. MaxPauses
      BY <1>12, <1>15 DEF Kill
    <2> QED
      BY <1>1, <2>1, SetPausedStep
  <1> QED
    BY <1>2, <1>3, <1>4, <1>5, <1>6, <1>7, <1>8, <1>9, <1>10, <1>11, <1>13, <1>14, <1>15 DEF Next

\* In every reachable state the snapshot that is stored validates, its budgets cover
\* what they reserve, its nodes are a line from the root, and rows, receipts, attempts
\* and candidates are what the tree says.
THEOREM TreeInvariance == Spec => []TreeInv
  <1>1. Init => TreeInv
    BY TreeInit
  <1>2. TreeInv /\ [Next]_vars => TreeInv'
    BY TreeSteps, TreeStutters
  <1> QED
    BY <1>1, <1>2, PTL DEF Spec

-----------------------------------------------------------------------------
(* What the invariant is for. *)

\* Nothing is reserved in a tree that has ended otherwise than by its budget.
LEMMA EndedIsFree ==
    ASSUME TreeInv, tree.state \in Ended \ {"budget_exhausted"}
    PROVE  tree.reserved = 0
  <1>1. /\ tree \in Trees /\ Line(tree) /\ EndInv(tree, attempt) /\ Books(tree)
        /\ \A n \in Ids : Standing(tree, n)
    BY ValidParts DEF TreeInv, Account
  <1>2. ASSUME NEW n \in Ids PROVE tree.node[n].reservation = 0
    <2>1. tree.node[n].status \in {"absent"} \cup Live \cup Terminal
      BY <1>1, TreeFields DEF Statuses
    <2>2. CASE tree.node[n].status = "absent"
      BY <1>1, <2>2 DEF Line, Blank
    <2>3. CASE tree.node[n].status \in Live
      BY <1>1, <2>3 DEF EndInv, Standing
    <2>4. CASE tree.node[n].status \in Terminal
      BY <1>1, <2>4 DEF Standing
    <2> QED
      BY <2>1, <2>2, <2>3, <2>4
  <1>3. Held(tree) \in [Ids -> Nat] /\ \A n \in Ids : Held(tree)[n] = 0
    BY <1>1, <1>2, TreeFields DEF Held
  <1>4. SumFunction(Held(tree)) = 0
    BY <1>3, ZeroSum
  <1> QED
    BY <1>1, <1>4 DEF Books

\* The invariant gives the account the runs check.
LEMMA InvAgrees == ASSUME TreeInv PROVE AccountsAgree
  <1>1. /\ Counts(attempt, action, pauses, returned, measured) /\ tree \in Trees /\ Valid(tree)
        /\ row \in [Ids -> RowStates] /\ EndInv(tree, attempt) /\ Above(tree, row, attempt)
        /\ UsageInv(tree, action, measured) /\ JobTypes(job, candidate) /\ FittingResultIsSaved
        /\ \A n \in Ids : RowAt(tree, row, attempt, n)
    BY DEF TreeInv, Account
  <1>2. TypeOK
    <2>1. 0 .. (MaxRetries + 1) \subseteq {0} \cup Attempts
      BY Constants DEF Attempts
    <2>2. /\ tree.state \in States /\ {tree.rootBudget, tree.spent, tree.reserved} \subseteq Nat
          /\ \A n \in Ids : /\ tree.node[n].status \in Statuses
                            /\ tree.node[n].lease \in 0 .. (MaxRetries + 1)
                            /\ tree.node[n].retries \in 0..MaxRetries
                            /\ tree.node[n].reason \in Reasons
      BY <1>1, TreeFields
    <2>3. /\ job \in [Jobs -> {"idle", "working", "deciding", "completed", "failed"}]
          /\ action \in [Ids -> {0, FixtureUsage} \union Usages]
      <3>1. {0} \cup Amounts = {0, FixtureUsage} \cup Usages
        BY DEF Amounts
      <3> QED
        BY <1>1, <3>1 DEF JobTypes, Counts
    <2> QED
      BY <1>1, <2>1, <2>2, <2>3 DEF TypeOK, States, RowStates, Counts
  <1>3. ChargedOnce
    <2>1. tree.spent = SumFunction(Used(tree))
      BY <1>1 DEF Valid
    <2> QED
      BY <1>1, <2>1 DEF ChargedOnce, UsageInv, Known
  <1>4. EndedIsOver
    BY <1>1, EndedIsFree DEF EndedIsOver, EndInv, Nodes
  <1>5. RowsAgree
    <2>1. ASSUME NEW n \in Ids, n # Root, row[n] = "pending" PROVE row[n - 1] # "failed"
      <3>1. n - 1 \in Ids /\ n - 1 < n
        BY <2>1, Constants
      <3>2. tree.node[n].status \in Live
        BY <1>1, <2>1 DEF RowAt, Live
      <3>3. CASE tree.state \in Ended
        <4>1. attempt[n] > 0
          BY <1>1, <2>1, <3>2, <3>3 DEF EndInv
        <4>2. row[n - 1] = "completed"
          BY <1>1, <3>1, <4>1 DEF Above
        <4> QED
          BY <4>2
      <3>4. CASE tree.state \notin Ended
        <4>1. tree.node[n - 1].status # "failed"
          BY <1>1, <3>1, <3>4 DEF EndInv
        <4> QED
          BY <1>1, <3>1, <4>1 DEF RowAt
      <3> QED
        BY <3>3, <3>4
    <2> QED
      BY <1>1, <2>1 DEF RowsAgree, RowAt
  <1> QED
    BY <1>1, <1>2, <1>3, <1>4, <1>5 DEF AccountsAgree

\* The tree's record and the run's rows tell one story, whatever was leased, recovered,
\* admitted, settled late, paused or killed, for any depth, retries and budgets: usage
\* is charged once, a result that fits its node is saved, the rows and the nodes agree,
\* and a tree that has ended holds nothing.
THEOREM TreeAccountsAgree == Spec => []AccountsAgree
  <1>1. TreeInv => AccountsAgree
    BY InvAgrees
  <1> QED
    BY <1>1, TreeInvariance, PTL

\* What EndedStaysEnded says of a step from t to u.
StaysEnded(t, u) ==
    /\ u.state \in Ended
    /\ Nodes(u) = Nodes(t)
    /\ \A n \in Ids : u.node[n].status = "leased" => t.node[n].status = "leased"

\* A step that moves a tree which has ended, and leases nothing.
LEMMA MovedStaysEnded ==
    ASSUME NEW t, NEW u, NEW n \in Ids, Moves(t, u, n), t.state \in Ended,
           u.node[n].status = "leased" => t.node[n].status = "leased"
    PROVE  StaysEnded(t, u)
  <1>1. u.state \in Ended /\ \A m \in Ids : u.node[m].status = "absent" <=> t.node[m].status = "absent"
    BY DEF Moves
  <1>2. \A m \in Ids : u.node[m].status = "leased" => t.node[m].status = "leased"
    BY DEF Moves, Falls
  <1> QED
    BY <1>1, <1>2 DEF StaysEnded, Nodes

\* No step reopens a tree that has ended.
LEMMA EndedStep ==
    ASSUME TreeInv, Next, tree.state \in Ended
    PROVE  StaysEnded(tree, tree')
  <1>1. tree.state # "absent" /\ tree.state # "running" /\ tree \in Trees /\ EndInv(tree, attempt)
    BY DEF Ended, TreeInv, Account
  <1>2. ASSUME tree' = tree PROVE StaysEnded(tree, tree')
    BY <1>2 DEF StaysEnded
  <1>3. ASSUME NEW n \in Ids, Lease(n) PROVE FALSE
    BY <1>1, <1>3 DEF Lease, CanLease, LeasedTree
  <1>4. ASSUME NEW n \in Ids, RecoverStale(n) PROVE StaysEnded(tree, tree')
    <2>1. tree' = RecoverLease(tree, n, RecoveryRetries(n)) /\ row[n] = "running"
      BY <1>4 DEF RecoverStale, CanRecover
    <2>2. Keeps(tree, tree', n) /\ Outcome(tree, tree', n, attempt)
      BY <2>1, RecoverStaleIs
    <2> QED
      BY <2>2, MovedStaysEnded DEF Keeps, Outcome
  <1>5. ASSUME NEW n \in Ids, NEW a \in Attempts,
               \/ Replay(n, a) \/ Decide(n, a) \/ StepFails(n, a) \/ LosesReceipt(n, a)
               \/ Crash(n, a) \/ SettleRefused(n, a) \/ LateRefused(n, a)
        PROVE  tree' = tree
    BY <1>5 DEF Replay, Decide, StepFails, LosesReceipt, Crash, SettleRefused, LateRefused
  <1>6. ASSUME NEW n \in Ids, NEW a \in Attempts, CommitAction(n, a) PROVE tree' = tree
    <2>1. JobAt(tree, job, candidate, attempt, action, n, a) /\ ~ Admits(tree, n)
      BY <1>1 DEF TreeInv, Admits
    <2> QED
      BY <1>6, <2>1 DEF CommitAction, StoresCandidate, JobAt
  <1>7. ASSUME NEW n \in Ids, NEW a \in Attempts, Settle(n, a) PROVE StaysEnded(tree, tree')
    <2>1. tree' = SettledTree(n, a) /\ Current(n, a)
      BY <1>7 DEF Settle
    <2>2. Settles(tree, tree', n, ReceiptOf(n, a), UsageOf(n, a)) /\ Outcome(tree, tree', n, attempt)
      BY <2>1, SettledIs
    <2> QED
      BY <2>2, MovedStaysEnded DEF Settles, Outcome
  <1>8. ASSUME NEW n \in Ids, NEW a \in Attempts, LateResult(n, a) PROVE StaysEnded(tree, tree')
    <2>1. tree' = LateUsage(tree, n, ReceiptOf(n, a), UsageOf(n, a)) /\ job[<<n, a>>] # "idle"
      BY <1>8 DEF LateResult, Return
    <2>2. /\ Settles(tree, tree', n, ReceiptOf(n, a), UsageOf(n, a))
          /\ tree'.node[n].status = tree.node[n].status
      BY <2>1, LateIs
    <2> QED
      BY <2>2, MovedStaysEnded DEF Settles
  <1>9. ASSUME NEW wanted \in {"operator_paused", "running", "kill_stopped"}, SetPaused(wanted)
        PROVE  StaysEnded(tree, tree')
    <2> DEFINE S == ControlEnds(tree, wanted)
               u == Control(tree, wanted)
    <2>1. /\ u.state \in Ended
          /\ \A m \in S : m \in Ids /\ tree.node[m].status \in Live
          /\ \A m \in Ids : u.node[m].status = IF m \in S THEN "failed" ELSE tree.node[m].status
      BY <1>1, ControlIs
    <2>2. tree' = u
      BY <1>9 DEF SetPaused
    <2> HIDE DEF S, u
    <2>3. \A m \in Ids : /\ u.node[m].status = "absent" <=> tree.node[m].status = "absent"
                         /\ u.node[m].status = "leased" => tree.node[m].status = "leased"
      BY <2>1 DEF Live
    <2> QED
      BY <2>1, <2>2, <2>3 DEF StaysEnded, Nodes
  <1>10. Pause \/ Resume \/ Kill => \E wanted \in {"operator_paused", "running", "kill_stopped"} : SetPaused(wanted)
    BY DEF Pause, Resume, Kill
  <1> QED
    BY <1>2, <1>3, <1>4, <1>5, <1>6, <1>7, <1>8, <1>9, <1>10 DEF Next

\* A tree that has ended is never reopened: not by a resume, not by a child decided on
\* before it ended, not by a late result or a recovery.
THEOREM TreeStaysEnded == Spec => EndedStaysEnded
  <1>1. TreeInv /\ [Next]_vars =>
          [tree.state \in Ended =>
             /\ tree'.state \in Ended
             /\ Nodes(tree') = Nodes(tree)
             /\ \A n \in Ids : tree'.node[n].status = "leased" => tree.node[n].status = "leased"]_vars
    BY EndedStep DEF StaysEnded
  <1> QED
    BY <1>1, TreeInvariance, PTL DEF Spec, EndedStaysEnded
=============================================================================

---------------------------- MODULE GridScanProofs ----------------------------
(* The grid of a scan, for words of any size and any requests.                *)
EXTENDS GridScan, SequenceTheorems, TLAPS

-----------------------------------------------------------------------------
(* Arithmetic. *)

LEMMA SmallRemainder ==
  ASSUME NEW m \in Nat \ {0}, NEW n \in 0 .. m - 1
  PROVE  n % m = n
OBVIOUS

LEMMA RemainderType ==
  ASSUME NEW m \in Nat \ {0}, NEW n \in Int
  PROVE  n % m \in 0 .. m - 1
OBVIOUS

\* A conversion ends up in a word, and leaves what is in one alone.
LEMMA SignedType ==
  ASSUME NEW x \in Int
  PROVE  Signed(x) \in Int_W /\ (x \in Int_W => Signed(x) = x)
<1>1. Half \in Nat \ {0} /\ 2 * Half \in Nat \ {0}
  BY GridAssumption
<1>2. (x + Half) % (2 * Half) \in 0 .. 2 * Half - 1
  BY <1>1, RemainderType
<1>3. x \in Int_W => (x + Half) % (2 * Half) = x + Half
  <2>1. x \in Int_W => x + Half \in 0 .. 2 * Half - 1
    BY <1>1 DEF Int_W
  <2> QED BY <1>1, <2>1, SmallRemainder
<1> QED BY <1>1, <1>2, <1>3 DEF Signed, Int_W

LEMMA Division ==
  ASSUME NEW m \in Nat \ {0}, NEW q \in Int, NEW r \in 0 .. m - 1
  PROVE  (m * q + r) \div m = q /\ (m * q + r) % m = r
<1> DEFINE n == m * q + r
<1>1. /\ n \in Int /\ n = (m * (n \div m)) + (n % m)
      /\ n \div m \in Int /\ n % m \in 0 .. m - 1
  OBVIOUS
<1> DEFINE p == n \div m
           t == n % m
<1>2. m * q + r = m * p + t /\ p \in Int /\ t \in 0 .. m - 1
  BY <1>1
<1> HIDE DEF p, t
<1>3. m * (q - p) = t - r
  BY <1>2
<1>4. q - p = 0
  <2>1. CASE q - p >= 1
    <3>1. m * (q - p) >= m
      BY <1>2, <2>1
    <3> QED BY <1>2, <1>3, <3>1
  <2>2. CASE q - p <= -1
    <3>1. m * (q - p) <= -m
      BY <1>2, <2>2
    <3> QED BY <1>2, <1>3, <3>1
  <2> QED BY <1>2, <2>1, <2>2
<1>5. p = q /\ t = r
  BY <1>2, <1>3, <1>4
<1> QED BY <1>5 DEF p, t

\* The multiples of m are m apart.
LEMMA NextMultiple ==
  ASSUME NEW m \in Nat \ {0}, NEW d \in Nat, d % m = 0
  PROVE  /\ (d + m) % m = 0
         /\ \A e \in Int : d <= e /\ e < d + m /\ e % m = 0 => e = d
<1>1. PICK q \in Int : d = m * q
  OBVIOUS
<1>2. d + m = m * (q + 1)
  BY <1>1
<1>3. (d + m) % m = 0
  <2> DEFINE k == q + 1
  <2>1. d + m = m * k + 0 /\ 0 \in 0 .. m - 1 /\ k \in Int
    BY <1>1
  <2> HIDE DEF k
  <2>2. (m * k + 0) % m = 0
    BY <2>1, Division
  <2> QED BY <2>1, <2>2
<1>4. ASSUME NEW e \in Int, d <= e, e < d + m, e % m = 0
      PROVE  e = d
  <2>1. PICK r \in Int : e = m * r
    BY <1>4
  <2>2. m * (r - q) >= 0 /\ m * (r - q) < m
    BY <1>1, <1>4, <2>1
  <2>3. r - q = 0
    <3>1. CASE r - q >= 1 BY <2>2, <3>1
    <3>2. CASE r - q <= -1 BY <2>2, <3>2
    <3> QED BY <3>1, <3>2
  <2> QED BY <1>1, <2>1, <2>3
<1> QED BY <1>3, <1>4

-----------------------------------------------------------------------------
(* Types. *)

LEMMA RequestParts ==
  ASSUME NEW p \in Request, NEW a \in Axes
  PROVE  /\ p.center[a] \in Int_W /\ p.center[a] \in Int
         /\ p.range[a] \in Nat /\ p.step[a] \in Nat
         /\ p.approach[a] \in {"u", "d", "-"} /\ p.scan_axis \in Axes
         /\ First(p, a) \in Int_W /\ Last(p, a) \in Int_W
<1>1. /\ p.center[a] \in Int_W /\ p.range[a] \in UInt_W /\ p.step[a] \in UInt_W
      /\ p.approach[a] \in {"u", "d", "-"} /\ p.scan_axis \in Axes
  BY DEF Request
<1>2. p.center[a] \in Int /\ p.range[a] \in Nat /\ p.step[a] \in Nat
  BY <1>1, GridAssumption DEF Int_W, UInt_W
<1>3. Signed(p.range[a]) \in Int
  BY <1>2, SignedType, GridAssumption DEF Int_W
<1> QED BY <1>1, <1>2, <1>3, SignedType DEF First, Last

AtFront(l, e, x) == l[1] = x /\ \A i \in 1 .. Len(e) : l[i + 1] = e[i]
AtBack(l, e, x)  == l[Len(e) + 1] = x /\ \A i \in 1 .. Len(e) : l[i] = e[i]

\* Is the axis visited downwards?
Falls(p, a) == a # p.scan_axis /\ p.approach[Consulted(a)] = "d"

LEMMA AddEffect ==
  ASSUME NEW p \in Request, NEW a \in Axes, NEW e \in Seq(Int_W), NEW x \in Int_W
  PROVE  /\ Add(p, a, e, x) \in Seq(Int_W)
         /\ Len(Add(p, a, e, x)) = Len(e) + 1
         /\ Falls(p, a) => AtFront(Add(p, a, e, x), e, x)
         /\ ~Falls(p, a) => AtBack(Add(p, a, e, x), e, x)
<1>1. CASE Falls(p, a)
  <2>1. Add(p, a, e, x) = <<x>> \o e
    BY <1>1 DEF Add, Falls
  <2>2. <<x>> \in Seq(Int_W) /\ Len(<<x>>) = 1 /\ <<x>>[1] = x /\ Len(e) \in Nat
    <3> HIDE DEF Int_W
    <3> QED OBVIOUS
  <2>3. /\ <<x>> \o e \in Seq(Int_W) /\ Len(<<x>> \o e) = 1 + Len(e)
        /\ \A i \in 1 .. 1 + Len(e) : (<<x>> \o e)[i] = IF i <= 1 THEN <<x>>[i] ELSE e[i - 1]
    BY <2>2, ConcatProperties
  <2>4. \A i \in 1 .. Len(e) : i + 1 \in 1 .. 1 + Len(e) /\ ~(i + 1 <= 1) /\ (i + 1) - 1 = i
    BY <2>2
  <2> QED BY <1>1, <2>1, <2>2, <2>3, <2>4 DEF AtFront
<1>2. CASE ~Falls(p, a)
  <2>1. Add(p, a, e, x) = Append(e, x)
    BY <1>2 DEF Add, Falls
  <2> HIDE DEF Int_W
  <2> QED BY <1>2, <2>1 DEF AtBack
<1> QED BY <1>1, <1>2

LEMMA NextAxisType ==
  ASSUME TypeOK, axis \in Axes, NextAxis
  PROVE  axis' \in 0 .. 3 /\ coord' \in Int_W
<1>1. axis < 2 => axis + 1 \in Axes
  BY DEF Axes
<1>2. axis < 2 => First(plan, axis + 1) \in Int_W
  BY <1>1, RequestParts DEF TypeOK
<1>3. 0 \in Int_W
  BY GridAssumption DEF Int_W
<1> QED BY <1>2, <1>3 DEF NextAxis, Axes

\* The coordinates stay within a word, whatever is asked for.
THEOREM GridTyping == Spec => []TypeOK
<1>1. Init => TypeOK
  <2> SUFFICES ASSUME Init PROVE TypeOK
    OBVIOUS
  <2>1. plan \in Request /\ 0 \in Axes
    BY GridAssumption DEF Init, Axes
  <2>2. <<>> \in Seq(Int_W)
    OBVIOUS
  <2>3. First(plan, 0) \in Int_W
    BY <2>1, RequestParts
  <2> HIDE DEF Int_W
  <2> QED BY <2>1, <2>2, <2>3 DEF Init, TypeOK
<1>2. TypeOK /\ [Next]_vars => TypeOK'
  <2> SUFFICES ASSUME TypeOK, [Next]_vars PROVE TypeOK'
    OBVIOUS
  <2>1. CASE Iterate
    <3>1. axis \in Axes /\ plan' = plan /\ plan \in Request /\ entries[axis] \in Seq(Int_W) /\ coord \in Int_W
      BY <2>1 DEF Iterate, TypeOK
    <3>2. Add(plan, axis, entries[axis], coord) \in Seq(Int_W)
      BY <3>1, AddEffect
    <3>3. entries' \in [Axes -> Seq(Int_W)]
      <4> HIDE DEF Int_W
      <4> QED BY <2>1, <3>1, <3>2 DEF Iterate, TypeOK
    <3>4. axis' \in 0 .. 3 /\ coord' \in Int_W
      <4>1. CASE Once(plan, axis)
        BY <2>1, <3>1, <4>1, NextAxisType DEF Iterate
      <4>2. CASE ~Once(plan, axis)
        <5>1. coord + plan.step[axis] \in Int
          BY <3>1, RequestParts, GridAssumption DEF Int_W
        <5> QED BY <2>1, <3>1, <4>2, <5>1, SignedType DEF Iterate, TypeOK
      <4> QED BY <4>1, <4>2
    <3> QED BY <3>1, <3>3, <3>4 DEF TypeOK
  <2>2. CASE Leave
    BY <2>2, NextAxisType DEF Leave, TypeOK
  <2>3. CASE UNCHANGED vars
    BY <2>3 DEF vars, TypeOK
  <2> QED BY <2>1, <2>2, <2>3 DEF Next
<1> QED BY <1>1, <1>2, PTL DEF Spec

-----------------------------------------------------------------------------
(* The loop of an axis: its entries are the lines of the grid below the loop   *)
(* variable, in the order of the approach.                                     *)

Low(p, a)  == p.center[a] - p.range[a]
High(p, a) == p.center[a] + p.range[a]

InOrder(p, a, e) == Sorted(p, a, e, p.approach[Consulted(a)])

Visited(p, a, e, x) ==
  /\ x >= Low(p, a) /\ (x - Low(p, a)) % p.step[a] = 0
  /\ Seen(e) = {g \in Grid(p, a) : g < x}
  /\ InOrder(p, a, e)

Finished(p, a, e) ==
  IF a = p.scan_axis THEN Len(e) = 1 ELSE Seen(e) = Grid(p, a) /\ InOrder(p, a, e)

\* No sum of a sane request leaves a word.
LEMMA SaneSums ==
  ASSUME NEW p \in Request, Sane(p), NEW a \in Axes
  PROVE  /\ First(p, a) = Low(p, a) /\ Last(p, a) = High(p, a)
         /\ Low(p, a) \in Int /\ High(p, a) \in Int /\ Low(p, a) <= High(p, a)
         /\ \A x \in Int : Low(p, a) <= x /\ x <= High(p, a) => Signed(x + p.step[a]) = x + p.step[a]
<1>1. /\ p.center[a] \in Int /\ p.range[a] \in Nat /\ p.step[a] \in Nat
      /\ Half \in Nat /\ Overstep \in Nat
  BY RequestParts, GridAssumption
<1>2. /\ -Half <= p.center[a] - p.range[a] - Overstep
      /\ p.center[a] + p.range[a] + p.step[a] + Overstep <= Half - 1
  BY <1>1 DEF Sane, Int_W
<1>3. p.range[a] \in Int_W /\ p.center[a] - p.range[a] \in Int_W /\ p.center[a] + p.range[a] \in Int_W
  BY <1>1, <1>2 DEF Int_W
<1>4. First(p, a) = Low(p, a) /\ Last(p, a) = High(p, a)
  <2>1. Signed(p.range[a]) = p.range[a]
    BY <1>1, <1>3, SignedType
  <2> QED BY <1>1, <1>3, <2>1, SignedType DEF First, Last, Low, High
<1>5. ASSUME NEW x \in Int, Low(p, a) <= x, x <= High(p, a)
      PROVE  Signed(x + p.step[a]) = x + p.step[a]
  <2>1. x + p.step[a] \in Int_W
    BY <1>1, <1>2, <1>5 DEF Low, High, Int_W
  <2> QED BY <1>1, <2>1, SignedType
<1> QED BY <1>1, <1>4, <1>5 DEF Low, High

LEMMA SeenAdd ==
  ASSUME NEW p \in Request, NEW a \in Axes, NEW e \in Seq(Int_W), NEW x \in Int_W
  PROVE  Seen(Add(p, a, e, x)) = Seen(e) \cup {x}
<1> DEFINE l == Add(p, a, e, x)
<1>1. DOMAIN l = 1 .. Len(l) /\ DOMAIN e = 1 .. Len(e) /\ Len(l) = Len(e) + 1 /\ Len(e) \in Nat
  BY AddEffect
<1>2. CASE AtFront(l, e, x)
  <2>1. ASSUME NEW i \in DOMAIN l PROVE l[i] \in Seen(e) \cup {x}
    <3>1. CASE i = 1 BY <1>2, <3>1 DEF AtFront
    <3>2. CASE i # 1
      <4>1. i - 1 \in 1 .. Len(e) /\ (i - 1) + 1 = i
        BY <1>1, <3>2
      <4> QED BY <1>1, <1>2, <4>1 DEF Seen, AtFront
    <3> QED BY <3>1, <3>2
  <2>2. ASSUME NEW i \in DOMAIN e PROVE e[i] \in Seen(l)
    <3>1. i + 1 \in DOMAIN l
      BY <1>1
    <3> QED BY <1>1, <1>2, <3>1 DEF Seen, AtFront
  <2>3. x \in Seen(l)
    BY <1>1, <1>2 DEF Seen, AtFront
  <2> QED BY <2>1, <2>2, <2>3 DEF Seen
<1>3. CASE AtBack(l, e, x)
  <2>1. ASSUME NEW i \in DOMAIN l PROVE l[i] \in Seen(e) \cup {x}
    BY <1>1, <1>3 DEF Seen, AtBack
  <2>2. ASSUME NEW i \in DOMAIN e PROVE e[i] \in Seen(l)
    <3>1. i \in DOMAIN l
      BY <1>1
    <3> QED BY <1>1, <1>3, <3>1 DEF Seen, AtBack
  <2>3. x \in Seen(l)
    BY <1>1, <1>3 DEF Seen, AtBack
  <2> QED BY <2>1, <2>2, <2>3 DEF Seen
<1>4. AtFront(l, e, x) \/ AtBack(l, e, x)
  BY AddEffect
<1> QED BY <1>2, <1>3, <1>4

LEMMA OrderAdd ==
  ASSUME NEW p \in Request, NEW a \in Axes, a # p.scan_axis, NEW e \in Seq(Int_W), NEW x \in Int_W,
         InOrder(p, a, e), \A g \in Seen(e) : g < x
  PROVE  InOrder(p, a, Add(p, a, e, x))
<1> DEFINE l == Add(p, a, e, x)
<1>0. DOMAIN l = 1 .. Len(l) /\ DOMAIN e = 1 .. Len(e) /\ Len(l) = Len(e) + 1 /\ Len(e) \in Nat
  BY AddEffect
<1>1. /\ DOMAIN l = 1 .. Len(l) /\ DOMAIN e = 1 .. Len(e) /\ Len(l) = Len(e) + 1 /\ Len(e) \in Nat
      /\ \A i \in 1 .. Len(e) : e[i] < x
  BY <1>0 DEF Seen
<1>2. CASE p.approach[Consulted(a)] = "d"
  <2>1. l[1] = x /\ \A i \in 1 .. Len(e) : l[i + 1] = e[i]
    <3>1. AtFront(l, e, x)
      BY <1>2, AddEffect DEF Falls
    <3> QED BY <3>1 DEF AtFront
  <2>2. \A i, j \in 1 .. Len(e) : i < j => e[i] > e[j]
    BY <1>1, <1>2 DEF InOrder, Sorted
  <2> HIDE DEF l
  <2>3. ASSUME NEW i \in 1 .. Len(l), NEW j \in 1 .. Len(l), i < j
        PROVE  l[i] > l[j]
    <3>1. j - 1 \in 1 .. Len(e) /\ l[j] = e[j - 1]
      <4>1. j - 1 \in 1 .. Len(e) /\ (j - 1) + 1 = j
        BY <1>1, <2>3
      <4> QED BY <2>1, <4>1
    <3>2. CASE i = 1
      BY <1>1, <2>1, <3>1, <3>2
    <3>3. CASE i # 1
      <4>1. i - 1 \in 1 .. Len(e) /\ (i - 1) + 1 = i /\ i - 1 < j - 1
        BY <1>1, <2>3, <3>3
      <4> QED BY <2>1, <2>2, <3>1, <4>1
    <3> QED BY <3>2, <3>3
  <2> QED BY <1>1, <1>2, <2>3 DEF InOrder, Sorted, l
<1>3. CASE p.approach[Consulted(a)] # "d"
  <2>1. l[Len(e) + 1] = x /\ \A i \in 1 .. Len(e) : l[i] = e[i]
    <3>1. AtBack(l, e, x)
      BY <1>3, AddEffect DEF Falls
    <3> QED BY <3>1 DEF AtBack
  <2>2. \A i, j \in 1 .. Len(e) : i < j => e[i] < e[j]
    BY <1>1, <1>3 DEF InOrder, Sorted
  <2> HIDE DEF l
  <2>3. ASSUME NEW i \in 1 .. Len(l), NEW j \in 1 .. Len(l), i < j
        PROVE  l[i] < l[j]
    BY <1>1, <2>1, <2>2, <2>3
  <2> QED BY <1>1, <1>3, <2>3 DEF InOrder, Sorted, l
<1> QED BY <1>2, <1>3

\* An iteration that goes on visits one more line.
LEMMA IterationVisits ==
  ASSUME NEW p \in Request, Sane(p), NEW a \in Axes, ~Once(p, a), NEW e \in Seq(Int_W), NEW x \in Int_W,
         Visited(p, a, e, x), x <= High(p, a)
  PROVE  Visited(p, a, Add(p, a, e, x), Signed(x + p.step[a]))
<1> DEFINE low == Low(p, a)  m == p.step[a]  y == x + p.step[a]
<1>1. m \in Nat \ {0} /\ a # p.scan_axis /\ low \in Int /\ x \in Int /\ High(p, a) \in Int
  BY RequestParts, SaneSums, GridAssumption DEF Once, Int_W
<1>2. Signed(x + p.step[a]) = y /\ x >= low /\ (x - low) % m = 0
  BY <1>1, SaneSums DEF Visited
<1>3. x - low \in Nat /\ y - low = (x - low) + m /\ y \in Int
  BY <1>1, <1>2
<1>4. (y - low) % m = 0 /\ \A d \in Int : x - low <= d /\ d < y - low /\ d % m = 0 => d = x - low
  BY <1>1, <1>2, <1>3, NextMultiple
<1>5. \A g : g \in Grid(p, a) <=> g \in Int /\ low <= g /\ g <= High(p, a) /\ (g - low) % m = 0
  BY <1>1 DEF Grid, Low, High
<1> HIDE DEF low, m, y
<1>6. {g \in Grid(p, a) : g < y} = {g \in Grid(p, a) : g < x} \cup {x}
  <2>1. ASSUME NEW g \in Grid(p, a), g < y, g >= x
        PROVE  g = x
    <3>1. g \in Int /\ (g - low) % m = 0
      BY <1>5, <2>1
    <3>2. g - low \in Int /\ x - low <= g - low /\ g - low < y - low
      BY <1>1, <1>3, <2>1, <3>1
    <3>3. g - low = x - low
      BY <1>4, <3>1, <3>2
    <3> QED BY <1>1, <3>1, <3>3
  <2>2. x \in Grid(p, a) /\ x < y
    BY <1>1, <1>2, <1>3, <1>5
  <2>3. \A g \in Grid(p, a) : g \in Int
    BY <1>5
  <2>4. \A g \in Grid(p, a) : g < x => g < y
    BY <1>1, <1>3, <2>2, <2>3
  <2>5. \A g \in Grid(p, a) : g < y => g < x \/ g = x
    BY <1>1, <2>1, <2>3
  <2> QED BY <2>2, <2>4, <2>5
<1>7. Seen(Add(p, a, e, x)) = {g \in Grid(p, a) : g < y}
  BY <1>6, SeenAdd DEF Visited
<1>8. InOrder(p, a, Add(p, a, e, x))
  BY <1>1, OrderAdd DEF Visited
<1>9. y >= low
  BY <1>1, <1>2, <1>3
<1> QED BY <1>2, <1>4, <1>7, <1>8, <1>9 DEF Visited, low, m

\* The loop that has left the range has visited all of it.
LEMMA VisitedAll ==
  ASSUME NEW p \in Request, Sane(p), NEW a \in Axes, ~Once(p, a), NEW e, NEW x \in Int_W,
         Visited(p, a, e, x), ~(x <= High(p, a))
  PROVE  Finished(p, a, e)
<1>1. High(p, a) \in Int /\ x \in Int /\ a # p.scan_axis
  BY SaneSums, GridAssumption DEF Once, Int_W
<1>2. \A g \in Grid(p, a) : g \in Int /\ g <= High(p, a)
  BY RequestParts DEF Grid, High
<1>3. \A g \in Grid(p, a) : g < x
  BY <1>1, <1>2
<1> QED BY <1>1, <1>3 DEF Visited, Finished

\* One iteration is all that the scan axis and a step of zero take.
LEMMA OnceFinishes ==
  ASSUME NEW p \in Request, NEW a \in Axes, Once(p, a), NEW e \in Seq(Int_W), NEW x \in Int_W
  PROVE  Len(e) = 0 /\ x = Low(p, a) => Finished(p, a, Add(p, a, e, x))
<1> DEFINE l == Add(p, a, e, x)
<1> HIDE DEF l
<1>1. l \in Seq(Int_W) /\ Len(l) = Len(e) + 1
  BY AddEffect DEF l
<1>2. Seen(l) = Seen(e) \cup {x}
  <2>1. Seen(Add(p, a, e, x)) = Seen(e) \cup {x}
    BY SeenAdd
  <2> QED BY <2>1 DEF l
<1> SUFFICES ASSUME Len(e) = 0, x = Low(p, a) PROVE Finished(p, a, l)
  BY DEF l
<1>3. Len(l) = 1 /\ DOMAIN l = 1 .. 1 /\ DOMAIN e = {}
  <2> HIDE DEF Int_W
  <2>1. Len(l) = 1
    BY <1>1
  <2> QED BY <1>1, <2>1
<1>4. CASE a = p.scan_axis
  BY <1>3, <1>4 DEF Finished, l
<1>5. CASE a # p.scan_axis
  <2>1. Seen(l) = {x}
    BY <1>2, <1>3 DEF Seen
  <2>2. p.step[a] = 0
    BY <1>5 DEF Once
  <2>3. /\ p.center[a] \in Int /\ p.range[a] \in Nat
    BY RequestParts
  <2>4. Grid(p, a) = {x}
    BY <2>2, <2>3 DEF Grid, Low
  <2>5. InOrder(p, a, l)
    BY <1>3 DEF InOrder, Sorted
  <2> QED BY <1>5, <2>1, <2>4, <2>5 DEF Finished, l
<1> QED BY <1>4, <1>5

-----------------------------------------------------------------------------
(* The inductive invariant of a sane request: the axes before the loop are     *)
(* finished, the one of the loop is visited up to the loop variable, and those *)
(* after it have no entries.                                                   *)

Begun(p, a, e, x) == IF Once(p, a) THEN e = <<>> /\ x = Low(p, a) ELSE Visited(p, a, e, x)

GridInv ==
  /\ TypeOK
  /\ Sane(plan) => \A a \in Axes : /\ a < axis => Finished(plan, a, entries[a])
                                   /\ a = axis => Begun(plan, a, entries[a], coord)
                                   /\ a > axis => entries[a] = <<>>

\* A loop begins with no entries, at the lowest line.
LEMMA LoopBegins ==
  ASSUME NEW p \in Request, Sane(p), NEW a \in Axes, NEW e, e = <<>>
  PROVE  Begun(p, a, e, First(p, a))
<1>1. /\ First(p, a) = Low(p, a) /\ Low(p, a) \in Int /\ High(p, a) \in Int
      /\ p.center[a] \in Int /\ p.range[a] \in Nat /\ p.step[a] \in Nat
  BY SaneSums, RequestParts
<1>2. CASE ~Once(p, a)
  <2>1. p.step[a] \in Nat \ {0} /\ Low(p, a) - Low(p, a) = 0 /\ 0 \in 0 .. p.step[a] - 1
    BY <1>1, <1>2 DEF Once
  <2>2. (Low(p, a) - Low(p, a)) % p.step[a] = 0
    BY <2>1, SmallRemainder
  <2>3. Seen(e) = {} /\ InOrder(p, a, e)
    BY DEF Seen, InOrder, Sorted
  <2>4. \A g \in Grid(p, a) : g \in Int /\ g >= Low(p, a)
    BY <1>1 DEF Grid, Low
  <2> QED BY <1>1, <1>2, <2>2, <2>3, <2>4 DEF Begun, Visited
<1> QED BY <1>1, <1>2 DEF Begun

LEMMA NextAxisGrid ==
  ASSUME GridInv, TypeOK', Sane(plan), axis \in Axes, NextAxis, plan' = plan,
         Finished(plan, axis, entries'[axis]),
         \A a \in Axes : a # axis => entries'[a] = entries[a]
  PROVE  GridInv'
<1>1. plan \in Request /\ axis' = axis + 1 /\ axis \in 0 .. 2
  BY DEF GridInv, TypeOK, NextAxis, Axes
<1>2. ASSUME NEW a \in Axes
      PROVE  /\ a < axis' => Finished(plan', a, entries'[a])
             /\ a = axis' => Begun(plan', a, entries'[a], coord')
             /\ a > axis' => entries'[a] = <<>>
  <2>1. CASE a < axis
    BY <1>1, <2>1 DEF GridInv, Axes
  <2>2. CASE a = axis
    BY <1>1, <2>2
  <2>3. CASE a > axis
    <3>1. entries'[a] = <<>>
      BY <2>3 DEF GridInv, Axes
    <3>2. a = axis' => coord' = First(plan, a)
      BY <1>1, <2>3 DEF NextAxis, Axes
    <3> QED BY <1>1, <2>3, <3>1, <3>2, LoopBegins DEF Axes
  <2> QED BY <1>1, <2>1, <2>2, <2>3 DEF Axes
<1> QED BY <1>2 DEF GridInv

LEMMA NextGrid == GridInv /\ TypeOK' /\ [Next]_vars => GridInv'
<1> SUFFICES ASSUME GridInv, TypeOK', [Next]_vars PROVE GridInv'
  OBVIOUS
<1>1. CASE ~Sane(plan')
  BY <1>1 DEF GridInv
<1>2. CASE UNCHANGED vars
  BY <1>2 DEF vars, GridInv, TypeOK
<1>3. CASE Iterate /\ Sane(plan')
  <2>1. /\ axis \in Axes /\ plan' = plan /\ Sane(plan) /\ plan \in Request
        /\ entries[axis] \in Seq(Int_W) /\ coord \in Int_W /\ coord <= Last(plan, axis)
        /\ Begun(plan, axis, entries[axis], coord)
    BY <1>3 DEF Iterate, Runs, GridInv, TypeOK
  <2>2. /\ entries'[axis] = Add(plan, axis, entries[axis], coord)
        /\ \A a \in Axes : a # axis => entries'[a] = entries[a]
    BY <1>3, <2>1 DEF Iterate, GridInv, TypeOK
  <2>3. coord <= High(plan, axis)
    BY <2>1, SaneSums
  <2>4. CASE Once(plan, axis)
    <3>1. Finished(plan, axis, entries'[axis])
      <4>1. entries[axis] = <<>> /\ coord = Low(plan, axis)
        BY <2>1, <2>4 DEF Begun
      <4>2. Len(entries[axis]) = 0
        BY <4>1
      <4> QED BY <2>1, <2>2, <2>4, <4>1, <4>2, OnceFinishes
    <3> QED BY <1>3, <2>1, <2>2, <2>4, <3>1, NextAxisGrid DEF Iterate
  <2>5. CASE ~Once(plan, axis)
    <3>1. axis' = axis /\ coord' = Signed(coord + plan.step[axis])
      BY <1>3, <2>5 DEF Iterate
    <3>2. Visited(plan, axis, entries'[axis], coord')
      BY <2>1, <2>2, <2>3, <2>5, <3>1, IterationVisits DEF Begun
    <3>3. Begun(plan', axis, entries'[axis], coord')
      BY <2>1, <2>5, <3>2 DEF Begun
    <3>4. ASSUME NEW a \in Axes
          PROVE  /\ a < axis' => Finished(plan', a, entries'[a])
                 /\ a = axis' => Begun(plan', a, entries'[a], coord')
                 /\ a > axis' => entries'[a] = <<>>
      <4>1. CASE a = axis
        BY <3>1, <3>3, <4>1 DEF Axes
      <4>2. CASE a # axis
        <5>1. entries'[a] = entries[a]
          BY <2>2, <4>2
        <5> QED BY <2>1, <3>1, <4>2, <5>1 DEF GridInv
      <4> QED BY <4>1, <4>2
    <3> QED BY <3>4 DEF GridInv
  <2> QED BY <2>4, <2>5
<1>4. CASE Leave /\ Sane(plan')
  <2>1. /\ axis \in Axes /\ plan' = plan /\ Sane(plan) /\ plan \in Request /\ entries' = entries
        /\ coord \in Int_W /\ ~(coord <= Last(plan, axis)) /\ NextAxis
        /\ Begun(plan, axis, entries[axis], coord)
    BY <1>4 DEF Leave, Runs, GridInv, TypeOK
  <2>2. ~Once(plan, axis)
    BY <2>1, SaneSums DEF Begun
  <2>3. Finished(plan, axis, entries[axis])
    BY <2>1, <2>2, SaneSums, VisitedAll DEF Begun
  <2> QED BY <2>1, <2>3, NextAxisGrid
<1> QED BY <1>1, <1>2, <1>3, <1>4 DEF Next

LEMMA InitGrid == Init /\ TypeOK => GridInv
<1> SUFFICES ASSUME Init, TypeOK, Sane(plan), NEW a \in Axes
             PROVE  ~(a < axis) /\ (a = axis => Begun(plan, a, entries[a], coord))
                      /\ entries[a] = <<>>
  BY DEF GridInv, Init
<1>1. plan \in Request /\ entries[a] = <<>> /\ axis = 0 /\ coord = First(plan, 0)
  BY DEF Init, TypeOK
<1> QED BY <1>1, LoopBegins DEF Axes

LEMMA GridInvHolds == Spec => []GridInv
BY GridTyping, InitGrid, NextGrid, PTL DEF Spec

\* The coordinates of the first two axes come in the order of their approach,
\* for words of any size and any sane request: each is reached from the same
\* side.
THEOREM OrderKept == Spec => []FirstAxesInOrder
<1>1. GridInv => FirstAxesInOrder
  <2> SUFFICES ASSUME GridInv, Done, Sane(plan), NEW a \in {0, 1}, a # plan.scan_axis
               PROVE  Sorted(plan, a, entries[a], plan.approach[a])
    BY DEF FirstAxesInOrder
  <2>1. a \in Axes /\ a < axis /\ Consulted(a) = a
    BY DEF Axes, Done, Consulted
  <2> QED BY <2>1 DEF GridInv, Finished, InOrder
<1> QED BY <1>1, GridInvHolds, PTL

-----------------------------------------------------------------------------
(* The nested loops: which entries a segment is made of, and back. *)

LEMMA RowMajor ==
  ASSUME NEW l0 \in Nat, NEW l1 \in Nat, NEW l2 \in Nat, NEW n \in 0 .. l0 * l1 * l2 - 1
  PROVE  /\ n \div (l1 * l2) \in 0 .. l0 - 1
         /\ (n \div l2) % l1 \in 0 .. l1 - 1
         /\ n % l2 \in 0 .. l2 - 1
         /\ n = ((l1 * l2) * (n \div (l1 * l2))) + ((l2 * ((n \div l2) % l1)) + (n % l2))
<1>1. l0 \in Nat \ {0} /\ l1 \in Nat \ {0} /\ l2 \in Nat \ {0}
  <2>1. l0 # 0 /\ l1 # 0 /\ l2 # 0
    OBVIOUS
  <2> QED BY <2>1
<1> DEFINE q == n \div l2
           c == n % l2
           u == q \div l1
           b == q % l1
<1>2. n = (l2 * q) + c /\ q \in Int /\ c \in 0 .. l2 - 1
  BY <1>1
<1> HIDE DEF q, c
<1>3. q = (l1 * u) + b /\ u \in Int /\ b \in 0 .. l1 - 1
  BY <1>1, <1>2
<1> HIDE DEF u, b
<1> DEFINE m == l1 * l2
           r == (l2 * b) + c
<1>4. m \in Nat \ {0} /\ n = (m * u) + r
  <2>1. l1 * l2 \in Nat \ {0}
    BY <1>1
  <2>2. l2 * ((l1 * u) + b) = ((l1 * l2) * u) + (l2 * b)
    BY <1>1, <1>3
  <2> QED BY <1>2, <1>3, <2>1, <2>2
<1>5. r \in 0 .. m - 1
  <2>1. 0 <= l2 * b /\ l2 * b <= l2 * (l1 - 1) /\ l2 * b \in Int
    BY <1>1, <1>3
  <2>2. l2 * (l1 - 1) = (l1 * l2) - l2
    BY <1>1
  <2> QED BY <1>1, <1>2, <2>1, <2>2
<1>6. n < l0 * m /\ n \in Nat
  BY <1>1
<1> HIDE DEF m, r
<1>7. n \div m = u
  BY <1>3, <1>4, <1>5, Division
<1>8. u \in 0 .. l0 - 1
  <2>1. CASE u < 0
    <3>1. m * u <= -m
      BY <1>3, <1>4, <2>1
    <3> QED BY <1>3, <1>4, <1>5, <1>6, <3>1
  <2>2. CASE u >= l0
    <3>1. m * u >= m * l0
      BY <1>1, <1>3, <1>4, <2>2
    <3> QED BY <1>1, <1>3, <1>4, <1>5, <1>6, <3>1
  <2> QED BY <1>1, <1>3, <2>1, <2>2
<1> QED BY <1>2, <1>3, <1>4, <1>7, <1>8 DEF m, r, q, c, u, b

\* Where the nested loops come to the entries u, b and c (from 0).
Reached(l1, l2, u, b, c) == ((l1 * l2) * u) + ((l2 * b) + c)

TakesBack(l0, l1, l2, u, b, c) ==
  /\ Reached(l1, l2, u, b, c) \in 0 .. l0 * l1 * l2 - 1
  /\ Reached(l1, l2, u, b, c) \div (l1 * l2) = u
  /\ (Reached(l1, l2, u, b, c) \div l2) % l1 = b
  /\ Reached(l1, l2, u, b, c) % l2 = c

LEMMA RowMajorBack ==
  ASSUME NEW l0 \in Nat, NEW l1 \in Nat, NEW l2 \in Nat,
         NEW u \in 0 .. l0 - 1, NEW b \in 0 .. l1 - 1, NEW c \in 0 .. l2 - 1
  PROVE  TakesBack(l0, l1, l2, u, b, c)
<1> DEFINE n == ((l1 * l2) * u) + ((l2 * b) + c)
<1>1. l0 \in Nat \ {0} /\ l1 \in Nat \ {0} /\ l2 \in Nat \ {0} /\ l1 * l2 \in Nat \ {0}
  OBVIOUS
<1> DEFINE m == l1 * l2
           r == (l2 * b) + c
           q == (l1 * u) + b
<1>2. r \in 0 .. m - 1
  <2>1. 0 <= l2 * b /\ l2 * b <= l2 * (l1 - 1) /\ l2 * b \in Int
    BY <1>1
  <2>2. l2 * (l1 - 1) = (l1 * l2) - l2
    BY <1>1
  <2> QED BY <1>1, <2>1, <2>2
<1>3. n = (l2 * q) + c /\ q \in Int
  BY <1>1
<1>4. n = (m * u) + r /\ m \in Nat \ {0} /\ l0 * l1 * l2 = m * l0
  BY <1>1
<1> HIDE DEF m, r, n
<1>5. n \div m = u
  BY <1>2, <1>4, Division
<1>6. n \in 0 .. (m * l0) - 1
  <2>1. 0 <= m * u /\ m * u <= m * (l0 - 1) /\ m * u \in Int
    BY <1>1, <1>4
  <2>2. m * (l0 - 1) = (m * l0) - m
    BY <1>1, <1>4
  <2> QED BY <1>1, <1>2, <1>4, <2>1, <2>2
<1>7. q % l1 = b
  BY <1>1, Division
<1> HIDE DEF q
<1>8. n \div l2 = q /\ n % l2 = c
  BY <1>1, <1>3, Division
<1> QED BY <1>4, <1>5, <1>6, <1>7, <1>8 DEF m, n, Reached, TakesBack

\* The entry of an axis that a segment is made of.
Place(e, i, a) ==
  CASE a = 0 -> ((i - 1) \div (Len(e[1]) * Len(e[2]))) + 1
    [] a = 1 -> (((i - 1) \div Len(e[2])) % Len(e[1])) + 1
    [] a = 2 -> ((i - 1) % Len(e[2])) + 1

LEMMA PlaceOf ==
  ASSUME NEW e \in [Axes -> Seq(Int_W)], NEW i \in DOMAIN Points(e)
  PROVE  /\ Points(e)[i] = [a \in Axes |-> e[a][Place(e, i, a)]]
         /\ \A a \in Axes : Place(e, i, a) \in DOMAIN e[a]
         /\ i - 1 = ((Len(e[1]) * Len(e[2])) * (Place(e, i, 0) - 1))
                       + ((Len(e[2]) * (Place(e, i, 1) - 1)) + (Place(e, i, 2) - 1))
<1> DEFINE l0 == Len(e[0])  l1 == Len(e[1])  l2 == Len(e[2])  n == i - 1
<1>1. l0 \in Nat /\ l1 \in Nat /\ l2 \in Nat
  <2>1. e[0] \in Seq(Int_W) /\ e[1] \in Seq(Int_W) /\ e[2] \in Seq(Int_W)
    BY DEF Axes
  <2> HIDE DEF Int_W
  <2> QED BY <2>1
<1>2. i \in 1 .. l0 * l1 * l2
  BY Zenon DEF Points
<1>3. n \in 0 .. l0 * l1 * l2 - 1
  <2>1. \A x, y, z \in Nat : \A k \in 1 .. x * y * z : k - 1 \in 0 .. x * y * z - 1
    OBVIOUS
  <2> HIDE DEF l0, l1, l2
  <2> QED BY <1>1, <1>2, <2>1
<1>4. /\ Place(e, i, 0) = (n \div (l1 * l2)) + 1
      /\ Place(e, i, 1) = ((n \div l2) % l1) + 1
      /\ Place(e, i, 2) = (n % l2) + 1
  BY DEF Place
<1>5. \A a \in Axes : a = 0 \/ a = 1 \/ a = 2
  BY DEF Axes
<1>6. Points(e)[i] = [a \in Axes |-> e[a][Place(e, i, a)]]
  <2> DEFINE entry(a) == CASE a = 0 -> e[0][(n \div (l1 * l2)) + 1]
                           [] a = 1 -> e[1][((n \div l2) % l1) + 1]
                           [] a = 2 -> e[2][(n % l2) + 1]
  <2>1. Points(e)[i] = [a \in Axes |-> entry(a)]
    BY <1>2 DEF Points
  <2>2. \A a \in Axes : entry(a) = e[a][Place(e, i, a)]
    BY <1>4, <1>5
  <2> HIDE DEF entry
  <2> QED BY <2>1, <2>2
<1> HIDE DEF l0, l1, l2, n
<1>7. /\ n \div (l1 * l2) \in 0 .. l0 - 1 /\ (n \div l2) % l1 \in 0 .. l1 - 1 /\ n % l2 \in 0 .. l2 - 1
      /\ n = ((l1 * l2) * (n \div (l1 * l2))) + ((l2 * ((n \div l2) % l1)) + (n % l2))
  BY <1>1, <1>3, RowMajor
<1> DEFINE u == n \div (l1 * l2)  b == (n \div l2) % l1  c == n % l2
<1>8. /\ u \in 0 .. l0 - 1 /\ b \in 0 .. l1 - 1 /\ c \in 0 .. l2 - 1
      /\ n = ((l1 * l2) * u) + ((l2 * b) + c)
      /\ Place(e, i, 0) = u + 1 /\ Place(e, i, 1) = b + 1 /\ Place(e, i, 2) = c + 1
  BY <1>4, <1>7
<1> HIDE DEF u, b, c
<1>9. /\ Place(e, i, 0) \in 1 .. l0 /\ Place(e, i, 1) \in 1 .. l1 /\ Place(e, i, 2) \in 1 .. l2
      /\ Place(e, i, 0) - 1 = u /\ Place(e, i, 1) - 1 = b /\ Place(e, i, 2) - 1 = c
  BY <1>1, <1>8
<1>10. DOMAIN e[0] = 1 .. l0 /\ DOMAIN e[1] = 1 .. l1 /\ DOMAIN e[2] = 1 .. l2
  <2>1. e[0] \in Seq(Int_W) /\ e[1] \in Seq(Int_W) /\ e[2] \in Seq(Int_W)
    BY DEF Axes
  <2> HIDE DEF Int_W
  <2> QED BY <2>1 DEF l0, l1, l2
<1>11. \A a \in Axes : Place(e, i, a) \in DOMAIN e[a]
  BY <1>5, <1>9, <1>10
<1> QED BY <1>6, <1>8, <1>9, <1>11 DEF n, l1, l2

LEMMA PlaceFound ==
  ASSUME NEW e \in [Axes -> Seq(Int_W)], NEW j \in [Axes -> Int],
         \A a \in Axes : j[a] \in DOMAIN e[a]
  PROVE  \E i \in DOMAIN Points(e) : \A a \in Axes : Place(e, i, a) = j[a]
<1> DEFINE l0 == Len(e[0])  l1 == Len(e[1])  l2 == Len(e[2])
           u == j[0] - 1    b == j[1] - 1    c == j[2] - 1
           n == Reached(l1, l2, u, b, c)
<1>1. /\ l0 \in Nat /\ l1 \in Nat /\ l2 \in Nat
      /\ DOMAIN e[0] = 1 .. l0 /\ DOMAIN e[1] = 1 .. l1 /\ DOMAIN e[2] = 1 .. l2
  <2>1. e[0] \in Seq(Int_W) /\ e[1] \in Seq(Int_W) /\ e[2] \in Seq(Int_W)
    BY DEF Axes
  <2> HIDE DEF Int_W
  <2> QED BY <2>1
<1>2. /\ j[0] \in DOMAIN e[0] /\ j[1] \in DOMAIN e[1] /\ j[2] \in DOMAIN e[2]
      /\ j[0] \in Int /\ j[1] \in Int /\ j[2] \in Int
  BY DEF Axes
<1>3. u \in 0 .. l0 - 1 /\ b \in 0 .. l1 - 1 /\ c \in 0 .. l2 - 1
  <2>1. \A m \in Nat : \A k \in 1 .. m : k - 1 \in 0 .. m - 1
    OBVIOUS
  <2> HIDE DEF l0, l1, l2
  <2> QED BY <1>1, <1>2, <2>1
<1>4. u + 1 = j[0] /\ b + 1 = j[1] /\ c + 1 = j[2]
  BY <1>2
<1> HIDE DEF l0, l1, l2, u, b, c
<1>5. n \in 0 .. l0 * l1 * l2 - 1 /\ n \div (l1 * l2) = u /\ (n \div l2) % l1 = b /\ n % l2 = c
  <2>1. TakesBack(l0, l1, l2, u, b, c)
    BY <1>1, <1>3, RowMajorBack
  <2> QED BY <2>1, Zenon DEF TakesBack
<1>6. n + 1 \in 1 .. l0 * l1 * l2 /\ (n + 1) - 1 = n
  <2>1. l0 * l1 * l2 \in Int
    BY <1>1
  <2> HIDE DEF n
  <2> QED BY <1>5, <2>1
<1>7. n + 1 \in DOMAIN Points(e)
  BY <1>6 DEF Points, l0, l1, l2
<1> HIDE DEF n
<1>8. Place(e, n + 1, 0) = j[0] /\ Place(e, n + 1, 1) = j[1] /\ Place(e, n + 1, 2) = j[2]
  BY <1>4, <1>5, <1>6 DEF Place, l1, l2
<1>9. \A a \in Axes : Place(e, n + 1, a) = j[a]
  BY <1>8 DEF Axes
<1> QED BY <1>7, <1>9

LEMMA PlacesDiffer ==
  ASSUME NEW e \in [Axes -> Seq(Int_W)], NEW i \in DOMAIN Points(e), NEW j \in DOMAIN Points(e),
         \A a \in Axes : Place(e, i, a) = Place(e, j, a)
  PROVE  i = j
<1>1. i - 1 = j - 1
  <2>1. /\ Place(e, i, 0) = Place(e, j, 0) /\ Place(e, i, 1) = Place(e, j, 1)
        /\ Place(e, i, 2) = Place(e, j, 2)
    BY DEF Axes
  <2>2. /\ i - 1 = ((Len(e[1]) * Len(e[2])) * (Place(e, i, 0) - 1))
                       + ((Len(e[2]) * (Place(e, i, 1) - 1)) + (Place(e, i, 2) - 1))
        /\ j - 1 = ((Len(e[1]) * Len(e[2])) * (Place(e, j, 0) - 1))
                       + ((Len(e[2]) * (Place(e, j, 1) - 1)) + (Place(e, j, 2) - 1))
    BY PlaceOf, Zenon
  <2> QED BY <2>1, <2>2, Zenon
<1>2. i \in Int /\ j \in Int
  <2>1. DOMAIN Points(e) = 1 .. Len(e[0]) * Len(e[1]) * Len(e[2])
    BY Zenon DEF Points
  <2> QED BY <2>1
<1> QED BY <1>1, <1>2

\* No coordinate of a sorted axis comes twice.
LEMMA SortedDiffer ==
  ASSUME NEW p, NEW a, NEW e \in Seq(Int_W), NEW approach, Sorted(p, a, e, approach),
         NEW i \in DOMAIN e, NEW j \in DOMAIN e, e[i] = e[j]
  PROVE  i = j
<1>1. i \in Int /\ j \in Int /\ e[i] \in Int /\ e[j] \in Int
  BY GridAssumption DEF Int_W
<1>2. ~(i < j) /\ ~(j < i)
  BY <1>1 DEF Sorted
<1> QED BY <1>1, <1>2

\* A segment begins outside of the range and crosses all of it.
LEMMA SidesCross ==
  ASSUME NEW p \in Request, Sane(p)
  PROVE  IF p.approach[p.scan_axis] = "d"
         THEN Sides(p)[1] >= High(p, p.scan_axis) + Overstep /\ Sides(p)[2] <= Low(p, p.scan_axis)
         ELSE Sides(p)[1] <= Low(p, p.scan_axis) - Overstep /\ Sides(p)[2] >= High(p, p.scan_axis)
<1> DEFINE s == p.scan_axis  c == p.center[s]  r == p.range[s]
<1>1. s \in Axes
  BY RequestParts DEF Request
<1>2. /\ c \in Int /\ r \in Nat /\ p.step[s] \in Nat /\ Half \in Nat \ {0} /\ Overstep \in Nat
  BY <1>1, RequestParts, GridAssumption
<1>3. c - r - Overstep \in Int_W /\ c + r + p.step[s] + Overstep \in Int_W
  BY <1>1 DEF Sane
<1>4. /\ c - r - Overstep \in Int_W /\ c + r + Overstep \in Int_W /\ c - r \in Int_W /\ c + r \in Int_W
      /\ c - r - Overstep \in Int /\ c + r + Overstep \in Int /\ c - r \in Int /\ c + r \in Int
  BY <1>2, <1>3 DEF Int_W
<1>5. /\ Signed(c - r - Overstep) = c - r - Overstep /\ Signed(c + r + Overstep) = c + r + Overstep
      /\ Signed(c - r) = c - r /\ Signed(c + r) = c + r
  BY <1>4, SignedType
<1>6. /\ High(p, s) = c + r /\ Low(p, s) = c - r
  BY DEF High, Low
<1>7. CASE p.approach[s] = "d"
  <2>1. Sides(p) = <<c + r + Overstep, c - r>>
    BY <1>5, <1>7 DEF Sides
  <2> QED BY <1>2, <1>6, <1>7, <2>1
<1>8. CASE p.approach[s] # "d"
  <2>1. Sides(p) = <<c - r - Overstep, c + r>>
    BY <1>5, <1>8 DEF Sides
  <2> QED BY <1>2, <1>6, <1>8, <2>1
<1> QED BY <1>7, <1>8

LEMMA SegmentParts ==
  ASSUME NEW p \in Request, NEW e \in [Axes -> Seq(Int_W)], NEW i \in DOMAIN Points(e)
  PROVE  /\ Segments(p, e)[i].start[p.scan_axis] = Sides(p)[1]
         /\ Segments(p, e)[i].end[p.scan_axis] = Sides(p)[2]
         /\ \A a \in Axes \ {p.scan_axis} :
              /\ Segments(p, e)[i].start[a] = e[a][Place(e, i, a)]
              /\ Segments(p, e)[i].end[a] = e[a][Place(e, i, a)]
<1> DEFINE pt == Points(e)[i]
<1>1. pt = [a \in Axes |-> e[a][Place(e, i, a)]]
  BY PlaceOf, Zenon
<1>2. Segments(p, e)[i] = [start |-> [pt EXCEPT ![p.scan_axis] = Sides(p)[1]],
                           end   |-> [pt EXCEPT ![p.scan_axis] = Sides(p)[2]]]
  BY Zenon DEF Segments
<1>3. p.scan_axis \in Axes
  BY DEF Request
<1> HIDE DEF pt
<1> QED BY <1>1, <1>2, <1>3

\* The segments of a sane request, for words of any size: every line of the
\* grid is crossed by exactly one of them, over the whole range of the scan axis
\* and from the side of the approach, beginning Overstep before it.
THEOREM GridCovered == Spec => []SegmentsCoverGrid
<1>1. ASSUME GridInv, Done, Sane(plan)
      PROVE  SegmentsCoverGrid
  <2> DEFINE p      == plan
             e      == entries
             segs   == Segments(plan, entries)
             s      == plan.scan_axis
             others == Axes \ {s}
             line(i) == [a \in others |-> segs[i].start[a]]
             lines  == {l \in [others -> UNION {Grid(plan, a) : a \in others}] :
                          \A a \in others : l[a] \in Grid(plan, a)}
  <2>1. /\ p \in Request /\ e \in [Axes -> Seq(Int_W)] /\ s \in Axes
        /\ DOMAIN segs = DOMAIN Points(e)
    BY <1>1 DEF GridInv, TypeOK, Request, Segments
  <2>2. \A a \in Axes : Finished(p, a, e[a])
    BY <1>1 DEF GridInv, Done, Axes
  <2>3. /\ Len(e[s]) = 1 
        /\ \A a \in others : Seen(e[a]) = Grid(p, a) /\ InOrder(p, a, e[a])
    BY <2>1, <2>2 DEF Finished
  <2>4. DOMAIN e[s] = {1}
    <3>1. e[s] \in Seq(Int_W)
      BY <2>1
    <3> HIDE DEF Int_W
    <3>2. DOMAIN e[s] = 1 .. Len(e[s])
      BY <3>1
    <3> QED BY <2>3, <3>2
  <2>5. \A i \in DOMAIN segs : \A a \in others : line(i)[a] = e[a][Place(e, i, a)]
    BY <2>1, SegmentParts
  <2>6. \A i \in DOMAIN segs : \A a \in Axes : Place(e, i, a) \in DOMAIN e[a]
    BY <2>1, PlaceOf
  <2>7. \A i \in DOMAIN segs : line(i) \in lines
    <3> SUFFICES ASSUME NEW i \in DOMAIN segs, NEW a \in others
                 PROVE  segs[i].start[a] \in Grid(plan, a)
      OBVIOUS
    <3>1. segs[i].start[a] = e[a][Place(e, i, a)] /\ Place(e, i, a) \in DOMAIN e[a]
      BY <2>5, <2>6
    <3> QED BY <2>3, <3>1 DEF Seen
  <2>8. ASSUME NEW l \in lines
        PROVE  \E i \in DOMAIN segs : line(i) = l
    <3> DEFINE j == [a \in Axes |-> IF a = s THEN 1 ELSE CHOOSE k \in DOMAIN e[a] : e[a][k] = l[a]]
    <3>1. ASSUME NEW a \in others
          PROVE  j[a] \in DOMAIN e[a] /\ e[a][j[a]] = l[a]
      <4>1. l[a] \in Seen(e[a])
        BY <2>3, <2>8
      <4>2. \E k \in DOMAIN e[a] : e[a][k] = l[a]
        BY <4>1 DEF Seen
      <4> QED BY <4>2
    <3>2. j[s] = 1
      BY <2>1
    <3>3. \A a \in Axes : j[a] \in DOMAIN e[a]
      BY <2>4, <3>1, <3>2
    <3>4. j \in [Axes -> Int]
      <4>1. \A a \in Axes : \A k \in DOMAIN e[a] : k \in Int
        BY <2>1
      <4> QED BY <3>3, <4>1
    <3>5. PICK i \in DOMAIN Points(e) : \A a \in Axes : Place(e, i, a) = j[a]
      <4> HIDE DEF j
      <4> QED BY <2>1, <3>3, <3>4, PlaceFound
    <3> HIDE DEF j
    <3>6. \A a \in others : line(i)[a] = l[a]
      <4> HIDE DEF line, lines
      <4> QED BY <2>1, <2>5, <3>1, <3>5
    <3>7. line(i) = l
      BY <2>8, <3>6
    <3> QED BY <2>1, <3>5, <3>7
  <2>9. ASSUME NEW i \in DOMAIN segs, NEW j \in DOMAIN segs, line(i) = line(j)
        PROVE  i = j
    <3>1. \A a \in others : e[a][Place(e, i, a)] = e[a][Place(e, j, a)]
      <4> HIDE DEF line
      <4> QED BY <2>5, <2>9
    <3>2. ASSUME NEW a \in others
          PROVE  Place(e, i, a) = Place(e, j, a)
      BY <2>1, <2>3, <2>6, <3>1, SortedDiffer DEF InOrder
    <3>3. Place(e, i, s) = Place(e, j, s)
      BY <2>1, <2>4, <2>6
    <3> QED BY <2>1, <3>2, <3>3, PlacesDiffer
  <2>10. ASSUME NEW i \in DOMAIN segs
         PROVE  \A a \in others : segs[i].start[a] = segs[i].end[a]
    BY <2>1, SegmentParts
  <2>11. ASSUME NEW i \in DOMAIN segs
         PROVE  IF p.approach[s] = "d"
                THEN segs[i].start[s] >= High(p, s) + Overstep /\ segs[i].end[s] <= Low(p, s)
                ELSE segs[i].start[s] <= Low(p, s) - Overstep /\ segs[i].end[s] >= High(p, s)
    BY <1>1, <2>1, SegmentParts, SidesCross
  <2>12. {line(i) : i \in DOMAIN segs} = lines
    <3> HIDE DEF line, lines, segs
    <3> QED BY <2>7, <2>8
  <2> QED BY <2>9, <2>10, <2>11, <2>12 DEF SegmentsCoverGrid, High, Low
<1>2. GridInv => SegmentsCoverGrid
  BY <1>1 DEF SegmentsCoverGrid
<1> QED BY <1>2, GridInvHolds, PTL

================================================================================

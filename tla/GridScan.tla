------------------------------ MODULE GridScan ------------------------------
(***************************************************************************)
(* execute_grid_scan: from a centre, a range and a step for each of the    *)
(* three axes, an approach for each and the axis to scan along, the        *)
(* segments of a scan.  Three loops build the coordinates to visit on the  *)
(* other axes; an action is an iteration.  The code mixes signed and       *)
(* unsigned 32-bit integers; here a word has 2 * Half values.              *)
(***************************************************************************)
EXTENDS Integers, Sequences

CONSTANTS Half,      \* the words from zero up, 2^31 in the code
          Overstep,  \* how far before the range a segment begins (200 in the code)
          Requests   \* what clients ask for

Axes == 0 .. 2

Int_W  == -Half .. Half - 1
UInt_W == 0 .. 2 * Half - 1

\* Variant: arithmetic without a width.
Unwrapped(x) == x

\* Conversion of a sum or a difference to a signed word.  Where the code
\* overflows a signed sum the processor wraps as well.
Signed(x) == ((x + Half) % (2 * Half)) - Half

Request == [center : [Axes -> Int_W], range : [Axes -> UInt_W], step : [Axes -> UInt_W],
            approach : [Axes -> {"u", "d", "-"}], scan_axis : Axes]

ASSUME GridAssumption ==
  Half \in Nat \ {0} /\ Overstep \in Nat /\ Requests \subseteq Request

VARIABLES plan,      \* the request
          axis,      \* the loop that runs; 3 when they are done
          coord,     \* its variable: x, y or z
          entries    \* x_entries, y_entries, z_entries

vars == <<plan, axis, coord, entries>>

-----------------------------------------------------------------------------
First(p, a) == Signed(p.center[a] - Signed(p.range[a]))
Last(p, a)  == Signed(p.center[a] + Signed(p.range[a]))

\* Whose approach the loop of an axis looks at: the third one looks at the
\* second's.
Consulted(a) == IF a = 2 THEN 1 ELSE a

\* Variant: the entries of a descending axis are appended as well.
AddAtBack(p, a, e, x) == Append(e, x)

Add(p, a, e, x) ==
  IF a # p.scan_axis /\ p.approach[Consulted(a)] = "d" THEN <<x>> \o e ELSE Append(e, x)

\* Variant: the last coordinate is left out.
RunsExclusive(p, a, x) == x < Last(p, a)

\* The loop condition.
Runs(p, a, x) == x <= Last(p, a)

\* Variant: a step of zero is left to the client.
OnceScanOnly(p, a) == a = p.scan_axis

\* The two breaks: the scan axis needs one entry, and so does a step of zero.
Once(p, a) == a = p.scan_axis \/ p.step[a] = 0

NextAxis ==
  /\ axis' = axis + 1
  /\ coord' = IF axis < 2 THEN First(plan, axis + 1) ELSE 0

\* Bounds the entries: a loop that makes more of them than there are words is
\* in a circle, and stands still here instead.
MaxEntries == 2 * Half

Iterate ==
  /\ axis \in Axes /\ Runs(plan, axis, coord)
  /\ Len(entries[axis]) < MaxEntries
  /\ entries' = [entries EXCEPT ![axis] = Add(plan, axis, @, coord)]
  /\ IF Once(plan, axis) THEN NextAxis
     ELSE coord' = Signed(coord + plan.step[axis]) /\ UNCHANGED axis
  /\ UNCHANGED plan

Leave ==
  /\ axis \in Axes /\ ~Runs(plan, axis, coord)
  /\ NextAxis
  /\ UNCHANGED <<plan, entries>>

Init ==
  /\ plan \in Requests
  /\ axis = 0
  /\ coord = First(plan, 0)
  /\ entries = [a \in Axes |-> <<>>]

Next == Iterate \/ Leave

Spec == Init /\ [][Next]_vars /\ WF_vars(Next)

-----------------------------------------------------------------------------
(* The segments, in the order they are fired. *)

\* Variant: a falling approach also begins below the range.
SidesUpOnly(p) ==
  LET c == p.center[p.scan_axis]  r == p.range[p.scan_axis]
  IN  <<Signed(c - r - Overstep), Signed(c + r)>>

\* scan_start and scan_end are unsigned; the scan reads them back as signed.
Sides(p) ==
  LET c == p.center[p.scan_axis]  r == p.range[p.scan_axis]
  IN  IF p.approach[p.scan_axis] = "d" THEN <<Signed(c + r + Overstep), Signed(c - r)>>
                                       ELSE <<Signed(c - r - Overstep), Signed(c + r)>>

\* The nested loops: x outermost, z innermost.
Points(e) ==
  [i \in 1 .. Len(e[0]) * Len(e[1]) * Len(e[2]) |->
     LET n == i - 1
     IN  [a \in Axes |->
            CASE a = 0 -> e[0][(n \div (Len(e[1]) * Len(e[2]))) + 1]
              [] a = 1 -> e[1][((n \div Len(e[2])) % Len(e[1])) + 1]
              [] a = 2 -> e[2][(n % Len(e[2])) + 1]]]

Segments(p, e) ==
  [i \in DOMAIN Points(e) |->
     [start |-> [Points(e)[i] EXCEPT ![p.scan_axis] = Sides(p)[1]],
      end   |-> [Points(e)[i] EXCEPT ![p.scan_axis] = Sides(p)[2]]]]

-----------------------------------------------------------------------------
(* Properties. *)

Done == axis = 3

TypeOK ==
  /\ plan \in Request /\ axis \in 0 .. 3 /\ coord \in Int_W
  /\ entries \in [Axes -> Seq(Int_W)]

\* A request for the inside of the range of the motors: no sum leaves a word.
Sane(p) ==
  \A a \in Axes : /\ p.center[a] - p.range[a] - Overstep \in Int_W
                  /\ p.center[a] + p.range[a] + p.step[a] + Overstep \in Int_W

\* What the request means on an axis that is not scanned along.
Grid(p, a) ==
  {x \in p.center[a] - p.range[a] .. p.center[a] + p.range[a] :
     LET d == x - (p.center[a] - p.range[a])
     IN  IF p.step[a] = 0 THEN d = 0 ELSE d % p.step[a] = 0}

Seen(s) == {s[i] : i \in DOMAIN s}

\* The segments visit every line of the grid once, and each crosses the whole
\* range of the scan axis from the side of the approach, with room to speed up.
SegmentsCoverGrid ==
  Done /\ Sane(plan) =>
    LET segs == Segments(plan, entries)  s == plan.scan_axis  others == Axes \ {s}
        lo == plan.center[s] - plan.range[s]  hi == plan.center[s] + plan.range[s]
        line(i) == [a \in others |-> segs[i].start[a]]
    IN  /\ {line(i) : i \in DOMAIN segs} = 
             {l \in [others -> UNION {Grid(plan, a) : a \in others}] :
                \A a \in others : l[a] \in Grid(plan, a)}
        /\ \A i, j \in DOMAIN segs : line(i) = line(j) => i = j
        /\ \A i \in DOMAIN segs :
             /\ \A a \in others : segs[i].start[a] = segs[i].end[a]
             /\ IF plan.approach[s] = "d" THEN segs[i].start[s] >= hi + Overstep /\ segs[i].end[s] <= lo
                                          ELSE segs[i].start[s] <= lo - Overstep /\ segs[i].end[s] >= hi

\* The coordinates of an axis come in the order of its approach: the motor
\* reaches each of them from the same side.
Sorted(p, a, s, approach) ==
  \A i, j \in DOMAIN s : i < j => IF approach = "d" THEN s[i] > s[j] ELSE s[i] < s[j]
FirstAxesInOrder ==
  Done /\ Sane(plan) =>
    \A a \in {0, 1} : a # plan.scan_axis => Sorted(plan, a, entries[a], plan.approach[a])

\* The loops end.
GridEnds == Sane(plan) ~> Done

==============================================================================

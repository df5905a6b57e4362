------------------------------ MODULE CameraGrid ------------------------------
(***************************************************************************)
(* select_camera_grid (extraction/grid.py): the targets of a rational      *)
(* frame rate, anchored at the first batch of the log, each matched with   *)
(* the nearest batch nobody used.  A period is a fraction <<num, den>> of  *)
(* time units.  Indices begin at 1, so 0 and Len + 1 are the two ends of   *)
(* the union-find structure, where the code has encoded index 0 and the    *)
(* candidate count.                                                        *)
(***************************************************************************)
EXTENDS Integers, Sequences, FiniteSets, SequencesExt

CONSTANT MaxTargets   \* MAX_GRID_TARGETS

(* _rounded_fraction: half up, no accumulation.                            *)
Rounded(num, den) ==
    IF (num % den) * 2 < den THEN num \div den ELSE num \div den + 1

Target(anchor, period, k) == anchor + Rounded(k * period[1], period[2])

Distance(a, b) == IF a < b THEN b - a ELSE a - b

(* sorted: there are i - 1 earlier batches than the i-th.                  *)
Ordered(batches) ==
    [i \in DOMAIN batches |->
        CHOOSE b \in ToSet(batches) : Cardinality({a \in ToSet(batches) : a < b}) = i - 1]

Latest(batches) == CHOOSE last \in ToSet(batches) : \A b \in ToSet(batches) : b <= last

(* The targets up to the last batch and the tolerance; the period is at    *)
(* least one unit, so counting to the distance is enough.                  *)
Targets(batches, period, tolerance) ==
    LET limit == Latest(batches) + tolerance
        anchor == batches[1]
        count == Cardinality({k \in 0 .. limit - anchor : Target(anchor, period, k) <= limit})
    IN  [k \in 1 .. count |-> Target(anchor, period, k - 1)]

(* What the function refuses.                                              *)
Refused(batches, period, tolerance) ==
    \/ Cardinality(ToSet(batches)) # Len(batches)
    \/ batches # <<>> /\ Target(batches[1], period, MaxTargets) <= Latest(batches) + tolerance

(* find_predecessor and find_successor; path compression changes no root.  *)
Root(parent, i) ==
    LET root[j \in DOMAIN parent] == IF parent[j] = j THEN j ELSE root[parent[j]]
    IN  root[i]

(* Mutant: the predecessors of a used batch still lead to it.              *)
UseOneSided(state, i) ==
    [state EXCEPT !.used = @ \cup {i}, !.successor[i] = Root(state.successor, i + 1)]

(* remove                                                                  *)
Use(state, i) ==
    [state EXCEPT !.used = @ \cup {i},
                  !.predecessor[i] = Root(state.predecessor, i - 1),
                  !.successor[i] = Root(state.successor, i + 1)]

(* One turn of the loop: the nearer of the free neighbours of the target,  *)
(* the earlier one of two that are equally near, if it is near enough.     *)
Match(ordered, tolerance, state, target) ==
    LET below == Cardinality({i \in DOMAIN ordered : ordered[i] < target})
        near  == {Root(state.predecessor, below), Root(state.successor, below + 1)}
                   \cap DOMAIN ordered
        best  == {i \in near : /\ \A j \in near : Distance(ordered[i], target)
                                                    <= Distance(ordered[j], target)
                               /\ Distance(ordered[i], target) <= tolerance}
        chosen == CHOOSE i \in best : \A j \in best : i <= j
    IN  IF best = {} THEN [state EXCEPT !.misses = Append(@, target)]
        ELSE [Use(state, chosen) EXCEPT
                !.entries = Append(@, [target |-> target, batch |-> ordered[chosen]])]

(* The loop: its state after each target.                                  *)
Turns(ordered, tolerance, targets) ==
    LET start == [predecessor |-> [i \in 0 .. Len(ordered) |-> i],
                  successor |-> [i \in 1 .. Len(ordered) + 1 |-> i],
                  used |-> {}, entries |-> <<>>, misses |-> <<>>]
        turn[k \in 0 .. Len(targets)] ==
            IF k = 0 THEN start ELSE Match(ordered, tolerance, turn[k - 1], targets[k])
    IN  turn

SelectGrid(batches, period, tolerance) ==
    LET ordered == Ordered(batches)
        targets == Targets(batches, period, tolerance)
        end == Turns(ordered, tolerance, targets)[Len(targets)]
    IN  [entries |-> end.entries, misses |-> end.misses,
         unused |-> {ordered[i] : i \in DOMAIN ordered \ end.used}]

-----------------------------------------------------------------------------
(* What the selection promises, without the structure that computes it.    *)

(* Nearest batches, ties to the earlier one, among those no earlier target *)
(* has: no earlier target's choice is a batch of this set.                 *)
IsNearest(free, target, tolerance, batch) ==
    /\ batch \in free /\ Distance(batch, target) <= tolerance
    /\ \A b \in free : \/ Distance(batch, target) < Distance(b, target)
                       \/ Distance(batch, target) = Distance(b, target) /\ batch <= b

(* A selection takes, target by target, the nearest free batch, and misses *)
(* a target only when none is near enough; what is left over is unused; no *)
(* target is further than half a unit from the exact rational grid.        *)
IsGridOf(selection, batches, period, tolerance) ==
    LET entries == ToSet(selection.entries)
        targets == {e.target : e \in entries} \cup ToSet(selection.misses)
        Free(target) == ToSet(batches) \ {e.batch : e \in {x \in entries : x.target < target}}
    IN  /\ \A e \in entries : IsNearest(Free(e.target), e.target, tolerance, e.batch)
        /\ \A target \in ToSet(selection.misses) :
             \A b \in Free(target) : Distance(b, target) > tolerance
        /\ selection.unused = ToSet(batches) \ {e.batch : e \in entries}
        /\ Len(selection.entries) + Len(selection.misses) = Cardinality(targets)
        /\ Cardinality(targets) <= MaxTargets
        /\ \A target \in batches[1] .. Latest(batches) + tolerance :
             target \in targets <=>
               \E k \in 0 .. MaxTargets :
                 2 * period[2] * (target - batches[1]) - 2 * k * period[1]
                   \in 1 - period[2] .. period[2]

==============================================================================

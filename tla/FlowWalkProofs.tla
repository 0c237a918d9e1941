--------------------------- MODULE FlowWalkProofs ---------------------------
(***************************************************************************)
(* Call flows, for any library, any graphs an operator may save, and any   *)
(* interleaving of edits with a call.  What a call needs of the library is *)
(* that nothing it was told ceases to be so: a version that is active is   *)
(* valid (LibraryInv), the version a call was pinned to stays (PinInv),    *)
(* and a walk that is under way stands on a node of a valid graph          *)
(* (WalkInv).  Then no end it can come to leaves the caller in silence.    *)
(*                                                                         *)
(* Two components that are checked beside Takeover's have their theorems   *)
(* here: the cap on what the AI costs (Spend), and the carrier's receipts  *)
(* (Receipts).                                                             *)
(***************************************************************************)
EXTENDS FlowWalk, Spend, Receipts, FiniteSetTheorems, SequenceTheorems, TLAPS

(* What the versions of flows are taken from. *)
Saved == Graphs \union UNION {{library[f] : f \in DOMAIN library} : library \in Libraries}

Walking == {"node", "dial", "agent", "transfer", "joined"}
Away == {"dial", "agent", "transfer", "joined"}     \* in the middle of a node
Misled == {"no_entry", "dangling_edge"}

ShapeInv ==
    /\ TypeOK
    /\ versions \in [Flows -> Seq(Saved)] /\ active \in [Flows -> Nat]
    /\ dialed \in Numbers
    /\ DOMAIN walk = {"graph", "node", "step", "fallback"}

(* An active version is valid, a number's flow has one, and a flow an operator is
   about to delete is still there. *)
LibraryInv ==
    /\ \A f \in Flows : active[f] # 0 => Valid(versions[f][active[f]])
    /\ \A n \in Numbers : line[n] # NoFlow => active[line[n]] # 0
    /\ plan # NoPlan => /\ plan.flow \in Flows /\ Exists(plan.flow)
                        /\ plan.outcome \in {"archived", "deleted"}

(* The version a call resolved to is there unless its flow was deleted; the one
   it was pinned to is there. *)
PinInv ==
    /\ using # Unpinned => /\ using.flow \in Flows /\ row[using.flow] # "none"
                           /\ Exists(using.flow) =>
                                  using.version \in 1..Len(versions[using.flow])
    /\ at = "pin" => using # Unpinned
    /\ pinned # Unpinned => /\ pinned.flow \in Flows
                            /\ pinned.version \in 1..Len(versions[pinned.flow])

(* The walk stands on a node of a valid graph. *)
Stands ==
    /\ Valid(walk.graph) /\ walk.node \in DOMAIN walk.graph.nodes
    /\ walk.fallback \in DOMAIN walk.graph.nodes \union {Nowhere}

WalkInv ==
    /\ at \in Walking \union {"pin"} => Stands
    /\ at \in Away => walk.step < MaxSteps
    /\ reason \notin Misled

IInv == ShapeInv /\ LibraryInv /\ PinInv /\ WalkInv /\ NoDeadAir

-----------------------------------------------------------------------------
(* Graphs *)

(* A valid graph has an entry, which is where its interpreter starts. *)
LEMMA StartsOnEntry ==
    ASSUME NEW g, Valid(g)
    PROVE  LET w == Start(g) IN
           /\ w.graph = g /\ w.step = 0
           /\ w.node \in DOMAIN g.nodes /\ w.fallback \in DOMAIN g.nodes \union {Nowhere}
           /\ DOMAIN w = {"graph", "node", "step", "fallback"}
<1>1. Cardinality(Entries(g)) = 1
    BY DEF Valid
<1>2. Entries(g) # {}
    BY <1>1, FS_EmptySet
<1>3. Start(g).node \in Entries(g)
    BY <1>2 DEF Start
<1>4. Start(g).node \in DOMAIN g.nodes
    BY <1>3 DEF Entries
<1>5. /\ Start(g).graph = g /\ Start(g).step = 0
      /\ Start(g).fallback \in DOMAIN g.nodes \union {Nowhere}
      /\ DOMAIN Start(g) = {"graph", "node", "step", "fallback"}
    BY DEF Start
<1> QED  BY <1>4, <1>5

(* An edge of a valid graph leads to a node of it. *)
LEMMA EdgesLead ==
    ASSUME Stands, NEW port \in DOMAIN Node.next
    PROVE  Node.next[port] \in DOMAIN walk.graph.nodes
<1> QED  BY DEF Stands, Node, Valid

(* A step to a node of the graph keeps the walk on it. *)
LEMMA GoesTo ==
    ASSUME ShapeInv, Stands, walk.step < MaxSteps,
           NEW n \in DOMAIN walk.graph.nodes,
           NEW left \in DOMAIN walk.graph.nodes \union {Nowhere}, GoTo(n, left)
    PROVE  /\ Stands' /\ at' = "node" /\ UNCHANGED reason
           /\ walk'.step \in 0..MaxSteps
           /\ DOMAIN walk' = {"graph", "node", "step", "fallback"}
<1>1. /\ walk' = [walk EXCEPT !.node = n, !.fallback = left, !.step = @ + 1]
      /\ at' = "node" /\ UNCHANGED reason
    BY DEF GoTo
<1>2. /\ DOMAIN walk = {"graph", "node", "step", "fallback"}
      /\ walk.step \in 0..MaxSteps /\ MaxSteps \in Nat
    BY FlowWalkAssumption DEF ShapeInv, TypeOK
<1>3. /\ walk'.graph = walk.graph /\ walk'.node = n /\ walk'.fallback = left
      /\ walk'.step = walk.step + 1 /\ DOMAIN walk' = DOMAIN walk
    BY <1>1, <1>2
<1>4. walk'.step \in 0..MaxSteps
    BY <1>2, <1>3
<1>5. Stands'
    BY <1>3 DEF Stands
<1> QED  BY <1>1, <1>2, <1>3, <1>4, <1>5

(* However a node is left, the walk goes on along the graph or hangs up, and not
   for a reason that validation rules out. *)
Leaves ==
    /\ at' \in {"node", "hang"}
    /\ at' = "node" => Stands'
    /\ reason' \notin Misled
    /\ walk'.step \in 0..MaxSteps
    /\ DOMAIN walk' = {"graph", "node", "step", "fallback"}

(* Hanging up with a reason a valid graph can give leaves the node. *)
LEMMA HangingUpLeaves ==
    ASSUME ShapeInv, NEW r, r \notin Misled, HangUpWith(r)
    PROVE  Leaves
<1> QED  BY DEF HangUpWith, Leaves, ShapeInv, TypeOK

(* So does falling back: to the fallback node, which is in the graph, or out. *)
LEMMA FallLeaves ==
    ASSUME ShapeInv, Stands, walk.step < MaxSteps, reason \notin Misled,
           NEW r, r \notin Misled, Fall(r)
    PROVE  Leaves
<1>1. CASE walk.fallback # Nowhere
    <2>1. GoTo(walk.fallback, Nowhere) /\ walk.fallback \in DOMAIN walk.graph.nodes
        BY <1>1 DEF Fall, Stands
    <2> QED  BY <2>1, GoesTo DEF Leaves
<1>2. CASE walk.fallback = Nowhere
    <2>1. HangUpWith(r)
        BY <1>2 DEF Fall
    <2> QED  BY <2>1, HangingUpLeaves
<1> QED  BY <1>1, <1>2

(* So does following a port: along its edge, which ends in the graph, or back. *)
LEMMA FollowLeaves ==
    ASSUME ShapeInv, Stands, walk.step < MaxSteps, reason \notin Misled, NEW port, Follow(port)
    PROVE  Leaves
<1>1. CASE port \in DOMAIN Node.next
    <2>1. GoTo(Node.next[port], walk.fallback)
        BY <1>1 DEF Follow
    <2>2. /\ Node.next[port] \in DOMAIN walk.graph.nodes
          /\ walk.fallback \in DOMAIN walk.graph.nodes \union {Nowhere}
        BY <1>1, EdgesLead DEF Stands
    <2> QED  BY <2>1, <2>2, GoesTo DEF Leaves
<1>2. CASE port \notin DOMAIN Node.next
    <2>1. PICK r \in {"dial_completed", "unrouted_hangup"} : Fall(r)
        BY <1>2 DEF Follow
    <2> QED  BY <2>1, FallLeaves DEF Misled
<1> QED  BY <1>1, <1>2

-----------------------------------------------------------------------------
(* The operator *)

LibraryTyped ==
    /\ row \in [Flows -> {"none", "kept", "archived", "deleted"}]
    /\ versions \in [Flows -> Seq(Saved)] /\ active \in [Flows -> Nat]
    /\ \A f \in Flows : /\ active[f] \in 0..Len(versions[f])
                        /\ ~Exists(f) => versions[f] = <<>>
    /\ line \in [Numbers -> Flows \union {NoFlow}]

(* What an edit may do to the library while a call is under way: rows that were
   created stay created or are deleted for good, versions are only added, and the
   version the call is pinned to is not removed. *)
DeskInv == LibraryTyped /\ LibraryInv

Edited ==
    /\ \A f \in Flows : row[f] # "none" => row'[f] # "none" /\ (Exists(f)' => Exists(f))
    /\ \A f \in Flows : Exists(f)' /\ Exists(f) => Len(versions'[f]) >= Len(versions[f])
    /\ \A f \in Flows : pinned.flow = f => Len(versions'[f]) >= Len(versions[f])

(* A version is saved. *)
LEMMA SaveEdits ==
    ASSUME DeskInv, NEW f \in Flows, Save(f)
    PROVE  DeskInv' /\ Edited
<1>1. PICK g \in Graphs : versions' = [versions EXCEPT ![f] = Append(@, g)]
    BY DEF Save
<1>2. UNCHANGED <<row, active, line, plan>> /\ Exists(f)
    BY DEF Save
<1>3. /\ versions[f] \in Seq(Saved) /\ g \in Saved
    BY DEF DeskInv, LibraryTyped, Saved
<1>4. /\ Append(versions[f], g) \in Seq(Saved)
      /\ Len(Append(versions[f], g)) = Len(versions[f]) + 1 /\ Len(versions[f]) \in Nat
      /\ \A i \in 1..Len(versions[f]) : Append(versions[f], g)[i] = versions[f][i]
    BY <1>3, AppendProperties, LenProperties
<1>5. /\ versions' \in [Flows -> Seq(Saved)] /\ versions'[f] = Append(versions[f], g)
      /\ \A k \in Flows \ {f} : versions'[k] = versions[k]
    BY <1>1, <1>4 DEF DeskInv, LibraryTyped
<1>6. LibraryTyped'
    BY <1>2, <1>4, <1>5 DEF DeskInv, LibraryTyped, Exists
<1>7. ASSUME NEW k \in Flows, active[k] # 0
      PROVE  versions'[k][active[k]] = versions[k][active[k]]
    <2>1. active[k] \in 0..Len(versions[k]) /\ active[k] \in Nat
        BY DEF DeskInv, LibraryTyped
    <2>2. CASE k = f
        <3>1. active[f] \in 1..Len(versions[f])
            BY <1>4, <1>7, <2>1, <2>2
        <3> QED  BY <1>4, <1>5, <2>2, <3>1
    <2> QED  BY <1>5, <2>2
<1>8. LibraryInv'
    BY <1>2, <1>7 DEF DeskInv, LibraryInv, Exists
<1>9. ASSUME NEW k \in Flows
      PROVE  Len(versions'[k]) >= Len(versions[k])
    <2>1. Len(versions[k]) \in Nat
        BY LenProperties DEF DeskInv, LibraryTyped
    <2>2. CASE k = f
        BY <1>4, <1>5, <2>2
    <2>3. CASE k # f
        BY <1>5, <2>1, <2>3
    <2> QED  BY <2>2, <2>3
<1>10. Edited
    BY <1>2, <1>9 DEF Edited, Exists
<1> QED  BY <1>6, <1>8, <1>10 DEF DeskInv

(* Versions that stay are as many. *)
LEMMA LengthsKept ==
    ASSUME LibraryTyped, versions' = versions
    PROVE  \A f \in Flows : Len(versions'[f]) >= Len(versions[f])
<1> QED  BY LenProperties DEF LibraryTyped

(* A version is activated, if it is valid. *)
LEMMA ActivateEdits ==
    ASSUME DeskInv, NEW f \in Flows, Activate(f)
    PROVE  DeskInv' /\ Edited
<1>1. PICK v \in DOMAIN versions[f] :
          Valid(versions[f][v]) /\ active' = [active EXCEPT ![f] = v]
    BY DEF Activate
<1>2. UNCHANGED <<row, versions, line, plan>> /\ Exists(f)
    BY DEF Activate
<1>3. v \in 1..Len(versions[f]) /\ Len(versions[f]) \in Nat
    BY LenProperties DEF DeskInv, LibraryTyped
<1>4. /\ active' \in [Flows -> Nat] /\ active'[f] = v
      /\ \A k \in Flows \ {f} : active'[k] = active[k]
    BY <1>1, <1>3 DEF DeskInv, LibraryTyped
<1>5. LibraryTyped'
    <2>1. ASSUME NEW k \in Flows
          PROVE  active'[k] \in 0..Len(versions[k])
        <3>1. CASE k = f
            BY <1>3, <1>4, <3>1
        <3>2. CASE k # f
            BY <1>4, <3>2 DEF DeskInv, LibraryTyped
        <3> QED  BY <3>1, <3>2
    <2> QED  BY <1>2, <1>4, <2>1 DEF DeskInv, LibraryTyped, Exists
<1>6. ASSUME NEW k \in Flows, active'[k] # 0
      PROVE  Valid(versions'[k][active'[k]])
    BY <1>1, <1>2, <1>4, <1>6 DEF DeskInv, LibraryInv
<1>7. ASSUME NEW n \in Numbers, line'[n] # NoFlow
      PROVE  active'[line'[n]] # 0
    BY <1>2, <1>3, <1>4, <1>7 DEF DeskInv, LibraryInv, LibraryTyped
<1>8. LibraryInv'
    BY <1>2, <1>6, <1>7 DEF DeskInv, LibraryInv, Exists
<1>9. Edited
    BY <1>2, LengthsKept DEF Edited, Exists, DeskInv
<1> QED  BY <1>5, <1>8, <1>9 DEF DeskInv

(* A clone is a draft of its own. *)
LEMMA CloneEdits ==
    ASSUME DeskInv, NEW f \in Flows, NEW copy \in Flows, Clone(f, copy)
    PROVE  DeskInv' /\ Edited
<1> DEFINE source == versions[f][IF active[f] # 0 THEN active[f] ELSE Len(versions[f])]
<1>1. /\ row[copy] = "none" /\ versions[f] # <<>>
      /\ row' = [row EXCEPT ![copy] = "kept"]
      /\ versions' = [versions EXCEPT ![copy] = <<source>>]
      /\ UNCHANGED <<active, line, plan>>
    BY DEF Clone
<1>2. /\ versions[f] \in Seq(Saved) /\ active[f] \in 0..Len(versions[f])
      /\ versions[copy] = <<>> /\ active[copy] = 0
    <2>1. versions[f] \in Seq(Saved) /\ active[f] \in 0..Len(versions[f])
        BY DEF DeskInv, LibraryTyped
    <2>2. ~Exists(copy)
        BY <1>1 DEF Exists
    <2>3. versions[copy] = <<>>
        BY <2>2 DEF DeskInv, LibraryTyped
    <2>4. active[copy] \in 0..0
        BY <2>3 DEF DeskInv, LibraryTyped
    <2> QED  BY <2>1, <2>3, <2>4
<1>3. source \in Saved
    <2>1. Len(versions[f]) \in Nat /\ Len(versions[f]) # 0
        BY <1>1, <1>2, EmptySeq, LenProperties
    <2>2. (IF active[f] # 0 THEN active[f] ELSE Len(versions[f])) \in 1..Len(versions[f])
        BY <1>2, <2>1
    <2> QED  BY <1>2, <2>2, ElementOfSeq
<1>4. <<source>> \in Seq(Saved) /\ Len(<<source>>) = 1
    BY <1>3
<1>5. /\ versions' \in [Flows -> Seq(Saved)] /\ versions'[copy] = <<source>>
      /\ \A k \in Flows \ {copy} : versions'[k] = versions[k] /\ row'[k] = row[k]
      /\ row' \in [Flows -> {"none", "kept", "archived", "deleted"}] /\ row'[copy] = "kept"
    BY <1>1, <1>4 DEF DeskInv, LibraryTyped
<1>6. LibraryTyped'
    BY <1>1, <1>2, <1>4, <1>5 DEF DeskInv, LibraryTyped, Exists
<1>7. LibraryInv'
    BY <1>1, <1>2, <1>5 DEF DeskInv, LibraryInv, Exists
<1>8. ASSUME NEW k \in Flows
      PROVE  Len(versions'[k]) >= Len(versions[k])
    <2>1. Len(versions[k]) \in Nat
        BY LenProperties DEF DeskInv, LibraryTyped
    <2>2. CASE k = copy
        BY <1>2, <1>4, <1>5, <2>2, EmptySeq
    <2>3. CASE k # copy
        BY <1>5, <2>1, <2>3
    <2> QED  BY <2>2, <2>3
<1>9. Edited
    BY <1>1, <1>5, <1>8 DEF Edited, Exists
<1> QED  BY <1>6, <1>7, <1>9 DEF DeskInv

(* A number gets or loses its flow. *)
LEMMA AssignEdits ==
    ASSUME DeskInv, NEW n \in Numbers, \/ \E f \in Flows : Assign(n, f)
                                       \/ Unassign(n)
    PROVE  DeskInv' /\ Edited
<1>1. PICK f \in Flows \union {NoFlow} :
          line' = [line EXCEPT ![n] = f] /\ (f # NoFlow => active[f] # 0)
    BY DEF Assign, Unassign
<1>2. UNCHANGED <<row, versions, active, plan>>
    BY DEF Assign, Unassign
<1>3. /\ line' \in [Numbers -> Flows \union {NoFlow}]
      /\ \A k \in Numbers : line'[k] = IF k = n THEN f ELSE line[k]
    BY <1>1 DEF DeskInv, LibraryTyped
<1>4. LibraryTyped'
    BY <1>2, <1>3 DEF DeskInv, LibraryTyped, Exists
<1>5. LibraryInv'
    BY <1>1, <1>2, <1>3 DEF DeskInv, LibraryInv, Exists
<1>6. Edited
    BY <1>2, LengthsKept DEF Edited, Exists, DeskInv
<1> QED  BY <1>4, <1>5, <1>6 DEF DeskInv

(* A flow is looked at before it is deleted. *)
LEMMA PlanEdits ==
    ASSUME DeskInv, NEW f \in Flows, PlanDelete(f)
    PROVE  DeskInv' /\ Edited
<1>1. /\ Exists(f) /\ UNCHANGED <<row, versions, active, line>>
      /\ plan'.flow = f /\ plan'.outcome \in {"archived", "deleted"}
    BY DEF PlanDelete, libraryVars
<1>2. LibraryTyped'
    BY <1>1 DEF DeskInv, LibraryTyped, Exists
<1>3. LibraryInv'
    BY <1>1 DEF DeskInv, LibraryInv, Exists
<1>4. Edited
    BY <1>1, LengthsKept DEF Edited, Exists, DeskInv
<1> QED  BY <1>2, <1>3, <1>4 DEF DeskInv

(* It is archived, or deleted unless a number or a call holds on to it. *)
LEMMA DeleteEdits ==
    ASSUME DeskInv, Delete
    PROVE  DeskInv' /\ Edited
<1> DEFINE f == plan.flow
<1>1. /\ plan # NoPlan /\ plan' = NoPlan /\ f \in Flows /\ Exists(f) /\ UNCHANGED line
    BY DEF Delete, DeskInv, LibraryInv
<1>2. CASE row' = [row EXCEPT ![f] = "archived"] /\ UNCHANGED <<versions, active>>
    <2>1. /\ row' \in [Flows -> {"none", "kept", "archived", "deleted"}]
          /\ \A k \in Flows : row'[k] = IF k = f THEN "archived" ELSE row[k]
        BY <1>1, <1>2 DEF DeskInv, LibraryTyped
    <2>2. LibraryTyped'
        BY <1>1, <1>2, <2>1 DEF DeskInv, LibraryTyped, Exists
    <2>3. LibraryInv'
        BY <1>1, <1>2 DEF DeskInv, LibraryInv
    <2>4. Edited
        BY <1>1, <1>2, <2>1, LengthsKept DEF Edited, Exists, DeskInv
    <2> QED  BY <2>2, <2>3, <2>4 DEF DeskInv
<1>3. CASE /\ ~Referenced(f) /\ row' = [row EXCEPT ![f] = "deleted"]
           /\ versions' = [versions EXCEPT ![f] = <<>>] /\ active' = [active EXCEPT ![f] = 0]
    <2>1. /\ row' \in [Flows -> {"none", "kept", "archived", "deleted"}]
          /\ versions' \in [Flows -> Seq(Saved)] /\ active' \in [Flows -> Nat]
          /\ \A k \in Flows : /\ row'[k] = IF k = f THEN "deleted" ELSE row[k]
                              /\ versions'[k] = IF k = f THEN <<>> ELSE versions[k]
                              /\ active'[k] = IF k = f THEN 0 ELSE active[k]
        BY <1>1, <1>3 DEF DeskInv, LibraryTyped
    <2>2. /\ \A n \in Numbers : line[n] # f
          /\ pinned.flow # f
        BY <1>3 DEF Referenced, Assigned, Attributed
    <2>3. LibraryTyped'
        BY <1>1, <2>1 DEF DeskInv, LibraryTyped, Exists
    <2>4. ASSUME NEW n \in Numbers, line'[n] # NoFlow
          PROVE  active'[line'[n]] # 0
        BY <1>1, <2>1, <2>2, <2>4 DEF DeskInv, LibraryInv, LibraryTyped
    <2>5. LibraryInv'
        BY <1>1, <2>1, <2>4 DEF DeskInv, LibraryInv
    <2>6. ASSUME NEW k \in Flows, k # f
          PROVE  Len(versions'[k]) >= Len(versions[k])
        BY <2>1, <2>6, LenProperties DEF DeskInv, LibraryTyped
    <2>7. Edited
        BY <1>1, <2>1, <2>2, <2>6 DEF Edited, Exists
    <2> QED  BY <2>3, <2>5, <2>7 DEF DeskInv
<1>4. CASE UNCHANGED <<row, versions, active>>
    <2>1. LibraryTyped' /\ LibraryInv'
        BY <1>1, <1>4 DEF DeskInv, LibraryTyped, LibraryInv, Exists
    <2>2. Edited
        BY <1>4, LengthsKept DEF Edited, Exists, DeskInv
    <2> QED  BY <2>1, <2>2 DEF DeskInv
<1> QED  BY <1>2, <1>3, <1>4 DEF Delete

(* A flow is taken out of the archive. *)
LEMMA UnarchiveEdits ==
    ASSUME DeskInv, NEW f \in Flows, Unarchive(f)
    PROVE  DeskInv' /\ Edited
<1>1. /\ row[f] = "archived" /\ row' = [row EXCEPT ![f] = "kept"]
      /\ UNCHANGED <<versions, active, line, plan>>
    BY DEF Unarchive
<1>2. /\ row' \in [Flows -> {"none", "kept", "archived", "deleted"}]
      /\ \A k \in Flows : row'[k] = IF k = f THEN "kept" ELSE row[k]
    BY <1>1 DEF DeskInv, LibraryTyped
<1>3. LibraryTyped' /\ LibraryInv'
    BY <1>1, <1>2 DEF DeskInv, LibraryTyped, LibraryInv, Exists
<1>4. Edited
    BY <1>1, <1>2, LengthsKept DEF Edited, Exists, DeskInv
<1> QED  BY <1>3, <1>4 DEF DeskInv

(* The edits together. *)
LEMMA OperatorEdits ==
    ASSUME DeskInv, Operator
    PROVE  DeskInv' /\ Edited /\ UNCHANGED <<callVars, net, faults>>
<1>1. DeskInv' /\ Edited
    BY SaveEdits, ActivateEdits, PlanEdits, UnarchiveEdits, CloneEdits, AssignEdits, DeleteEdits
       DEF Operator
<1>2. UNCHANGED <<callVars, net, faults>>
    BY DEF Operator, Save, Activate, PlanDelete, Unarchive, Clone, Assign, Unassign, Delete, Edit
<1> QED  BY <1>1, <1>2

-----------------------------------------------------------------------------
(* The call *)

(* Resolving a number gives an active version. *)
LEMMA ResolvesValid ==
    ASSUME ShapeInv, LibraryInv, NEW n \in Numbers, Runnable(n)
    PROVE  /\ line[n] \in Flows /\ Valid(Resolved(n))
           /\ Exists(line[n]) /\ active[line[n]] \in 1..Len(versions[line[n]])
<1>1. line[n] \in Flows /\ active[line[n]] # 0
    BY DEF Runnable, ShapeInv, TypeOK
<1>2. /\ active[line[n]] \in 0..Len(versions[line[n]]) /\ Len(versions[line[n]]) \in Nat
      /\ ~Exists(line[n]) => versions[line[n]] = <<>>
    BY <1>1, LenProperties DEF ShapeInv, TypeOK
<1>3. active[line[n]] \in 1..Len(versions[line[n]])
    BY <1>1, <1>2
<1>4. Exists(line[n])
    BY <1>2, <1>3, EmptySeq
<1>5. Valid(Resolved(n))
    BY <1>1 DEF LibraryInv, Resolved
<1> QED  BY <1>1, <1>3, <1>4, <1>5

CallTyped ==
    /\ at \in {"idle", "pin", "node", "dial", "hang", "agent", "transfer", "joined", "net",
               "netted", "done"}
    /\ caller \in {"ringing", "waiting", "talking", "human", "elsewhere", "gone"}
    /\ walk.step \in 0..MaxSteps
    /\ dialed \in Numbers
    /\ DOMAIN walk = {"graph", "node", "step", "fallback"}

CallInv == CallTyped /\ PinInv /\ WalkInv /\ NoDeadAir

(* The invariant is that of the desk and that of the call. *)
LEMMA IInvParts == IInv <=> DeskInv /\ CallInv
<1> QED  BY DEF IInv, DeskInv, CallInv, ShapeInv, TypeOK, LibraryTyped, CallTyped

(* An edit leaves the call what it knows. *)
LEMMA EditsKeepCall ==
    ASSUME DeskInv, CallInv, Operator
    PROVE  CallInv'
<1>1. DeskInv' /\ Edited /\ UNCHANGED <<callVars, net, faults>>
    BY OperatorEdits
<1>2. UNCHANGED <<at, caller, dialed, using, pinned, walk, nested, reason, lost>>
    BY <1>1 DEF callVars, walkVars
<1>3. CallTyped' /\ WalkInv' /\ NoDeadAir'
    BY <1>2 DEF CallInv, CallTyped, WalkInv, Stands, NoDeadAir, FailedTerminal, Node
<1>4. \A f \in Flows : Len(versions[f]) \in Nat /\ Len(versions'[f]) \in Nat
    BY <1>1, LenProperties DEF DeskInv, LibraryTyped
<1>5. ASSUME using # Unpinned, Exists(using.flow)'
      PROVE  using.version \in 1..Len(versions'[using.flow])
    <2>1. using.flow \in Flows /\ Exists(using.flow)
        BY <1>1, <1>2, <1>5 DEF CallInv, PinInv, Edited, Exists
    <2> QED  BY <1>1, <1>2, <1>4, <1>5, <2>1 DEF CallInv, PinInv, Edited
<1>6. ASSUME pinned # Unpinned
      PROVE  pinned.version \in 1..Len(versions'[pinned.flow])
    BY <1>1, <1>4, <1>6 DEF CallInv, PinInv, Edited
<1>7. PinInv'
    BY <1>1, <1>2, <1>5, <1>6 DEF CallInv, PinInv, Edited, Exists
<1> QED  BY <1>3, <1>7 DEF CallInv

(* What a step of a call that reads neither the library nor the pin leaves alone. *)
Apart == UNCHANGED <<row, versions, active, line, plan, dialed, using, pinned>>

(* A quiet step leaves the library and the pin alone. *)
LEMMA QuietIsApart == Quiet => Apart
<1> QED  BY DEF Quiet, Apart, deskVars, libraryVars

(* The pin is as good as it was. *)
LEMMA PinsKept ==
    ASSUME PinInv, Apart, at' = at \/ at' # "pin"
    PROVE  PinInv'
<1> QED  BY DEF PinInv, Apart, Exists

(* A node is left. *)
LEMMA LeavingKeeps ==
    ASSUME CallInv, Leaves, Apart,
           caller' \in {"ringing", "waiting", "talking", "human", "elsewhere", "gone"}
    PROVE  CallInv'
<1>1. at' \in {"node", "hang"}
    BY DEF Leaves
<1>2. CallTyped'
    BY <1>1 DEF CallInv, CallTyped, Leaves, Apart
<1>3. PinInv'
    BY <1>1, PinsKept DEF CallInv
<1>4. WalkInv'
    BY <1>1 DEF WalkInv, Leaves, Walking, Away
<1>5. NoDeadAir'
    BY <1>1 DEF NoDeadAir
<1> QED  BY <1>2, <1>3, <1>4, <1>5 DEF CallInv

(* The call waits for somebody, in the middle of a node. *)
LEMMA WaitingKeeps ==
    ASSUME CallInv, Apart, UNCHANGED <<walk, reason>>,
           at \in Walking, walk.step < MaxSteps, at' \in Away,
           caller' \in {"ringing", "waiting", "talking", "human", "elsewhere", "gone"}
    PROVE  CallInv'
<1>1. CallTyped' /\ WalkInv' /\ NoDeadAir'
    BY DEF CallInv, CallTyped, WalkInv, Stands, NoDeadAir, Away, Walking, Apart
<1>2. PinInv'
    BY PinsKept DEF CallInv, Away
<1> QED  BY <1>1, <1>2 DEF CallInv

(* The platform is done with the call, or the safety net has it. *)
LEMMA EndingKeeps ==
    ASSUME CallInv, Apart, UNCHANGED walk, at' \in {"net", "netted", "done"},
           reason' \notin Misled, NoDeadAir',
           caller' \in {"ringing", "waiting", "talking", "human", "elsewhere", "gone"}
    PROVE  CallInv'
<1>1. CallTyped' /\ WalkInv'
    BY DEF CallInv, CallTyped, WalkInv, Away, Walking, Apart
<1>2. PinInv'
    BY PinsKept DEF CallInv
<1> QED  BY <1>1, <1>2 DEF CallInv

(* A released caller is with a human, gone, or on a line the release lost. *)
LEMMA ReleaseFrees ==
    ASSUME CallTyped, Release
    PROVE  /\ caller' \in {"gone", "human"} \/ lost'
           /\ caller' \in {"ringing", "waiting", "talking", "human", "elsewhere", "gone"}
<1> QED  BY DEF Release, CallTyped

(* An end never says that the graph was wrong. *)
LEMMA EndReason ==
    ASSUME WalkInv, NEW r, r \notin Misled, End(r)
    PROVE  at' = "done" /\ reason' \notin Misled /\ UNCHANGED walk
<1> QED  BY DEF End, Misled

(* A node that is under way. *)
LEMMA OnNode ==
    ASSUME CallInv, at \in Away \/ (at = "node" /\ walk.step < MaxSteps)
    PROVE  Stands /\ walk.step < MaxSteps /\ reason \notin Misled /\ at \in Walking
<1> QED  BY DEF CallInv, WalkInv, Away, Walking

(* A node is done only within the limit of steps. *)
LEMMA OnIsOnNode == ASSUME NEW type, On(type) PROVE at = "node" /\ walk.step < MaxSteps
<1> QED  BY DEF On

-----------------------------------------------------------------------------
(* The steps of the call, one by one *)

(* The call resolves its number: it stands on the entry of an active version. *)
LEMMA ResolveKeeps ==
    ASSUME IInv, Resolve
    PROVE  CallInv'
<1>1. /\ DeskInv /\ CallInv /\ dialed \in Numbers
      /\ UNCHANGED <<row, versions, active, line, plan, dialed, pinned, reason>>
    BY IInvParts DEF Resolve, deskVars, libraryVars, CallInv, CallTyped
<1>2. CASE /\ Runnable(dialed) /\ walk' = Start(Resolved(dialed)) /\ at' = "pin"
           /\ using' = [flow |-> line[dialed], version |-> active[line[dialed]]]
           /\ UNCHANGED caller
    <2>1. /\ line[dialed] \in Flows /\ Valid(Resolved(dialed))
          /\ Exists(line[dialed]) /\ active[line[dialed]] \in 1..Len(versions[line[dialed]])
        BY <1>1, <1>2, ResolvesValid DEF IInv
    <2>2. /\ Stands' /\ walk'.step = 0
          /\ DOMAIN walk' = {"graph", "node", "step", "fallback"}
        BY <1>2, <2>1, StartsOnEntry DEF Stands
    <2>3. 0 \in 0..MaxSteps
        BY FlowWalkAssumption
    <2>4. CallTyped'
        BY <1>1, <1>2, <2>2, <2>3 DEF CallInv, CallTyped
    <2>5. line[dialed] # NoFlow
        BY <1>2 DEF Runnable
    <2>6. PinInv'
        BY <1>1, <1>2, <2>1, <2>5 DEF CallInv, PinInv, Unpinned, Exists
    <2>7. WalkInv' /\ NoDeadAir'
        BY <1>1, <1>2, <2>2 DEF CallInv, WalkInv, NoDeadAir, Away
    <2> QED  BY <2>4, <2>6, <2>7 DEF CallInv
<1>3. CASE at' = "done" /\ caller' = "elsewhere" /\ UNCHANGED <<walk, using>>
    <2>1. Apart /\ NoDeadAir' /\ reason' \notin Misled
        BY <1>1, <1>3 DEF Apart, NoDeadAir, CallInv, WalkInv
    <2> QED  BY <1>1, <1>3, <2>1, EndingKeeps
<1>4. CASE at' = "net" /\ UNCHANGED <<caller, walk, using>>
    <2>1. Apart /\ NoDeadAir' /\ reason' \notin Misled
        BY <1>1, <1>4 DEF Apart, NoDeadAir, CallInv, WalkInv
    <2> QED  BY <1>1, <1>4, <2>1, EndingKeeps DEF CallInv, CallTyped
<1> QED  BY <1>2, <1>3, <1>4 DEF Resolve

(* It pins the version, if the flow is still there and the write works. *)
LEMMA PinKeeps ==
    ASSUME IInv, Pin
    PROVE  CallInv'
<1>1. /\ DeskInv /\ CallInv /\ at = "pin" /\ at' = "node"
      /\ pinned' \in {using, pinned} /\ (pinned' = using /\ using # pinned => Exists(using.flow))
      /\ UNCHANGED <<row, versions, active, line, plan, dialed, using, caller, walk, reason>>
    BY IInvParts DEF Pin, deskVars, libraryVars, walkVars
<1>2. CallTyped' /\ WalkInv' /\ NoDeadAir'
    BY <1>1 DEF CallInv, CallTyped, WalkInv, Stands, NoDeadAir, Away, Walking
<1>3. PinInv'
    BY <1>1 DEF CallInv, PinInv, Exists
<1> QED  BY <1>2, <1>3 DEF CallInv

(* A node that is left by one of its ports. *)
LEMMA FollowKeeps ==
    ASSUME IInv, at \in Away \/ (at = "node" /\ walk.step < MaxSteps), NEW port, Follow(port),
           Quiet,
           caller' \in {"ringing", "waiting", "talking", "human", "elsewhere", "gone"}
    PROVE  CallInv'
<1>1. CallInv /\ ShapeInv
    BY IInvParts DEF IInv
<1>2. Leaves
    BY <1>1, OnNode, FollowLeaves
<1> QED  BY <1>1, <1>2, QuietIsApart, LeavingKeeps

(* A node that only chooses a port. *)
LEMMA PassesKeeps ==
    ASSUME IInv, NEW type, Passes(type),
           caller' \in {"ringing", "waiting", "talking", "human", "elsewhere", "gone"}
    PROVE  CallInv'
<1>1. PICK port \in Allowed(type) : Follow(port)
    BY DEF Passes
<1>2. at = "node" /\ walk.step < MaxSteps /\ Quiet
    BY OnIsOnNode DEF Passes
<1> QED  BY <1>1, <1>2, FollowKeeps

(* A step of the interpreter, whatever the node under it. *)
LEMMA InterpreterKeeps ==
    ASSUME IInv, Interpreter
    PROVE  CallInv'
<1>1. CallInv /\ CallTyped /\ ShapeInv /\ WalkInv
    BY IInvParts DEF IInv, CallInv
<1> DEFINE Known(c) == c \in {"ringing", "waiting", "talking", "human", "elsewhere", "gone"}
<1>2. Known(caller)
    BY <1>1 DEF CallTyped
<1>3. CASE Stray
    <2>1. /\ at = "node" /\ Stands /\ Quiet /\ UNCHANGED caller
          /\ walk.node \in DOMAIN walk.graph.nodes
        BY <1>1, <1>3 DEF Stray, WalkInv, Walking, Stands
    <2>2. HangUpWith("max_steps")
        BY <1>3, <2>1 DEF Stray
    <2>3. Leaves
        BY <1>1, <2>2, HangingUpLeaves DEF Misled
    <2> QED  BY <1>1, <1>2, <2>1, <2>3, QuietIsApart, LeavingKeeps
<1>4. CASE Crashes
    <2>1. /\ Quiet /\ at' = "net" /\ reason' = "error" /\ UNCHANGED <<caller, walk>>
        BY <1>4 DEF Crashes, walkVars
    <2>2. NoDeadAir' /\ reason' \notin Misled
        BY <2>1 DEF NoDeadAir, Misled
    <2> QED  BY <1>1, <1>2, <2>1, <2>2, QuietIsApart, EndingKeeps
<1>5. CASE Steps
    <2>1. Known(caller')
        BY <1>2, <1>5 DEF Steps, Answers, Plays, Sets, Texts, Opens, Matches, Requests
    <2>2. PICK type \in {"entry", "play", "set_vars", "send_sms", "hours", "conditions",
                         "request"} : Passes(type)
        BY <1>5 DEF Steps, Answers, Plays, Sets, Texts, Opens, Matches, Requests
    <2> QED  BY <2>1, <2>2, PassesKeeps
<1>6. CASE Asks
    <2>1. at = "node" /\ walk.step < MaxSteps /\ Quiet /\ UNCHANGED caller
        BY <1>6, OnIsOnNode DEF Asks
    <2>2. PICK d \in Pressed : Follow(MenuPort(d))
        BY <1>6 DEF Asks
    <2> QED  BY <1>2, <2>1, <2>2, FollowKeeps
<1>7. CASE Unusable
    <2>1. /\ at = "node" /\ walk.step < MaxSteps /\ Follow("error") /\ Quiet
          /\ UNCHANGED caller
        BY <1>7, OnIsOnNode DEF Unusable
    <2> QED  BY <1>2, <2>1, FollowKeeps
<1>8. CASE Dials
    <2>1. at = "node" /\ walk.step < MaxSteps /\ Quiet
        BY <1>8, OnIsOnNode DEF Dials
    <2>2. CASE caller' = "talking" /\ at' = "dial" /\ UNCHANGED <<walkVars, reason>>
        BY <1>1, <2>1, <2>2, QuietIsApart, WaitingKeeps DEF walkVars, Away, Walking
    <2>3. CASE /\ \E port \in {"noanswer", "busy", "failed"} : Follow(port)
               /\ UNCHANGED caller
        BY <1>2, <2>1, <2>3, FollowKeeps
    <2> QED  BY <1>8, <2>2, <2>3 DEF Dials
<1>9. CASE Terminates
    <2>1. Quiet /\ End("terminal")
        BY <1>9 DEF Terminates
    <2>2. /\ at' = "done" /\ reason' \notin Misled /\ UNCHANGED walk
          /\ reason' \in {"terminal", "transferred"}
        BY <1>1, <2>1 DEF End, Misled
    <2>3. Node.type \in Terminal
        BY <1>9 DEF Terminates, On
    <2>4. CASE Node.bad /\ UNCHANGED caller
        <3>1. FailedTerminal'
            BY <2>2, <2>3, <2>4 DEF FailedTerminal, Node
        <3>2. NoDeadAir'
            BY <3>1 DEF NoDeadAir
        <3> QED  BY <1>1, <1>2, <2>1, <2>2, <2>4, <3>2, QuietIsApart, EndingKeeps
    <2>5. CASE Release
        <3>1. NoDeadAir' /\ Known(caller')
            BY <1>1, <2>5, ReleaseFrees DEF NoDeadAir
        <3> QED  BY <1>1, <2>1, <2>2, <3>1, QuietIsApart, EndingKeeps
    <2> QED  BY <1>9, <2>4, <2>5 DEF Terminates
<1>10. CASE HangsUp
    <2>1. Quiet /\ Release /\ End(reason)
        BY <1>10 DEF HangsUp
    <2>2. at' = "done" /\ reason' \notin Misled /\ UNCHANGED walk
        BY <1>1, <2>1, EndReason DEF WalkInv
    <2>3. NoDeadAir' /\ Known(caller')
        BY <1>1, <2>1, ReleaseFrees DEF NoDeadAir
    <2> QED  BY <1>1, <2>1, <2>2, <2>3, QuietIsApart, EndingKeeps
<1> QED  BY <1>3, <1>4, <1>5, <1>6, <1>7, <1>8, <1>9, <1>10 DEF Interpreter

(* Nobody took the caller the agent wanted to transfer. *)
LEMMA NotTakenKeeps ==
    ASSUME IInv, at \in {"transfer", "joined"}, NotTaken, Quiet,
           caller' \in {"ringing", "waiting", "talking", "human", "elsewhere", "gone"}
    PROVE  CallInv'
<1>1. CallInv /\ at \in Away
    BY IInvParts DEF Away
<1>2. CASE Follow("transfer")
    BY <1>1, <1>2, FollowKeeps
<1>3. CASE at' \in {"transfer", "agent"} /\ UNCHANGED <<walk, reason>>
    <2>1. at' \in Away
        BY <1>3 DEF Away
    <2> QED  BY <1>1, <1>3, <2>1, OnNode, QuietIsApart, WaitingKeeps
<1> QED  BY <1>2, <1>3 DEF NotTaken

(* The agent: it greets, ends, asks for a transfer, rings the human, hands the caller back. *)
LEMMA AgentKeeps ==
    ASSUME IInv, Agent
    PROVE  CallInv'
<1>1. CallInv /\ CallTyped /\ ShapeInv /\ WalkInv
    BY IInvParts DEF IInv, CallInv
<1> DEFINE Known(c) == c \in {"ringing", "waiting", "talking", "human", "elsewhere", "gone"}
<1>2. Known(caller)
    BY <1>1 DEF CallTyped
<1>3. CASE Greets
    <2>1. at = "node" /\ walk.step < MaxSteps /\ Quiet /\ UNCHANGED caller
        BY <1>3, OnIsOnNode DEF Greets
    <2>2. CASE Follow("default") \/ Follow("failed")
        BY <1>2, <2>1, <2>2, FollowKeeps
    <2>3. CASE at' = "agent" /\ UNCHANGED <<walk, reason>>
        <3>1. at' \in Away /\ at \in Walking
            BY <2>1, <2>3 DEF Away, Walking
        <3> QED  BY <1>1, <1>2, <2>1, <2>3, <3>1, QuietIsApart, WaitingKeeps
    <2> QED  BY <1>3, <2>2, <2>3 DEF Greets
<1>4. CASE SessionEnds
    <2>1. at \in Away /\ Quiet
        BY <1>4 DEF SessionEnds, Away
    <2>2. CASE (\E port \in Allowed("ai_agent") : Follow(port)) /\ UNCHANGED caller
        BY <1>2, <2>1, <2>2, FollowKeeps
    <2>3. CASE caller' = "human" /\ End("taken_over")
        <3>1. at' = "done" /\ reason' \notin Misled /\ UNCHANGED walk
            BY <1>1, <2>3, EndReason DEF Misled
        <3>2. NoDeadAir'
            BY <2>3 DEF NoDeadAir
        <3> QED  BY <1>1, <2>1, <2>3, <3>1, <3>2, QuietIsApart, EndingKeeps
    <2> QED  BY <1>4, <2>2, <2>3 DEF SessionEnds
<1>5. CASE AskTransfer
    <2>1. /\ at \in Away /\ at' \in Away /\ Quiet /\ UNCHANGED <<caller, walk, reason>>
        BY <1>5 DEF AskTransfer, Away
    <2> QED  BY <1>1, <1>2, <2>1, OnNode, QuietIsApart, WaitingKeeps
<1>6. CASE Rings
    <2>1. at = "transfer" /\ at \in Away /\ Quiet
        BY <1>6 DEF Rings, Away
    <2>2. CASE caller' = "talking" /\ at' = "joined" /\ UNCHANGED <<walkVars, reason>>
        <3>1. at' \in Away /\ UNCHANGED <<walk, reason>>
            BY <2>2 DEF Away, walkVars
        <3> QED  BY <1>1, <2>1, <2>2, <3>1, OnNode, QuietIsApart, WaitingKeeps
    <2>3. CASE NotTaken /\ UNCHANGED caller
        BY <1>2, <2>1, <2>3, NotTakenKeeps
    <2> QED  BY <1>6, <2>2, <2>3 DEF Rings
<1>7. CASE IntoFlow
    <2>1. at = "transfer" /\ Quiet /\ UNCHANGED caller
        BY <1>7 DEF IntoFlow
    <2>2. CASE /\ Runnable(TransferTo) /\ walk' = Start(Resolved(TransferTo))
               /\ at' = "node" /\ UNCHANGED reason
        <3>1. Valid(Resolved(TransferTo))
            BY <2>2, ResolvesValid, FlowWalkAssumption DEF IInv
        <3>2. /\ Stands' /\ walk'.step = 0
              /\ DOMAIN walk' = {"graph", "node", "step", "fallback"}
            BY <2>2, <3>1, StartsOnEntry DEF Stands
        <3>3. walk'.step \in 0..MaxSteps
            BY <3>2, FlowWalkAssumption
        <3>4. Leaves
            BY <1>1, <2>2, <3>2, <3>3 DEF Leaves, WalkInv
        <3> QED  BY <1>1, <1>2, <2>1, <3>4, QuietIsApart, LeavingKeeps
    <2>3. CASE NotTaken
        BY <1>2, <2>1, <2>3, NotTakenKeeps
    <2> QED  BY <1>7, <2>2, <2>3 DEF IntoFlow
<1> QED  BY <1>3, <1>4, <1>5, <1>6, <1>7 DEF Agent

(* Whoever puts the phone down at the end of a talk leaves nobody in silence. *)
LEMMA HangsKeeps ==
    ASSUME IInv, Hangs
    PROVE  CallInv'
<1>1. CallInv /\ CallTyped /\ WalkInv
    BY IInvParts DEF IInv, CallInv
<1> DEFINE Known(c) == c \in {"ringing", "waiting", "talking", "human", "elsewhere", "gone"}
<1>2. CASE DialEnds
    <2>1. at \in Away /\ Quiet /\ Follow("answered") /\ Known(caller')
        BY <1>1, <1>2 DEF DialEnds, Away, CallTyped
    <2> QED  BY <2>1, FollowKeeps
<1>3. CASE JoinedEnds
    <2>1. at = "joined" /\ Quiet
        BY <1>3 DEF JoinedEnds
    <2>2. CASE Release /\ End("transferred")
        <3>1. at' = "done" /\ reason' \notin Misled /\ UNCHANGED walk
            BY <1>1, <2>2, EndReason DEF Misled
        <3>2. NoDeadAir' /\ Known(caller')
            BY <1>1, <2>2, ReleaseFrees DEF NoDeadAir
        <3> QED  BY <1>1, <2>1, <3>1, <3>2, QuietIsApart, EndingKeeps
    <2>3. CASE NotTaken /\ caller' = "waiting"
        BY <2>1, <2>3, NotTakenKeeps
    <2> QED  BY <1>3, <2>2, <2>3 DEF JoinedEnds
<1>4. CASE NetEnds
    <2>1. at' = "done" /\ Release /\ Quiet /\ UNCHANGED <<walk, reason>>
        BY <1>4 DEF NetEnds, walkVars
    <2>2. NoDeadAir' /\ Known(caller') /\ reason' \notin Misled
        BY <1>1, <2>1, ReleaseFrees DEF NoDeadAir, WalkInv
    <2> QED  BY <1>1, <2>1, <2>2, QuietIsApart, EndingKeeps
<1> QED  BY <1>2, <1>3, <1>4 DEF Hangs

(* The net under a flow that failed puts the caller through. *)
LEMMA NetForwardsKeeps ==
    ASSUME IInv, NetForwards
    PROVE  CallInv'
<1>1. CallInv /\ WalkInv
    BY IInvParts DEF CallInv
<1>2. at' = "netted" /\ caller' = "talking" /\ Quiet /\ UNCHANGED <<walk, reason>>
    BY DEF NetForwards, walkVars
<1>3. NoDeadAir' /\ reason' \notin Misled
    BY <1>1, <1>2 DEF NoDeadAir, WalkInv
<1> QED  BY <1>1, <1>2, <1>3, QuietIsApart, EndingKeeps

(* The caller hangs up, wherever the call is. *)
LEMMA CallerLeavesKeeps ==
    ASSUME IInv, CallerLeaves
    PROVE  CallInv'
<1>1. CallInv
    BY IInvParts
<1>2. /\ at # "done" /\ caller' = "gone" /\ Apart /\ UNCHANGED <<at, walk, reason>>
    BY QuietIsApart DEF CallerLeaves, walkVars
<1>3. CallTyped' /\ WalkInv' /\ NoDeadAir'
    BY <1>1, <1>2 DEF CallInv, CallTyped, WalkInv, Stands, NoDeadAir, Apart
<1>4. PinInv'
    BY <1>1, <1>2, PinsKept DEF CallInv
<1> QED  BY <1>3, <1>4 DEF CallInv

-----------------------------------------------------------------------------
(* The invariant *)

(* A library of flows, each in its first version, has the invariant. *)
LEMMA Starts == Init => IInv
<1> SUFFICES ASSUME Init PROVE IInv
    OBVIOUS
<1>1. PICK library \in Libraries :
          /\ versions = [f \in Flows |-> IF f \in DOMAIN library THEN <<library[f]>> ELSE <<>>]
          /\ active = [f \in Flows |-> IF f \in DOMAIN library THEN 1 ELSE 0]
          /\ line \in Lines
          /\ row \in [Flows -> {"kept", "archived", "none"}]
          /\ \A f \in Flows : /\ row[f] = "none" <=> f \notin DOMAIN library
                              /\ row[f] = "archived" => \A n \in Numbers : line[n] # f
    BY DEF Init
<1>2. /\ DOMAIN library \subseteq Flows
      /\ \A f \in DOMAIN library : Valid(library[f]) /\ library[f] \in Saved
      /\ line \in [Numbers -> DOMAIN library \union {NoFlow}]
      /\ NoFlow \notin Flows /\ MaxSteps \in Nat
    BY <1>1, FlowWalkAssumption DEF Saved
<1>3. versions \in [Flows -> Seq(Saved)]
    BY <1>1, <1>2
<1>4. ASSUME NEW f \in Flows
      PROVE  /\ active[f] \in 0..Len(versions[f])
             /\ ~Exists(f) => versions[f] = <<>>
             /\ active[f] # 0 => Valid(versions[f][active[f]])
    <2>1. CASE f \in DOMAIN library
        BY <1>1, <1>2, <2>1 DEF Exists
    <2>2. CASE f \notin DOMAIN library
        BY <1>1, <2>2, EmptySeq DEF Exists
    <2> QED  BY <2>1, <2>2
<1>5. LibraryTyped
    BY <1>1, <1>2, <1>3, <1>4 DEF LibraryTyped
<1>6. LibraryInv
    BY <1>1, <1>2, <1>4 DEF Init, LibraryInv
<1>7. CallTyped
    BY <1>2 DEF Init, CallTyped, NoWalk
<1>8. PinInv /\ WalkInv /\ NoDeadAir
    BY DEF Init, PinInv, WalkInv, NoDeadAir, Walking, Away, Misled
<1> QED  BY <1>5, <1>6, <1>7, <1>8, IInvParts DEF DeskInv, CallInv

(* A step that leaves the desk alone keeps its invariant. *)
LEMMA DeskKept ==
    ASSUME DeskInv, UNCHANGED deskVars
    PROVE  DeskInv'
<1> QED  BY DEF DeskInv, LibraryTyped, LibraryInv, deskVars, libraryVars, Exists

(* Every step of the operators and of the call keeps the invariant. *)
LEMMA Steady == IInv /\ [Next]_vars => IInv'
<1> SUFFICES ASSUME IInv, [Next]_vars PROVE IInv'
    OBVIOUS
<1>1. DeskInv /\ CallInv
    BY IInvParts
<1>0. DeskInv' /\ CallInv' => IInv'
    BY DEF IInv, DeskInv, CallInv, ShapeInv, TypeOK, LibraryTyped, CallTyped
<1>2. CASE Operator
    BY <1>1, <1>2, OperatorEdits, EditsKeepCall, <1>0
<1>3. CASE Resolve \/ Pin \/ Interpreter \/ Agent \/ Hangs \/ NetForwards \/ CallerLeaves
    <2>1. UNCHANGED deskVars
        BY <1>3 DEF Resolve, Pin, Interpreter, Agent, Hangs, NetForwards, CallerLeaves, Quiet,
                    Stray, Crashes, Steps, Answers, Plays, Sets, Texts, Opens, Matches, Requests,
                    Passes, Asks, Unusable, Dials, Terminates, HangsUp, Greets, SessionEnds,
                    AskTransfer, Rings, IntoFlow, DialEnds, JoinedEnds, NetEnds
    <2>2. CallInv'
        BY <1>3, ResolveKeeps, PinKeeps, InterpreterKeeps, AgentKeeps, HangsKeeps,
           NetForwardsKeeps, CallerLeavesKeeps
    <2> QED  BY <1>1, <2>1, <2>2, DeskKept, <1>0
<1>4. CASE UNCHANGED vars
    <2>1. UNCHANGED deskVars /\ UNCHANGED <<at, caller, dialed, using, pinned, walk, reason, lost>>
        BY <1>4 DEF vars, callVars, walkVars
    <2>2. CallInv'
        BY <1>1, <2>1 DEF CallInv, CallTyped, PinInv, WalkInv, Stands, NoDeadAir,
                          FailedTerminal, Node, Exists, deskVars, libraryVars
    <2> QED  BY <1>1, <2>1, <2>2, DeskKept, <1>0
<1> QED  BY <1>2, <1>3, <1>4 DEF Next

(* The invariant holds of every behaviour. *)
THEOREM Invariant == Spec => []IInv
<1> QED  BY Starts, Steady, PTL DEF Spec

(* Whatever an operator does to the library meanwhile, a number that has a flow has
   one that runs, a call's version outlives the call, and no walk ends for a reason
   validation rules out. *)
THEOREM LibraryIsSound == Spec => []LibraryHolds
<1>1. IInv => LibraryHolds
    <2> SUFFICES ASSUME IInv PROVE LibraryHolds
        OBVIOUS
    <2>1. ASSUME NEW n \in Numbers, line[n] # NoFlow
          PROVE  Runnable(n)
        BY <2>1 DEF IInv, LibraryInv, Runnable
    <2>2. ASSUME pinned # Unpinned
          PROVE  pinned.version \in DOMAIN versions[pinned.flow]
        BY <2>2, LenProperties DEF IInv, ShapeInv, PinInv
    <2> QED  BY <2>1, <2>2 DEF IInv, ShapeInv, WalkInv, Misled, LibraryHolds
<1> QED  BY <1>1, Invariant, PTL

(* When the platform is done with a call, the caller is hung up or somebody has the
   call, unless the one request to hang up was lost or the last node failed. *)
THEOREM NobodyHearsSilence == Spec => []NoDeadAir
<1>1. IInv => NoDeadAir
    BY DEF IInv
<1> QED  BY <1>1, Invariant, PTL
-----------------------------------------------------------------------------
(* The spend cap, for any sessions, caps, days and failures, in any order.  It is
   apart from the flows: nothing above is used below. *)

LimitsMakeSense == Retell \subseteq Sessions /\ Caps \subseteq Nat

Word == [day : Nat, cap : Nat]
Live == {s \in Sessions : session[s] = "live"}

SpendShape ==
    /\ cap \in Nat /\ sets \in Nat /\ failures \in Nat /\ peak \in Nat /\ late \in BOOLEAN
    /\ session \in [Sessions -> {"new", "live", "over"}]
    /\ due \in [Sessions -> Word]
    /\ check \in [Sessions -> [step : {"none", "look", "mark"}, day : Nat, cap : Nat]]
    /\ today \in Nat \ {0} /\ mark \in Nat

(* Charges are of sessions that are over, and the peak is at least what is live now. *)
ChargesInv ==
    /\ IsFiniteSet(charged) /\ \A s \in charged : session[s] = "over"
    /\ IsFiniteSet(Live) /\ Cardinality(Live) =< peak

Undisturbed == cap > 0 /\ sets = 0 /\ failures = 0

(* What is charged and what may yet be, one charge per live session, is within the
   cap and the peak: a session that ends moves from the one to the other. *)
RoomInv == Undisturbed => Spent + Cardinality(Live) < cap + Larger(peak, 1)

DaysInv == mark =< today /\ \A s \in Sessions : check[s].day =< today

(* The mark of today stands for a warning with the present cap; a refused session
   has had its warning said, has not looked yet, or is about to say it. *)
WordInv ==
    \/ late \/ failures > 0
    \/ /\ mark = today => Now \in said
       /\ \A s \in Retell : due[s].cap > 0 =>
             \/ check[s].step = "look"
             \/ check[s].step = "mark" /\ due[s] = [day |-> check[s].day, cap |-> check[s].cap]
             \/ check[s].step = "none" /\ due[s] \in said

SpendInv == SpendShape /\ ChargesInv /\ RoomInv /\ DaysInv /\ WordInv

(* The larger of two numbers. *)
LEMMA LargerIs ==
    ASSUME NEW m \in Nat, NEW n \in Nat
    PROVE  Larger(m, n) \in Nat /\ Larger(m, n) >= m /\ Larger(m, n) >= n
<1> QED  BY DEF Larger

(* A session begins. *)
LEMMA Begins ==
    ASSUME SpendShape, ChargesInv, NEW s \in Sessions, session[s] # "live",
           session' = [session EXCEPT ![s] = "live"]
    PROVE  /\ Live' = Live \union {s} /\ IsFiniteSet(Live')
           /\ Live' = {t \in Sessions : session'[t] = "live"}
           /\ Cardinality(Live') = Cardinality(Live) + 1
<1>1. Live' = Live \union {s} /\ s \notin Live
    BY DEF Live, SpendShape
<1>2. Live' = {t \in Sessions : session'[t] = "live"}
    BY DEF Live
<1> QED  BY <1>1, <1>2, FS_AddElement DEF ChargesInv

(* A session ends, and its charge is written or not. *)
LEMMA EndsCharged ==
    ASSUME SpendShape, ChargesInv, RoomInv, NEW s \in Sessions, session[s] = "live",
           session' = [session EXCEPT ![s] = "over"],
           charged' = charged \/ charged' = charged \union {s},
           UNCHANGED <<cap, sets, failures, peak>>
    PROVE  ChargesInv' /\ RoomInv'
<1>1. Live' = Live \ {s} /\ s \in Live /\ s \notin charged
    BY DEF Live, SpendShape, ChargesInv
<1>2. /\ IsFiniteSet(Live') /\ Cardinality(Live') = Cardinality(Live) - 1
      /\ Cardinality(Live) \in Nat
    BY <1>1, FS_RemoveElement, FS_CardinalityType DEF ChargesInv
<1>3. /\ IsFiniteSet(charged') /\ Cardinality(charged) \in Nat /\ Cardinality(charged') \in Nat
      /\ Cardinality(charged') =< Cardinality(charged) + 1
    <2>1. IsFiniteSet(charged) /\ Cardinality(charged) \in Nat
        BY FS_CardinalityType DEF ChargesInv
    <2>2. /\ IsFiniteSet(charged \union {s})
          /\ Cardinality(charged \union {s}) = Cardinality(charged) + 1
        BY <1>1, <2>1, FS_AddElement
    <2>3. CASE charged' = charged
        BY <2>1, <2>3
    <2>4. CASE charged' = charged \union {s}
        BY <2>1, <2>2, <2>4
    <2> QED  BY <2>3, <2>4
<1>4. \A t \in charged' : session'[t] = "over"
    BY <1>1 DEF ChargesInv, SpendShape
<1>5. Cardinality(Live') =< peak'
    BY <1>2 DEF ChargesInv, SpendShape
<1>6. RoomInv'
    <2> SUFFICES ASSUME Undisturbed'
                 PROVE  Cardinality(charged') + Cardinality(Live') < cap + Larger(peak, 1)
        BY DEF RoomInv, Spent, Larger
    <2>1. Cardinality(charged) + Cardinality(Live) < cap + Larger(peak, 1)
        BY DEF RoomInv, Undisturbed, Spent
    <2>2. cap \in Nat /\ Larger(peak, 1) \in Nat
        BY LargerIs DEF SpendShape
    <2> QED  BY <1>2, <1>3, <2>1, <2>2
<1> QED  BY <1>2, <1>3, <1>4, <1>5, <1>6 DEF ChargesInv

(* The money, whatever happens. *)
LEMMA MoneyKept ==
    ASSUME SpendShape, ChargesInv, RoomInv, [SpendNext]_spendVars
    PROVE  ChargesInv' /\ RoomInv'
<1>1. ASSUME NEW s \in Sessions, Refuses(s)
      PROVE  ChargesInv' /\ RoomInv'
    <2>1. /\ session' = [session EXCEPT ![s] = "over"] /\ session[s] = "new"
          /\ UNCHANGED <<cap, sets, failures, peak, charged>>
        BY <1>1 DEF Refuses, limitVars
    <2>2. Live' = Live /\ \A t \in charged : session'[t] = "over"
        BY <2>1 DEF Live, SpendShape, ChargesInv
    <2> QED  BY <2>1, <2>2 DEF ChargesInv, RoomInv, Undisturbed, Spent, Larger
<1>2. ASSUME NEW s \in Sessions, Admits(s)
      PROVE  ChargesInv' /\ RoomInv'
    <2>1. /\ session[s] = "new" /\ session' = [session EXCEPT ![s] = "live"]
          /\ UNCHANGED <<cap, sets, charged>>
          /\ peak' = Larger(peak, Cardinality({t \in Sessions : session'[t] = "live"}))
        BY <1>2 DEF Admits, limitVars
    <2>2. /\ Live' = {t \in Sessions : session'[t] = "live"} /\ IsFiniteSet(Live')
        BY <2>1, Begins
    <2>3. Cardinality(Live') \in Nat /\ peak' >= Cardinality(Live') /\ peak' \in Nat
        BY <2>1, <2>2, LargerIs, FS_CardinalityType DEF SpendShape
    <2>4. \A t \in charged : session'[t] = "over"
        BY <2>1 DEF SpendShape, ChargesInv
    <2>5. RoomInv'
        <3> SUFFICES ASSUME Undisturbed'
                     PROVE  Spent + Cardinality(Live') < cap + Larger(peak', 1)
            BY <2>1 DEF RoomInv, Spent, Larger
        <3>1. ~OverCap
            <4>1. OverCap => failures' = failures + 1
                BY <1>2 DEF Admits
            <4> QED  BY <4>1 DEF Undisturbed, SpendShape
        <3>2. Spent \in Nat /\ cap \in Nat /\ Spent < cap
            BY <2>1, <3>1, FS_CardinalityType DEF OverCap, Spent, Undisturbed, ChargesInv, SpendShape
        <3>3. Larger(peak', 1) \in Nat /\ Larger(peak', 1) >= peak'
            BY <2>3, LargerIs
        <3> QED  BY <2>3, <3>2, <3>3
    <2> QED  BY <2>1, <2>2, <2>3, <2>4, <2>5 DEF ChargesInv
<1>3. ASSUME NEW s \in Sessions, VoiceEnds(s) \/ RetellEnds(s)
      PROVE  ChargesInv' /\ RoomInv'
    <2>1. /\ session[s] = "live" /\ session' = [session EXCEPT ![s] = "over"]
          /\ charged' = charged \/ charged' = charged \union {s}
          /\ UNCHANGED <<cap, sets, failures, peak>>
        BY <1>3 DEF VoiceEnds, RetellEnds, limitVars
    <2> QED  BY <2>1, EndsCharged
<1>4. ASSUME NEW s \in Sessions, Looks(s) \/ Warns(s)
      PROVE  ChargesInv' /\ RoomInv'
    <2>1. UNCHANGED <<cap, sets, failures, peak, charged, session>>
        BY <1>4 DEF Looks, Warns, limitVars
    <2> QED  BY <2>1 DEF ChargesInv, RoomInv, Undisturbed, Spent, Larger, Live
<1>5. ASSUME NEW s \in Sessions, WarnsNobody(s)
      PROVE  ChargesInv' /\ RoomInv'
    <2>1. failures' = failures + 1 /\ UNCHANGED <<cap, sets, peak, charged, session>>
        BY <1>5 DEF WarnsNobody, limitVars
    <2> QED  BY <2>1 DEF ChargesInv, RoomInv, Undisturbed, Live, SpendShape
<1>6. CASE (\E c \in Caps : SetsLimits(c)) \/ DayTurns
    <2>1. sets' = sets + 1 /\ UNCHANGED <<peak, charged, session>>
        BY <1>6 DEF SetsLimits, DayTurns
    <2> QED  BY <2>1 DEF ChargesInv, RoomInv, Undisturbed, Live, SpendShape
<1>7. CASE Slides
    <2>1. PICK s \in charged : charged' = charged \ {s}
        BY <1>7 DEF Slides
    <2>2. sets' = sets + 1 /\ UNCHANGED <<peak, session>>
        BY <1>7 DEF Slides
    <2>3. IsFiniteSet(charged')
        BY <2>1, FS_RemoveElement DEF ChargesInv
    <2> QED  BY <2>1, <2>2, <2>3 DEF ChargesInv, RoomInv, Undisturbed, Live, SpendShape
<1>8. CASE UNCHANGED spendVars
    <2>1. UNCHANGED <<cap, sets, failures, peak, charged, session>>
        BY <1>8 DEF spendVars, limitVars
    <2> QED  BY <2>1 DEF ChargesInv, RoomInv, Undisturbed, Spent, Larger, Live
<1> QED  BY <1>1, <1>2, <1>3, <1>4, <1>5, <1>6, <1>7, <1>8 DEF SpendNext

(* The warning, whatever happens. *)
LEMMA WordKept ==
    ASSUME LimitsMakeSense, SpendShape, ChargesInv, DaysInv, WordInv, [SpendNext]_spendVars
    PROVE  SpendShape' /\ DaysInv' /\ WordInv'
<1>1. ASSUME NEW s \in Sessions, Refuses(s)
      PROVE  SpendShape' /\ DaysInv' /\ WordInv'
    <2>1. /\ session' = [session EXCEPT ![s] = "over"] /\ due' = [due EXCEPT ![s] = Now]
          /\ UNCHANGED <<cap, sets, failures, peak, late, today, mark, said>>
          /\ IF s \in Retell THEN check' = [check EXCEPT ![s] = [NoCheck EXCEPT !.step = "look"]]
                             ELSE check' = check
        BY <1>1 DEF Refuses, OnRefusal, Looking, limitVars, dayVars
    <2>2. [NoCheck EXCEPT !.step = "look"] = [step |-> "look", day |-> 0, cap |-> 0]
        BY DEF NoCheck
    <2>3. Now \in Word
        BY DEF Now, Word, SpendShape
    <2>4. SpendShape' /\ DaysInv'
        BY <2>1, <2>2, <2>3 DEF SpendShape, DaysInv
    <2>5. WordInv'
        BY <2>1, <2>2 DEF WordInv, Now, SpendShape, LimitsMakeSense
    <2> QED  BY <2>4, <2>5
<1>2. ASSUME NEW s \in Sessions, Admits(s)
      PROVE  SpendShape' /\ DaysInv' /\ WordInv'
    <2>1. /\ session' = [session EXCEPT ![s] = "live"] /\ session[s] = "new"
          /\ failures' = failures \/ failures' = failures + 1
          /\ peak' = Larger(peak, Cardinality({t \in Sessions : session'[t] = "live"}))
          /\ UNCHANGED <<cap, sets, late, today, mark, said, due, check>>
        BY <1>2 DEF Admits, limitVars, dayVars
    <2>2. peak' \in Nat
        BY <2>1, Begins, LargerIs, FS_CardinalityType DEF SpendShape
    <2>3. SpendShape' /\ DaysInv'
        BY <2>1, <2>2 DEF SpendShape, DaysInv
    <2>4. WordInv'
        BY <2>1 DEF WordInv, Now, SpendShape
    <2> QED  BY <2>3, <2>4
<1>3. ASSUME NEW s \in Sessions, VoiceEnds(s)
      PROVE  SpendShape' /\ DaysInv' /\ WordInv'
    <2>1. /\ session' = [session EXCEPT ![s] = "over"]
          /\ UNCHANGED <<cap, sets, failures, peak, late, today, mark, said, due, check>>
        BY <1>3 DEF VoiceEnds, limitVars, dayVars
    <2> QED  BY <2>1 DEF SpendShape, DaysInv, WordInv, Now
<1>4. ASSUME NEW s \in Sessions, RetellEnds(s)
      PROVE  SpendShape' /\ DaysInv' /\ WordInv'
    <2>1. /\ session' = [session EXCEPT ![s] = "over"]
          /\ check' = [check EXCEPT ![s] = [NoCheck EXCEPT !.step = "look"]]
          /\ UNCHANGED <<cap, sets, failures, peak, late, today, mark, said, due>>
        BY <1>4 DEF RetellEnds, Looking, limitVars, dayVars
    <2>2. [NoCheck EXCEPT !.step = "look"] = [step |-> "look", day |-> 0, cap |-> 0]
        BY DEF NoCheck
    <2>3. SpendShape' /\ DaysInv'
        BY <2>1, <2>2 DEF SpendShape, DaysInv
    <2>4. WordInv'
        BY <2>1, <2>2 DEF WordInv, Now, SpendShape, LimitsMakeSense
    <2> QED  BY <2>3, <2>4
<1>5. ASSUME NEW s \in Sessions, Looks(s)
      PROVE  SpendShape' /\ DaysInv' /\ WordInv'
    <2>1. /\ check[s].step = "look"
          /\ UNCHANGED <<cap, sets, failures, peak, late, today, mark, said, session>>
        BY <1>5 DEF Looks, limitVars, dayVars
    <2>2. /\ check' = [check EXCEPT ![s] =
                          IF AtPercent /\ ~Marked
                          THEN [step |-> "mark", day |-> today, cap |-> cap] ELSE NoCheck]
          /\ due' = IF AtPercent /\ due[s] = Now THEN due ELSE [due EXCEPT ![s] = Nobody]
        BY <1>5 DEF Looks
    <2>3. Nobody \in Word /\ Nobody.cap = 0
        BY DEF Nobody, Word
    <2>4. SpendShape' /\ DaysInv'
        BY <2>1, <2>2, <2>3 DEF SpendShape, DaysInv, NoCheck
    <2>5. /\ \A t \in Sessions \ {s} : due'[t] = due[t] /\ check'[t] = check[t]
          /\ due'[s].cap > 0 => AtPercent /\ due'[s] = Now
        BY <2>2, <2>3 DEF SpendShape
    <2>6. /\ AtPercent /\ ~Marked => check'[s] = [step |-> "mark", day |-> today, cap |-> cap]
          /\ ~(AtPercent /\ ~Marked) => check'[s] = NoCheck
        BY <2>2 DEF SpendShape
    <2>7. ASSUME NEW t \in Retell, mark = today => Now \in said, due'[t].cap > 0,
                 \/ check[t].step = "look"
                 \/ check[t].step = "mark" /\ due[t] = [day |-> check[t].day, cap |-> check[t].cap]
                 \/ check[t].step = "none" /\ due[t] \in said
          PROVE  \/ check'[t].step = "look"
                 \/ check'[t].step = "mark"
                    /\ due'[t] = [day |-> check'[t].day, cap |-> check'[t].cap]
                 \/ check'[t].step = "none" /\ due'[t] \in said
        <3>1. CASE t # s
            BY <2>5, <2>7, <3>1 DEF LimitsMakeSense
        <3>2. CASE t = s /\ Marked
            BY <2>5, <2>6, <2>7, <3>2 DEF Marked, NoCheck
        <3>3. CASE t = s /\ ~Marked
            BY <2>5, <2>6, <2>7, <3>3 DEF Now
        <3> QED  BY <3>1, <3>2, <3>3
    <2>8. \A t \in Retell : due'[t].cap > 0 => t = s \/ due[t].cap > 0
        BY <2>5 DEF LimitsMakeSense
    <2>9. WordInv'
        BY <2>1, <2>7, <2>8 DEF WordInv, Now
    <2> QED  BY <2>4, <2>9
<1>6. ASSUME NEW s \in Sessions, Warns(s)
      PROVE  SpendShape' /\ DaysInv' /\ WordInv'
    <2>1. /\ check[s].step = "mark" /\ mark' = check[s].day
          /\ late' = (late \/ check[s].cap # cap)
          /\ said' = said \union {[day |-> check[s].day, cap |-> check[s].cap]}
          /\ check' = [check EXCEPT ![s] = NoCheck]
          /\ UNCHANGED <<cap, sets, failures, peak, today, session, due>>
        BY <1>6 DEF Warns, limitVars
    <2>2. SpendShape' /\ DaysInv'
        BY <2>1 DEF SpendShape, DaysInv, NoCheck
    <2>3. check'[s].step = "none" /\ \A t \in Sessions \ {s} : check'[t] = check[t]
        BY <2>1 DEF SpendShape, NoCheck
    <2>4. late' \/ (mark' = today' => Now' \in said')
        BY <2>1 DEF Now
    <2>5. WordInv'
        BY <2>1, <2>3, <2>4 DEF WordInv, LimitsMakeSense
    <2> QED  BY <2>2, <2>5
<1>7. ASSUME NEW s \in Sessions, WarnsNobody(s)
      PROVE  SpendShape' /\ DaysInv' /\ WordInv'
    <2>1. /\ failures' = failures + 1 /\ check' = [check EXCEPT ![s] = NoCheck]
          /\ UNCHANGED <<cap, sets, peak, late, today, mark, said, session, due>>
        BY <1>7 DEF WarnsNobody, limitVars, dayVars
    <2>2. SpendShape' /\ DaysInv'
        BY <2>1 DEF SpendShape, DaysInv, NoCheck
    <2> QED  BY <2>1, <2>2 DEF WordInv, SpendShape
<1>8. ASSUME NEW c \in Caps, SetsLimits(c)
      PROVE  SpendShape' /\ DaysInv' /\ WordInv'
    <2>1. /\ sets' = sets + 1 /\ cap' = c /\ mark' = 0
          /\ UNCHANGED <<failures, peak, late, today, said, session, due, check>>
        BY <1>8 DEF SetsLimits, Unmarked
    <2>2. SpendShape' /\ DaysInv'
        BY <2>1 DEF SpendShape, DaysInv, LimitsMakeSense
    <2> QED  BY <2>1, <2>2 DEF WordInv, SpendShape
<1>9. CASE DayTurns
    <2>1. /\ sets' = sets + 1 /\ today' = today + 1
          /\ UNCHANGED <<cap, failures, peak, late, mark, said, session, due, check>>
        BY <1>9 DEF DayTurns
    <2>2. SpendShape' /\ DaysInv' /\ mark' # today'
        BY <2>1 DEF SpendShape, DaysInv
    <2> QED  BY <2>1, <2>2 DEF WordInv
<1>10. CASE Slides
    <2>1. /\ sets' = sets + 1
          /\ UNCHANGED <<cap, failures, peak, late, today, mark, said, session, due, check>>
        BY <1>10 DEF Slides, dayVars
    <2> QED  BY <2>1 DEF SpendShape, DaysInv, WordInv, Now
<1>11. CASE UNCHANGED spendVars
    <2>1. UNCHANGED <<cap, sets, failures, peak, late, today, mark, said, session, due, check>>
        BY <1>11 DEF spendVars, limitVars, dayVars
    <2> QED  BY <2>1 DEF SpendShape, DaysInv, WordInv, Now
<1> QED  BY <1>1, <1>2, <1>3, <1>4, <1>5, <1>6, <1>7, <1>8, <1>9, <1>10, <1>11 DEF SpendNext

(* At the start nothing is charged and nobody has been refused. *)
LEMMA SpendBegins == LimitsMakeSense /\ SpendInit => SpendInv
<1> SUFFICES ASSUME LimitsMakeSense, SpendInit PROVE SpendInv
    OBVIOUS
<1>1. /\ charged = {} /\ due = [s \in Sessions |-> Nobody]
      /\ check = [s \in Sessions |-> NoCheck] /\ mark = 0 /\ today = 1
      /\ late = FALSE /\ peak = 0 /\ failures = 0 /\ sets = 0 /\ cap \in Nat
      /\ session = [s \in Sessions |-> "new"]
    BY DEF SpendInit, Off, LimitsMakeSense
<1>2. Live = {}
    BY <1>1 DEF Live
<1>3. SpendShape /\ DaysInv
    <2>1. Nobody \in Word /\ NoCheck \in [step : {"none", "look", "mark"}, day : Nat, cap : Nat]
        BY DEF Nobody, NoCheck, Word
    <2>2. NoCheck.day = 0
        BY DEF NoCheck
    <2>3. due \in [Sessions -> Word] /\ session \in [Sessions -> {"new", "live", "over"}]
        BY <1>1, <2>1
    <2>4. check \in [Sessions -> [step : {"none", "look", "mark"}, day : Nat, cap : Nat]]
        BY <1>1, <2>1
    <2>5. SpendShape
        <3>1. late \in BOOLEAN
            BY <1>1, Zenon
        <3>2. cap \in Nat /\ sets = 0 /\ failures = 0 /\ peak = 0 /\ today = 1 /\ mark = 0
            BY <1>1
        <3> QED  BY <2>3, <2>4, <3>1, <3>2 DEF SpendShape
    <2>6. DaysInv
        BY <1>1, <2>2 DEF DaysInv
    <2> QED  BY <2>5, <2>6
<1>4. Cardinality(charged) = 0 /\ IsFiniteSet(charged) /\ Cardinality(Live) = 0 /\ IsFiniteSet(Live)
    BY <1>1, <1>2, FS_EmptySet
<1>5. ChargesInv /\ RoomInv
    BY <1>1, <1>4 DEF ChargesInv, RoomInv, Undisturbed, Spent, Larger
<1>6. WordInv
    BY <1>1 DEF WordInv, Nobody, LimitsMakeSense
<1> QED  BY <1>3, <1>5, <1>6 DEF SpendInv

(* The invariant of the spend cap. *)
THEOREM SpendInvariant == ASSUME LimitsMakeSense PROVE SpendSpec => []SpendInv
<1>1. SpendInit => SpendInv
    BY SpendBegins
<1>2. SpendInv /\ [SpendNext]_spendVars => SpendInv'
    BY MoneyKept, WordKept DEF SpendInv
<1> QED  BY <1>1, <1>2, PTL DEF SpendSpec

(* While limits stay and the check answers, the spend passes the cap by less than
   what the sessions live at one time cost. *)
THEOREM SpendIsBounded == ASSUME LimitsMakeSense PROVE SpendSpec => []OverspendIsBounded
<1>1. SpendInv => OverspendIsBounded
    <2> SUFFICES ASSUME SpendInv, Undisturbed PROVE Spent < cap + Larger(peak, 1)
        BY DEF OverspendIsBounded, Undisturbed
    <2>1. Spent + Cardinality(Live) < cap + Larger(peak, 1)
        BY DEF SpendInv, RoomInv
    <2>2. /\ Spent \in Nat /\ Cardinality(Live) \in Nat /\ cap \in Nat
          /\ Larger(peak, 1) \in Nat
        BY FS_CardinalityType, LargerIs DEF SpendInv, ChargesInv, SpendShape, Spent
    <2> QED  BY <2>1, <2>2
<1> QED  BY <1>1, SpendInvariant, PTL

(* Whoever is turned away from a Retell agent by the cap leaves word of it. *)
THEOREM TheCapIsTold == ASSUME LimitsMakeSense PROVE SpendSpec => []RefusalIsSaid
<1>1. SpendInv => RefusalIsSaid
    BY DEF SpendInv, WordInv, RefusalIsSaid
<1> QED  BY <1>1, SpendInvariant, PTL
-----------------------------------------------------------------------------
(* Receipts posted as texts, for any number of web requests, texts, receipts and
   runs of the command. *)

ReceiptsMakeSense == Command \notin Servers /\ Receipts \intersect Others = {}

Shown == {"sent"} \union {Stat[r] : r \in Receipts}

(* What a task is, where it is. *)
Resting == {[at |-> "idle"], [at |-> "next"], [at |-> "ended"]}
Reading == [at : {"in"}, item : Payloads]
Holding == [at : {"orphan", "seen", "stored"}, item : Receipts]
Chosen  == [at : {"chosen"}, item : Receipts, msg : Sent, fresh : BOOLEAN, was : Shown,
            seen : SUBSET Receipts]
Filing  == [at : {"applied"}, item : Receipts, msg : Sent]

RowsTyped ==
    /\ status \in [Sent -> Shown] /\ seen \in [Sent -> SUBSET Receipts]
    /\ inbox \in [Payloads -> {"none", "shown", "hidden"}]
    /\ posts \in [Payloads -> Nat] /\ told \in [Receipts -> Nat]
    /\ overlaps \in Nat /\ slips \in Nat /\ quiet \in BOOLEAN
    /\ todo \subseteq Receipts /\ marks \subseteq Receipts /\ owing \subseteq Receipts
    /\ applied \subseteq Receipts

TasksTyped ==
    /\ task \in [Tasks -> Resting \union Reading \union Holding \union Chosen \union Filing]
    /\ task[Command].at # "stored"
    /\ task[Command].at = "in" => task[Command].item \in Receipts
    /\ \A h \in Servers : task[h].at \notin {"next", "ended"}

(* What a task has read holds of the rows: a choice that no commit has overtaken
   is of a receipt that no matching row remembers, and takes nothing back. *)
ReadInv ==
    /\ \A m \in Sent : seen[m] \subseteq applied
    /\ \A s \in Tasks :
        /\ task[s].at \in {"seen", "applied"} => task[s].item \in applied
        /\ task[s].at = "orphan" => Matching(task[s].item) = {}
        /\ task[s].at = "chosen" =>
             /\ task[s].msg \in Matching(task[s].item)
             /\ task[s].item \in task[s].seen /\ task[s].seen \subseteq applied \union {task[s].item}
             /\ task[s].fresh => /\ task[s].seen = seen[task[s].msg] \union {task[s].item}
                                 /\ ~AlreadyApplied(task[s].item)

(* How often the CRM is told, or about to be told, of a receipt; once more if no row
   remembers it.  Only a commit that overlapped another's adds to the sum. *)
Filers(r) == {s \in Tasks : task[s].at = "applied" /\ task[s].item = r}
Open(r) == IF AlreadyApplied(r) THEN 0 ELSE 1

CountInv ==
    \A r \in Receipts : /\ IsFiniteSet(Filers(r))
                        /\ told[r] + Cardinality(Filers(r)) + Open(r) =< 1 + overlaps

(* A stored orphan is in the inbox. *)
InboxInv ==
    /\ \A s \in Tasks : task[s].at = "stored" => inbox[task[s].item] # "none"
    /\ ThreadsAreClean
    /\ slips = 0 => \A r \in acked \intersect Receipts :
                       posts[r] > 0 => r \in applied \/ inbox[r] # "none"

(* A receipt that the run is to see to is ahead of it, in hand, or seen to. *)
InHand(r) ==
    task[Command].at \in {"in", "chosen", "applied", "seen", "orphan"} /\ task[Command].item = r

RunInv ==
    /\ \A r \in owing :
        /\ inbox[r] # "none" /\ Matching(r) # {}
        /\ r \in todo \/ InHand(r) \/ (r \in applied /\ (r \in marks \/ inbox[r] = "hidden"))
    /\ task[Command].at = "ended" => todo = {} /\ marks = {}

ReceiptsInv == RowsTyped /\ TasksTyped /\ ReadInv /\ CountInv /\ InboxInv /\ RunInv

-----------------------------------------------------------------------------
(* What a task holds, by the place it has reached. *)
LEMMA TaskIs ==
    ASSUME TasksTyped, NEW s \in Tasks
    PROVE  /\ task[s].at \in {"idle", "next", "ended", "in", "orphan", "seen", "stored", "chosen",
                              "applied"}
           /\ task[s].at = "in" => task[s].item \in Payloads
           /\ task[s].at \in {"orphan", "seen", "stored", "chosen", "applied"} =>
                 task[s].item \in Receipts
           /\ task[s].at = "chosen" => task[s] \in Chosen
           /\ task[s].at = "applied" => task[s].msg \in Sent
           /\ task[s].at = "idle" => task[s] = Idle
<1>1. task[s] \in Resting \union Reading \union Holding \union Chosen \union Filing
    BY DEF TasksTyped
<1>2. CASE task[s] \in Resting
    BY <1>2 DEF Resting, Idle
<1>3. CASE task[s] \in Reading
    BY <1>3 DEF Reading
<1>4. CASE task[s] \in Holding
    BY <1>4 DEF Holding
<1>5. CASE task[s] \in Chosen
    BY <1>5 DEF Chosen
<1>6. CASE task[s] \in Filing
    BY <1>6 DEF Filing
<1> QED  BY <1>1, <1>2, <1>3, <1>4, <1>5, <1>6

(* A choice that a commit has overtaken. *)
LEMMA Overtaken ==
    ASSUME NEW q \in Chosen, NEW p, p = [q EXCEPT !.fresh = FALSE]
    PROVE  /\ p \in Chosen /\ p.at = "chosen" /\ ~p.fresh
           /\ p.item = q.item /\ p.msg = q.msg /\ p.was = q.was /\ p.seen = q.seen
<1> QED  BY DEF Chosen

(* Hiding takes nothing from the inbox and touches nothing else than it should. *)
LEMMA HiddenIs ==
    ASSUME RowsTyped, NEW rs
    PROVE  /\ Hidden(rs) \in [Payloads -> {"none", "shown", "hidden"}]
           /\ \A i \in Payloads : /\ inbox[i] = "none" <=> Hidden(rs)[i] = "none"
                                  /\ inbox[i] = "hidden" => Hidden(rs)[i] = "hidden"
                                  /\ i \in rs => Hidden(rs)[i] # "shown"
                                  /\ i \notin rs => Hidden(rs)[i] = inbox[i]
                                  /\ Hidden(rs)[i] = "shown" => inbox[i] = "shown"
<1> QED  BY DEF Hidden, RowsTyped
-----------------------------------------------------------------------------
(* Every step is one of these. *)
LEMMA ReceiptSteps ==
    ASSUME ReceiptsNext
    PROVE  \/ \E h \in Servers : \/ \E i \in Payloads : Posted(h, i)
                                 \/ Ingests(h) \/ Acknowledges(h) \/ StoresOrphan(h)
                                 \/ HidesOrphan(h) \/ RequestFails(h) \/ RequestDies(h)
           \/ \E s \in Tasks : Correlates(s) \/ Applies(s) \/ Tells(s)
           \/ RunStarts \/ RunTakes \/ RunMarks \/ RunEnds \/ RunDies
<1>1. Servers \subseteq Tasks /\ Command \in Tasks
    BY DEF Tasks
<1> QED  BY <1>1 DEF ReceiptsNext, Serves, Running

(* What a commit of a choice does to the tasks. *)
LEMMA Commits ==
    ASSUME TasksTyped, NEW s \in Tasks, Applies(s)
    PROVE  /\ task[s] \in Chosen /\ task[s].at = "chosen"
           /\ task' \in [Tasks -> Resting \union Reading \union Holding \union Chosen \union Filing]
           /\ task'[s] = [at |-> "applied", item |-> task[s].item, msg |-> task[s].msg]
           /\ \A t \in Tasks \ {s} :
                 /\ task[t].at # "chosen" => task'[t] = task[t]
                 /\ task[t].at = "chosen" =>
                       /\ task'[t] \in Chosen /\ task'[t].at = "chosen" /\ ~task'[t].fresh
                       /\ task'[t].item = task[t].item /\ task'[t].msg = task[t].msg
                       /\ task'[t].seen = task[t].seen
<1>1. /\ task[s].at = "chosen" /\ task[s] \in Chosen
    BY TaskIs DEF Applies
<1>2. task' = [Stale(s) EXCEPT ![s] = [at |-> "applied", item |-> task[s].item,
                                       msg |-> task[s].msg]]
    BY DEF Applies
<1>3. [at |-> "applied", item |-> task[s].item, msg |-> task[s].msg] \in Filing
    BY <1>1 DEF Filing, Chosen
<1>4. ASSUME NEW t \in Tasks, t # s
      PROVE  /\ task[t].at # "chosen" => Stale(s)[t] = task[t]
             /\ task[t].at = "chosen" =>
                   /\ Stale(s)[t] \in Chosen /\ Stale(s)[t].at = "chosen" /\ ~Stale(s)[t].fresh
                   /\ Stale(s)[t].item = task[t].item /\ Stale(s)[t].msg = task[t].msg
                   /\ Stale(s)[t].seen = task[t].seen
    <2>1. CASE task[t].at # "chosen"
        BY <1>4, <2>1 DEF Stale
    <2>2. CASE task[t].at = "chosen"
        <3>1. Stale(s)[t] = [task[t] EXCEPT !.fresh = FALSE]
            BY <1>4, <2>2 DEF Stale
        <3>2. task[t] \in Chosen
            BY <2>2, TaskIs
        <3> QED  BY <2>2, <3>1, <3>2, Overtaken
    <2> QED  BY <2>1, <2>2
<1>5. Stale(s)[s] = task[s] /\ DOMAIN Stale(s) = Tasks
    BY DEF Stale
<1>6. \A t \in Tasks : t # s => task'[t] = Stale(s)[t]
    BY <1>2, <1>5 DEF Stale
<1>7. task'[s] = [at |-> "applied", item |-> task[s].item, msg |-> task[s].msg]
    BY <1>2, <1>5 DEF Stale
<1>8. ASSUME NEW t \in Tasks
      PROVE  task'[t] \in Resting \union Reading \union Holding \union Chosen \union Filing
    <2>1. CASE t = s
        BY <1>3, <1>7, <2>1
    <2>2. CASE t # s /\ task[t].at # "chosen"
        BY <1>4, <1>6, <2>2 DEF TasksTyped
    <2>3. CASE t # s /\ task[t].at = "chosen"
        BY <1>4, <1>6, <2>3
    <2> QED  BY <2>1, <2>2, <2>3
<1>9. task' = [t \in Tasks |-> task'[t]]
    BY <1>2 DEF Stale
<1>10. task' \in [Tasks -> Resting \union Reading \union Holding \union Chosen \union Filing]
    BY <1>8, <1>9
<1> QED  BY <1>1, <1>4, <1>6, <1>7, <1>10

(* What the reading of the rows comes to. *)
LEMMA Finds ==
    ASSUME RowsTyped, TasksTyped, NEW s \in Tasks, Correlates(s)
    PROVE  /\ task[s].at = "in" /\ task[s].item \in Receipts
           /\ \E q \in Holding \union Chosen :
                /\ task' = [task EXCEPT ![s] = q] /\ q.item = task[s].item
                /\ \/ q.at = "orphan" /\ (task[s].item \in Others \/ Matching(task[s].item) = {})
                   \/ /\ q.at = "seen" /\ AlreadyApplied(task[s].item)
                      /\ Matching(task[s].item) # {}
                   \/ /\ q.at = "chosen" /\ q.msg \in Matching(task[s].item) /\ q.fresh
                      /\ q.seen = seen[q.msg] \union {task[s].item}
                      /\ ~AlreadyApplied(task[s].item) /\ Matching(task[s].item) # {}
<1> DEFINE r == task[s].item
<1>1. task[s].at = "in" /\ r \in Receipts
    BY DEF Correlates, IsReceipt
<1>2. CASE r \in Others \/ Matching(r) = {}
    <2>1. task' = [task EXCEPT ![s] = Task("orphan", r)]
        BY <1>2 DEF Correlates, Becomes
    <2>2. /\ Task("orphan", r) \in Holding /\ Task("orphan", r).item = r
          /\ Task("orphan", r).at = "orphan"
        BY <1>1 DEF Task, Holding
    <2> QED  BY <1>1, <1>2, <2>1, <2>2
<1>3. CASE ~(r \in Others \/ Matching(r) = {}) /\ AlreadyApplied(r)
    <2>1. task' = [task EXCEPT ![s] = Task("seen", r)]
        BY <1>3 DEF Correlates, Becomes
    <2>2. Task("seen", r) \in Holding /\ Task("seen", r).item = r /\ Task("seen", r).at = "seen"
        BY <1>1 DEF Task, Holding
    <2> QED  BY <1>1, <1>3, <2>1, <2>2
<1>4. CASE ~(r \in Others \/ Matching(r) = {}) /\ ~AlreadyApplied(r)
    <2>1. PICK m \in Best(r) :
              task' = [task EXCEPT ![s] = [at |-> "chosen", item |-> r, msg |-> m, fresh |-> TRUE,
                                           was |-> status[m], seen |-> seen[m] \union {r}]]
        BY <1>4 DEF Correlates, Becomes
    <2>2. m \in Matching(r) /\ m \in Sent
        BY <2>1 DEF Best, Fresh, Matching
    <2> DEFINE q == [at |-> "chosen", item |-> r, msg |-> m, fresh |-> TRUE,
                     was |-> status[m], seen |-> seen[m] \union {r}]
    <2>3. q \in Chosen
        BY <1>1, <2>2 DEF Chosen, RowsTyped
    <2>4. /\ q.item = r /\ q.at = "chosen" /\ q.msg = m /\ q.fresh
          /\ q.seen = seen[m] \union {r}
        OBVIOUS
    <2> QED  BY <1>1, <1>4, <2>1, <2>2, <2>3, <2>4
<1> QED  BY <1>2, <1>3, <1>4

(* The steps in which a task merely goes on to a place where it has nothing to keep. *)
GoesOn(s, t) ==
    /\ task' = [task EXCEPT ![s] = t]
    /\ \/ t \in Resting /\ (s \in Servers => t = Idle)
       \/ t \in Reading /\ (s = Command => t.item \in Receipts)
       \/ t \in Holding /\ (s = Command => t.at # "stored")
       \/ t \in Chosen

(* Going on, a task is still one of these. *)
LEMMA GoesTyped ==
    ASSUME ReceiptsMakeSense, TasksTyped, NEW s \in Tasks, NEW t, GoesOn(s, t)
    PROVE  TasksTyped'
<1>1. task' \in [Tasks -> Resting \union Reading \union Holding \union Chosen \union Filing]
    BY DEF TasksTyped, GoesOn
<1>2. task'[s] = t /\ \A u \in Tasks \ {s} : task'[u] = task[u]
    BY DEF TasksTyped, GoesOn
<1>3. Command \in Tasks /\ Servers \subseteq Tasks /\ Command \notin Servers
    BY DEF Tasks, ReceiptsMakeSense
<1>4. /\ t \in Resting /\ t = Idle => t.at = "idle"
      /\ t \in Resting => t.at \in {"idle", "next", "ended"}
      /\ t \in Reading => t.at = "in"
      /\ t \in Holding => t.at \in {"orphan", "seen", "stored"}
      /\ t \in Chosen => t.at = "chosen"
    BY DEF Resting, Idle, Reading, Holding, Chosen
<1>5. task'[Command].at # "stored"
    BY <1>2, <1>3, <1>4 DEF TasksTyped, GoesOn
<1>6. task'[Command].at = "in" => task'[Command].item \in Receipts
    BY <1>2, <1>3, <1>4 DEF TasksTyped, GoesOn
<1>7. \A h \in Servers : task'[h].at \notin {"next", "ended"}
    BY <1>2, <1>3, <1>4 DEF TasksTyped, GoesOn
<1> QED  BY <1>1, <1>5, <1>6, <1>7 DEF TasksTyped
(* Going on, a task neither tells the CRM nor is about to. *)
LEMMA GoesCounted ==
    ASSUME TasksTyped, RowsTyped, CountInv, NEW s \in Tasks, NEW t, GoesOn(s, t),
           UNCHANGED <<seen, told, overlaps>>
    PROVE  CountInv'
<1> SUFFICES ASSUME NEW r \in Receipts
             PROVE  /\ IsFiniteSet(Filers(r)')
                    /\ told'[r] + Cardinality(Filers(r)') + Open(r)' =< 1 + overlaps'
    BY DEF CountInv
<1>1. task'[s].at # "applied" /\ \A u \in Tasks \ {s} : task'[u] = task[u]
    BY DEF GoesOn, TasksTyped, Resting, Reading, Holding, Chosen
<1>2. Filers(r)' \subseteq Filers(r)
    BY <1>1 DEF Filers
<1>3. IsFiniteSet(Filers(r)) /\ told[r] + Cardinality(Filers(r)) + Open(r) =< 1 + overlaps
    BY DEF CountInv
<1>4. IsFiniteSet(Filers(r)') /\ Cardinality(Filers(r)') =< Cardinality(Filers(r))
    BY <1>2, <1>3, FS_Subset
<1>5. Open(r)' = Open(r)
    BY DEF Open, AlreadyApplied, Matching
<1>6. /\ Cardinality(Filers(r)') \in Nat /\ Cardinality(Filers(r)) \in Nat
      /\ told[r] \in Nat /\ overlaps \in Nat /\ Open(r) \in Nat
    BY <1>3, <1>4, FS_CardinalityType DEF RowsTyped, Open
<1> QED  BY <1>3, <1>4, <1>5, <1>6

(* Going on, a task has read what is so. *)
LEMMA GoesRead ==
    ASSUME TasksTyped, ReadInv, NEW s \in Tasks, NEW t, GoesOn(s, t), UNCHANGED <<seen, applied>>,
           t.at = "seen" => t.item \in applied,
           t.at = "orphan" => Matching(t.item) = {},
           t.at = "chosen" =>
                 /\ t.msg \in Matching(t.item) /\ t.item \in t.seen
                 /\ t.seen \subseteq applied \union {t.item}
                 /\ t.seen = seen[t.msg] \union {t.item} /\ ~AlreadyApplied(t.item)
    PROVE  ReadInv'
<1>1. task'[s] = t /\ t.at # "applied" /\ \A u \in Tasks \ {s} : task'[u] = task[u]
    BY DEF GoesOn, TasksTyped, Resting, Reading, Holding, Chosen
<1>2. \A r : Matching(r)' = Matching(r) /\ AlreadyApplied(r)' = AlreadyApplied(r)
    BY DEF Matching, AlreadyApplied
<1> QED  BY <1>1, <1>2 DEF ReadInv

(* What the requests do leaves the run where it is. *)
LEMMA RunWaits ==
    ASSUME RowsTyped, RunInv, UNCHANGED <<todo, marks, owing>>, task'[Command] = task[Command],
           applied \subseteq applied',
           \A i \in Payloads : /\ inbox[i] # "none" => inbox'[i] # "none"
                               /\ inbox[i] = "hidden" => inbox'[i] = "hidden"
    PROVE  RunInv'
<1>1. \A r \in owing : r \in Payloads
    BY DEF RowsTyped, Payloads
<1>2. \A r : Matching(r)' = Matching(r) /\ InHand(r)' = InHand(r)
    BY DEF Matching, InHand
<1> QED  BY <1>1, <1>2 DEF RunInv

(* A row of the inbox is changed, or none is. *)
LEMMA ThreadsStay ==
    ASSUME ReceiptsMakeSense, RowsTyped, TasksTyped, InboxInv, NEW s \in Tasks,
           \A u \in Tasks \ {s} : task'[u] = task[u],
           task[s].at # "stored" \/ slips' > 0, task'[s].at # "stored",
           slips' >= slips, UNCHANGED <<inbox, old>>,
           \A r \in acked' \intersect Receipts :
               posts'[r] > 0 => r \in applied' \/ inbox[r] # "none" \/ slips' > 0
    PROVE  InboxInv'
<1>1. \A u \in Tasks : task'[u].at = "stored" => task[u].at = "stored" /\ task'[u] = task[u]
    OBVIOUS
<1>2. \A u \in Tasks : task'[u].at = "stored" => inbox'[task'[u].item] # "none"
    BY <1>1 DEF InboxInv
<1>3. slips \in Nat /\ (slips' = 0 => slips = 0)
    BY DEF RowsTyped
<1>4. ThreadsAreClean'
    <2>1. \A i \in Others : inbox'[i] # "hidden"
        BY DEF InboxInv, ThreadsAreClean
    <2>2. ASSUME NEW r \in Receipts, inbox'[r] = "shown", r \notin old', slips' = 0
          PROVE  \E h \in Servers : task'[h].at = "stored" /\ task'[h].item = r
        <3>1. PICK h \in Servers : task[h].at = "stored" /\ task[h].item = r
            BY <1>3, <2>2 DEF InboxInv, ThreadsAreClean
        <3>2. h # s
            BY <2>2, <3>1
        <3> QED  BY <3>1, <3>2 DEF Tasks
    <2> QED  BY <2>1, <2>2 DEF ThreadsAreClean
<1> QED  BY <1>2, <1>3, <1>4 DEF InboxInv
-----------------------------------------------------------------------------
(* The carrier posts. *)
LEMMA PostedKeeps ==
    ASSUME ReceiptsMakeSense, ReceiptsInv, NEW h \in Servers, NEW i \in Payloads, Posted(h, i)
    PROVE  ReceiptsInv'
<1> USE DEF ReceiptsInv
<1>1. /\ task[h] = Idle /\ i \notin acked /\ posts' = [posts EXCEPT ![i] = @ + 1]
      /\ task' = [task EXCEPT ![h] = Task("in", i)]
      /\ UNCHANGED <<status, seen, inbox, acked, old, todo, marks, owing, runs, quiet, told,
                     applied, overlaps, slips>>
    BY DEF Posted, Becomes, rowVars, runVars, historyVars
<1>2. Task("in", i) \in Reading /\ Task("in", i).at = "in"
    BY DEF Task, Reading
<1>3. h \in Tasks /\ h # Command /\ Command \in Tasks
    BY DEF Tasks, ReceiptsMakeSense
<1>4. GoesOn(h, Task("in", i))
    BY <1>1, <1>2, <1>3 DEF GoesOn
<1>5. RowsTyped'
    BY <1>1 DEF RowsTyped, Shown
<1>6. task'[h].at = "in" /\ task[h].at = "idle" /\ \A u \in Tasks \ {h} : task'[u] = task[u]
    BY <1>1, <1>2, <1>3 DEF TasksTyped, Idle
<1>7. TasksTyped' /\ CountInv' /\ ReadInv'
    BY <1>1, <1>2, <1>3, <1>4, GoesTyped, GoesCounted, GoesRead
<1>8. \A r \in acked' \intersect Receipts :
          posts'[r] > 0 => r \in applied' \/ inbox[r] # "none" \/ slips' > 0
    BY <1>1 DEF InboxInv, RowsTyped, Payloads
<1>9. InboxInv'
    BY <1>1, <1>3, <1>6, <1>8, ThreadsStay DEF RowsTyped
<1>10. RunInv'
    BY <1>1, <1>3, <1>6, RunWaits
<1> QED  BY <1>5, <1>7, <1>9, <1>10

(* A request is over with nothing kept: its payload was a receipt that is applied,
   or it failed. *)
LEMMA Rests ==
    ASSUME ReceiptsMakeSense, ReceiptsInv, NEW h \in Servers,
           task' = [task EXCEPT ![h] = Idle], task[h].at # "stored" \/ slips' > 0,
           slips' = slips \/ slips' = slips + 1,
           UNCHANGED <<status, seen, inbox, posts, old, todo, marks, owing, quiet, told, applied,
                       overlaps>>,
           \A r \in (acked' \ acked) \intersect Receipts : r \in applied \/ slips' > 0
    PROVE  ReceiptsInv'
<1> USE DEF ReceiptsInv
<1>1. Idle \in Resting /\ Idle.at = "idle"
    BY DEF Idle, Resting
<1>2. h \in Tasks /\ h # Command /\ Command \in Tasks
    BY DEF Tasks, ReceiptsMakeSense
<1>3. GoesOn(h, Idle)
    BY <1>1, <1>2 DEF GoesOn
<1>4. RowsTyped'
    BY DEF RowsTyped, Shown
<1>5. task'[h].at = "idle" /\ \A u \in Tasks \ {h} : task'[u] = task[u]
    BY <1>1, <1>2 DEF TasksTyped
<1>6. TasksTyped' /\ CountInv' /\ ReadInv'
    BY <1>1, <1>2, <1>3, GoesTyped, GoesCounted, GoesRead
<1>7. slips' >= slips /\ slips \in Nat /\ slips' \in Nat
    BY DEF RowsTyped
<1>8. \A r \in acked' \intersect Receipts :
          posts'[r] > 0 => r \in applied' \/ inbox[r] # "none" \/ slips' > 0
    BY <1>7 DEF InboxInv
<1>9. InboxInv'
    BY <1>2, <1>5, <1>7, <1>8, ThreadsStay
<1>10. RunInv'
    BY <1>2, <1>5, RunWaits
<1> QED  BY <1>4, <1>6, <1>9, <1>10

(* The request is answered, fails, or dies. *)
LEMMA EndsKeep ==
    ASSUME ReceiptsMakeSense, ReceiptsInv, NEW h \in Servers,
           Acknowledges(h) \/ RequestFails(h) \/ RequestDies(h)
    PROVE  ReceiptsInv'
<1>1. h \in Tasks
    BY DEF Tasks
<1>2. CASE Acknowledges(h)
    <2>1. /\ task' = [task EXCEPT ![h] = Idle] /\ acked' = acked \union {task[h].item}
          /\ task[h].at = "seen"
          /\ UNCHANGED <<status, seen, inbox, posts, old, todo, marks, owing, quiet, told, applied,
                         overlaps, slips>>
        BY <1>2 DEF Acknowledges, Answered, Becomes, rowVars, runVars, historyVars
    <2>2. task[h].item \in applied
        BY <1>1, <2>1 DEF ReceiptsInv, ReadInv
    <2> QED  BY <2>1, <2>2, Rests
<1>3. CASE RequestFails(h)
    <2>1. /\ task' = [task EXCEPT ![h] = Idle] /\ slips' = slips + 1
          /\ UNCHANGED <<status, seen, inbox, posts, old, todo, marks, owing, quiet, told, applied,
                         overlaps>>
        BY <1>3 DEF RequestFails, Answered, Becomes, Fault, rowVars, runVars, historyVars
    <2>2. slips' > 0
        BY <2>1 DEF ReceiptsInv, RowsTyped
    <2> QED  BY <2>1, <2>2, Rests
<1>4. CASE RequestDies(h)
    <2>1. /\ task' = [task EXCEPT ![h] = Idle] /\ slips' = slips + 1
          /\ UNCHANGED <<status, seen, inbox, posts, old, todo, marks, owing, quiet, told, applied,
                         overlaps>>
        BY <1>4 DEF RequestDies, Becomes, Fault, rowVars, carrierVars, runVars, historyVars
    <2>2. slips' > 0
        BY <2>1 DEF ReceiptsInv, RowsTyped
    <2> QED  BY <2>1, <2>2, Rests
<1> QED  BY <1>2, <1>3, <1>4

(* A customer's text is ingested. *)
LEMMA IngestsKeeps ==
    ASSUME ReceiptsMakeSense, ReceiptsInv, NEW h \in Servers, Ingests(h)
    PROVE  ReceiptsInv'
<1> USE DEF ReceiptsInv
<1> DEFINE i == task[h].item
<1>1. /\ task[h].at = "in" /\ i \notin Receipts /\ inbox' = [inbox EXCEPT ![i] = "shown"]
      /\ task' = [task EXCEPT ![h] = Idle] /\ acked' = acked \union {i}
      /\ UNCHANGED <<status, seen, posts, old, todo, marks, owing, runs, quiet, told, applied,
                     overlaps, slips>>
    BY DEF Ingests, IsReceipt, Answered, Becomes, runVars, historyVars
<1>2. Idle \in Resting /\ Idle.at = "idle"
    BY DEF Idle, Resting
<1>3. h \in Tasks /\ h # Command /\ Command \in Tasks
    BY DEF Tasks, ReceiptsMakeSense
<1>4. GoesOn(h, Idle)
    BY <1>1, <1>2, <1>3 DEF GoesOn
<1>5. RowsTyped'
    BY <1>1 DEF RowsTyped, Shown
<1>6. task'[h].at = "idle" /\ \A u \in Tasks \ {h} : task'[u] = task[u]
    BY <1>1, <1>2, <1>3 DEF TasksTyped
<1>7. TasksTyped' /\ CountInv' /\ ReadInv'
    BY <1>1, <1>2, <1>3, <1>4, GoesTyped, GoesCounted, GoesRead
<1>8. \A r \in Receipts : inbox'[r] = inbox[r]
    BY <1>1 DEF RowsTyped, Payloads
<1>9. \A j \in Others : inbox'[j] = inbox[j] \/ inbox'[j] = "shown"
    BY <1>1 DEF RowsTyped, Payloads
<1>10. InboxInv'
    <2>1. \A u \in Tasks : task'[u].at = "stored" =>
              task'[u] = task[u] /\ task[u].item \in Receipts /\ u # h
        BY <1>6, TaskIs
    <2>2. \A u \in Tasks : task'[u].at = "stored" => inbox'[task'[u].item] # "none"
        BY <1>8, <2>1 DEF InboxInv
    <2>3. ASSUME NEW r \in Receipts, inbox'[r] = "shown", r \notin old', slips' = 0
          PROVE  \E g \in Servers : task'[g].at = "stored" /\ task'[g].item = r
        <3>1. PICK g \in Servers : task[g].at = "stored" /\ task[g].item = r
            BY <1>1, <1>8, <2>3 DEF InboxInv, ThreadsAreClean
        <3>2. g # h
            BY <1>1, <3>1
        <3> QED  BY <1>6, <3>1, <3>2 DEF Tasks
    <2>4. ThreadsAreClean'
        BY <1>9, <2>3 DEF InboxInv, ThreadsAreClean
    <2>5. slips' = 0 => \A r \in acked' \intersect Receipts :
              posts'[r] > 0 => r \in applied' \/ inbox'[r] # "none"
        BY <1>1, <1>8 DEF InboxInv
    <2> QED  BY <2>2, <2>4, <2>5 DEF InboxInv
<1>11. RunInv'
    <2>1. \A r \in owing : r \in Receipts
        BY DEF RowsTyped
    <2>2. \A r : Matching(r)' = Matching(r) /\ InHand(r)' = InHand(r)
        BY <1>3, <1>6 DEF Matching, InHand
    <2> QED  BY <1>1, <1>3, <1>6, <1>8, <2>1, <2>2 DEF RunInv
<1> QED  BY <1>5, <1>7, <1>10, <1>11

(* An orphan is stored, as a text. *)
LEMMA StoresKeeps ==
    ASSUME ReceiptsMakeSense, ReceiptsInv, NEW h \in Servers, StoresOrphan(h)
    PROVE  ReceiptsInv'
<1> USE DEF ReceiptsInv
<1> DEFINE i == task[h].item
<1>1. /\ task[h].at = "orphan"
      /\ inbox' = [inbox EXCEPT ![i] = IF @ = "none" THEN "shown" ELSE @]
      /\ task' = [task EXCEPT ![h] = Task("stored", i)]
      /\ UNCHANGED <<status, seen, posts, acked, old, todo, marks, owing, runs, quiet, told, applied,
                     overlaps, slips>>
    BY DEF StoresOrphan, Keeps, Becomes, carrierVars, runVars, historyVars
<1>2. h \in Tasks /\ h # Command /\ Command \in Tasks
    BY DEF Tasks, ReceiptsMakeSense
<1>3. i \in Receipts /\ i \in Payloads
    BY <1>1, <1>2, TaskIs DEF Payloads
<1>4. /\ Task("stored", i) \in Holding /\ Task("stored", i).at = "stored"
      /\ Task("stored", i).item = i
    BY <1>3 DEF Task, Holding
<1>5. GoesOn(h, Task("stored", i))
    BY <1>1, <1>2, <1>4 DEF GoesOn
<1>6. RowsTyped'
    BY <1>1 DEF RowsTyped, Shown
<1>7. /\ task'[h].at = "stored" /\ task'[h].item = i
      /\ \A u \in Tasks \ {h} : task'[u] = task[u]
    BY <1>1, <1>2, <1>4 DEF TasksTyped
<1>8. TasksTyped' /\ CountInv' /\ ReadInv'
    BY <1>1, <1>2, <1>4, <1>5, GoesTyped, GoesCounted, GoesRead
<1>9. /\ \A j \in Payloads : j # i => inbox'[j] = inbox[j]
      /\ inbox'[i] # "none" /\ (inbox[i] # "none" => inbox'[i] = inbox[i])
    BY <1>1, <1>3 DEF RowsTyped
<1>10. InboxInv'
    <2>1. ASSUME NEW u \in Tasks, task'[u].at = "stored"
          PROVE  inbox'[task'[u].item] # "none"
        <3>1. CASE u = h
            BY <1>7, <1>9, <3>1
        <3>2. CASE u # h
            <4>1. task[u].item \in Payloads
                BY <1>7, <2>1, <3>2, TaskIs DEF Payloads
            <4> QED  BY <1>7, <1>9, <2>1, <3>2, <4>1 DEF InboxInv
        <3> QED  BY <3>1, <3>2
    <2>2. ASSUME NEW r \in Receipts, inbox'[r] = "shown", r \notin old', slips' = 0
          PROVE  \E g \in Servers : task'[g].at = "stored" /\ task'[g].item = r
        <3>1. CASE r = i
            BY <1>7, <3>1
        <3>2. CASE r # i
            <4>1. PICK g \in Servers : task[g].at = "stored" /\ task[g].item = r
                BY <1>1, <1>9, <2>2, <3>2 DEF InboxInv, ThreadsAreClean, Payloads
            <4>2. g # h
                BY <1>1, <4>1
            <4> QED  BY <1>7, <4>1, <4>2 DEF Tasks
        <3> QED  BY <3>1, <3>2
    <2>3. \A j \in Others : inbox'[j] # "hidden"
        BY <1>3, <1>9 DEF InboxInv, ThreadsAreClean, Payloads, ReceiptsMakeSense
    <2>4. slips' = 0 => \A r \in acked' \intersect Receipts :
              posts'[r] > 0 => r \in applied' \/ inbox'[r] # "none"
        BY <1>1, <1>9 DEF InboxInv, Payloads
    <2> QED  BY <2>1, <2>2, <2>3, <2>4 DEF InboxInv, ThreadsAreClean
<1>11. RunInv'
    BY <1>1, <1>2, <1>7, <1>9, RunWaits
<1> QED  BY <1>6, <1>8, <1>10, <1>11

(* The orphan is hidden, and acknowledged. *)
LEMMA HidesKeeps ==
    ASSUME ReceiptsMakeSense, ReceiptsInv, NEW h \in Servers, HidesOrphan(h)
    PROVE  ReceiptsInv'
<1> USE DEF ReceiptsInv
<1> DEFINE i == task[h].item
<1>1. /\ task[h].at = "stored" /\ inbox' = Hidden({i})
      /\ task' = [task EXCEPT ![h] = Idle] /\ acked' = acked \union {i}
      /\ UNCHANGED <<status, seen, posts, old, todo, marks, owing, runs, quiet, told, applied,
                     overlaps, slips>>
    BY DEF HidesOrphan, Answered, Becomes, runVars, historyVars
<1>2. h \in Tasks /\ h # Command /\ Command \in Tasks
    BY DEF Tasks, ReceiptsMakeSense
<1>3. i \in Receipts /\ i \in Payloads /\ inbox[i] # "none"
    BY <1>1, <1>2, TaskIs DEF Payloads, InboxInv
<1>4. Idle \in Resting /\ Idle.at = "idle"
    BY DEF Idle, Resting
<1>5. GoesOn(h, Idle)
    BY <1>1, <1>2, <1>4 DEF GoesOn
<1>6. RowsTyped'
    BY <1>1, HiddenIs DEF RowsTyped, Shown
<1>7. task'[h].at = "idle" /\ \A u \in Tasks \ {h} : task'[u] = task[u]
    BY <1>1, <1>2, <1>4 DEF TasksTyped
<1>8. TasksTyped' /\ CountInv' /\ ReadInv'
    BY <1>1, <1>2, <1>4, <1>5, GoesTyped, GoesCounted, GoesRead
<1>9. \A j \in Payloads : /\ inbox[j] = "none" <=> inbox'[j] = "none"
                          /\ inbox[j] = "hidden" => inbox'[j] = "hidden"
                          /\ j # i => inbox'[j] = inbox[j]
                          /\ j = i => inbox'[j] # "shown"
    BY <1>1, HiddenIs
<1>10. InboxInv'
    <2>1. ASSUME NEW u \in Tasks, task'[u].at = "stored"
          PROVE  inbox'[task'[u].item] # "none"
        <3>1. u # h /\ task'[u] = task[u] /\ task[u].item \in Payloads
            BY <1>7, <2>1, TaskIs DEF Payloads
        <3> QED  BY <1>9, <2>1, <3>1 DEF InboxInv
    <2>2. ASSUME NEW r \in Receipts, inbox'[r] = "shown", r \notin old', slips' = 0
          PROVE  \E g \in Servers : task'[g].at = "stored" /\ task'[g].item = r
        <3>1. r # i /\ inbox[r] = "shown"
            BY <1>9, <2>2 DEF Payloads
        <3>2. PICK g \in Servers : task[g].at = "stored" /\ task[g].item = r
            BY <1>1, <2>2, <3>1 DEF InboxInv, ThreadsAreClean
        <3> QED  BY <1>7, <3>1, <3>2 DEF Tasks
    <2>3. \A j \in Others : inbox'[j] # "hidden"
        BY <1>3, <1>9 DEF InboxInv, ThreadsAreClean, Payloads, ReceiptsMakeSense
    <2>4. slips' = 0 => \A r \in acked' \intersect Receipts :
              posts'[r] > 0 => r \in applied' \/ inbox'[r] # "none"
        BY <1>1, <1>3, <1>9 DEF InboxInv, Payloads
    <2> QED  BY <2>1, <2>2, <2>3, <2>4 DEF InboxInv, ThreadsAreClean
<1>11. RunInv'
    BY <1>1, <1>2, <1>7, <1>9, RunWaits
<1> QED  BY <1>6, <1>8, <1>10, <1>11
(* The receipt's text is looked for. *)
LEMMA CorrelatesKeeps ==
    ASSUME ReceiptsMakeSense, ReceiptsInv, NEW s \in Tasks, Correlates(s)
    PROVE  ReceiptsInv'
<1> USE DEF ReceiptsInv
<1> DEFINE r == task[s].item
<1>1. PICK q \in Holding \union Chosen :
        /\ task' = [task EXCEPT ![s] = q] /\ q.item = r
        /\ \/ q.at = "orphan" /\ (r \in Others \/ Matching(r) = {})
           \/ q.at = "seen" /\ AlreadyApplied(r) /\ Matching(r) # {}
           \/ /\ q.at = "chosen" /\ q.msg \in Matching(r) /\ q.fresh
              /\ q.seen = seen[q.msg] \union {r} /\ ~AlreadyApplied(r) /\ Matching(r) # {}
    BY Finds
<1>2. task[s].at = "in" /\ r \in Receipts /\ r \notin Others
    BY Finds DEF ReceiptsMakeSense
<1>3. UNCHANGED <<status, seen, inbox, posts, acked, old, todo, marks, owing, runs, quiet, told,
                  applied, overlaps, slips>>
    BY DEF Correlates, rowVars, carrierVars, runVars, historyVars
<1>4. q \in Holding \/ q \in Chosen
    OBVIOUS
<1>5. q.at # "stored" /\ q.at \in {"orphan", "seen", "chosen"}
    BY <1>1
<1>6. GoesOn(s, q)
    BY <1>1, <1>4, <1>5 DEF GoesOn
<1>7. RowsTyped'
    BY <1>3 DEF RowsTyped, Shown
<1>8. task'[s] = q /\ \A u \in Tasks \ {s} : task'[u] = task[u]
    BY <1>1 DEF TasksTyped
<1>9. \A m \in Sent : seen[m] \subseteq applied
    BY DEF ReadInv
<1>10. q.at = "seen" => q.item \in applied
    BY <1>1, <1>9 DEF AlreadyApplied, Matching
<1>11. q.at = "orphan" => Matching(q.item) = {}
    BY <1>1, <1>2
<1>12. q.at = "chosen" =>
         /\ q.msg \in Matching(q.item) /\ q.item \in q.seen
         /\ q.seen \subseteq applied \union {q.item}
         /\ q.seen = seen[q.msg] \union {q.item} /\ ~AlreadyApplied(q.item)
    BY <1>1, <1>9 DEF Matching
<1>13. ReadInv'
    BY <1>3, <1>6, <1>10, <1>11, <1>12, GoesRead
<1>14. TasksTyped' /\ CountInv'
    BY <1>3, <1>6, GoesTyped, GoesCounted
<1>15. \A i \in acked' \intersect Receipts :
          posts'[i] > 0 => i \in applied' \/ inbox[i] # "none" \/ slips' > 0
    BY <1>3 DEF InboxInv, RowsTyped
<1>16. InboxInv'
    BY <1>2, <1>3, <1>5, <1>8, <1>15, ThreadsStay DEF RowsTyped
<1>17. RunInv'
    <2>1. Command \in Tasks
        BY DEF Tasks
    <2>2. \A i : InHand(i)' <=> InHand(i)
        BY <1>1, <1>2, <1>5, <1>8, <2>1 DEF InHand
    <2>3. \A i : Matching(i)' = Matching(i)
        BY DEF Matching
    <2>4. task'[Command].at = "ended" => task[Command].at = "ended"
        BY <1>5, <1>8, <2>1
    <2> QED  BY <1>3, <2>2, <2>3, <2>4 DEF RunInv
<1> QED  BY <1>7, <1>13, <1>14, <1>16, <1>17

(* The CRM is told, or is not. *)
LEMMA TellsKeeps ==
    ASSUME ReceiptsMakeSense, ReceiptsInv, NEW s \in Tasks, Tells(s)
    PROVE  ReceiptsInv'
<1> USE DEF ReceiptsInv
<1> DEFINE r == task[s].item
<1>1. /\ task[s].at = "applied" /\ task' = [task EXCEPT ![s] = Task("seen", r)]
      /\ told' = told \/ told' = [told EXCEPT ![r] = @ + 1]
      /\ slips' = slips \/ slips' = slips + 1
      /\ UNCHANGED <<status, seen, inbox, posts, acked, old, todo, marks, owing, runs, quiet,
                     applied, overlaps>>
    BY DEF Tells, Becomes, Fault, rowVars, carrierVars, runVars
<1>2. r \in Receipts /\ r \in applied
    BY <1>1, TaskIs DEF ReadInv
<1>3. Task("seen", r) \in Holding /\ Task("seen", r).at = "seen" /\ Task("seen", r).item = r
    BY <1>2 DEF Task, Holding
<1>4. GoesOn(s, Task("seen", r))
    BY <1>1, <1>3 DEF GoesOn
<1>5. RowsTyped'
    BY <1>1 DEF RowsTyped, Shown
<1>6. /\ task'[s].at = "seen" /\ task'[s].item = r
      /\ \A u \in Tasks \ {s} : task'[u] = task[u]
    BY <1>1, <1>3 DEF TasksTyped
<1>7. TasksTyped' /\ ReadInv'
    BY <1>1, <1>2, <1>3, <1>4, GoesTyped, GoesRead
<1>8. slips' >= slips /\ slips \in Nat /\ slips' \in Nat
    BY <1>1 DEF RowsTyped
<1>9. \A i \in acked' \intersect Receipts :
          posts'[i] > 0 => i \in applied' \/ inbox[i] # "none" \/ slips' > 0
    BY <1>1, <1>8 DEF InboxInv
<1>10. InboxInv'
    BY <1>1, <1>6, <1>8, <1>9, ThreadsStay
<1>11. RunInv'
    <2>1. Command \in Tasks
        BY DEF Tasks
    <2>2. \A i : InHand(i)' <=> InHand(i)
        BY <1>1, <1>6, <2>1 DEF InHand
    <2>3. \A i : Matching(i)' = Matching(i)
        BY DEF Matching
    <2>4. task'[Command].at = "ended" => task[Command].at = "ended"
        BY <1>6, <2>1
    <2> QED  BY <1>1, <2>2, <2>3, <2>4 DEF RunInv
<1>12. CountInv'
    <2> SUFFICES ASSUME NEW i \in Receipts
                 PROVE  /\ IsFiniteSet(Filers(i)')
                        /\ told'[i] + Cardinality(Filers(i)') + Open(i)' =< 1 + overlaps'
        BY DEF CountInv
    <2>1. IsFiniteSet(Filers(i)) /\ told[i] + Cardinality(Filers(i)) + Open(i) =< 1 + overlaps
        BY DEF CountInv
    <2>2. Open(i)' = Open(i)
        BY <1>1 DEF Open, AlreadyApplied, Matching
    <2>3. /\ Cardinality(Filers(i)) \in Nat /\ told[i] \in Nat /\ overlaps \in Nat /\ Open(i) \in Nat
        BY <2>1, FS_CardinalityType DEF RowsTyped, Open
    <2>4. CASE i = r
        <3>1. Filers(i)' = Filers(i) \ {s} /\ s \in Filers(i)
            BY <1>1, <1>6, <2>4 DEF Filers
        <3>2. IsFiniteSet(Filers(i)') /\ Cardinality(Filers(i)') = Cardinality(Filers(i)) - 1
            BY <2>1, <3>1, FS_RemoveElement
        <3>3. told'[i] =< told[i] + 1 /\ told'[i] \in Nat
            BY <1>1, <1>2, <2>4 DEF RowsTyped
        <3> QED  BY <1>1, <2>1, <2>2, <2>3, <3>2, <3>3
    <2>5. CASE i # r
        <3>1. Filers(i)' = Filers(i)
            BY <1>1, <1>6, <2>5 DEF Filers
        <3>2. told'[i] = told[i]
            BY <1>1, <2>5 DEF RowsTyped
        <3> QED  BY <1>1, <2>1, <2>2, <3>1, <3>2
    <2> QED  BY <2>4, <2>5
<1> QED  BY <1>5, <1>7, <1>10, <1>11, <1>12

(* A choice is committed: what it is of, and what it may take back. *)
LEMMA CommitCounted ==
    ASSUME ReceiptsMakeSense, ReceiptsInv, NEW s \in Tasks, Applies(s)
    PROVE  CountInv'
<1> USE DEF ReceiptsInv
<1> DEFINE q == task[s]
<1>1. /\ q \in Chosen /\ q.at = "chosen" /\ task'[s].at = "applied" /\ task'[s].item = q.item
      /\ \A t \in Tasks \ {s} : task'[t].at = task[t].at
                                /\ (task[t].at = "applied" => task'[t] = task[t])
    <2>1. /\ q \in Chosen /\ q.at = "chosen"
          /\ task'[s] = [at |-> "applied", item |-> q.item, msg |-> q.msg]
          /\ \A t \in Tasks \ {s} : /\ task[t].at # "chosen" => task'[t] = task[t]
                                    /\ task[t].at = "chosen" => task'[t].at = "chosen"
        BY Commits
    <2>2. task'[s].at = "applied" /\ task'[s].item = q.item
        BY <2>1
    <2>3. \A t \in Tasks \ {s} : /\ task'[t].at = task[t].at
                                /\ task[t].at = "applied" => task'[t] = task[t]
        BY <2>1
    <2> QED  BY <2>1, <2>2, <2>3
<1>2. /\ seen' = [seen EXCEPT ![q.msg] = q.seen] /\ told' = told
      /\ overlaps' = IF q.fresh THEN overlaps ELSE overlaps + 1
    BY DEF Applies
<1>3. /\ q.item \in Receipts /\ q.msg \in Sent /\ q.fresh \in BOOLEAN
      /\ q.msg \in Matching(q.item) /\ q.item \in q.seen
      /\ q.fresh => q.seen = seen[q.msg] \union {q.item} /\ ~AlreadyApplied(q.item)
    BY <1>1 DEF Chosen, ReadInv
<1>4. seen'[q.msg] = q.seen /\ \A m \in Sent : m # q.msg => seen'[m] = seen[m]
    BY <1>2, <1>3 DEF RowsTyped
<1> SUFFICES ASSUME NEW i \in Receipts
             PROVE  /\ IsFiniteSet(Filers(i)')
                    /\ told'[i] + Cardinality(Filers(i)') + Open(i)' =< 1 + overlaps'
    BY DEF CountInv
<1>5. IsFiniteSet(Filers(i)) /\ told[i] + Cardinality(Filers(i)) + Open(i) =< 1 + overlaps
    BY DEF CountInv
<1>6. /\ Cardinality(Filers(i)) \in Nat /\ told[i] \in Nat /\ overlaps \in Nat
      /\ Open(i) \in {0, 1} /\ Open(i)' \in {0, 1}
    BY <1>5, FS_CardinalityType DEF RowsTyped, Open
<1>7. CASE i = q.item
    <2>1. Filers(i)' = Filers(i) \union {s} /\ s \notin Filers(i)
        BY <1>1, <1>7 DEF Filers
    <2>2. IsFiniteSet(Filers(i)') /\ Cardinality(Filers(i)') = Cardinality(Filers(i)) + 1
        BY <1>5, <2>1, FS_AddElement
    <2>3. Open(i)' = 0
        BY <1>3, <1>4, <1>7 DEF Open, AlreadyApplied, Matching
    <2>4. q.fresh => Open(i) = 1
        BY <1>3, <1>7 DEF Open
    <2>5. CASE q.fresh
        BY <1>2, <1>5, <1>6, <2>2, <2>3, <2>4, <2>5
    <2>6. CASE ~q.fresh
        <3>1. overlaps' = overlaps + 1
            BY <1>2, <2>6
        <3> QED  BY <1>2, <1>5, <1>6, <2>2, <2>3, <3>1
    <2> QED  BY <2>5, <2>6
<1>8. CASE i # q.item
    <2>1. Filers(i)' = Filers(i)
        BY <1>1, <1>8 DEF Filers
    <2>2. CASE q.fresh
        <3>1. AlreadyApplied(i) => AlreadyApplied(i)'
            BY <1>3, <1>4, <2>2 DEF AlreadyApplied, Matching
        <3>2. Open(i)' =< Open(i)
            BY <3>1 DEF Open
        <3> QED  BY <1>2, <1>5, <1>6, <2>1, <2>2, <3>2
    <2>3. CASE ~q.fresh
        <3>1. overlaps' = overlaps + 1
            BY <1>2, <2>3
        <3> QED  BY <1>2, <1>5, <1>6, <2>1, <3>1
    <2> QED  BY <2>2, <2>3
<1> QED  BY <1>7, <1>8

(* The whole of ReceiptsInv across that commit. *)
LEMMA AppliesKeeps ==
    ASSUME ReceiptsMakeSense, ReceiptsInv, NEW s \in Tasks, Applies(s)
    PROVE  ReceiptsInv'
<1> USE DEF ReceiptsInv
<1> DEFINE q == task[s]
           new == Advance(q.was, Stat[q.item])
<1>1. /\ q.at = "chosen"
      /\ status' = IF new # q.was THEN [status EXCEPT ![q.msg] = new] ELSE status
      /\ seen' = [seen EXCEPT ![q.msg] = q.seen]
      /\ inbox' = IF s = Command THEN Hidden(marks) ELSE inbox
      /\ marks' = IF s = Command THEN {} ELSE marks
      /\ applied' = applied \union {q.item}
      /\ overlaps' = IF q.fresh THEN overlaps ELSE overlaps + 1
      /\ UNCHANGED <<posts, acked, old, todo, owing, runs, quiet, told, slips>>
    BY DEF Applies, carrierVars
<1>2. /\ q \in Chosen
      /\ task' \in [Tasks -> Resting \union Reading \union Holding \union Chosen \union Filing]
      /\ task'[s] = [at |-> "applied", item |-> q.item, msg |-> q.msg]
      /\ \A t \in Tasks \ {s} :
            /\ task[t].at # "chosen" => task'[t] = task[t]
            /\ task[t].at = "chosen" =>
                  /\ task'[t] \in Chosen /\ task'[t].at = "chosen" /\ ~task'[t].fresh
                  /\ task'[t].item = task[t].item /\ task'[t].msg = task[t].msg
                  /\ task'[t].seen = task[t].seen
    BY Commits
<1>3. /\ q.item \in Receipts /\ q.msg \in Sent /\ q.was \in Shown /\ q.seen \subseteq Receipts
      /\ q.fresh \in BOOLEAN
    BY <1>2 DEF Chosen
<1>4. task'[s].at = "applied" /\ task'[s].item = q.item /\ task'[s].msg = q.msg
    BY <1>2
<1>5. Command \in Tasks /\ Servers \subseteq Tasks /\ Command \notin Servers
    BY DEF Tasks, ReceiptsMakeSense
<1>6. new \in Shown
    BY <1>3 DEF Advance, Shown
<1>7. /\ inbox' \in [Payloads -> {"none", "shown", "hidden"}]
      /\ \A i \in Payloads : /\ inbox[i] = "none" <=> inbox'[i] = "none"
                             /\ inbox[i] = "hidden" => inbox'[i] = "hidden"
                             /\ inbox'[i] = "shown" => inbox[i] = "shown"
                             /\ i \notin Receipts => inbox'[i] = inbox[i]
    BY <1>1, HiddenIs DEF RowsTyped
<1>8. RowsTyped'
    <2>1. status' \in [Sent -> Shown]
        BY <1>1, <1>3, <1>6 DEF RowsTyped
    <2>2. seen' \in [Sent -> SUBSET Receipts]
        BY <1>1, <1>3 DEF RowsTyped
    <2>3. overlaps' \in Nat
        BY <1>1 DEF RowsTyped
    <2>4. marks' \subseteq Receipts /\ applied' \subseteq Receipts
        BY <1>1, <1>3 DEF RowsTyped
    <2> QED  BY <1>1, <1>7, <2>1, <2>2, <2>3, <2>4 DEF RowsTyped, Shown
<1>9. TasksTyped'
    BY <1>2, <1>4, <1>5 DEF TasksTyped
<1>10. ReadInv'
    <2>1. /\ q.item \in q.seen /\ q.seen \subseteq applied \union {q.item}
          /\ \A m \in Sent : seen[m] \subseteq applied
        BY <1>1 DEF ReadInv
    <2>2. \A m \in Sent : seen'[m] \subseteq applied'
        BY <1>1, <1>3, <2>1 DEF RowsTyped
    <2>3. ASSUME NEW t \in Tasks, task'[t].at \in {"seen", "applied"}
          PROVE  task'[t].item \in applied'
        BY <1>1, <1>2, <1>4, <2>3 DEF ReadInv
    <2>4. ASSUME NEW t \in Tasks, task'[t].at = "orphan"
          PROVE  Matching(task'[t].item) = {}
        BY <1>2, <1>4, <2>4 DEF ReadInv
    <2>5. ASSUME NEW t \in Tasks, task'[t].at = "chosen"
          PROVE  /\ task'[t].msg \in Matching(task'[t].item) /\ task'[t].item \in task'[t].seen
                 /\ task'[t].seen \subseteq applied' \union {task'[t].item} /\ ~task'[t].fresh
        <3>1. t # s /\ task[t].at = "chosen"
            BY <1>2, <1>4, <2>5
        <3> QED  BY <1>1, <1>2, <3>1 DEF ReadInv
    <2>6. \A i : Matching(i)' = Matching(i)
        BY DEF Matching
    <2> QED  BY <2>2, <2>3, <2>4, <2>5, <2>6 DEF ReadInv
<1>11. InboxInv'
    <2>1. ASSUME NEW t \in Tasks, task'[t].at = "stored"
          PROVE  inbox'[task'[t].item] # "none"
        <3>1. task'[t] = task[t] /\ task[t].at = "stored"
            BY <1>2, <1>4, <2>1
        <3>2. task[t].item \in Payloads
            BY <3>1, TaskIs DEF Payloads
        <3> QED  BY <1>7, <3>1, <3>2 DEF InboxInv
    <2>2. ASSUME NEW r \in Receipts, inbox'[r] = "shown", r \notin old', slips' = 0
          PROVE  \E g \in Servers : task'[g].at = "stored" /\ task'[g].item = r
        <3>1. inbox[r] = "shown"
            BY <1>7, <2>2 DEF Payloads
        <3>2. PICK g \in Servers : task[g].at = "stored" /\ task[g].item = r
            BY <1>1, <2>2, <3>1 DEF InboxInv, ThreadsAreClean
        <3> QED  BY <1>1, <1>2, <1>5, <3>2
    <2>3. \A j \in Others : inbox'[j] # "hidden"
        BY <1>7 DEF InboxInv, ThreadsAreClean, Payloads, ReceiptsMakeSense
    <2>4. slips' = 0 => \A r \in acked' \intersect Receipts :
              posts'[r] > 0 => r \in applied' \/ inbox'[r] # "none"
        BY <1>1, <1>7 DEF InboxInv, Payloads
    <2> QED  BY <2>1, <2>2, <2>3, <2>4 DEF InboxInv, ThreadsAreClean
<1>12. RunInv'
    <2>1. \A i : Matching(i)' = Matching(i)
        BY DEF Matching
    <2>2. \A r \in owing : r \in Receipts /\ r \in Payloads
        BY DEF RowsTyped, Payloads
    <2>3. task'[Command].at = "ended" => task[Command].at = "ended" /\ s # Command
        BY <1>2, <1>4, <1>5
    <2>4. \A i : InHand(i) => InHand(i)'
        <3>1. CASE s = Command
            BY <1>4, <3>1 DEF InHand
        <3>2. CASE s # Command
            BY <1>2, <1>5, <3>2 DEF InHand
        <3> QED  BY <3>1, <3>2
    <2>5. ASSUME NEW r \in owing
          PROVE  r \in todo \/ InHand(r)'
                 \/ (r \in applied' /\ (r \in marks' \/ inbox'[r] = "hidden"))
        <3>1. inbox[r] # "none"
            BY DEF RunInv
        <3>2. s = Command /\ r \in marks => inbox'[r] = "hidden"
            <4>1. s = Command /\ r \in marks => Hidden(marks)[r] # "shown" /\ Hidden(marks)[r] # "none"
                BY <2>2, <3>1, HiddenIs
            <4>2. inbox'[r] \in {"none", "shown", "hidden"}
                BY <1>7, <2>2
            <4> QED  BY <1>1, <4>1, <4>2
        <3> QED  BY <1>1, <1>7, <2>2, <2>4, <3>2 DEF RunInv
    <2>6. \A r \in owing : inbox'[r] # "none"
        BY <1>7, <2>2 DEF RunInv
    <2> QED  BY <1>1, <2>1, <2>3, <2>5, <2>6 DEF RunInv
<1> QED  BY <1>8, <1>9, <1>10, <1>11, <1>12, CommitCounted
-----------------------------------------------------------------------------
(* The command goes on to a place where it holds nothing, or takes a receipt. *)
LEMMA CommandMoves ==
    ASSUME ReceiptsMakeSense, ReceiptsInv, NEW t, task' = [task EXCEPT ![Command] = t],
           t \in Resting \/ (t \in Reading /\ t.item \in Receipts),
           slips' = slips \/ slips' = slips + 1, quiet' \in BOOLEAN,
           todo' \subseteq Receipts, marks' \subseteq Receipts, owing' \subseteq Receipts,
           UNCHANGED <<status, seen, inbox, posts, acked, old, told, applied, overlaps>>
    PROVE  /\ RowsTyped' /\ TasksTyped' /\ ReadInv' /\ CountInv' /\ InboxInv'
           /\ task'[Command] = t
<1> USE DEF ReceiptsInv
<1>1. Command \in Tasks /\ Command \notin Servers
    BY DEF Tasks, ReceiptsMakeSense
<1>2. t.at \in {"idle", "next", "ended", "in"}
    BY DEF Resting, Reading
<1>3. GoesOn(Command, t)
    BY <1>1 DEF GoesOn
<1>4. RowsTyped'
    BY DEF RowsTyped, Shown
<1>5. task'[Command] = t /\ \A u \in Tasks \ {Command} : task'[u] = task[u]
    BY <1>1 DEF TasksTyped
<1>6. TasksTyped' /\ CountInv' /\ ReadInv'
    BY <1>1, <1>2, <1>3, GoesTyped, GoesCounted, GoesRead
<1>7. slips' >= slips /\ slips \in Nat /\ slips' \in Nat
    BY DEF RowsTyped
<1>8. \A r \in acked' \intersect Receipts :
          posts'[r] > 0 => r \in applied' \/ inbox[r] # "none" \/ slips' > 0
    BY <1>7 DEF InboxInv
<1>9. task[Command].at # "stored" /\ task'[Command].at # "stored"
    BY <1>2, <1>5 DEF TasksTyped
<1>10. InboxInv'
    BY <1>1, <1>5, <1>7, <1>8, <1>9, ThreadsStay
<1> QED  BY <1>4, <1>5, <1>6, <1>10

(* The run sets out to see to every receipt it finds. *)
LEMMA StartKeeps ==
    ASSUME ReceiptsMakeSense, ReceiptsInv, RunStarts
    PROVE  ReceiptsInv'
<1> DEFINE t == [at |-> "next"]
<1>1. /\ task' = [task EXCEPT ![Command] = t] /\ quiet' \in BOOLEAN
      /\ todo' = Stored /\ marks' = {} /\ owing' = {r \in Stored : Matching(r) # {}}
      /\ UNCHANGED <<status, seen, inbox, posts, acked, old, told, applied, overlaps, slips>>
    BY DEF RunStarts, Becomes, rowVars, carrierVars, historyVars
<1>2. t \in Resting /\ t.at = "next"
    BY DEF Resting
<1>3. /\ RowsTyped' /\ TasksTyped' /\ ReadInv' /\ CountInv' /\ InboxInv' /\ task'[Command] = t
    BY <1>1, <1>2, CommandMoves DEF Stored
<1>4. RunInv'
    BY <1>1, <1>3 DEF RunInv, Stored, Matching
<1> QED  BY <1>3, <1>4 DEF ReceiptsInv

(* It takes the next. *)
LEMMA TakeKeeps ==
    ASSUME ReceiptsMakeSense, ReceiptsInv, RunTakes
    PROVE  ReceiptsInv'
<1>1. PICK r \in todo : /\ todo' = todo \ {r} /\ task' = [task EXCEPT ![Command] = Task("in", r)]
    BY DEF RunTakes, Becomes
<1>2. /\ task[Command].at = "next"
      /\ UNCHANGED <<status, seen, inbox, posts, acked, old, marks, owing, quiet, told, applied,
                     overlaps, slips>>
    BY DEF RunTakes, rowVars, carrierVars, historyVars
<1>3. /\ todo \subseteq Receipts /\ marks \subseteq Receipts /\ owing \subseteq Receipts
      /\ quiet \in BOOLEAN
    BY DEF ReceiptsInv, RowsTyped
<1>4. Task("in", r) \in Reading /\ Task("in", r).item = r /\ Task("in", r).at = "in"
    BY <1>1, <1>3 DEF Task, Reading, Payloads
<1>5. /\ RowsTyped' /\ TasksTyped' /\ ReadInv' /\ CountInv' /\ InboxInv'
      /\ task'[Command] = Task("in", r)
    BY <1>1, <1>2, <1>3, <1>4, CommandMoves
<1>6. \A i : InHand(i)' <=> i = r
    BY <1>4, <1>5 DEF InHand
<1>7. \A i : ~InHand(i) /\ Matching(i)' = Matching(i)
    BY <1>2 DEF InHand, Matching
<1>8. RunInv'
    BY <1>1, <1>2, <1>4, <1>5, <1>6, <1>7 DEF ReceiptsInv, RunInv
<1> QED  BY <1>5, <1>8 DEF ReceiptsInv

(* It has seen to one: applied before or now, or of no known text. *)
LEMMA MarkKeeps ==
    ASSUME ReceiptsMakeSense, ReceiptsInv, RunMarks
    PROVE  ReceiptsInv'
<1> DEFINE t == [at |-> "next"]
           r == task[Command].item
<1>1. /\ task[Command].at \in {"seen", "orphan"} /\ marks' = marks \union {r}
      /\ task' = [task EXCEPT ![Command] = t]
      /\ UNCHANGED <<status, seen, inbox, posts, acked, old, todo, owing, quiet, told, applied,
                     overlaps, slips>>
    BY DEF RunMarks, Becomes, rowVars, carrierVars, historyVars
<1>2. t \in Resting /\ t.at = "next" /\ Command \in Tasks
    BY DEF Resting, Tasks
<1>3. r \in Receipts
    BY <1>1, <1>2, TaskIs DEF ReceiptsInv
<1>4. /\ todo \subseteq Receipts /\ marks \subseteq Receipts /\ owing \subseteq Receipts
      /\ quiet \in BOOLEAN
    BY DEF ReceiptsInv, RowsTyped
<1>5. /\ RowsTyped' /\ TasksTyped' /\ ReadInv' /\ CountInv' /\ InboxInv' /\ task'[Command] = t
    BY <1>1, <1>2, <1>3, <1>4, CommandMoves
<1>6. \A i : /\ InHand(i) => i = r
             /\ Matching(i)' = Matching(i)
    BY DEF InHand, Matching
<1>7. r \in owing => r \in applied
    BY <1>1, <1>2 DEF ReceiptsInv, ReadInv, RunInv
<1>8. RunInv'
    BY <1>1, <1>2, <1>5, <1>6, <1>7 DEF ReceiptsInv, RunInv
<1> QED  BY <1>5, <1>8 DEF ReceiptsInv

(* It ends: what it has marked is hidden. *)
LEMMA RunEndKeeps ==
    ASSUME ReceiptsMakeSense, ReceiptsInv, RunEnds
    PROVE  ReceiptsInv'
<1> USE DEF ReceiptsInv
<1> DEFINE t == [at |-> "ended"]
<1>1. /\ task[Command].at = "next" /\ todo = {} /\ inbox' = Hidden(marks) /\ marks' = {}
      /\ task' = [task EXCEPT ![Command] = t]
      /\ UNCHANGED <<status, seen, posts, acked, old, todo, owing, quiet, told, applied, overlaps,
                     slips>>
    BY DEF RunEnds, CommitsMarks, Becomes, carrierVars, historyVars
<1>2. t \in Resting /\ t.at = "ended" /\ Command \in Tasks
    BY DEF Resting, Tasks
<1>3. GoesOn(Command, t) /\ Command \notin Servers
    BY <1>1, <1>2 DEF GoesOn, ReceiptsMakeSense
<1>4. /\ inbox' \in [Payloads -> {"none", "shown", "hidden"}]
      /\ \A i \in Payloads : /\ inbox[i] = "none" <=> inbox'[i] = "none"
                             /\ inbox[i] = "hidden" => inbox'[i] = "hidden"
                             /\ inbox'[i] = "shown" => inbox[i] = "shown"
                             /\ i \in marks => inbox'[i] # "shown"
                             /\ i \notin Receipts => inbox'[i] = inbox[i]
    BY <1>1, HiddenIs DEF RowsTyped
<1>5. RowsTyped'
    BY <1>1, <1>4 DEF RowsTyped, Shown
<1>6. TasksTyped' /\ CountInv' /\ ReadInv'
    BY <1>1, <1>2, <1>3, GoesTyped, GoesCounted, GoesRead
<1>7. task'[Command].at = "ended" /\ \A u \in Tasks \ {Command} : task'[u] = task[u]
    BY <1>1, <1>2 DEF TasksTyped
<1>8. InboxInv'
    <2>1. ASSUME NEW u \in Tasks, task'[u].at = "stored"
          PROVE  inbox'[task'[u].item] # "none"
        <3>1. task'[u] = task[u] /\ task[u].at = "stored"
            BY <1>7, <2>1
        <3>2. task[u].item \in Payloads
            BY <3>1, TaskIs DEF Payloads
        <3> QED  BY <1>4, <3>1, <3>2 DEF InboxInv
    <2>2. ASSUME NEW r \in Receipts, inbox'[r] = "shown", r \notin old', slips' = 0
          PROVE  \E g \in Servers : task'[g].at = "stored" /\ task'[g].item = r
        <3>1. inbox[r] = "shown"
            BY <1>4, <2>2 DEF Payloads
        <3>2. PICK g \in Servers : task[g].at = "stored" /\ task[g].item = r
            BY <1>1, <2>2, <3>1 DEF InboxInv, ThreadsAreClean
        <3> QED  BY <1>3, <1>7, <3>2 DEF Tasks
    <2>3. \A j \in Others : inbox'[j] # "hidden"
        BY <1>4 DEF InboxInv, ThreadsAreClean, Payloads, ReceiptsMakeSense
    <2>4. slips' = 0 => \A r \in acked' \intersect Receipts :
              posts'[r] > 0 => r \in applied' \/ inbox'[r] # "none"
        BY <1>1, <1>4 DEF InboxInv, Payloads
    <2> QED  BY <2>1, <2>2, <2>3, <2>4 DEF InboxInv, ThreadsAreClean
<1>9. RunInv'
    <2>1. \A i : Matching(i)' = Matching(i) /\ ~InHand(i)
        BY <1>1 DEF Matching, InHand
    <2>2. ASSUME NEW r \in owing
          PROVE  inbox'[r] = "hidden" /\ r \in applied /\ Matching(r) # {}
        <3>1. /\ inbox[r] # "none" /\ Matching(r) # {} /\ r \in applied
              /\ r \in marks \/ inbox[r] = "hidden"
            BY <1>1, <2>1 DEF RunInv
        <3>2. r \in Payloads
            BY DEF RowsTyped, Payloads
        <3> QED  BY <1>4, <3>1, <3>2
    <2> QED  BY <1>1, <2>1, <2>2 DEF RunInv
<1> QED  BY <1>5, <1>6, <1>8, <1>9

(* It fails, or is stopped: what it had committed stands. *)
LEMMA DeathKeeps ==
    ASSUME ReceiptsMakeSense, ReceiptsInv, RunDies
    PROVE  ReceiptsInv'
<1>1. /\ task' = [task EXCEPT ![Command] = Idle] /\ todo' = {} /\ marks' = {} /\ owing' = {}
      /\ slips' = slips + 1
      /\ UNCHANGED <<status, seen, inbox, posts, acked, old, quiet, told, applied, overlaps>>
    BY DEF RunDies, Becomes, Fault, rowVars, carrierVars, historyVars
<1>2. Idle \in Resting /\ quiet \in BOOLEAN
    BY DEF Resting, Idle, ReceiptsInv, RowsTyped
<1>3. /\ RowsTyped' /\ TasksTyped' /\ ReadInv' /\ CountInv' /\ InboxInv' /\ task'[Command] = Idle
    BY <1>1, <1>2, CommandMoves
<1>4. RunInv'
    BY <1>1, <1>3 DEF RunInv, Idle
<1> QED  BY <1>3, <1>4 DEF ReceiptsInv

(* Before anything is posted. *)
LEMMA ReceiptsStart ==
    ASSUME ReceiptsMakeSense, ReceiptsInit
    PROVE  ReceiptsInv
<1> USE DEF ReceiptsInv
<1>1. PICK stored \in SUBSET Receipts, live \in Traffic : StartWith(stored, live)
    BY DEF ReceiptsInit
<1>2. /\ status = [m \in Sent |-> "sent"] /\ seen = [m \in Sent |-> {}]
      /\ inbox = [i \in Payloads |-> IF i \in stored THEN "shown" ELSE "none"]
      /\ posts = [i \in Payloads |-> 0] /\ old = stored
      /\ task = [s \in Tasks |-> Idle]
      /\ todo = {} /\ marks = {} /\ owing = {} /\ quiet = FALSE
      /\ told = [r \in Receipts |-> 0] /\ applied = {} /\ overlaps = 0 /\ slips = 0
    BY <1>1 DEF StartWith
<1>3. Command \in Tasks /\ Servers \subseteq Tasks
    BY DEF Tasks
<1>4. Idle \in Resting /\ Idle.at = "idle"
    BY DEF Idle, Resting
<1>5. RowsTyped
    BY <1>2 DEF RowsTyped, Shown
<1>6. \A s \in Tasks : task[s].at = "idle"
    BY <1>2, <1>4
<1>7. TasksTyped
    BY <1>2, <1>3, <1>4, <1>6 DEF TasksTyped
<1>8. ReadInv
    BY <1>2, <1>6 DEF ReadInv
<1>9. CountInv
    <2> SUFFICES ASSUME NEW r \in Receipts
                 PROVE  /\ IsFiniteSet(Filers(r))
                        /\ told[r] + Cardinality(Filers(r)) + Open(r) =< 1 + overlaps
        BY DEF CountInv
    <2>1. Filers(r) = {}
        BY <1>6 DEF Filers
    <2>2. IsFiniteSet(Filers(r)) /\ Cardinality(Filers(r)) = 0
        BY <2>1, FS_EmptySet
    <2>3. Open(r) \in {0, 1}
        BY DEF Open
    <2> QED  BY <1>2, <2>2, <2>3
<1>10. InboxInv
    BY <1>2, <1>6 DEF InboxInv, ThreadsAreClean, Payloads, ReceiptsMakeSense
<1>11. RunInv
    BY <1>2 DEF RunInv
<1> QED  BY <1>5, <1>7, <1>8, <1>9, <1>10, <1>11

(* Whatever the carrier posts, whoever handles it, and whenever the command runs, the
   parts of ReceiptsInv hold. *)
THEOREM ReceiptsInvariant ==
    ASSUME ReceiptsMakeSense
    PROVE  ReceiptsSpec => []ReceiptsInv
<1>1. ReceiptsInit => ReceiptsInv
    BY ReceiptsStart
<1>2. ReceiptsInv /\ [ReceiptsNext]_receiptVars => ReceiptsInv'
    <2> SUFFICES ASSUME ReceiptsInv, [ReceiptsNext]_receiptVars
                 PROVE  ReceiptsInv'
        OBVIOUS
    <2>1. CASE UNCHANGED receiptVars
        <3>1. UNCHANGED <<status, seen, inbox, posts, acked, old, task, todo, marks, owing, runs,
                          quiet, told, applied, overlaps, slips>>
            BY <2>1 DEF receiptVars, rowVars, carrierVars, runVars, historyVars
        <3>2. RowsTyped' /\ TasksTyped' /\ ReadInv'
            BY <3>1 DEF ReceiptsInv, RowsTyped, TasksTyped, ReadInv, AlreadyApplied, Matching, Shown
        <3>3. CountInv'
            BY <3>1 DEF ReceiptsInv, CountInv, Filers, Open, AlreadyApplied, Matching
        <3>4. InboxInv' /\ RunInv'
            BY <3>1 DEF ReceiptsInv, InboxInv, ThreadsAreClean, RunInv, InHand, Matching
        <3> QED  BY <3>2, <3>3, <3>4 DEF ReceiptsInv
    <2>2. CASE ReceiptsNext
        <3>1. CASE \E h \in Servers : \E i \in Payloads : Posted(h, i)
            BY <3>1, PostedKeeps
        <3>2. CASE \E h \in Servers : Ingests(h)
            BY <3>2, IngestsKeeps
        <3>3. CASE \E h \in Servers : Acknowledges(h) \/ RequestFails(h) \/ RequestDies(h)
            BY <3>3, EndsKeep
        <3>4. CASE \E h \in Servers : StoresOrphan(h)
            BY <3>4, StoresKeeps
        <3>5. CASE \E h \in Servers : HidesOrphan(h)
            BY <3>5, HidesKeeps
        <3>6. CASE \E s \in Tasks : Correlates(s) \/ Applies(s) \/ Tells(s)
            BY <3>6, CorrelatesKeeps, AppliesKeeps, TellsKeeps
        <3>7. CASE RunStarts \/ RunTakes \/ RunMarks \/ RunEnds \/ RunDies
            BY <3>7, StartKeeps, TakeKeeps, MarkKeeps, RunEndKeeps, DeathKeeps
        <3> QED  BY <2>2, <3>1, <3>2, <3>3, <3>4, <3>5, <3>6, <3>7, ReceiptSteps
    <2> QED  BY <2>1, <2>2
<1> QED  BY <1>1, <1>2, PTL DEF ReceiptsSpec

(* dlr.py, bulkvs.py, backfill_dlrs.py: threads are clean, no receipt is lost, and the
   CRM is told of each once, a repeat for each commit that overlapped another's apart. *)
THEOREM ReceiptsStay ==
    ASSUME ReceiptsMakeSense
    PROVE  ReceiptsSpec => []ReceiptsAreKept
<1>1. ReceiptsInv => ReceiptsAreKept
    <2> SUFFICES ASSUME ReceiptsInv
                 PROVE  ReceiptsAreKept
        OBVIOUS
    <2>1. ThreadsAreClean
        BY DEF ReceiptsInv, InboxInv
    <2>2. NoReceiptIsLost
        BY DEF ReceiptsInv, InboxInv, RunInv, InHand, NoReceiptIsLost
    <2>3. ASSUME NEW r \in Receipts
          PROVE  told[r] =< 1 + overlaps
        <3>1. /\ IsFiniteSet(Filers(r))
              /\ told[r] + Cardinality(Filers(r)) + Open(r) =< 1 + overlaps
            BY DEF ReceiptsInv, CountInv
        <3>2. /\ Cardinality(Filers(r)) \in Nat /\ Open(r) \in Nat /\ told[r] \in Nat
              /\ overlaps \in Nat
            BY <3>1, FS_CardinalityType DEF ReceiptsInv, RowsTyped, Open
        <3> QED  BY <3>1, <3>2
    <2> QED  BY <2>1, <2>2, <2>3 DEF ReceiptsAreKept, ToldOnce
<1> QED  BY <1>1, ReceiptsInvariant, PTL
=============================================================================

----------------------------- MODULE TaskProofs -----------------------------
(***************************************************************************)
(* Theorems about TaskGraph for every set of users, tasks and titles, and  *)
(* about Tools for every set of agents and of what they write.             *)
(***************************************************************************)
EXTENDS Tools, TLAPS

-----------------------------------------------------------------------------
(***************************************************************************)
(* Typing.                                                                 *)
(***************************************************************************)

\* What an update makes of a row is a row.
LEMMA WrittenTyped ==
  ASSUME NEW r \in Row, NEW title \in NewTitle, NEW s \in NewStatus,
         NEW p \in NewParent
  PROVE  /\ Written(r, title, s, p) \in Row
         /\ Written(r, title, s, p).owner = r.owner
         /\ Written(r, title, s, p).live = r.live
         /\ Written(r, title, s, p).dated = r.dated
         /\ Written(r, title, s, p).parent = Given(p, r.parent)
  <1>1. Given(title, r.title) \in Titles
    BY DEF Given, NewTitle, Row
  <1>2. Given(s, r.status) \in Status
    BY TaskAssumption DEF Given, NewStatus, Row
  <1>3. Given(p, r.parent) \in Todos \cup {None}
    BY DEF Given, NewParent, Row
  <1>4. QED
    BY <1>1, <1>2, <1>3 DEF Row, Written

\* The rows a batch adds are rows, and it touches no other.
LEMMA BatchRows ==
  ASSUME NEW u \in Users, NEW new \in SUBSET Todos, NEW item \in Items(new),
         NEW after \in SUBSET (new \X new), CreateBatch(u, new, item, after)
  PROVE  /\ todo' = [t \in Todos |-> todo'[t]]
         /\ \A t \in new : /\ todo[t] = None
                           /\ todo'[t] \in Row
                           /\ todo'[t].owner = u
                           /\ todo'[t].parent = item[t].parent
         /\ \A t \in Todos \ new : todo'[t] = todo[t]
  <1>1. ASSUME NEW t \in new
        PROVE  /\ todo[t] = None
               /\ todo'[t] = Prepared(u, item[t])
    BY DEF CreateBatch
  <1>2. ASSUME NEW t \in new
        PROVE  /\ item[t].title \in Titles
               /\ item[t].status \in Status
               /\ item[t].parent \in Todos \cup {None}
    BY TaskAssumption DEF Items
  <1>3. QED
    BY <1>1, <1>2 DEF CreateBatch, Prepared, Row

LEMMA InitTyped == Init => TypeOK
  BY DEF Init, TypeOK

LEMMA NextTyped == TypeOK /\ [Next]_vars => TypeOK'
  <1> SUFFICES ASSUME TypeOK, [Next]_vars PROVE TypeOK'
    OBVIOUS
  <1> USE DEF TypeOK
  <1>1. ASSUME NEW u \in Users, NEW t \in Todos, NEW title \in Titles,
               NEW s \in Status, NEW p \in Todos \cup {None},
               Insert(t, u, title, s, p), UNCHANGED deps
        PROVE  TypeOK'
    BY <1>1 DEF Insert, Row
  <1>2. ASSUME NEW u \in Users, NEW t \in Todos, NEW title \in NewTitle,
               NEW s \in NewStatus, NEW p \in NewParent,
               UpdateTodo(u, t, title, s, p)
        PROVE  TypeOK'
    <2>1. todo[t] \in Row
      BY <1>2 DEF UpdateTodo, Owned
    <2>2. Written(todo[t], title, s, p) \in Row
      BY <2>1, WrittenTyped
    <2>3. (IF s = Unset THEN todo[t].dated ELSE s = "completed") \in BOOLEAN
      BY <2>1 DEF Row
    <2>4. QED
      BY <1>2, <2>2, <2>3 DEF UpdateTodo, Row
  <1>3. ASSUME NEW u \in Users, NEW ids \in SUBSET Todos, NEW title \in NewTitle,
               NEW s \in NewStatus, NEW p \in NewParent,
               BulkUpdate(u, ids, title, s, p)
        PROVE  TypeOK'
    <2>1. ASSUME NEW t \in Todos PROVE todo'[t] \in Row \cup {None}
      <3>1. CASE t \in ids \cap LiveOf(u)
        <4>1. todo[t] \in Row
          BY <3>1 DEF LiveOf, Owned
        <4>2. todo'[t] = Written(todo[t], title, s, p)
          BY <1>3, <3>1 DEF BulkUpdate
        <4>3. QED
          BY <4>1, <4>2, WrittenTyped
      <3>2. CASE t \notin ids \cap LiveOf(u)
        BY <1>3, <3>2 DEF BulkUpdate
      <3>3. QED
        BY <3>1, <3>2
    <2>2. todo' = [t \in Todos |-> todo'[t]] /\ deps' = deps
      BY <1>3 DEF BulkUpdate
    <2>3. QED
      BY <2>1, <2>2
  <1>4. ASSUME NEW u \in Users, NEW t \in Todos,
               CompleteTodo(u, t) \/ DeleteTodo(u, t) \/ RestoreTodo(u, t)
        PROVE  TypeOK'
    <2>1. todo[t] \in Row
      BY <1>4 DEF CompleteTodo, DeleteTodo, RestoreTodo, Owned
    <2>2. /\ [todo[t] EXCEPT !.status = "completed", !.dated = TRUE] \in Row
          /\ [todo[t] EXCEPT !.live = FALSE] \in Row
          /\ [todo[t] EXCEPT !.live = TRUE] \in Row
      BY <2>1 DEF Row, Status
    <2>3. QED
      BY <1>4, <2>2 DEF CompleteTodo, DeleteTodo, RestoreTodo
  <1>5. ASSUME NEW u \in Users, NEW t \in Todos, NEW d \in Todos,
               AddDependency(u, t, d) \/ RemoveDependency(u, t, d)
        PROVE  TypeOK'
    BY <1>5 DEF AddDependency, RemoveDependency
  <1>6. ASSUME NEW u \in Users, NEW new \in SUBSET Todos, NEW item \in Items(new),
               NEW after \in SUBSET (new \X new), CreateBatch(u, new, item, after)
        PROVE  TypeOK'
    <2>1. deps' = deps \cup after
      BY <1>6 DEF CreateBatch
    <2>2. todo' \in [Todos -> Row \cup {None}]
      BY <1>6, BatchRows
    <2>3. QED
      BY <2>1, <2>2
  <1>7. CASE UNCHANGED vars
    BY <1>7 DEF vars
  <1>8. CASE Next
    <2>1. PICK u \in Users : NextOf(u)
      BY <1>8 DEF Next
    <2>2. ASSUME NEW t \in Todos, NEW title \in Titles, NEW s \in Sent,
                 NEW p \in Todos \cup {None}, CreateTodo(u, t, title, s, p)
          PROVE  TypeOK'
      <3>1. s \in Status
        BY TaskAssumption
      <3>2. QED
        BY <2>2, <3>1, <1>1 DEF CreateTodo
    <2>3. ASSUME NEW t \in Todos, NEW p \in Todos, NEW title \in Titles,
                 CreateSubtask(u, t, title, p)
          PROVE  TypeOK'
      <3>1. "pending" \in Status
        BY DEF Status
      <3>2. QED
        BY <2>3, <3>1, <1>1 DEF CreateSubtask
    <2>4. QED
      BY <2>1, <2>2, <2>3, <1>2, <1>3, <1>4, <1>5, <1>6 DEF NextOf
  <1>9. QED
    BY <1>7, <1>8

\* Every reachable state is made of well-formed rows and edges.
THEOREM Typing == Spec => []TypeOK
  BY InitTyped, NextTyped, PTL DEF Spec

-----------------------------------------------------------------------------
(***************************************************************************)
(* What a step can do to a row and to the edges.                           *)
(***************************************************************************)

\* Requests never take a row away and never change its owner.
LEMMA OwnerKept ==
  ASSUME TypeOK, [Next]_vars, NEW t \in Todos, todo[t] # None
  PROVE  todo'[t] # None /\ todo'[t].owner = todo[t].owner
  <1>1. todo[t] \in Row
    BY DEF TypeOK
  <1>2. ASSUME NEW x \in Todos, NEW u, NEW title, NEW s, NEW p,
               Insert(x, u, title, s, p)
        PROVE  todo'[t] = todo[t]
    BY <1>2 DEF Insert, TypeOK
  <1>3. ASSUME NEW u \in Users, NEW x \in Todos, NEW title \in NewTitle,
               NEW s \in NewStatus, NEW p \in NewParent,
               UpdateTodo(u, x, title, s, p)
        PROVE  todo'[t] # None /\ todo'[t].owner = todo[t].owner
    <2>1. /\ Written(todo[t], title, s, p) \in Row
          /\ Written(todo[t], title, s, p).owner = todo[t].owner
      BY <1>1, WrittenTyped
    <2>2. (IF s = Unset THEN todo[t].dated ELSE s = "completed") \in BOOLEAN
      BY <1>1 DEF Row
    <2>3. todo'[t] \in Row /\ todo'[t].owner = todo[t].owner
      BY <1>1, <1>3, <2>1, <2>2 DEF UpdateTodo, Row, TypeOK
    <2>4. QED
      BY <2>3, TaskAssumption
  <1>4. ASSUME NEW u \in Users, NEW ids \in SUBSET Todos, NEW title \in NewTitle,
               NEW s \in NewStatus, NEW p \in NewParent,
               BulkUpdate(u, ids, title, s, p)
        PROVE  todo'[t] # None /\ todo'[t].owner = todo[t].owner
    <2>1. /\ Written(todo[t], title, s, p) \in Row
          /\ Written(todo[t], title, s, p).owner = todo[t].owner
      BY <1>1, WrittenTyped
    <2>2. todo'[t] \in {todo[t], Written(todo[t], title, s, p)}
      BY <1>4 DEF BulkUpdate
    <2>3. QED
      BY <1>1, <2>1, <2>2, TaskAssumption
  <1>5. ASSUME NEW u \in Users, NEW x \in Todos,
               CompleteTodo(u, x) \/ DeleteTodo(u, x) \/ RestoreTodo(u, x)
        PROVE  todo'[t] # None /\ todo'[t].owner = todo[t].owner
    <2>1. /\ [todo[t] EXCEPT !.status = "completed", !.dated = TRUE] \in Row
          /\ [todo[t] EXCEPT !.live = FALSE] \in Row
          /\ [todo[t] EXCEPT !.live = TRUE] \in Row
      BY <1>1 DEF Row, Status
    <2>2. \/ todo'[t] = todo[t]
          \/ todo'[t] = [todo[t] EXCEPT !.status = "completed", !.dated = TRUE]
          \/ todo'[t] = [todo[t] EXCEPT !.live = FALSE]
          \/ todo'[t] = [todo[t] EXCEPT !.live = TRUE]
      BY <1>5 DEF CompleteTodo, DeleteTodo, RestoreTodo, TypeOK
    <2>3. todo'[t] \in Row /\ todo'[t].owner = todo[t].owner
      BY <1>1, <2>1, <2>2 DEF Row
    <2>4. QED
      BY <2>3, TaskAssumption
  <1>6. ASSUME NEW u \in Users, NEW new \in SUBSET Todos, NEW item \in Items(new),
               NEW after \in SUBSET (new \X new), CreateBatch(u, new, item, after)
        PROVE  todo'[t] = todo[t]
    BY <1>6, BatchRows
  <1>7. CASE Next
    <2>1. PICK u \in Users : NextOf(u)
      BY <1>7 DEF Next
    <2>2. QED
      BY <2>1, <1>2, <1>3, <1>4, <1>5, <1>6
         DEF NextOf, CreateTodo, CreateSubtask, AddDependency, RemoveDependency
  <1>8. QED
    BY <1>7 DEF vars

\* Only AddDependency and a batch add edges.
LEMMA EdgesStep ==
  ASSUME [Next]_vars
  PROVE  \/ deps' \subseteq deps
         \/ \E u \in Users, t, d \in Todos : AddDependency(u, t, d)
         \/ \E u \in Users, new \in SUBSET Todos :
              \E item \in Items(new), after \in SUBSET (new \X new) :
                 CreateBatch(u, new, item, after)
  <1>1. CASE Next
    <2>1. PICK u \in Users : NextOf(u)
      BY <1>1 DEF Next
    <2>2. QED
      BY <2>1 DEF NextOf, CreateTodo, CreateSubtask, UpdateTodo, BulkUpdate,
                  CompleteTodo, DeleteTodo, RestoreTodo, RemoveDependency
  <1>2. QED
    BY <1>1 DEF vars

-----------------------------------------------------------------------------
(***************************************************************************)
(* The dependency graph.                                                   *)
(***************************************************************************)

\* An edge from a to b closes no cycle when some set closed under the edges
\* holds b and not a: a cycle would have to leave that set.
LEMMA AcyclicExtended ==
  ASSUME NEW edges, Acyclic(edges), NEW a \in Todos, NEW b \in Todos,
         NEW S \in SUBSET Todos, ClosedUnder(edges, S), b \in S, a \notin S
  PROVE  Acyclic(edges \cup {<<a, b>>})
  <1> SUFFICES ASSUME NEW C \in SUBSET Todos, C # {},
                      \A x \in C : \E y \in C : <<x, y>> \in edges \cup {<<a, b>>}
               PROVE  FALSE
    BY DEF Acyclic
  <1>1. CASE C \cap S # {}
    <2>1. \A x \in C \cap S : \E y \in C \cap S : <<x, y>> \in edges
      <3> TAKE x \in C \cap S
      <3>1. PICK y \in C : <<x, y>> \in edges \cup {<<a, b>>}
        OBVIOUS
      <3>2. <<x, y>> \in edges
        BY <3>1
      <3>3. y \in S
        BY <3>2 DEF ClosedUnder
      <3>4. QED
        BY <3>2, <3>3
    <2>2. QED
      BY <1>1, <2>1 DEF Acyclic
  <1>2. CASE C \cap S = {}
    <2>1. \A x \in C : \E y \in C : <<x, y>> \in edges
      BY <1>2
    <2>2. QED
      BY <2>1 DEF Acyclic
  <1>3. QED
    BY <1>1, <1>2

\* A batch joins two separate graphs.  A cycle lies in one of them; were it in
\* the new one, the sorting would never reach the items on it.
LEMMA AcyclicJoined ==
  ASSUME NEW edges, Acyclic(edges), NEW new \in SUBSET Todos,
         NEW after \in SUBSET (new \X new), Sorted(new, after),
         \A x \in new, y \in Todos : <<x, y>> \notin edges
  PROVE  Acyclic(edges \cup after)
  <1> SUFFICES ASSUME NEW C \in SUBSET Todos, C # {},
                      \A x \in C : \E y \in C : <<x, y>> \in edges \cup after
               PROVE  FALSE
    BY DEF Acyclic
  <1>1. CASE C \cap new # {}
    <2>1. ASSUME NEW t \in new,
                 \A d \in new : <<t, d>> \in after => d \in new \ C
          PROVE  t \in new \ C
      <3> SUFFICES ASSUME t \in C PROVE FALSE
        OBVIOUS
      <3>1. PICK y \in C : <<t, y>> \in edges \cup after
        OBVIOUS
      <3>2. <<t, y>> \in after /\ y \in new
        BY <3>1
      <3>3. QED
        BY <2>1, <3>2
    <2>2. new \ C = new
      BY <2>1 DEF Sorted
    <2>3. QED
      BY <1>1, <2>2
  <1>2. CASE C \cap new = {}
    <2>1. \A x \in C : \E y \in C : <<x, y>> \in edges
      BY <1>2
    <2>2. QED
      BY <2>1 DEF Acyclic
  <1>3. QED
    BY <1>1, <1>2

DependencyInv == TypeOK /\ DependenciesWithinOwner /\ DependenciesAcyclic

LEMMA DependencyStep == DependencyInv /\ [Next]_vars => DependencyInv'
  <1> SUFFICES ASSUME DependencyInv, [Next]_vars PROVE DependencyInv'
    OBVIOUS
  <1> USE DEF DependencyInv
  <1>1. TypeOK'
    BY NextTyped
  <1>2. \A e \in deps : \E u \in Users : {e[1], e[2]} \subseteq Owned(u)'
    <2> TAKE e \in deps
    <2>1. PICK u \in Users : {e[1], e[2]} \subseteq Owned(u)
      BY DEF DependenciesWithinOwner
    <2>2. {e[1], e[2]} \subseteq Owned(u)'
      BY <2>1, OwnerKept DEF Owned
    <2>3. QED
      BY <2>2
  <1>3. CASE deps' \subseteq deps
    BY <1>1, <1>2, <1>3 DEF DependenciesWithinOwner, DependenciesAcyclic, Acyclic
  <1>4. ASSUME NEW u \in Users, NEW t \in Todos, NEW d \in Todos,
               AddDependency(u, t, d)
        PROVE  DependencyInv'
    <2>1. /\ t \in Owned(u) /\ d \in Owned(u)
          /\ deps' = deps \cup {<<t, d>>} /\ todo' = todo
      BY <1>4 DEF AddDependency, LiveOf
    <2>2. DependenciesWithinOwner'
      <3> SUFFICES ASSUME NEW e \in deps'
                   PROVE  \E v \in Users : {e[1], e[2]} \subseteq Owned(v)'
        BY DEF DependenciesWithinOwner
      <3>1. CASE e \in deps
        BY <3>1, <1>2
      <3>2. CASE e = <<t, d>>
        BY <3>2, <2>1 DEF Owned
      <3>3. QED
        BY <2>1, <3>1, <3>2
    <2>3. PICK S \in SUBSET Todos : /\ d \in S /\ t \notin S
                                   /\ ClosedUnder(UserEdges(u), S)
      BY <1>4 DEF AddDependency, Visited
    <2> DEFINE mine == S \cap Owned(u)
    <2>4. ClosedUnder(deps, mine)
      <3> SUFFICES ASSUME NEW e \in deps, e[1] \in mine PROVE e[2] \in mine
        BY DEF ClosedUnder
      <3>1. e[2] \in S
        BY <2>3 DEF ClosedUnder, UserEdges
      <3>2. PICK v \in Users : {e[1], e[2]} \subseteq Owned(v)
        BY DEF DependenciesWithinOwner
      <3>3. v = u
        BY <3>2 DEF Owned
      <3>4. QED
        BY <3>1, <3>2, <3>3
    <2>5. Acyclic(deps \cup {<<t, d>>})
      <3>1. mine \in SUBSET Todos /\ d \in mine /\ t \notin mine
        BY <2>1, <2>3
      <3> HIDE DEF mine
      <3>2. QED
        BY <3>1, <2>4, AcyclicExtended DEF DependenciesAcyclic
    <2>6. QED
      BY <1>1, <2>1, <2>2, <2>5 DEF DependenciesAcyclic
  <1>5. ASSUME NEW u \in Users, NEW new \in SUBSET Todos, NEW item \in Items(new),
               NEW after \in SUBSET (new \X new), CreateBatch(u, new, item, after)
        PROVE  DependencyInv'
    <2>1. deps' = deps \cup after /\ Sorted(new, after)
      BY <1>5 DEF CreateBatch
    <2>2. \A t \in new : todo[t] = None /\ todo'[t] # None /\ todo'[t].owner = u
      BY <1>5, BatchRows, TaskAssumption
    <2>3. DependenciesWithinOwner'
      <3> SUFFICES ASSUME NEW e \in deps'
                   PROVE  \E v \in Users : {e[1], e[2]} \subseteq Owned(v)'
        BY DEF DependenciesWithinOwner
      <3>1. CASE e \in deps
        BY <3>1, <1>2
      <3>2. CASE e \in after
        <4>1. e[1] \in new /\ e[2] \in new
          BY <3>2
        <4>2. QED
          BY <4>1, <2>2 DEF Owned
      <3>3. QED
        BY <2>1, <3>1, <3>2
    <2>4. ASSUME NEW x \in new, NEW y \in Todos PROVE <<x, y>> \notin deps
      <3> SUFFICES ASSUME <<x, y>> \in deps PROVE FALSE
        OBVIOUS
      <3>1. PICK v \in Users : {<<x, y>>[1], <<x, y>>[2]} \subseteq Owned(v)
        BY DEF DependenciesWithinOwner
      <3>2. QED
        BY <2>2, <3>1 DEF Owned
    <2>5. Acyclic(deps \cup after)
      BY <2>1, <2>4, AcyclicJoined DEF DependenciesAcyclic
    <2>6. QED
      BY <1>1, <2>1, <2>3, <2>5 DEF DependenciesAcyclic
  <1>6. QED
    BY <1>3, <1>4, <1>5, EdgesStep

\* Whatever requests are served one after another, no task depends on itself
\* through a chain of dependencies.  The invariant needs that edges stay
\* within one user's tasks, because the search loads only that user's edges.
THEOREM DependenciesStayAcyclic ==
  Spec => [](DependenciesWithinOwner /\ DependenciesAcyclic)
  <1>1. Init => DependencyInv
    BY InitTyped DEF DependencyInv, Init, DependenciesWithinOwner,
                     DependenciesAcyclic, Acyclic
  <1>2. DependencyInv => DependenciesWithinOwner /\ DependenciesAcyclic
    BY DEF DependencyInv
  <1>3. QED
    BY <1>1, <1>2, DependencyStep, PTL DEF Spec

-----------------------------------------------------------------------------
(***************************************************************************)
(* The hierarchy.                                                          *)
(***************************************************************************)

\* After a step a row has kept its parent, has none, or has one of the same
\* owner that has no parent but possibly itself.
MayLeadTo(t, q) ==
    /\ q \in Todos
    /\ todo'[q] # None
    /\ todo'[q].owner = todo'[t].owner
    /\ todo'[q].parent \in {None, q}

NewLinks ==
    \A t \in Todos : todo'[t] # None =>
      \/ todo[t] # None /\ todo'[t].parent = todo[t].parent
      \/ todo'[t].parent = None
      \/ MayLeadTo(t, todo'[t].parent)

\* One parent for all the rows a step writes: a root of the user's.
LEMMA OneParent ==
  ASSUME TypeOK, NEW u \in Users, NEW p \in Todos \cup {None},
         p = None \/ MayBeParent(u, p),
         \A t \in Todos : todo[t] # None =>
            todo'[t] # None /\ todo'[t].owner = todo[t].owner,
         \A t \in Todos : todo'[t] # None =>
            \/ todo[t] # None /\ todo'[t].parent = todo[t].parent
            \/ todo'[t].parent = p /\ todo'[t].owner = u
  PROVE  NewLinks
  <1> SUFFICES ASSUME NEW t \in Todos, todo'[t] # None,
                      todo'[t].parent = p, p # None, todo'[t].owner = u
               PROVE  MayLeadTo(t, p)
    BY DEF NewLinks
  <1>1. p \in Todos /\ todo[p] # None /\ todo[p].owner = u /\ todo[p].parent = None
    BY DEF MayBeParent, LiveOf, Owned
  <1>2. todo'[p] # None /\ todo'[p].owner = u
    BY <1>1
  <1>3. todo'[p].parent \in {None, p}
    BY <1>1, <1>2
  <1>4. QED
    BY <1>1, <1>2, <1>3 DEF MayLeadTo

LEMMA LinksStep == TypeOK /\ [Next]_vars => NewLinks
  <1> SUFFICES ASSUME TypeOK, [Next]_vars PROVE NewLinks
    OBVIOUS
  <1>kept. \A t \in Todos : todo[t] # None =>
              todo'[t] # None /\ todo'[t].owner = todo[t].owner
    BY OwnerKept
  <1>1. ASSUME NEW u \in Users, NEW x \in Todos, NEW title, NEW s,
               NEW p \in Todos \cup {None}, Insert(x, u, title, s, p),
               p = None \/ MayBeParent(u, p)
        PROVE  NewLinks
    <2>1. todo'[x].parent = p /\ todo'[x].owner = u
      BY <1>1 DEF Insert, TypeOK
    <2>2. \A t \in Todos \ {x} : todo'[t] = todo[t]
      BY <1>1 DEF Insert, TypeOK
    <2>3. QED
      BY <1>1, <1>kept, <2>1, <2>2, OneParent
  <1>2. ASSUME NEW u \in Users, NEW x \in Todos, NEW title \in NewTitle,
               NEW s \in NewStatus, NEW p \in NewParent,
               UpdateTodo(u, x, title, s, p)
        PROVE  NewLinks
    <2> DEFINE q == IF p = Unset THEN None ELSE p
    <2>1. todo[x] # None /\ todo[x] \in Row /\ todo[x].owner = u
      BY <1>2, TaskAssumption DEF UpdateTodo, Owned, TypeOK
    <2>2. /\ Written(todo[x], title, s, p) \in Row
          /\ Written(todo[x], title, s, p).owner = u
          /\ Written(todo[x], title, s, p).parent = Given(p, todo[x].parent)
      BY <2>1, WrittenTyped
    <2>3. todo'[x].parent = Given(p, todo[x].parent) /\ todo'[x].owner = u
      BY <1>2, <2>2 DEF UpdateTodo, TypeOK, Row
    <2>4. \A t \in Todos \ {x} : todo'[t] = todo[t]
      BY <1>2 DEF UpdateTodo, TypeOK
    <2>5. q \in Todos \cup {None} /\ (q = None \/ MayBeParent(u, q))
      BY <1>2, TaskAssumption DEF UpdateTodo, NewParent
    <2>6. \A t \in Todos : todo'[t] # None =>
            \/ todo[t] # None /\ todo'[t].parent = todo[t].parent
            \/ todo'[t].parent = q /\ todo'[t].owner = u
      BY <2>1, <2>3, <2>4 DEF Given
    <2> HIDE DEF q
    <2>7. QED
      BY <1>kept, <2>5, <2>6, OneParent
  <1>3. ASSUME NEW u \in Users, NEW ids \in SUBSET Todos, NEW title \in NewTitle,
               NEW s \in NewStatus, NEW p \in NewParent,
               BulkUpdate(u, ids, title, s, p)
        PROVE  NewLinks
    <2> DEFINE q == IF p = Unset THEN None ELSE p
    <2>1. ASSUME NEW t \in ids \cap LiveOf(u)
          PROVE  /\ todo[t] # None
                 /\ todo'[t].parent = Given(p, todo[t].parent)
                 /\ todo'[t].owner = u
      <3>1. todo[t] # None /\ todo[t] \in Row /\ todo[t].owner = u
        BY DEF LiveOf, Owned, TypeOK
      <3>2. todo'[t] = Written(todo[t], title, s, p)
        BY <1>3 DEF BulkUpdate
      <3>3. QED
        BY <3>1, <3>2, WrittenTyped
    <2>2. \A t \in Todos \ (ids \cap LiveOf(u)) : todo'[t] = todo[t]
      BY <1>3 DEF BulkUpdate
    <2>3. q \in Todos \cup {None} /\ (q = None \/ MayBeParent(u, q))
      BY <1>3, TaskAssumption DEF BulkUpdate, NewParent
    <2>4. \A t \in Todos : todo'[t] # None =>
            \/ todo[t] # None /\ todo'[t].parent = todo[t].parent
            \/ todo'[t].parent = q /\ todo'[t].owner = u
      BY <2>1, <2>2 DEF Given
    <2> HIDE DEF q
    <2>5. QED
      BY <1>kept, <2>3, <2>4, OneParent
  <1>4. ASSUME NEW u \in Users, NEW x \in Todos,
               CompleteTodo(u, x) \/ DeleteTodo(u, x) \/ RestoreTodo(u, x)
        PROVE  NewLinks
    <2>1. todo[x] # None /\ todo[x] \in Row
      BY <1>4 DEF CompleteTodo, DeleteTodo, RestoreTodo, Owned, TypeOK
    <2>2. todo'[x].parent = todo[x].parent
      BY <1>4, <2>1 DEF CompleteTodo, DeleteTodo, RestoreTodo, TypeOK, Row
    <2>3. \A t \in Todos \ {x} : todo'[t] = todo[t]
      BY <1>4 DEF CompleteTodo, DeleteTodo, RestoreTodo, TypeOK
    <2>4. QED
      BY <2>1, <2>2, <2>3 DEF NewLinks
  <1>5. ASSUME NEW u \in Users, NEW new \in SUBSET Todos, NEW item \in Items(new),
               NEW after \in SUBSET (new \X new), CreateBatch(u, new, item, after)
        PROVE  NewLinks
    <2> SUFFICES ASSUME NEW t \in new, item[t].parent # None
                 PROVE  MayLeadTo(t, item[t].parent)
      BY <1>5, BatchRows DEF NewLinks
    <2> DEFINE p == item[t].parent
    <2>1. /\ \A x \in new : /\ todo'[x] # None
                            /\ todo'[x].owner = u
                            /\ todo'[x].parent = item[x].parent
          /\ \A x \in Todos \ new : todo'[x] = todo[x]
      BY <1>5, BatchRows, TaskAssumption
    <2>2. MayBeParentOf(u, new, item, t)
      BY <1>5 DEF CreateBatch
    <2>3. CASE p \in new
      BY <2>1, <2>2, <2>3 DEF MayBeParentOf, MayLeadTo
    <2>4. CASE p \notin new
      <3>1. MayBeParent(u, p)
        BY <2>2, <2>4 DEF MayBeParentOf
      <3>2. p \in Todos /\ todo[p] # None /\ todo[p].owner = u /\ todo[p].parent = None
        BY <3>1 DEF MayBeParent, LiveOf, Owned
      <3>3. QED
        BY <2>1, <2>4, <3>2 DEF MayLeadTo
    <2>5. QED
      BY <2>3, <2>4
  <1>6. ASSUME todo' = todo PROVE NewLinks
    BY <1>6 DEF NewLinks
  <1>7. CASE Next
    <2>1. PICK u \in Users : NextOf(u)
      BY <1>7 DEF Next
    <2>2. ASSUME NEW t \in Todos, NEW p \in Todos, NEW title \in Titles,
                 CreateSubtask(u, t, title, p)
          PROVE  NewLinks
      BY <2>2, <1>1 DEF CreateSubtask
    <2>3. ASSUME NEW t \in Todos, NEW title \in Titles, NEW s \in Sent,
                 NEW p \in Todos \cup {None}, CreateTodo(u, t, title, s, p)
          PROVE  NewLinks
      BY <2>3, <1>1 DEF CreateTodo
    <2>4. QED
      BY <2>1, <2>2, <2>3, <1>2, <1>3, <1>4, <1>5, <1>6
         DEF NextOf, AddDependency, RemoveDependency
  <1>8. QED
    BY <1>6, <1>7 DEF vars

HierarchyInv == TypeOK /\ FamilyWithinOwner /\ HierarchyAcyclic

LEMMA HierarchyStep == HierarchyInv /\ [Next]_vars => HierarchyInv'
  <1> SUFFICES ASSUME HierarchyInv, [Next]_vars PROVE HierarchyInv'
    OBVIOUS
  <1> USE DEF HierarchyInv
  <1>1. TypeOK'
    BY NextTyped
  <1>2. NewLinks
    BY LinksStep
  <1>3. FamilyWithinOwner'
    <2> SUFFICES ASSUME NEW t \in Todos, todo'[t] # None, todo'[t].parent # None
                 PROVE  \E v \in Users : {t, todo'[t].parent} \subseteq Owned(v)'
      BY DEF FamilyWithinOwner
    <2>1. CASE todo[t] # None /\ todo'[t].parent = todo[t].parent
      <3>1. PICK v \in Users : {t, todo[t].parent} \subseteq Owned(v)
        BY <2>1 DEF FamilyWithinOwner
      <3>2. {t, todo[t].parent} \subseteq Owned(v)'
        BY <3>1, OwnerKept DEF Owned
      <3>3. QED
        BY <2>1, <3>2
    <2>2. CASE MayLeadTo(t, todo'[t].parent)
      <3>1. PICK v \in Users : v = todo'[t].owner
        BY <1>1 DEF TypeOK, Row
      <3>2. {t, todo'[t].parent} \subseteq Owned(v)'
        BY <2>2, <3>1 DEF MayLeadTo, Owned
      <3>3. QED
        BY <3>2
    <2>3. QED
      BY <1>2, <2>1, <2>2 DEF NewLinks
  <1>4. HierarchyAcyclic'
    <2> DEFINE up  == {e \in ParentEdges : e[1] # e[2]}
               upp == {e \in ParentEdges' : e[1] # e[2]}
    <2> SUFFICES ASSUME NEW C \in SUBSET Todos, C # {},
                        \A x \in C : \E y \in C : <<x, y>> \in upp
                 PROVE  FALSE
      BY DEF HierarchyAcyclic, Acyclic
    <2>1. \A x \in C : \E y \in C : /\ x # y
                                    /\ todo'[x] # None
                                    /\ y = todo'[x].parent
      <3> TAKE x \in C
      <3>1. PICK y \in C : <<x, y>> \in upp
        OBVIOUS
      <3>2. PICK t \in {s \in Todos : todo'[s] # None} :
              <<x, y>> = <<t, todo'[t].parent>>
        BY <3>1 DEF ParentEdges
      <3>3. x = t /\ y = todo'[t].parent /\ x # y
        BY <3>1, <3>2
      <3>4. QED
        BY <3>2, <3>3
    <2>2. \A x \in C : \E y \in C : <<x, y>> \in up
      <3> TAKE x \in C
      <3>1. PICK y \in C : x # y /\ todo'[x] # None /\ y = todo'[x].parent
        BY <2>1
      <3>2. ~MayLeadTo(x, y)
        BY <2>1, TaskAssumption DEF MayLeadTo
      <3>3. todo[x] # None /\ y = todo[x].parent
        BY <1>2, <3>1, <3>2, TaskAssumption DEF NewLinks
      <3>4. QED
        BY <3>1, <3>3 DEF ParentEdges
    <2>3. QED
      BY <2>2 DEF HierarchyAcyclic, Acyclic
  <1>5. QED
    BY <1>1, <1>3, <1>4

\* Whatever is reparented, deleted and restored, one request at a time, a
\* subtask and its parent belong to one user and parent links form no loop of
\* two or more tasks.
THEOREM HierarchyStaysAcyclic == Spec => [](FamilyWithinOwner /\ HierarchyAcyclic)
  <1>1. Init => HierarchyInv
    BY InitTyped DEF HierarchyInv, Init, FamilyWithinOwner, HierarchyAcyclic,
                     Acyclic, ParentEdges
  <1>2. HierarchyInv => FamilyWithinOwner /\ HierarchyAcyclic
    BY DEF HierarchyInv
  <1>3. QED
    BY <1>1, <1>2, HierarchyStep, PTL DEF Spec

-----------------------------------------------------------------------------
(***************************************************************************)
(* The tools.  What a method of the client asks for, the backend does, or  *)
(* nothing is done.                                                        *)
(***************************************************************************)

LEMMA SdkRows ==
  /\ UNCHANGED Sdk!tables <=> UNCHANGED tables
  /\ \A u : Sdk!Owned(u) = Owned(u) /\ Sdk!LiveOf(u) = LiveOf(u)
  /\ \A u, title : Sdk!HasDuplicate(u, title) <=> HasDuplicate(u, title)
  /\ \A u, p : Sdk!MayBeParent(u, p) <=> MayBeParent(u, p)
  /\ \A u, t : Sdk!HasLiveChildren(u, t) <=> HasLiveChildren(u, t)
  /\ \A u, t : Sdk!Visited(u, t) = Visited(u, t)
  <1>1. UNCHANGED Sdk!tables <=> UNCHANGED tables
    BY DEF Sdk!tables, Sdk!content, tables, content
  <1>2. \A u : Sdk!Owned(u) = Owned(u) /\ Sdk!LiveOf(u) = LiveOf(u)
    BY DEF Sdk!Owned, Sdk!LiveOf, Owned, LiveOf
  <1>3. \A u, title : Sdk!HasDuplicate(u, title) <=> HasDuplicate(u, title)
    BY <1>2 DEF Sdk!HasDuplicate, HasDuplicate, Sdk!Active, Active
  <1>4. \A u, p : Sdk!MayBeParent(u, p) <=> MayBeParent(u, p)
    BY <1>2 DEF Sdk!MayBeParent, MayBeParent
  <1>5. \A u, t : Sdk!HasLiveChildren(u, t) <=> HasLiveChildren(u, t)
    BY <1>2 DEF Sdk!HasLiveChildren, HasLiveChildren
  <1>6. \A u, t : Sdk!Visited(u, t) = Visited(u, t)
    BY <1>2 DEF Sdk!Visited, Visited, Sdk!UserEdges, UserEdges, Sdk!ClosedUnder, ClosedUnder
  <1>7. QED
    BY <1>1, <1>2, <1>3, <1>4, <1>5, <1>6

LEMMA SdkTasks ==
  ASSUME NEW t, NEW d, NEW title, NEW s, NEW p, NEW c
  PROVE  /\ Sdk!create_todo(t, title, p, c) =>
              \/ CreateTodo(Caller, t, title, "pending", p) /\ TaskOnly(c)
              \/ UNCHANGED tables
         /\ Sdk!update_todo(t, title, s, p, c) =>
              \/ /\ UpdateTodo(Caller, t, Sdk!Param(title), Sdk!Param(s), Sdk!Param(p))
                 /\ TaskOnly(c)
              \/ UNCHANGED tables
         /\ Sdk!delete_todo(t) =>
              (DeleteTodo(Caller, t) /\ TaskOnly(None)) \/ UNCHANGED tables
         /\ Sdk!complete_todo(t) =>
              (CompleteTodo(Caller, t) /\ TaskOnly(None)) \/ UNCHANGED tables
         /\ Sdk!add_dependency(t, d) =>
              (AddDependency(Caller, t, d) /\ TaskOnly(None)) \/ UNCHANGED tables
  <1> USE SdkRows DEF Sdk!Request, Sdk!TaskOnly, TaskOnly, Sdk!Resolved, Resolved
  <1>1. Sdk!create_todo(t, title, p, c) =>
              \/ CreateTodo(Caller, t, title, "pending", p) /\ TaskOnly(c)
              \/ UNCHANGED tables
    BY DEF Sdk!create_todo, Sdk!CreateTodo, CreateTodo, Sdk!Insert, Insert
  <1>2. Sdk!update_todo(t, title, s, p, c) =>
              \/ /\ UpdateTodo(Caller, t, Sdk!Param(title), Sdk!Param(s), Sdk!Param(p))
                 /\ TaskOnly(c)
              \/ UNCHANGED tables
    BY DEF Sdk!update_todo, Sdk!UpdateTodo, UpdateTodo, Sdk!Written, Written, Sdk!Given, Given
  <1>3. Sdk!delete_todo(t) =>
              (DeleteTodo(Caller, t) /\ TaskOnly(None)) \/ UNCHANGED tables
    BY DEF Sdk!delete_todo, Sdk!DeleteTodo, DeleteTodo
  <1>4. Sdk!complete_todo(t) =>
              (CompleteTodo(Caller, t) /\ TaskOnly(None)) \/ UNCHANGED tables
    BY DEF Sdk!complete_todo, Sdk!CompleteTodo, CompleteTodo
  <1>5. Sdk!add_dependency(t, d) =>
              (AddDependency(Caller, t, d) /\ TaskOnly(None)) \/ UNCHANGED tables
    BY DEF Sdk!add_dependency, Sdk!AddDependency, AddDependency
  <1>6. QED
    BY <1>1, <1>2, <1>3, <1>4, <1>5

LEMMA SdkBatch ==
  ASSUME NEW new, NEW item, NEW after, NEW p, NEW c,
         Sdk!batch_create_todos(new, item, after, p, c)
  PROVE  CreateLinkedBatch(new, item, after, p, c) \/ UNCHANGED tables
  <1>1. Sdk!NoDuplicates(Caller, new, item) <=> NoDuplicates(Caller, new, item)
    BY SdkRows DEF Sdk!NoDuplicates, NoDuplicates
  <1>2. \A t : Sdk!MayBeParentOf(Caller, new, item, t) <=> MayBeParentOf(Caller, new, item, t)
    BY SdkRows DEF Sdk!MayBeParentOf, MayBeParentOf
  <1>3. Sdk!Sorted(new, after) <=> Sorted(new, after)
    BY DEF Sdk!Sorted, Sorted
  <1>4. Sdk!CreateBatch(Caller, new, item, after) <=> CreateBatch(Caller, new, item, after)
    BY <1>1, <1>2, <1>3 DEF Sdk!CreateBatch, CreateBatch, Sdk!Prepared, Prepared
  <1>5. QED
    BY SdkRows, <1>4 DEF Sdk!batch_create_todos, Sdk!Request, Sdk!CreateLinkedBatch,
                         CreateLinkedBatch, Sdk!Resolved, Resolved

LEMMA SdkAgent ==
  ASSUME NEW t, NEW notes, NEW status, NEW reason,
         Sdk!update_agent_fields(t, notes, status, reason)
  PROVE  \/ UpdateAgent(t, [notes  |-> Given(Sdk!Param(notes), agent[t].notes),
                            status |-> Given(Sdk!Param(status), agent[t].status),
                            reason |-> Given(Sdk!Param(reason), agent[t].reason)])
         \/ UNCHANGED tables
  BY SdkRows DEF Sdk!update_agent_fields, Sdk!Request, Sdk!UpdateAgent, UpdateAgent,
                 Sdk!Given, Given

LEMMA SdkPages ==
  ASSUME NEW p, NEW below, NEW t, NEW ts, NEW c, NEW s, NEW name
  PROVE  /\ Sdk!create_wiki_page(p) => CreatePage(p) \/ UNCHANGED tables
         /\ Sdk!update_wiki_page(p) => UNCHANGED tables
         /\ Sdk!delete_wiki_page(p, below) => DeletePage(p, below) \/ UNCHANGED tables
         /\ Sdk!link_wiki_page_to_task(p, t) => LinkTask(p, t) \/ UNCHANGED tables
         /\ Sdk!batch_link_wiki_page_to_tasks(p, ts) =>
              BatchLinkTasks(p, ts) \/ UNCHANGED tables
         /\ Sdk!create_comment(c, t) => CreateComment(c, t) \/ UNCHANGED tables
         /\ Sdk!create_project(name) => CreateProject(name) \/ UNCHANGED tables
         /\ Sdk!create_snippet(s) => CreateSnippet(s) \/ UNCHANGED tables
         /\ Sdk!update_snippet(s) => UNCHANGED tables
         /\ Sdk!delete_snippet(s) => DeleteSnippet(s) \/ UNCHANGED tables
  <1> USE SdkRows DEF Sdk!Request
  <1>1. /\ Sdk!create_wiki_page(p) => CreatePage(p) \/ UNCHANGED tables
        /\ Sdk!update_wiki_page(p) => UNCHANGED tables
        /\ Sdk!delete_wiki_page(p, below) => DeletePage(p, below) \/ UNCHANGED tables
    BY DEF Sdk!create_wiki_page, Sdk!update_wiki_page, Sdk!delete_wiki_page, Sdk!CreatePage,
           CreatePage, Sdk!DeletePage, DeletePage, Sdk!OnlyPages, OnlyPages
  <1>2. /\ Sdk!link_wiki_page_to_task(p, t) => LinkTask(p, t) \/ UNCHANGED tables
        /\ Sdk!batch_link_wiki_page_to_tasks(p, ts) =>
              BatchLinkTasks(p, ts) \/ UNCHANGED tables
    BY DEF Sdk!link_wiki_page_to_task, Sdk!batch_link_wiki_page_to_tasks, Sdk!LinkTask,
           LinkTask, Sdk!BatchLinkTasks, BatchLinkTasks, Sdk!OnlyPages, OnlyPages
  <1>3. Sdk!create_comment(c, t) => CreateComment(c, t) \/ UNCHANGED tables
    BY DEF Sdk!create_comment, Sdk!CreateComment, CreateComment, Sdk!OnlyComments, OnlyComments
  <1>4. Sdk!create_project(name) => CreateProject(name) \/ UNCHANGED tables
    BY DEF Sdk!create_project, Sdk!CreateProject, CreateProject, Sdk!OnlyProjects, OnlyProjects
  <1>5. /\ Sdk!create_snippet(s) => CreateSnippet(s) \/ UNCHANGED tables
        /\ Sdk!update_snippet(s) => UNCHANGED tables
        /\ Sdk!delete_snippet(s) => DeleteSnippet(s) \/ UNCHANGED tables
    BY DEF Sdk!create_snippet, Sdk!update_snippet, Sdk!delete_snippet, Sdk!CreateSnippet,
           CreateSnippet, Sdk!UpdateSnippet, Sdk!DeleteSnippet, DeleteSnippet,
           Sdk!OnlySnippets, OnlySnippets
  <1>6. QED
    BY <1>1, <1>2, <1>3, <1>4, <1>5

LEMMA SdkFeeds ==
  ASSUME NEW f, NEW active
  PROVE  /\ Sdk!create_feed_source(f, active) => CreateFeed(f, active) \/ UNCHANGED tables
         /\ Sdk!update_feed_source(f, active) =>
              UpdateFeed(f, Sdk!Param(active)) \/ UNCHANGED tables
         /\ Sdk!delete_feed_source(f) => DeleteFeed(f) \/ UNCHANGED tables
         /\ Sdk!toggle_feed_source(f, active) => SetFeed(f, active) \/ UNCHANGED tables
         /\ Sdk!force_fetch_feed(f) => UNCHANGED tables
         /\ Sdk!mark_article_read => UNCHANGED tables
         /\ Sdk!rate_article => UNCHANGED tables
  <1> USE SdkRows DEF Sdk!Request, Sdk!OnlyFeeds, OnlyFeeds, Sdk!SetFeed, SetFeed
  <1>1. /\ Sdk!create_feed_source(f, active) => CreateFeed(f, active) \/ UNCHANGED tables
        /\ Sdk!delete_feed_source(f) => DeleteFeed(f) \/ UNCHANGED tables
        /\ Sdk!toggle_feed_source(f, active) => SetFeed(f, active) \/ UNCHANGED tables
    BY DEF Sdk!create_feed_source, Sdk!delete_feed_source, Sdk!toggle_feed_source,
           Sdk!CreateFeed, CreateFeed, Sdk!DeleteFeed, DeleteFeed
  <1>2. Sdk!update_feed_source(f, active) =>
              UpdateFeed(f, Sdk!Param(active)) \/ UNCHANGED tables
    BY DEF Sdk!update_feed_source, Sdk!UpdateFeed, UpdateFeed
  <1>3. /\ Sdk!force_fetch_feed(f) => UNCHANGED tables
        /\ Sdk!mark_article_read => UNCHANGED tables
        /\ Sdk!rate_article => UNCHANGED tables
    BY DEF Sdk!force_fetch_feed, Sdk!mark_article_read, Sdk!rate_article
  <1>4. QED
    BY <1>1, <1>2, <1>3

-----------------------------------------------------------------------------
(* The invariant of the tools.                                             *)

AgentFields == [notes : SUBSET Notes, status : AgentStatus \cup {None}, reason : Reason]

ContentTyped ==
    /\ TypeOK
    /\ agent \in [Todos -> AgentFields]
    /\ \A t \in Todos : agent[t] # Unmarked => todo[t] # None
    /\ comment \in [Comments -> [on : Todos \cup {None}, is : Kept]]
    /\ \A c \in Comments : comment[c].is # "none" => comment[c].on \in Owned(Caller)
    /\ page \in [Pages -> Kept]
    /\ link \subseteq Pages \X Todos
    /\ snippet \in [Snippets -> Kept]
    /\ project \in [Categories -> {"none", "live", "archived"}]
    /\ recurring \in [Recurring -> [is : {"none", "active", "inactive"},
                                    project : Categories \cup {None}]]
    /\ \A r \in Recurring : recurring[r].project \in Project \cup {None}
    /\ feed \in [Feeds -> {"none", "on", "off"}]

Calls == [at : {"idle", "noting", "unread", "answered"}, task : Todos \cup {None},
          notes : SUBSET Notes]

Noting ==
    /\ call \in [Agents -> Calls]
    /\ \A a \in Agents : Writing(a) =>
         /\ call[a].task \in Todos
         /\ \A b \in Agents : Writing(b) => a = b
    /\ \A a \in Agents : call[a].at = "noting" =>
         /\ call[a].task \in Owned(Caller)
         /\ agent[call[a].task].notes \subseteq call[a].notes

ToolsInv == /\ ContentTyped /\ BlockedHasReason /\ Noting
            /\ writes \in 0..MaxWrites

\* What leaves the tasks and the agents' fields alone.
Apart == ContentTyped' /\ UNCHANGED <<todo, deps, agent>>

\* No step but those by hand adds a task like another.
NoNewTwin == \A s, t \in Todos : Twins(s, t)' => todo[t] # None

\* A step of TaskGraph; its category may make a project, a batch links to a page.
ByGraph ==
    /\ [Next]_vars
    /\ UNCHANGED <<agent, comment, page, snippet, recurring, feed>>
    /\ project' \in [Categories -> {"none", "live", "archived"}] /\ Project \subseteq Project'
    /\ link' \subseteq Pages \X Todos

LEMMA NothingApart ==
  ASSUME ContentTyped, UNCHANGED tables
  PROVE  Apart
  BY DEF Apart, ContentTyped, TypeOK, Owned, Project, tables, content

LEMMA CommentsApart ==
  ASSUME ContentTyped, NEW c \in Comments, NEW t,
         CreateComment(c, t) \/ UpdateComment(c) \/ DeleteComment(c)
  PROVE  Apart
  <1>1. CASE UpdateComment(c)
    BY <1>1, NothingApart DEF UpdateComment
  <1>2. CASE CreateComment(c, t) \/ DeleteComment(c)
    <2>1. OnlyComments
      BY <1>2 DEF CreateComment, DeleteComment
    <2>2. t \in LiveOf(Caller) => t \in Owned(Caller) /\ t \in Todos
      BY DEF LiveOf, Owned
    <2>3. /\ comment' \in [Comments -> [on : Todos \cup {None}, is : Kept]]
          /\ \A x \in Comments : comment'[x].is # "none" => comment'[x].on \in Owned(Caller)
      <3>1. comment \in [Comments -> [on : Todos \cup {None}, is : Kept]]
        BY DEF ContentTyped
      <3>2. CASE CreateComment(c, t)
        BY <2>2, <3>1, <3>2 DEF CreateComment, Kept, ContentTyped
      <3>3. CASE DeleteComment(c)
        <4>1. comment' = [comment EXCEPT ![c] = [comment[c] EXCEPT !.is = "deleted"]]
          BY <3>3 DEF DeleteComment
        <4>2. comment[c].is # "none" /\ comment[c] \in [on : Todos \cup {None}, is : Kept]
          BY <3>1, <3>3 DEF DeleteComment, CommentOf
        <4>3. /\ [comment[c] EXCEPT !.is = "deleted"] \in [on : Todos \cup {None}, is : Kept]
              /\ [comment[c] EXCEPT !.is = "deleted"].on = comment[c].on
          BY <4>2 DEF Kept
        <4>4. QED
          BY <3>1, <4>1, <4>2, <4>3 DEF ContentTyped
      <3>4. QED
        BY <1>2, <3>2, <3>3
    <2>4. Owned(Caller)' = Owned(Caller)
      BY <2>1 DEF OnlyComments, Owned
    <2>5. QED
      BY <2>1, <2>3, <2>4 DEF OnlyComments, Apart, ContentTyped, TypeOK, Project
  <1>3. QED
    BY <1>1, <1>2

LEMMA PagesApart ==
  ASSUME ContentTyped, NEW p \in Pages, NEW below, NEW t, NEW ts,
         \/ CreatePage(p) \/ DeletePage(p, below) \/ LinkTask(p, t) \/ UnlinkTask(p, t)
         \/ BatchLinkTasks(p, ts)
  PROVE  Apart
  <1>1. OnlyPages
    BY DEF CreatePage, DeletePage, LinkTask, UnlinkTask, BatchLinkTasks
  <1>2. page' \in [Pages -> Kept]
    BY DEF CreatePage, DeletePage, LinkTask, UnlinkTask, BatchLinkTasks, ContentTyped, Kept
  <1>3. link' \subseteq Pages \X Todos
    BY DEF CreatePage, DeletePage, LinkTask, UnlinkTask, BatchLinkTasks, ContentTyped,
           LiveOf, Owned
  <1>4. Owned(Caller)' = Owned(Caller)
    BY <1>1 DEF OnlyPages, Owned
  <1>5. QED
    BY <1>1, <1>2, <1>3, <1>4 DEF OnlyPages, Apart, ContentTyped, TypeOK, Project

LEMMA SnippetsApart ==
  ASSUME ContentTyped, NEW s \in Snippets, CreateSnippet(s) \/ DeleteSnippet(s)
  PROVE  Apart
  <1>1. OnlySnippets
    BY DEF CreateSnippet, DeleteSnippet
  <1>2. snippet' \in [Snippets -> Kept]
    BY DEF CreateSnippet, DeleteSnippet, ContentTyped, Kept
  <1>3. Owned(Caller)' = Owned(Caller)
    BY <1>1 DEF OnlySnippets, Owned
  <1>4. QED
    BY <1>1, <1>2, <1>3 DEF OnlySnippets, Apart, ContentTyped, TypeOK, Project

LEMMA FeedsApart ==
  ASSUME ContentTyped, NEW f \in Feeds, NEW active \in BOOLEAN,
         CreateFeed(f, active) \/ SetFeed(f, active) \/ DeleteFeed(f)
  PROVE  Apart
  <1>1. OnlyFeeds
    BY DEF CreateFeed, SetFeed, DeleteFeed
  <1>2. feed' \in [Feeds -> {"none", "on", "off"}]
    BY DEF CreateFeed, SetFeed, DeleteFeed, ContentTyped
  <1>3. Owned(Caller)' = Owned(Caller)
    BY <1>1 DEF OnlyFeeds, Owned
  <1>4. QED
    BY <1>1, <1>2, <1>3 DEF OnlyFeeds, Apart, ContentTyped, TypeOK, Project

LEMMA ProjectsApart ==
  ASSUME ContentTyped, NEW name \in Categories,
         \/ CreateProject(name) \/ ArchiveProject(name) \/ UnarchiveProject(name)
         \/ DeleteProject(name)
  PROVE  Apart
  <1>1. OnlyProjects
    BY DEF CreateProject, ArchiveProject, UnarchiveProject, DeleteProject
  <1>2. project' \in [Categories -> {"none", "live", "archived"}]
    BY DEF CreateProject, ArchiveProject, UnarchiveProject, DeleteProject, ContentTyped
  <1>3. /\ recurring' \in [Recurring -> [is : {"none", "active", "inactive"},
                                         project : Categories \cup {None}]]
        /\ \A r \in Recurring : recurring'[r].project \in Project' \cup {None}
    <2>1. CASE DeleteProject(name)
      <3>1. ASSUME NEW r \in Recurring
            PROVE  /\ recurring'[r] \in [is : {"none", "active", "inactive"},
                                         project : Categories \cup {None}]
                   /\ recurring'[r].project \in Project' \cup {None}
        <4>1. recurring'[r] = IF recurring[r].project = name
                                THEN [recurring[r] EXCEPT !.project = None] ELSE recurring[r]
          BY <2>1 DEF DeleteProject
        <4>2. /\ recurring[r] \in [is : {"none", "active", "inactive"},
                                   project : Categories \cup {None}]
              /\ recurring[r].project \in Project \cup {None}
          BY DEF ContentTyped
        <4>3. Project' = Project \ {name}
          BY <2>1 DEF DeleteProject, Project, ContentTyped
        <4>4. CASE recurring[r].project = name
          BY <4>1, <4>2, <4>4
        <4>5. CASE recurring[r].project # name
          BY <4>1, <4>2, <4>3, <4>5
        <4>6. QED
          BY <4>4, <4>5
      <3>2. recurring' = [r \in Recurring |-> recurring'[r]]
        BY <2>1 DEF DeleteProject
      <3>3. QED
        BY <3>1, <3>2
    <2>2. CASE CreateProject(name) \/ ArchiveProject(name) \/ UnarchiveProject(name)
      <3>1. Project \subseteq Project' /\ UNCHANGED recurring
        BY <2>2 DEF CreateProject, ArchiveProject, UnarchiveProject, Project, ContentTyped
      <3>2. QED
        BY <3>1 DEF ContentTyped
    <2>3. QED
      BY <2>1, <2>2
  <1>4. Owned(Caller)' = Owned(Caller)
    BY <1>1 DEF OnlyProjects, Owned
  <1>5. QED
    BY <1>1, <1>2, <1>3, <1>4 DEF OnlyProjects, Apart, ContentTyped, TypeOK

LEMMA RecurringApart ==
  ASSUME ContentTyped, NEW r \in Recurring, NEW name, NEW is \in {"active", "inactive", Unset},
         CreateRecurring(r, name) \/ UpdateRecurring(r, is, name) \/ DeleteRecurring(r)
  PROVE  Apart
  <1> DEFINE R == [is : {"none", "active", "inactive"}, project : Categories \cup {None}]
  <1>1. OnlyRecurring
    BY DEF CreateRecurring, UpdateRecurring, DeleteRecurring
  <1>2. /\ recurring \in [Recurring -> R]
        /\ recurring[r].project \in Project \cup {None}
        /\ Project \subseteq Categories
    BY DEF ContentTyped, Project
  <1>3. PICK w \in R : /\ recurring' = [recurring EXCEPT ![r] = w]
                       /\ w.project \in Project \cup {None}
    <2>1. CASE CreateRecurring(r, name)
      <3>1. [is |-> "active", project |-> name] \in R /\ name \in Project \cup {None}
        BY <1>2, <2>1 DEF CreateRecurring
      <3>2. recurring' = [recurring EXCEPT ![r] = [is |-> "active", project |-> name]]
        BY <2>1 DEF CreateRecurring
      <3>3. QED
        BY <3>1, <3>2
    <2>2. CASE UpdateRecurring(r, is, name)
      <3> DEFINE w == [is |-> Given(is, recurring[r].is),
                       project |-> Given(name, recurring[r].project)]
      <3>1. Given(is, recurring[r].is) \in {"none", "active", "inactive"}
        BY <1>2 DEF Given
      <3>2. Given(name, recurring[r].project) \in Project \cup {None}
        BY <1>2, <2>2 DEF UpdateRecurring, Given
      <3>3. w \in R /\ w.project \in Project \cup {None}
        BY <1>2, <3>1, <3>2
      <3>4. recurring' = [recurring EXCEPT ![r] = w]
        BY <2>2 DEF UpdateRecurring
      <3> HIDE DEF w
      <3>5. QED
        BY <3>3, <3>4
    <2>3. CASE DeleteRecurring(r)
      <3>1. recurring' = [recurring EXCEPT ![r] = [recurring[r] EXCEPT !.is = "inactive"]]
        BY <2>3 DEF DeleteRecurring
      <3>2. [recurring[r] EXCEPT !.is = "inactive"] \in R
            /\ [recurring[r] EXCEPT !.is = "inactive"].project = recurring[r].project
        BY <1>2
      <3>3. QED
        BY <1>2, <3>1, <3>2
    <2>4. QED
      BY <2>1, <2>2, <2>3
  <1>4. Owned(Caller)' = Owned(Caller) /\ Project' = Project
    BY <1>1 DEF OnlyRecurring, Owned, Project
  <1>5. /\ recurring' \in [Recurring -> R]
        /\ \A x \in Recurring : recurring'[x].project \in Project \cup {None}
    BY <1>2, <1>3 DEF ContentTyped
  <1>6. QED
    BY <1>1, <1>4, <1>5 DEF OnlyRecurring, Apart, ContentTyped, TypeOK

LEMMA OwnedGrows ==
  ASSUME TypeOK, [Next]_vars
  PROVE  /\ Owned(Caller) \subseteq Owned(Caller)'
         /\ \A t \in Todos : todo[t] # None => todo'[t] # None
  BY OwnerKept DEF Owned

LEMMA GraphKeeps ==
  ASSUME ContentTyped, ByGraph
  PROVE  ContentTyped'
  <1>1. TypeOK' /\ TypeOK
    BY NextTyped DEF ContentTyped, ByGraph
  <1>2. /\ Owned(Caller) \subseteq Owned(Caller)'
        /\ \A t \in Todos : todo[t] # None => todo'[t] # None
    BY <1>1, OwnedGrows DEF ByGraph
  <1>3. \A t \in Todos : agent'[t] # Unmarked => todo'[t] # None
    BY <1>2 DEF ContentTyped, ByGraph
  <1>4. \A c \in Comments : comment'[c].is # "none" => comment'[c].on \in Owned(Caller)'
    BY <1>2 DEF ContentTyped, ByGraph
  <1>5. \A r \in Recurring : recurring'[r].project \in Project' \cup {None}
    BY DEF ContentTyped, ByGraph
  <1>6. /\ agent' = agent /\ comment' = comment /\ page' = page /\ snippet' = snippet
        /\ recurring' = recurring /\ feed' = feed
        /\ project' \in [Categories -> {"none", "live", "archived"}]
        /\ link' \subseteq Pages \X Todos
    BY DEF ByGraph
  <1>7. QED
    BY <1>1, <1>3, <1>4, <1>5, <1>6 DEF ContentTyped

LEMMA AgentKeeps ==
  ASSUME ContentTyped, NEW t, NEW fields \in AgentFields, UpdateAgent(t, fields)
  PROVE  ContentTyped' /\ UNCHANGED <<todo, deps>>
  <1>1. /\ t \in Owned(Caller) /\ agent' = [agent EXCEPT ![t] = fields]
        /\ UNCHANGED <<todo, deps, comment, page, link, snippet, project, recurring, feed>>
    BY DEF UpdateAgent
  <1>2. t \in Todos /\ todo[t] # None
    BY <1>1 DEF Owned
  <1>3. /\ agent' \in [Todos -> AgentFields]
        /\ \A x \in Todos : agent'[x] # Unmarked => todo[x] # None
    BY <1>1, <1>2 DEF ContentTyped
  <1>4. Owned(Caller)' = Owned(Caller) /\ Project' = Project /\ TypeOK'
    BY <1>1 DEF Owned, Project, TypeOK, ContentTyped
  <1>5. QED
    BY <1>1, <1>3, <1>4 DEF ContentTyped

LEMMA TaskOnlyGraph ==
  ASSUME ContentTyped, NEW c, TaskOnly(c), [Next]_vars
  PROVE  ByGraph
  <1>1. /\ project' \in [Categories -> {"none", "live", "archived"}]
        /\ Project \subseteq Project'
    BY DEF TaskOnly, Resolved, Project, ContentTyped
  <1>2. QED
    BY <1>1 DEF TaskOnly, ByGraph, ContentTyped

\* A twin that is new has been added.
LEMMA OldTwins ==
  ASSUME \A t \in Todos : todo[t] = None => todo'[t] = None
  PROVE  NoNewTwin
  BY DEF NoNewTwin, Twins, LiveOf, Owned

LEMMA CreatedOnce ==
  ASSUME ContentTyped, NEW t \in Todos, NEW title \in Titles, NEW p \in Todos \cup {None},
         CreateTodo(Caller, t, title, "pending", p)
  PROVE  [Next]_vars /\ NoNewTwin
  <1>1. Next
    BY ContentAssumption, ToolsAssumption DEF Next, NextOf
  <1>2. ASSUME NEW s \in Todos, NEW x \in Todos, Twins(s, x)', todo[x] = None PROVE FALSE
    <2>1. /\ todo[t] = None /\ \A y \in Todos : y # t => todo'[y] = todo[y]
          /\ todo'[t].title = title /\ ~ HasDuplicate(Caller, title)
      BY DEF CreateTodo, Insert, ContentTyped, TypeOK
    <2>2. /\ s # x /\ todo'[s] # None /\ todo'[s].owner = Caller /\ todo'[s].live
          /\ todo'[x] # None /\ todo'[s].title = todo'[x].title /\ todo'[s].status \in Active
      BY <1>2 DEF Twins, LiveOf, Owned
    <2>3. x = t /\ s # t /\ todo'[s] = todo[s]
      BY <1>2, <2>1, <2>2
    <2>4. HasDuplicate(Caller, title)
      BY <2>1, <2>2, <2>3 DEF HasDuplicate, LiveOf, Owned
    <2>5. QED
      BY <2>1, <2>4
  <1>3. QED
    BY <1>1, <1>2 DEF NoNewTwin

LEMMA BatchOnce ==
  ASSUME ContentTyped, NEW new \in SUBSET {t \in Todos : todo[t] = None},
         NEW item \in Items(new), NEW after \in SUBSET (new \X new),
         CreateBatch(Caller, new, item, after)
  PROVE  [Next]_vars /\ NoNewTwin
  <1>1. Next
    BY ContentAssumption DEF Next, NextOf
  <1>2. ASSUME NEW s \in Todos, NEW x \in Todos, Twins(s, x)', todo[x] = None PROVE FALSE
    <2>1. \A y \in Todos : todo'[y] = IF y \in new THEN Prepared(Caller, item[y]) ELSE todo[y]
      BY DEF CreateBatch
    <2>2. /\ s # x /\ todo'[s] # None /\ todo'[s].owner = Caller /\ todo'[s].live
          /\ todo'[x] # None /\ todo'[s].title = todo'[x].title /\ todo'[s].status \in Active
      BY <1>2 DEF Twins, LiveOf, Owned
    <2>3. \A y \in new : todo'[y].title = item[y].title
      <3>1. \A i : Prepared(Caller, i).title = i.title
        BY DEF Prepared
      <3>2. \A y \in new : todo'[y] = Prepared(Caller, item[y])
        BY <2>1
      <3>3. QED
        BY <3>1, <3>2
    <2>4. x \in new /\ todo'[x].title = item[x].title
      BY <1>2, <2>1, <2>2, <2>3
    <2>5. /\ ~ HasDuplicate(Caller, item[x].title)
          /\ \A y \in new \ {x} : item[y].title # item[x].title
      BY <2>4 DEF CreateBatch, NoDuplicates
    <2>6. CASE s \in new
      BY <2>2, <2>3, <2>4, <2>5, <2>6
    <2>7. CASE s \notin new
      <3>1. todo'[s] = todo[s]
        BY <2>1, <2>7
      <3>2. HasDuplicate(Caller, item[x].title)
        BY <2>2, <2>4, <3>1 DEF HasDuplicate, LiveOf, Owned
      <3>3. QED
        BY <2>5, <3>2
    <2>8. QED
      BY <2>6, <2>7
  <1>3. QED
    BY <1>1, <1>2 DEF NoNewTwin

LEMMA ParamIs ==
  \A x, old : /\ Sdk!Param(x) = IF x = None THEN Unset ELSE x
              /\ Given(Sdk!Param(x), old) = IF x \in {None, Unset} THEN old ELSE x
  BY TaskAssumption DEF Sdk!Param, Given

LEMMA UpdatedByGraph ==
  ASSUME ContentTyped, NEW t \in Todos, NEW title \in Titles \cup {None},
         NEW s \in Sent \cup {None}, NEW p \in Todos \cup {None},
         UpdateTodo(Caller, t, Sdk!Param(title), Sdk!Param(s), Sdk!Param(p))
  PROVE  [Next]_vars /\ NoNewTwin
  <1>1. /\ Sdk!Param(title) \in NewTitle /\ Sdk!Param(s) \in NewStatus
        /\ Sdk!Param(p) \in NewParent
    BY ParamIs DEF NewTitle, NewStatus, NewParent
  <1>2. Next
    BY <1>1, ContentAssumption DEF Next, NextOf
  <1>3. \A x \in Todos : todo[x] = None => todo'[x] = None
    BY DEF UpdateTodo, Owned, ContentTyped, TypeOK
  <1>4. QED
    BY <1>2, <1>3, OldTwins

LEMMA MarkedByGraph ==
  ASSUME ContentTyped, NEW t \in Todos, NEW d \in Todos,
         \/ CompleteTodo(Caller, t) \/ DeleteTodo(Caller, t) \/ RestoreTodo(Caller, t)
         \/ AddDependency(Caller, t, d) \/ RemoveDependency(Caller, t, d)
  PROVE  [Next]_vars /\ NoNewTwin
  <1>1. Next
    BY ContentAssumption DEF Next, NextOf
  <1>2. \A x \in Todos : todo[x] = None => todo'[x] = None
    BY DEF CompleteTodo, DeleteTodo, RestoreTodo, AddDependency, RemoveDependency, Owned,
           ContentTyped, TypeOK
  <1>3. QED
    BY <1>1, <1>2, OldTwins

LEMMA TaskTools ==
  ASSUME ContentTyped, NEW a \in Agents, TaskTool(a)
  PROVE  Answer(a) /\ (Apart \/ (ByGraph /\ NoNewTwin))
  <1>1. UNCHANGED tables => Apart
    BY NothingApart
  <1>2. CASE \/ get_tasks(a) \/ search_tasks(a) \/ unified_search(a) \/ get_task(a)
             \/ get_agent_tasks(a) \/ list_task_attachments(a) \/ list_task_comments(a)
             \/ list_dependencies(a)
    BY <1>1, <1>2 DEF get_tasks, search_tasks, unified_search, get_task, get_agent_tasks,
                      list_task_attachments, list_task_comments, list_dependencies, Read
  <1>3. CASE create_task(a)
    <2>1. PICK t \in Todos, title \in Titles, p \in Todos \cup {None}, c \in Category :
             Answer(a) /\ Sdk!create_todo(t, title, p, c)
      BY <1>3 DEF create_task, Run
    <2>2. \/ CreateTodo(Caller, t, title, "pending", p) /\ TaskOnly(c)
          \/ UNCHANGED tables
      BY <2>1, SdkTasks
    <2>3. CASE CreateTodo(Caller, t, title, "pending", p) /\ TaskOnly(c)
      BY <2>1, <2>3, CreatedOnce, TaskOnlyGraph
    <2>4. QED
      BY <1>1, <2>1, <2>2, <2>3
  <1>4. CASE create_tasks(a)
    <2>1. PICK new \in SUBSET {t \in Todos : todo[t] = None} :
             \E item \in Items(new), after \in SUBSET (new \X new), p \in Pages \cup {None},
                c \in Category : Answer(a) /\ Sdk!batch_create_todos(new, item, after, p, c)
      BY <1>4 DEF create_tasks, Run
    <2>2. PICK item \in Items(new), after \in SUBSET (new \X new), p \in Pages \cup {None},
               c \in Category : Answer(a) /\ Sdk!batch_create_todos(new, item, after, p, c)
      BY <2>1
    <2>3. CreateLinkedBatch(new, item, after, p, c) \/ UNCHANGED tables
      BY <2>2, SdkBatch
    <2>4. CASE CreateLinkedBatch(new, item, after, p, c)
      <3>1. /\ CreateBatch(Caller, new, item, after) /\ Resolved(c)
            /\ link' = link \cup (({p} \ {None}) \X new)
            /\ UNCHANGED <<agent, comment, page, snippet, recurring, feed>>
        BY <2>4 DEF CreateLinkedBatch
      <3>2. [Next]_vars /\ NoNewTwin
        BY <3>1, BatchOnce
      <3>3. /\ project' \in [Categories -> {"none", "live", "archived"}]
            /\ Project \subseteq Project'
        BY <3>1 DEF Resolved, Project, ContentTyped
      <3>4. link' \subseteq Pages \X Todos
        BY <3>1 DEF ContentTyped
      <3>5. QED
        BY <2>2, <3>1, <3>2, <3>3, <3>4 DEF ByGraph
    <2>5. QED
      BY <1>1, <2>2, <2>3, <2>4
  <1>5. CASE update_task(a)
    <2>1. PICK t \in Todos, title \in Titles \cup {None}, s \in Sent \cup {None},
               p \in Todos \cup {None}, c \in Category :
             Answer(a) /\ Sdk!update_todo(t, title, s, p, c)
      BY <1>5 DEF update_task, Run
    <2>2. \/ /\ UpdateTodo(Caller, t, Sdk!Param(title), Sdk!Param(s), Sdk!Param(p))
             /\ TaskOnly(c)
          \/ UNCHANGED tables
      BY <2>1, SdkTasks
    <2>3. CASE /\ UpdateTodo(Caller, t, Sdk!Param(title), Sdk!Param(s), Sdk!Param(p))
               /\ TaskOnly(c)
      BY <2>1, <2>3, UpdatedByGraph, TaskOnlyGraph
    <2>4. QED
      BY <1>1, <2>1, <2>2, <2>3
  <1>6. CASE delete_task(a) \/ complete_task(a) \/ add_dependency(a)
    <2>1. PICK t \in Todos, d \in Todos :
             /\ Answer(a)
             /\ Sdk!delete_todo(t) \/ Sdk!complete_todo(t) \/ Sdk!add_dependency(t, d)
      BY <1>6 DEF delete_task, complete_task, add_dependency, Run
    <2>2. \/ /\ CompleteTodo(Caller, t) \/ DeleteTodo(Caller, t) \/ AddDependency(Caller, t, d)
             /\ TaskOnly(None)
          \/ UNCHANGED tables
      BY <2>1, SdkTasks
    <2>3. CASE /\ CompleteTodo(Caller, t) \/ DeleteTodo(Caller, t)
                  \/ AddDependency(Caller, t, d)
               /\ TaskOnly(None)
      BY <2>1, <2>3, MarkedByGraph, TaskOnlyGraph
    <2>4. QED
      BY <1>1, <2>1, <2>2, <2>3
  <1>7. CASE add_task_comment(a)
    <2>1. PICK c \in Comments, t \in Todos : Answer(a) /\ Sdk!create_comment(c, t)
      BY <1>7 DEF add_task_comment, Run
    <2>2. QED
      BY <1>1, <2>1, SdkPages, CommentsApart
  <1>8. CASE create_project(a)
    <2>1. PICK name \in Categories : Answer(a) /\ Sdk!create_project(name)
      BY <1>8 DEF create_project, Run
    <2>2. QED
      BY <1>1, <2>1, SdkPages, ProjectsApart
  <1>9. QED
    BY <1>2, <1>3, <1>4, <1>5, <1>6, <1>7, <1>8 DEF TaskTool

LEMMA WikiTools ==
  ASSUME ContentTyped, NEW a \in Agents, WikiTool(a)
  PROVE  Answer(a) /\ Apart
  <1>1. UNCHANGED tables => Apart
    BY NothingApart
  <1>2. CASE \/ search_wiki_pages(a) \/ get_wiki_page(a) \/ get_wiki_page_linked_tasks(a)
             \/ get_task_wiki_pages(a) \/ list_snippets(a) \/ get_snippet(a)
    BY <1>1, <1>2 DEF search_wiki_pages, get_wiki_page, get_wiki_page_linked_tasks,
                      get_task_wiki_pages, list_snippets, get_snippet, Read
  <1>3. CASE \/ create_wiki_page(a) \/ update_wiki_page(a) \/ delete_wiki_page(a)
             \/ link_wiki_page_to_task(a) \/ batch_link_wiki_page_to_tasks(a)
    <2>1. Answer(a)
      BY <1>3 DEF create_wiki_page, update_wiki_page, delete_wiki_page, link_wiki_page_to_task,
                  batch_link_wiki_page_to_tasks, Run
    <2>2. CASE create_wiki_page(a) \/ update_wiki_page(a)
      <3>1. PICK p \in Pages : Sdk!create_wiki_page(p) \/ Sdk!update_wiki_page(p)
        BY <2>2 DEF create_wiki_page, update_wiki_page, Run
      <3>2. CreatePage(p) \/ UNCHANGED tables
        BY <3>1, SdkPages
      <3>3. CreatePage(p) => Apart
        BY PagesApart
      <3>4. QED
        BY <1>1, <2>1, <3>2, <3>3
    <2>3. CASE delete_wiki_page(a)
      <3>1. PICK p \in Pages, below \in SUBSET Pages : Sdk!delete_wiki_page(p, below)
        BY <2>3 DEF delete_wiki_page, Run
      <3>2. DeletePage(p, below) \/ UNCHANGED tables
        BY <3>1, SdkPages
      <3>3. DeletePage(p, below) => Apart
        BY PagesApart
      <3>4. QED
        BY <1>1, <2>1, <3>2, <3>3
    <2>4. CASE link_wiki_page_to_task(a)
      <3>1. PICK p \in Pages, t \in Todos : Sdk!link_wiki_page_to_task(p, t)
        BY <2>4 DEF link_wiki_page_to_task, Run
      <3>2. LinkTask(p, t) \/ UNCHANGED tables
        BY <3>1, SdkPages
      <3>3. LinkTask(p, t) => Apart
        BY PagesApart
      <3>4. QED
        BY <1>1, <2>1, <3>2, <3>3
    <2>5. CASE batch_link_wiki_page_to_tasks(a)
      <3>1. PICK p \in Pages, ts \in SUBSET Todos : Sdk!batch_link_wiki_page_to_tasks(p, ts)
        BY <2>5 DEF batch_link_wiki_page_to_tasks, Run
      <3>2. BatchLinkTasks(p, ts) \/ UNCHANGED tables
        BY <3>1, SdkPages
      <3>3. BatchLinkTasks(p, ts) => Apart
        BY PagesApart
      <3>4. QED
        BY <1>1, <2>1, <3>2, <3>3
    <2>6. QED
      BY <1>3, <2>2, <2>3, <2>4, <2>5
  <1>4. CASE create_snippet(a) \/ update_snippet(a) \/ delete_snippet(a)
    <2>1. PICK s \in Snippets : /\ Answer(a)
                                /\ \/ Sdk!create_snippet(s) \/ Sdk!update_snippet(s)
                                   \/ Sdk!delete_snippet(s)
      BY <1>4 DEF create_snippet, update_snippet, delete_snippet, Run
    <2>2. CreateSnippet(s) \/ DeleteSnippet(s) \/ UNCHANGED tables
      BY <2>1, SdkPages
    <2>3. QED
      BY <1>1, <2>1, <2>2, SnippetsApart
  <1>5. QED
    BY <1>2, <1>3, <1>4 DEF WikiTool

LEMMA NewsTools ==
  ASSUME ContentTyped, NEW a \in Agents, NewsTool(a)
  PROVE  Answer(a) /\ Apart
  <1>1. UNCHANGED tables => Apart
    BY NothingApart
  <1>2. CASE \/ list_articles(a) \/ get_article(a) \/ list_feed_sources(a)
             \/ mark_article_read(a) \/ rate_article(a)
    BY <1>1, <1>2, SdkFeeds DEF list_articles, get_article, list_feed_sources,
                                mark_article_read, rate_article, Read, Run
  <1>3. CASE create_feed_source(a) \/ toggle_feed_source(a)
    <2>1. PICK f \in Feeds, active \in BOOLEAN :
             /\ Answer(a)
             /\ Sdk!create_feed_source(f, active) \/ Sdk!toggle_feed_source(f, active)
      BY <1>3 DEF create_feed_source, toggle_feed_source, Run
    <2>2. CreateFeed(f, active) \/ SetFeed(f, active) \/ UNCHANGED tables
      BY <2>1, SdkFeeds
    <2>3. QED
      BY <1>1, <2>1, <2>2, FeedsApart
  <1>4. CASE update_feed_source(a)
    <2>1. PICK f \in Feeds, active \in BOOLEAN \cup {None} :
             Answer(a) /\ Sdk!update_feed_source(f, active)
      BY <1>4 DEF update_feed_source, Run
    <2>2. PICK is \in BOOLEAN \cup {Unset} : is = Sdk!Param(active)
      BY ParamIs
    <2>3. UpdateFeed(f, is) \/ UNCHANGED tables
      BY <2>1, <2>2, SdkFeeds
    <2>4. UNCHANGED tables \/ (is \in BOOLEAN /\ SetFeed(f, is))
      BY <2>2, <2>3 DEF UpdateFeed
    <2>5. QED
      BY <1>1, <2>1, <2>4, FeedsApart
  <1>5. CASE delete_feed_source(a) \/ force_fetch_feed(a)
    <2>1. PICK f \in Feeds : Answer(a) /\ (Sdk!delete_feed_source(f) \/ Sdk!force_fetch_feed(f))
      BY <1>5 DEF delete_feed_source, force_fetch_feed, Run
    <2>2. DeleteFeed(f) \/ UNCHANGED tables
      BY <2>1, SdkFeeds
    <2>3. DeleteFeed(f) => Apart
      BY FeedsApart
    <2>4. QED
      BY <1>1, <2>1, <2>2, <2>3
  <1>6. QED
    BY <1>2, <1>3, <1>4, <1>5 DEF NewsTool

LEMMA ByHand ==
  ASSUME ContentTyped, WebUser
  PROVE  call' = call /\ (Apart \/ ByGraph)
  <1>1. call' = call
    BY DEF WebUser
  <1>2. CASE /\ \/ \E t, p \in Todos, title \in Titles : CreateSubtask(Caller, t, title, p)
                \/ \E t \in Todos : RestoreTodo(Caller, t)
                \/ \E t, d \in Todos : RemoveDependency(Caller, t, d)
             /\ UNCHANGED content
    <2>1. Next
      BY <1>2, ContentAssumption DEF Next, NextOf
    <2>2. ByGraph
      BY <1>2, <2>1 DEF ByGraph, content, ContentTyped, Project
    <2>3. QED
      BY <1>1, <2>2
  <1>3. CASE \E c \in Comments : UpdateComment(c) \/ DeleteComment(c)
    BY <1>1, <1>3, CommentsApart
  <1>4. CASE \E name \in Categories :
                ArchiveProject(name) \/ UnarchiveProject(name) \/ DeleteProject(name)
    BY <1>1, <1>4, ProjectsApart
  <1>5. CASE \E r \in Recurring, name \in Category :
                \/ CreateRecurring(r, name)
                \/ \E is \in {"active", "inactive"} : UpdateRecurring(r, is, name)
                \/ UpdateRecurring(r, Unset, name)
                \/ UpdateRecurring(r, "active", Unset)
                \/ DeleteRecurring(r)
    <2>1. PICK r \in Recurring, name \in Category :
                \/ CreateRecurring(r, name)
                \/ \E is \in {"active", "inactive"} : UpdateRecurring(r, is, name)
                \/ UpdateRecurring(r, Unset, name)
                \/ UpdateRecurring(r, "active", Unset)
                \/ DeleteRecurring(r)
      BY <1>5
    <2>2. \A is \in {"active", "inactive", Unset} : \A x :
             CreateRecurring(r, x) \/ UpdateRecurring(r, is, x) \/ DeleteRecurring(r) => Apart
      BY RecurringApart
    <2>3. QED
      BY <1>1, <2>1, <2>2
  <1>6. CASE \E p \in Pages, t \in Todos : UnlinkTask(p, t)
    BY <1>1, <1>6, PagesApart
  <1>7. QED
    BY <1>2, <1>3, <1>4, <1>5, <1>6 DEF WebUser

\* A method that writes the agent's fields keeps those that it is not given.
LEMMA FieldsWritten ==
  ASSUME ContentTyped, BlockedHasReason, NEW t \in Todos, NEW notes \in (SUBSET Notes) \cup {None},
         NEW status \in AgentStatus \cup {None}, NEW reason \in Reason,
         status = "blocked" => reason # None,
         Sdk!update_agent_fields(t, notes, status, reason)
  PROVE  /\ ContentTyped' /\ BlockedHasReason' /\ UNCHANGED <<todo, deps>>
         /\ \A x \in Todos : \/ agent'[x].notes = agent[x].notes
                             \/ x = t /\ agent'[x].notes = notes
  <1>1. CASE UNCHANGED tables
    <2>1. ContentTyped' /\ UNCHANGED <<todo, deps, agent>>
      BY <1>1, NothingApart DEF Apart
    <2>2. QED
      BY <2>1 DEF BlockedHasReason
  <1>2. CASE ~ UNCHANGED tables
    <2> DEFINE fields == [notes  |-> Given(Sdk!Param(notes), agent[t].notes),
                          status |-> Given(Sdk!Param(status), agent[t].status),
                          reason |-> Given(Sdk!Param(reason), agent[t].reason)]
    <2>1. UpdateAgent(t, fields)
      BY <1>2, SdkAgent
    <2>2. agent[t] \in AgentFields
      BY DEF ContentTyped
    <2>3. /\ fields.notes = IF notes \in {None, Unset} THEN agent[t].notes ELSE notes
          /\ fields.status = IF status \in {None, Unset} THEN agent[t].status ELSE status
          /\ fields.reason = IF reason \in {None, Unset} THEN agent[t].reason ELSE reason
      BY ParamIs
    <2>4. /\ {None, Unset} \cap (AgentStatus \cup {"given", "empty"}) = {}
          /\ "blocked" \in AgentStatus
      BY ContentAssumption DEF AgentStatus
    <2>5. fields \in AgentFields
      <3>1. /\ fields.notes \in SUBSET Notes /\ fields.status \in AgentStatus \cup {None}
            /\ fields.reason \in Reason
        BY <2>2, <2>3 DEF AgentFields
      <3>2. QED
        BY <3>1 DEF AgentFields
    <2>6. fields.status = "blocked" => fields.reason # None
      <3>1. agent[t].status = "blocked" => agent[t].reason # None
        BY DEF BlockedHasReason
      <3> HIDE DEF fields
      <3>2. QED
        BY <2>3, <2>4, <3>1 DEF Reason
    <2>7. PICK w \in AgentFields : w = fields
      BY <2>5
    <2> HIDE DEF fields
    <2>8. ContentTyped' /\ UNCHANGED <<todo, deps>>
      BY <2>1, <2>7, AgentKeeps
    <2>9. \A x \in Todos : agent'[x] = IF x = t THEN w ELSE agent[x]
      BY <2>1, <2>7 DEF UpdateAgent, ContentTyped
    <2>10. BlockedHasReason'
      BY <2>6, <2>7, <2>9 DEF BlockedHasReason
    <2>11. QED
      BY <2>3, <2>7, <2>8, <2>9, <2>10
  <1>3. QED
    BY <1>1, <1>2

\* The first request of add_agent_note, when the second is to follow.
Reads(a, t, n) ==
    \/ /\ t \in Owned(Caller)
       /\ WriteNext(a, "noting", t, agent[t].notes \cup {n})
    \/ WriteNext(a, "unread", t, {n})

LEMMA AgentTools ==
  ASSUME ContentTyped, BlockedHasReason, NEW a \in Agents,
         classify_task(a) \/ set_agent_status(a) \/ add_agent_note(a)
  PROVE  /\ ContentTyped' /\ BlockedHasReason' /\ UNCHANGED <<todo, deps>>
         /\ Answer(a) \/ \E t \in Todos, n \in Notes : Reads(a, t, n)
  <1>1. UNCHANGED tables => ContentTyped' /\ BlockedHasReason' /\ UNCHANGED <<todo, deps>>
    BY NothingApart DEF Apart, BlockedHasReason
  <1>2. \A s \in AgentStatus : s # None
    BY ContentAssumption
  <1>3. CASE classify_task(a)
    <2>1. PICK t \in Todos, reason \in Reason :
             Answer(a) /\ Sdk!update_agent_fields(t, None, None, reason)
      BY <1>3 DEF classify_task, Run
    <2>2. None # "blocked"
      BY <1>2 DEF AgentStatus
    <2>3. QED
      BY <2>1, <2>2, FieldsWritten
  <1>4. CASE set_agent_status(a)
    <2>1. PICK t \in Todos, s \in AgentSent, reason \in Reason :
             /\ s = "blocked" => reason = "given"
             /\ Answer(a)
             /\ Sdk!update_agent_fields(t, None, s, IF s = "blocked" THEN reason ELSE None)
      BY <1>4 DEF set_agent_status, Run
    <2>2. PICK why \in Reason : why = IF s = "blocked" THEN reason ELSE None
      BY DEF Reason
    <2>3. s \in AgentStatus
      BY ToolsAssumption
    <2>4. s = "blocked" => why # None
      BY <2>1, <2>2, ContentAssumption
    <2>5. QED
      BY <2>1, <2>2, <2>3, <2>4, FieldsWritten
  <1>5. CASE add_agent_note(a)
    <2>1. PICK t \in Todos, n \in Notes :
        \/ Run(a, Sdk!update_agent_fields(t, {n}, None, None))
        \/ Sdk!get_todo(t) /\ WriteNext(a, "noting", t, agent[t].notes \cup {n})
        \/ WriteNext(a, "unread", t, {n})
        \/ Read(a)
      BY <1>5 DEF add_agent_note
    <2>2. CASE Run(a, Sdk!update_agent_fields(t, {n}, None, None))
      <3>1. None # "blocked" /\ {n} \in SUBSET Notes
        BY <1>2 DEF AgentStatus
      <3>2. QED
        BY <2>2, <3>1, FieldsWritten DEF Run, Reason
    <2>3. CASE \/ Sdk!get_todo(t) /\ WriteNext(a, "noting", t, agent[t].notes \cup {n})
               \/ WriteNext(a, "unread", t, {n})
      <3>1. UNCHANGED tables
        BY <2>3 DEF WriteNext
      <3>2. Reads(a, t, n)
        BY <2>3, SdkRows DEF Reads, Sdk!get_todo
      <3>3. QED
        BY <1>1, <3>1, <3>2
    <2>4. CASE Read(a)
      BY <1>1, <2>4 DEF Read
    <2>5. QED
      BY <2>1, <2>2, <2>3, <2>4
  <1>6. QED
    BY <1>3, <1>4, <1>5

-----------------------------------------------------------------------------
(***************************************************************************)
(* What a step of the tools keeps, and what it is for the two graphs.      *)
(***************************************************************************)

NotesGrow == \A t \in Todos : agent[t].notes \subseteq agent'[t].notes

\* A step keeps the invariant, is a step of TaskGraph, adds no twin where a call
\* ends, and takes no note away while one is appended to those that were read.
GoodStep ==
    /\ ContentTyped' /\ BlockedHasReason' /\ Noting'
    /\ [Next]_vars
    /\ call' = call \/ NoNewTwin
    /\ (\E a \in Agents : call[a].at = "noting") => NotesGrow

\* An answer leaves nobody between two requests.
LEMMA Answered ==
  ASSUME Noting, NEW a \in Agents, Answer(a), LoopFree \/ Writing(a)
  PROVE  Noting'
  <1>1. \A b \in Agents : b # a => call[b].at \notin {"noting", "unread"}
    BY DEF Noting, LoopFree, Writing
  <1>2. call' = [call EXCEPT ![a] = [at |-> "answered", task |-> None, notes |-> {}]]
    <2>1. [Idle EXCEPT !.at = "answered"] = [at |-> "answered", task |-> None, notes |-> {}]
      BY DEF Idle
    <2>2. QED
      BY <2>1 DEF Answer
  <1>3. call' \in [Agents -> Calls]
    BY <1>2 DEF Noting, Calls
  <1>4. \A b \in Agents : call'[b].at \notin {"noting", "unread"}
    BY <1>1, <1>2 DEF Noting
  <1>5. QED
    BY <1>3, <1>4 DEF Noting, Writing

LEMMA NotingStays ==
  ASSUME Noting, call' = call, agent' = agent, Owned(Caller) \subseteq Owned(Caller)'
  PROVE  Noting'
  BY DEF Noting, Writing

LEMMA AgentAlone ==
  ASSUME ContentTyped, BlockedHasReason, agent' = agent
  PROVE  BlockedHasReason' /\ NotesGrow
  BY DEF BlockedHasReason, NotesGrow

LEMMA UnmovedGraph ==
  ASSUME UNCHANGED <<todo, deps>>
  PROVE  [Next]_vars /\ NoNewTwin
  <1>1. [Next]_vars
    BY DEF vars
  <1>2. NoNewTwin
    BY OldTwins
  <1>3. QED
    BY <1>1, <1>2

LEMMA ToolStep ==
  ASSUME ToolsInv, NEW a \in Agents, Begin(a),
         \/ TaskTool(a) \/ classify_task(a) \/ set_agent_status(a)
         \/ add_agent_note(a) \/ WikiTool(a) \/ NewsTool(a)
  PROVE  GoodStep
  <1> USE DEF ToolsInv
  <1>1. LoopFree
    BY DEF Begin
  <1>2. CASE TaskTool(a) \/ WikiTool(a) \/ NewsTool(a)
    <2>1. Answer(a) /\ (Apart \/ (ByGraph /\ NoNewTwin))
      BY <1>2, TaskTools, WikiTools, NewsTools
    <2>2. Noting'
      BY <1>1, <2>1, Answered
    <2>3. CASE Apart
      <3>1. ContentTyped' /\ UNCHANGED <<todo, deps>> /\ agent' = agent
        BY <2>3 DEF Apart
      <3>2. QED
        BY <1>1, <2>2, <3>1, AgentAlone, UnmovedGraph DEF GoodStep
    <2>4. CASE ByGraph /\ NoNewTwin
      <3>1. ContentTyped' /\ [Next]_vars /\ agent' = agent
        BY <2>4, GraphKeeps DEF ByGraph
      <3>2. QED
        BY <1>1, <2>2, <2>4, <3>1, AgentAlone DEF GoodStep
    <2>5. QED
      BY <2>1, <2>3, <2>4
  <1>3. CASE classify_task(a) \/ set_agent_status(a) \/ add_agent_note(a)
    <2>1. /\ ContentTyped' /\ BlockedHasReason' /\ UNCHANGED <<todo, deps>>
          /\ Answer(a) \/ \E t \in Todos, n \in Notes : Reads(a, t, n)
      BY <1>3, AgentTools
    <2>2. Noting'
      <3>1. CASE Answer(a)
        BY <1>1, <3>1, Answered
      <3>2. ASSUME NEW t \in Todos, NEW n \in Notes, Reads(a, t, n)
            PROVE  Noting'
        <4>1. agent[t].notes \in SUBSET Notes
          BY DEF ContentTyped, AgentFields
        <4>2. PICK at \in {"noting", "unread"}, notes \in SUBSET Notes :
                /\ WriteNext(a, at, t, notes)
                /\ at = "noting" => t \in Owned(Caller) /\ agent[t].notes \subseteq notes
          BY <3>2, <4>1 DEF Reads
        <4>3. call' = [call EXCEPT ![a] = [at |-> at, task |-> t, notes |-> notes]]
          BY <4>2 DEF WriteNext
        <4>4. call' \in [Agents -> Calls]
          BY <4>3 DEF Noting, Calls
        <4>5. \A b \in Agents : call'[b].at \in {"noting", "unread"} => b = a
          BY <1>1, <4>3 DEF LoopFree, Noting, Writing
        <4>6. call'[a].at = at /\ call'[a].task = t /\ call'[a].notes = notes
          BY <4>3 DEF Noting
        <4>7. agent' = agent /\ Owned(Caller)' = Owned(Caller)
          BY <4>2 DEF WriteNext, tables, content, Owned
        <4>8. QED
          BY <4>2, <4>4, <4>5, <4>6, <4>7 DEF Noting, Writing
      <3>3. QED
        BY <2>1, <3>1, <3>2
    <2>3. QED
      BY <1>1, <2>1, <2>2, UnmovedGraph DEF GoodStep, LoopFree, Writing
  <1>4. QED
    BY <1>2, <1>3

\* What is written holds what was there when it was read, and nobody else writes.
LEMMA WriteStep ==
  ASSUME ToolsInv, NEW a \in Agents, WriteNote(a)
  PROVE  GoodStep
  <1> USE DEF ToolsInv
  <1>1. PICK t : t = call[a].task
    OBVIOUS
  <1>2. PICK notes : notes = call[a].notes
    OBVIOUS
  <1>3. /\ Writing(a) /\ Answer(a)
        /\ Sdk!update_agent_fields(t, notes, None, None)
    BY <1>1, <1>2 DEF WriteNote, Run
  <1>4. /\ t \in Todos /\ notes \in SUBSET Notes
        /\ call[a].at = "noting" => agent[t].notes \subseteq notes
    BY <1>1, <1>2, <1>3 DEF Noting, Calls
  <1>5. None # "blocked"
    BY ContentAssumption DEF AgentStatus
  <1>6. /\ ContentTyped' /\ BlockedHasReason' /\ UNCHANGED <<todo, deps>>
        /\ \A x \in Todos : \/ agent'[x].notes = agent[x].notes
                            \/ x = t /\ agent'[x].notes = notes
    BY <1>3, <1>4, <1>5, FieldsWritten DEF Reason
  <1>7. (\E b \in Agents : call[b].at = "noting") => NotesGrow
    <2>1. \A b \in Agents : call[b].at = "noting" => b = a
      BY <1>3 DEF Noting, Writing
    <2>2. QED
      BY <1>4, <1>6, <2>1 DEF NotesGrow
  <1>8. Noting'
    BY <1>3, Answered
  <1>9. QED
    BY <1>6, <1>7, <1>8, UnmovedGraph DEF GoodStep

\* The user, the screening and a restart take nothing from the notes.
LEMMA OtherStep ==
  ASSUME ToolsInv,
         WebUser \/ Restart \/ UNCHANGED toolVars \/ \E a \in Agents : Screen(a)
  PROVE  GoodStep
  <1> USE DEF ToolsInv
  <1>1. CASE WebUser
    <2>1. call' = call /\ (Apart \/ ByGraph)
      BY <1>1, ByHand
    <2>2. ContentTyped' /\ [Next]_vars /\ agent' = agent
      BY <2>1, GraphKeeps, UnmovedGraph DEF Apart, ByGraph
    <2>3. Owned(Caller) \subseteq Owned(Caller)'
      BY <2>2, OwnedGrows DEF ContentTyped
    <2>4. QED
      BY <2>1, <2>2, <2>3, AgentAlone, NotingStays DEF GoodStep
  <1>2. CASE ~ WebUser
    <2>1. UNCHANGED tables
      BY <1>2 DEF Restart, Screen, toolVars
    <2>2. ContentTyped' /\ UNCHANGED <<todo, deps>> /\ agent' = agent
      BY <2>1, NothingApart DEF Apart
    <2>3. Owned(Caller)' = Owned(Caller)
      BY <2>2 DEF Owned
    <2>4. Noting'
      <3>1. CASE Restart
        <4>1. call' = [b \in Agents |-> [at |-> "idle", task |-> None, notes |-> {}]]
          BY <3>1 DEF Restart, Idle
        <4>2. QED
          BY <4>1 DEF Noting, Calls, Writing
      <3>2. ASSUME NEW a \in Agents, Screen(a) PROVE Noting'
        <4>1. call' = [call EXCEPT ![a] = [at |-> "idle", task |-> None, notes |-> {}]]
          BY <3>2 DEF Screen, Idle
        <4>2. \A b \in Agents : call[b].at \notin {"noting", "unread"}
          BY <3>2 DEF Screen, LoopFree, Writing
        <4>3. call' \in [Agents -> Calls]
          BY <4>1 DEF Noting, Calls
        <4>4. \A b \in Agents : call'[b].at \notin {"noting", "unread"}
          BY <4>1, <4>2 DEF Noting
        <4>5. QED
          BY <4>3, <4>4 DEF Noting, Writing
      <3>3. CASE UNCHANGED toolVars
        BY <2>2, <2>3, <3>3, NotingStays DEF toolVars
      <3>4. QED
        BY <1>2, <3>1, <3>2, <3>3
    <2>5. QED
      BY <2>2, <2>4, AgentAlone, UnmovedGraph DEF GoodStep
  <1>3. QED
    BY <1>1, <1>2

LEMMA ToolsInitKept == ToolsInit => ToolsInv
  <1> SUFFICES ASSUME ToolsInit PROVE ToolsInv
    OBVIOUS
  <1>1. ContentInit /\ call = [a \in Agents |-> Idle] /\ writes = 0
    BY DEF ToolsInit
  <1>2. TypeOK
    BY <1>1, InitTyped DEF ContentInit
  <1>3. agent \in [Todos -> AgentFields] /\ \A t \in Todos : agent[t] = Unmarked
    BY <1>1 DEF ContentInit, Unmarked, AgentFields, Reason
  <1>4. BlockedHasReason
    <2>1. None # "blocked"
      BY ContentAssumption DEF AgentStatus
    <2>2. \A t \in Todos : agent[t].status = None
      BY <1>3 DEF Unmarked
    <2>3. QED
      BY <2>1, <2>2 DEF BlockedHasReason
  <1>5. /\ comment \in [Comments -> [on : Todos \cup {None}, is : Kept]]
        /\ \A c \in Comments : comment[c].is = "none"
        /\ recurring \in [Recurring -> [is : {"none", "active", "inactive"},
                                        project : Categories \cup {None}]]
        /\ \A r \in Recurring : recurring[r].project = None
    BY <1>1 DEF ContentInit, Kept
  <1>6. /\ page \in [Pages -> Kept] /\ link \subseteq Pages \X Todos
        /\ snippet \in [Snippets -> Kept]
        /\ project \in [Categories -> {"none", "live", "archived"}]
        /\ feed \in [Feeds -> {"none", "on", "off"}]
    BY <1>1 DEF ContentInit, Kept
  <1>7. ContentTyped
    BY <1>2, <1>3, <1>5, <1>6 DEF ContentTyped
  <1>8. Noting
    BY <1>1 DEF Noting, Idle, Calls, Writing
  <1>9. QED
    BY <1>1, <1>4, <1>7, <1>8, ToolsAssumption DEF ToolsInv

LEMMA ToolsSteps ==
  ToolsInv /\ [ToolsNext]_toolVars => GoodStep /\ ToolsInv'
  <1> SUFFICES ASSUME ToolsInv, [ToolsNext]_toolVars PROVE GoodStep /\ ToolsInv'
    OBVIOUS
  <1>1. GoodStep
    BY ToolStep, WriteStep, OtherStep DEF ToolsNext
  <1>2. writes' \in 0..MaxWrites
    <2>1. writes \in 0..MaxWrites /\ MaxWrites \in Nat
      BY ToolsAssumption DEF ToolsInv
    <2>2. Count \/ writes' = writes
      BY DEF ToolsNext, Screen, Restart, toolVars
    <2>3. QED
      BY <2>1, <2>2 DEF Count
  <1>3. QED
    BY <1>1, <1>2 DEF GoodStep, ToolsInv

\* In every state that the tools and the user reach, the rows of the user are
\* well typed, a task that is reported as blocked has a reason, and whoever is
\* between the two requests of add_agent_note is alone in that and, if the first
\* brought the task, holds all that is noted there.
THEOREM ToolsKept == ToolsSpec => []ToolsInv
  <1>1. ToolsInv /\ [ToolsNext]_toolVars => ToolsInv'
    BY ToolsSteps
  <1>2. QED
    BY <1>1, ToolsInitKept, PTL DEF ToolsSpec

\* The tables keep their types whatever the tools are called with: no comment
\* and no field of an agent is on a task that is not there, and no recurring
\* task is in a project that was deleted.
THEOREM ToolsTypes == ToolsSpec => []ToolsTypeOK
  <1>1. ToolsInv => ToolsTypeOK
    <2> SUFFICES ASSUME ToolsInv PROVE ToolsTypeOK
      OBVIOUS
    <2>1. ContentTypeOK
      BY DEF ToolsInv, ContentTyped, ContentTypeOK, AgentFields
    <2>2. \A a \in Agents : call[a].at \in {"idle", "noting", "unread", "answered"}
      BY DEF ToolsInv, Noting, Calls
    <2>3. QED
      BY <2>1, <2>2 DEF ToolsInv, Noting, ToolsTypeOK
  <1>2. QED
    BY <1>1, ToolsKept, PTL

\* The reason of a task that is reported as blocked is never NULL, for any agents
\* and tasks, since no method of the client can send one; it may be empty.
THEOREM BlockedTasksHaveReason == ToolsSpec => []BlockedHasReason
  <1>1. ToolsInv => BlockedHasReason
    BY DEF ToolsInv
  <1>2. QED
    BY <1>1, ToolsKept, PTL

\* No note is lost while another is appended to those that were read, however many
\* agents append: the requests of the client block the event loop between the
\* read and the write.
THEOREM AppendedNotesKept == ToolsSpec => NotesKept
  <1>1. ToolsInv /\ [ToolsNext]_toolVars =>
          [\A a \in Agents : call[a].at = "noting" =>
              \A t \in Todos : agent[t].notes \subseteq agent'[t].notes]_toolVars
    BY ToolsSteps DEF GoodStep, NotesGrow
  <1>2. QED
    BY <1>1, ToolsKept, PTL DEF ToolsSpec, NotesKept

\* No call of an agent, repeated or not, adds a task beside an active one of its
\* title.
THEOREM CallsAddNoTwins == ToolsSpec => NoTwins
  <1>1. ToolsInv /\ [ToolsNext]_toolVars =>
          [\A s, t \in Todos : Twins(s, t)' /\ todo[t] = None =>
              \A a \in Agents : call[a] = call'[a]]_toolVars
    BY ToolsSteps DEF GoodStep, NoNewTwin
  <1>2. QED
    BY <1>1, ToolsKept, PTL DEF ToolsSpec, NoTwins

\* The tools and the user change tasks and dependencies only as TaskGraph does:
\* what a method of the client asks for is one request to the backend, or none.
THEOREM ToolsRefineTaskGraph == ToolsSpec => Spec
  <1>1. ToolsInit => Init
    BY DEF ToolsInit, ContentInit
  <1>2. ToolsInv /\ [ToolsNext]_toolVars => [Next]_vars
    BY ToolsSteps DEF GoodStep
  <1>3. QED
    BY <1>1, <1>2, ToolsKept, PTL DEF ToolsSpec, Spec

\* So the tools cannot make a cycle of dependencies.
THEOREM ToolsKeepDependenciesAcyclic ==
  ToolsSpec => [](DependenciesWithinOwner /\ DependenciesAcyclic)
  BY ToolsRefineTaskGraph, DependenciesStayAcyclic

\* Nor a loop of subtasks.
THEOREM ToolsKeepHierarchyAcyclic ==
  ToolsSpec => [](FamilyWithinOwner /\ HierarchyAcyclic)
  BY ToolsRefineTaskGraph, HierarchyStaysAcyclic
=============================================================================

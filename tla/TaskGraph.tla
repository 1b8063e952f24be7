----------------------------- MODULE TaskGraph -----------------------------
(***************************************************************************)
(* Tasks ("todos"), their one-level hierarchy, their dependency graph,     *)
(* the soft delete and the status life cycle, as the endpoints of          *)
(* services/backend/app/api/todos.py and trash.py change them.             *)
(*                                                                         *)
(* One action is one request whose transaction does not overlap another    *)
(* one: dependencies.get_db commits when the handler returns and rolls     *)
(* back when it raises, so a refused request is a request that changes     *)
(* nothing and has no action.  Requests that do overlap are not modelled   *)
(* here, nor are sort positions, projects, tags and the agent fields,      *)
(* which no check below reads.  An item that a batch skips as a duplicate  *)
(* is left out of it; when another item names it, the request is refused.  *)
(***************************************************************************)
EXTENDS Naturals, FiniteSets

CONSTANTS Users,    \* users.id
          Todos,    \* todos.id, the primary keys the sequence hands out
          Titles,   \* titles, equal when lower(trim()) makes them equal
          Sent,     \* the statuses clients send: a bound of the instance
          None,     \* SQL NULL
          Unset     \* a field the client left out of an update

Status == {"pending", "in_progress", "completed", "cancelled"}
Active == {"pending", "in_progress"}

Row == [owner : Users, title : Titles, status : Status,
        dated : BOOLEAN,               \* completed_date IS NOT NULL
        parent : Todos \cup {None},
        live : BOOLEAN]                \* deleted_at IS NULL

ASSUME TaskAssumption ==
    /\ None \notin Todos
    /\ None \notin Row
    /\ Unset \notin Todos \cup {None}
    /\ Unset \notin Titles
    /\ Unset \notin Status
    /\ Sent \subseteq Status

VARIABLES todo,     \* the rows of table todos
          deps      \* table task_dependencies: <<dependent, dependency>>

vars == <<todo, deps>>

-----------------------------------------------------------------------------
TypeOK == /\ todo \in [Todos -> Row \cup {None}]
          /\ deps \subseteq Todos \X Todos

\* The rows a user may touch; with check_deleted only the live ones.
Owned(u)  == {t \in Todos : todo[t] # None /\ todo[t].owner = u}
LiveOf(u) == {t \in Owned(u) : todo[t].live}

HasDuplicate(u, title) ==
    \E t \in LiveOf(u) : todo[t].title = title /\ todo[t].status \in Active

\* A mistake: a subtask may be a parent.
MayBeParentAtAnyDepth(u, p) == p \in LiveOf(u)

MayBeParent(u, p) == p \in LiveOf(u) /\ todo[p].parent = None

HasLiveChildren(u, t) == \E c \in LiveOf(u) : todo[c].parent = t

\* The rows the breadth-first search of _check_circular_dependency visits:
\* the least set that holds the start and is closed under the user's edges.
UserEdges(u) == {e \in deps : e[1] \in Owned(u)}

ClosedUnder(edges, S) == \A e \in edges : e[1] \in S => e[2] \in S

\* A mistake: the search stops after the direct dependencies.
VisitedOneLevel(u, from) ==
    {from} \cup {t \in Todos : <<from, t>> \in UserEdges(u)}

Visited(u, from) ==
    {t \in Todos : \A S \in SUBSET Todos :
                       from \in S /\ ClosedUnder(UserEdges(u), S) => t \in S}

-----------------------------------------------------------------------------
Init == /\ todo = [t \in Todos |-> None]
        /\ deps = {}

Insert(t, u, title, status, p) ==
    /\ todo[t] = None
    /\ todo' = [todo EXCEPT ![t] =
                  [owner |-> u, title |-> title, status |-> status,
                   dated |-> FALSE, parent |-> p, live |-> TRUE]]

CreateTodo(u, t, title, status, p) ==
    /\ ~HasDuplicate(u, title)
    /\ p # None => MayBeParent(u, p)
    /\ Insert(t, u, title, status, p)
    /\ UNCHANGED deps

\* The items of a batch: what each is to be, and which it is to depend on.
Items(new) == [new -> [title : Titles, status : Sent, parent : Todos \cup {None}]]

\* Kahn's algorithm visits every item: an item is visited once all it depends on
\* have been, and the items so visited are the least such set.
Sorted(new, after) ==
    \A S \in SUBSET new :
        (\A t \in new : (\A d \in new : <<t, d>> \in after => d \in S) => t \in S)
        => S = new

\* The parent of an item is a task, or an item of the batch that has none itself.
MayBeParentOf(u, new, item, t) ==
    LET p == item[t].parent IN
    IF p \in new THEN item[p].parent = None ELSE p # None => MayBeParent(u, p)

\* A mistake: items are compared with the store, not with one another.
NoStoredDuplicates(u, new, item) ==
    \A t \in new : ~HasDuplicate(u, item[t].title)

NoDuplicates(u, new, item) ==
    \A t \in new : /\ ~HasDuplicate(u, item[t].title)
                   /\ \A s \in new \ {t} : item[s].title # item[t].title

Prepared(u, i) == [owner |-> u, title |-> i.title, status |-> i.status,
                   dated |-> FALSE, parent |-> i.parent, live |-> TRUE]

CreateBatch(u, new, item, after) ==
    /\ \A t \in new : todo[t] = None
    /\ NoDuplicates(u, new, item)
    /\ \A t \in new : MayBeParentOf(u, new, item, t)
    /\ Sorted(new, after)
    /\ todo' = [t \in Todos |-> IF t \in new THEN Prepared(u, item[t]) ELSE todo[t]]
    /\ deps' = deps \cup after

\* Unlike CreateTodo it looks for no duplicate and always starts pending.
CreateSubtask(u, t, title, p) ==
    /\ MayBeParent(u, p)
    /\ Insert(t, u, title, "pending", p)
    /\ UNCHANGED deps

\* A mistake: model_dump without exclude_unset.
GivenOrNot(new, old) == new

Given(new, old) == IF new = Unset THEN old ELSE new

Written(r, title, status, p) ==
    [r EXCEPT !.title = Given(title, @), !.status = Given(status, @),
              !.parent = Given(p, @)]

\* update_todo also finds deleted rows.  The parent may be the row itself.
UpdateTodo(u, t, title, status, p) ==
    /\ t \in Owned(u)
    /\ p \in Todos => MayBeParent(u, p) /\ ~HasLiveChildren(u, t)
    /\ todo' = [todo EXCEPT ![t] =
                  [Written(todo[t], title, status, p) EXCEPT
                     !.dated = IF status = Unset THEN todo[t].dated
                               ELSE status = "completed"]]
    /\ UNCHANGED deps

\* bulk_update_todos skips the ids it does not find live, writes the columns
\* as they were sent and leaves completed_date alone.
BulkUpdate(u, ids, title, status, p) ==
    LET found == ids \cap LiveOf(u) IN
    /\ p \in Todos => /\ MayBeParent(u, p)
                      /\ \A t \in found : ~HasLiveChildren(u, t)
    /\ todo' = [t \in Todos |->
                  IF t \in found THEN Written(todo[t], title, status, p)
                  ELSE todo[t]]
    /\ UNCHANGED deps

CompleteTodo(u, t) ==
    /\ t \in Owned(u)
    /\ todo' = [todo EXCEPT ![t] = [todo[t] EXCEPT !.status = "completed",
                                                  !.dated = TRUE]]
    /\ UNCHANGED deps

\* Only the row itself is marked: its subtasks and its edges stay.
DeleteTodo(u, t) ==
    /\ t \in Owned(u)
    /\ todo' = [todo EXCEPT ![t] = [todo[t] EXCEPT !.live = FALSE]]
    /\ UNCHANGED deps

RestoreTodo(u, t) ==
    /\ t \in Owned(u) \ LiveOf(u)
    /\ todo' = [todo EXCEPT ![t] = [todo[t] EXCEPT !.live = TRUE]]
    /\ UNCHANGED deps

AddDependency(u, t, d) ==
    /\ {t, d} \subseteq LiveOf(u)
    /\ t # d
    /\ t \notin Visited(u, d)
    /\ <<t, d>> \notin deps               \* the primary key
    /\ deps' = deps \cup {<<t, d>>}
    /\ UNCHANGED todo

\* The dependency itself may have been deleted since.
RemoveDependency(u, t, d) ==
    /\ t \in LiveOf(u)
    /\ <<t, d>> \in deps
    /\ deps' = deps \ {<<t, d>>}
    /\ UNCHANGED todo

-----------------------------------------------------------------------------
NewTitle  == Titles \cup {Unset}
NewStatus == Sent \cup {Unset}
NewParent == Todos \cup {None, Unset}

NextOf(u) ==
    \/ \E t \in Todos, title \in Titles, s \in Sent, p \in Todos \cup {None} :
         CreateTodo(u, t, title, s, p)
    \/ \E new \in SUBSET {t \in Todos : todo[t] = None} :
         \E item \in Items(new), after \in SUBSET (new \X new) :
            CreateBatch(u, new, item, after)
    \/ \E t, p \in Todos, title \in Titles : CreateSubtask(u, t, title, p)
    \/ \E t \in Todos, title \in NewTitle, s \in NewStatus, p \in NewParent :
         UpdateTodo(u, t, title, s, p)
    \/ \E ids \in SUBSET Todos, title \in NewTitle, s \in NewStatus,
          p \in NewParent : BulkUpdate(u, ids, title, s, p)
    \/ \E t \in Todos : CompleteTodo(u, t) \/ DeleteTodo(u, t) \/ RestoreTodo(u, t)
    \/ \E t, d \in Todos : AddDependency(u, t, d) \/ RemoveDependency(u, t, d)

Next == \E u \in Users : NextOf(u)

Spec == Init /\ [][Next]_vars

-----------------------------------------------------------------------------
(***************************************************************************)
(* Properties.                                                             *)
(***************************************************************************)

\* A relation has a cycle exactly when some nonempty set is such that every
\* member has a successor in it (over the finitely many rows of a table).
Acyclic(edges) ==
    \A S \in SUBSET Todos : S # {} =>
        \E x \in S : \A y \in S : <<x, y>> \notin edges

\* No task waits for itself through any chain of dependencies, deleted tasks
\* included: what add_dependency's search and the sorting of a batch are for.
\* The search sees only the edges of one user and runs before the insert.
DependenciesAcyclic == Acyclic(deps)

\* Both ends of a dependency are rows of one user: without it the search,
\* which loads one user's edges, could miss a path through another user's.
DependenciesWithinOwner ==
    \A e \in deps : \E u \in Users : {e[1], e[2]} \subseteq Owned(u)

ParentEdges == {<<t, todo[t].parent>> : t \in {s \in Todos : todo[s] # None}}

\* A subtask and its parent belong to one user, whatever was moved or deleted.
FamilyWithinOwner ==
    \A t \in Todos : todo[t] # None /\ todo[t].parent # None =>
        \E u \in Users : {t, todo[t].parent} \subseteq Owned(u)

\* Apart from a task that is its own parent, which update_todo allows, parent
\* links never form a loop, so walking up from a subtask ends, however tasks
\* were reparented, deleted and restored.
HierarchyAcyclic == Acyclic({e \in ParentEdges : e[1] # e[2]})
=============================================================================

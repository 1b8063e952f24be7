-------------------------------- MODULE Wiki --------------------------------
(***************************************************************************)
(* One user's wiki (services/backend/app/api/wiki.py): the tree of pages   *)
(* and the revisions of their text.                                        *)
(*                                                                         *)
(* A request reads what is committed, decides, and its writes are seen     *)
(* when it commits; nothing it read is locked, but the rows it has         *)
(* written.  Either a request begins only when the one before it has       *)
(* committed (alone), or requests overlap; the answer leaves before the    *)
(* commit, so that a client that waits for it is not always alone.         *)
(*                                                                         *)
(* A text is the set of the writes it holds, each with an id of its own.   *)
(* Titles, slugs, tags, links to tasks and subscriptions are left out.     *)
(***************************************************************************)
EXTENDS Handlers, Naturals, Sequences, FiniteSets

CONSTANTS Pages,
          MaxDepth,    \* MAX_WIKI_DEPTH
          MaxUpdates,  \* bound: updates in a behaviour
          Shared,      \* bound: the pages that overlapping requests name
          Same

Text == SUBSET (1..MaxUpdates)

WikiPage == [parent : Pages \cup {None}, live : BOOLEAN, text : Text, number : Nat]

ASSUME WikiAssumption ==
    /\ {MaxDepth, MaxUpdates} \subseteq Nat \ {0}
    /\ IsFiniteSet(Pages) /\ Shared \subseteq Pages
    /\ None \notin Pages \cup WikiPage

VARIABLES page,      \* wiki_pages
          saved,     \* wiki_page_revisions of each page, oldest first
          updates,   \* the number of updates begun
          req,       \* the requests in progress
          alone      \* whether requests never overlap

vars == <<page, saved, updates, req, alone>>

\* The row a request loaded and what it writes: page, from (the parent it loaded),
\* text and number; parent, write and fresh, the id of its own text; rows, the
\* pages whose rows it has written and so locked.
Idle == [pc |-> "idle", op |-> None, page |-> None, from |-> None, parent |-> Same,
         write |-> None, fresh |-> 0, text |-> {}, number |-> 0, rows |-> {}]

Revision == [number : 1..(MaxUpdates + 1), text : Text]

TypeOK ==
    /\ \A p \in Pages :
         /\ page[p] # None => /\ page[p].parent \in (Pages \ {p}) \cup {None}
                              /\ page[p].text \in Text
                              /\ page[p].number \in 1..(MaxUpdates + 1)
         /\ \A i \in DOMAIN saved[p] : saved[p][i] \in Revision
    /\ updates \in 0..MaxUpdates
    /\ \A r \in Requests : /\ req[r].pc \in {"idle", "loaded", "checked"}
                           /\ req[r].page \in Pages \cup {None}
                           /\ req[r].parent \in Pages \cup {None, Same}

-----------------------------------------------------------------------------
Exists(p) == page[p] # None /\ page[p].live

Live == {p \in Pages : Exists(p)}

Steps == 1..Cardinality(Pages)

ParentOf(p) == IF p # None /\ page[p].parent # None /\ Exists(page[p].parent)
                 THEN page[p].parent ELSE None

\* The page n steps above p, through live pages; None above a root.
Above(p) == LET up[n \in {0} \cup Steps] == IF n = 0 THEN p ELSE ParentOf(up[n - 1])
            IN up

Ancestors(p) == {Above(p)[n] : n \in Steps} \ {None}

\* _validate_parent's walk up from the parent fails on a page it has seen, the
\* page to be moved among them.  A walk that is not over after as many steps
\* as there are pages has come back to one.
Circular(p, parent) == Above(parent)[Cardinality(Pages)] # None \/ p \in Ancestors(parent)

Depth(p) == 1 + Cardinality(Ancestors(p))

ChildrenOf(ps) == {q \in Live : page[q].parent \in ps}

\* The live pages n steps below p; p itself is visited once.
Below(p) == LET down[n \in {0} \cup Steps] ==
                  IF n = 0 THEN {p}
                  ELSE ChildrenOf(IF n = 1 THEN {p} ELSE down[n - 1] \ {p})
            IN down

\* The levels below p that have pages: 0 for a new page and for a leaf.
SubtreeDepth(p) == Cardinality({n \in Steps : Below(p)[n] # {}})

\* A mistake: only the pages directly below are deleted with the page.
SubtreeOneLevel(p) == {p} \cup Below(p)[1]

Subtree(p) == {p} \cup UNION {Below(p)[n] : n \in Steps}

\* A mistake: a page may be its own parent.
ValidSelf(p, parent) ==
    /\ Exists(parent)
    /\ ~Circular(p, parent)
    /\ Depth(parent) + 1 + SubtreeDepth(p) <= MaxDepth

ValidParent(p, parent) ==
    /\ Exists(parent)
    /\ p # parent
    /\ ~Circular(p, parent)
    /\ Depth(parent) + 1 + SubtreeDepth(p) <= MaxDepth

-----------------------------------------------------------------------------
Init == /\ page = [p \in Pages |-> None]
        /\ saved = [p \in Pages |-> <<>>]
        /\ updates = 0
        /\ req = [r \in Requests |-> Idle]
        /\ alone \in BOOLEAN

Begin(r, request) ==
    /\ req[r].pc = "idle"
    /\ IF alone THEN \A s \in Requests : req[s].pc = "idle" ELSE request.page \in Shared
    /\ req' = [req EXCEPT ![r] = request]

End(r) == req' = [req EXCEPT ![r] = Idle]

At(r, pc, op) == req[r].pc = pc /\ req[r].op = op

\* PostgreSQL: a row is locked from the statement that writes it to the commit.
Unlocked(p) == \A r \in Requests : p \notin req[r].rows

\* A parent that equals the one loaded is no change, and is not written.
NewParent(r) == IF req[r].parent \in {Same, req[r].from} THEN page[req[r].page].parent
                ELSE req[r].parent

-----------------------------------------------------------------------------
CheckCreate(r, p, parent) ==
    /\ page[p] = None
    /\ \A s \in Requests : req[s].page # p        \* ids are given out once
    /\ parent # None => ValidParent(p, parent)
    /\ Begin(r, [Idle EXCEPT !.pc = "checked", !.op = "create", !.page = p,
                             !.parent = parent])
    /\ UNCHANGED <<page, saved, updates, alone>>

Create(r) ==
    /\ At(r, "checked", "create")
    /\ page' = [page EXCEPT ![req[r].page] =
                  [parent |-> req[r].parent, live |-> TRUE, text |-> {}, number |-> 1]]
    /\ End(r)
    /\ UNCHANGED <<saved, updates, alone>>

CheckMove(r, p, parent) ==
    /\ Exists(p)
    /\ parent # None => ValidParent(p, parent)
    /\ Begin(r, [Idle EXCEPT !.pc = "checked", !.op = "move", !.page = p,
                             !.from = page[p].parent, !.parent = parent])
    /\ UNCHANGED <<page, saved, updates, alone>>

Move(r) ==
    /\ At(r, "checked", "move")
    /\ Unlocked(req[r].page)
    /\ page' = [page EXCEPT ![req[r].page].parent = NewParent(r)]
    /\ End(r)
    /\ UNCHANGED <<saved, updates, alone>>

\* The page, and by _soft_delete_descendants every live page below it.
CheckDelete(r, p) ==
    /\ Exists(p)
    /\ \A q \in Subtree(p) : Unlocked(q)
    /\ Begin(r, [Idle EXCEPT !.pc = "checked", !.op = "delete", !.page = p,
                             !.rows = Subtree(p)])
    /\ UNCHANGED <<page, saved, updates, alone>>

Delete(r) ==
    /\ At(r, "checked", "delete")
    /\ page' = [p \in Pages |-> IF p \in req[r].rows THEN [page[p] EXCEPT !.live = FALSE]
                                ELSE page[p]]
    /\ End(r)
    /\ UNCHANGED <<saved, updates, alone>>

-----------------------------------------------------------------------------
(***************************************************************************)
(* update_wiki_page: SELECT the page; INSERT the revision and increment    *)
(* the number; check the parent; commit.                                   *)
(***************************************************************************)
\* write: "replace", "append" or None; parent: Same, None or a page.
Load(r, p, write, parent) ==
    /\ updates < MaxUpdates
    /\ Exists(p)
    /\ updates' = updates + 1
    /\ Begin(r, [pc |-> "loaded", op |-> "update", page |-> p, from |-> page[p].parent,
                 parent |-> parent, write |-> write, fresh |-> updates + 1,
                 text |-> page[p].text, number |-> page[p].number, rows |-> {}])
    /\ UNCHANGED <<page, saved, alone>>

Increment(r) ==
    /\ At(r, "loaded", "update")
    /\ Unlocked(req[r].page)
    /\ req[r].parent \in Pages => ValidParent(req[r].page, req[r].parent)
    /\ req' = [req EXCEPT ![r].pc = "checked", ![r].rows = {req[r].page}]
    /\ UNCHANGED <<page, saved, updates, alone>>

\* A refused parent, or a server that stops: the transaction is rolled back.
Refused(r) ==
    /\ req[r].pc # "idle"
    /\ End(r)
    /\ UNCHANGED <<page, saved, updates, alone>>

\* What the update makes of the text it loaded.
NewText(r) == IF req[r].write = "replace" THEN {req[r].fresh}
              ELSE IF req[r].write = "append" THEN req[r].text \cup {req[r].fresh}
              ELSE page[req[r].page].text

\* Mistakes: the number that was loaded is incremented; the revision holds the
\* text of the page after the update.
NumberFromLoaded(r) == req[r].number + 1
RevisionAfter(r) == [number |-> req[r].number, text |-> NewText(r)]

\* Incremented in SQL, from the committed number.
NewNumber(r) == page[req[r].page].number + 1

\* _save_revision keeps what was loaded.
RevisionOf(r) == [number |-> req[r].number, text |-> req[r].text]

Update(r) ==
    LET p == req[r].page IN
    /\ At(r, "checked", "update")
    /\ page' = [page EXCEPT ![p] = [page[p] EXCEPT !.parent = NewParent(r),
                                                  !.text = NewText(r),
                                                  !.number = NewNumber(r)]]
    /\ saved' = [saved EXCEPT ![p] = Append(saved[p], RevisionOf(r))]
    /\ End(r)
    /\ UNCHANGED <<updates, alone>>

-----------------------------------------------------------------------------
Parent == Pages \cup {None}
Write == {"replace", "append", None}

Next == \E r \in Requests :
    \/ \E p \in Pages :
         \/ \E parent \in Parent : CheckCreate(r, p, parent) \/ CheckMove(r, p, parent)
         \/ CheckDelete(r, p)
         \/ \E write \in Write, parent \in Parent \cup {Same} : Load(r, p, write, parent)
    \/ Create(r) \/ Move(r) \/ Delete(r) \/ Increment(r) \/ Update(r) \/ Refused(r)

Spec == Init /\ [][Next]_vars

-----------------------------------------------------------------------------
(***************************************************************************)
(* Properties.                                                             *)
(***************************************************************************)

\* The pages n levels down in the tree that get_wiki_tree builds.
Level == LET level[n \in 1..MaxDepth] == ChildrenOf(IF n = 1 THEN {None} ELSE level[n - 1])
         IN level

\* Requests that do not overlap keep the tree: every live page is in it, at most
\* MaxDepth levels down, whatever was created, moved, updated and deleted.
EveryPageInTree == alone => Live = UNION {Level[n] : n \in 1..MaxDepth}

\* Every update that was committed is counted once and saved once, overlapping
\* ones too: "Atomically increment revision_number at the SQL level".
UpdatesCounted ==
    \A p \in Pages : page[p] # None => page[p].number = 1 + Len(saved[p])

\* "Save the current page state as a revision before updating": of requests that
\* do not overlap, the text that a commit replaces is among the page's revisions.
Kept == \A p \in Pages :
    page[p] # None /\ page'[p].text # page[p].text =>
        \E i \in DOMAIN saved'[p] : saved'[p][i].text = page[p].text

TextKeptAlone == [][alone => Kept]_vars
=============================================================================

------------------------------ MODULE Content ------------------------------
(***************************************************************************)
(* What one user keeps besides the tasks of TaskGraph: the agent's fields  *)
(* of a task, comments, wiki pages and their links to tasks, snippets,     *)
(* projects by name, recurring tasks, and the news feeds, which an         *)
(* administrator edits.                                                    *)
(*                                                                         *)
(* One action is one request that does not overlap another, as in          *)
(* TaskGraph.  Of a page only its being there is kept: module Wiki has the *)
(* tree and the revisions.  Rows are marked deleted but for links,         *)
(* projects and feeds, which go, and keys are not handed out twice.        *)
(***************************************************************************)
EXTENDS TaskGraph

CONSTANTS Caller,                           \* the user
          Notes, Pages, Comments, Snippets, Categories, Feeds, Recurring

AgentStatus ==
    {"pending_review", "in_progress", "completed", "blocked", "needs_human"}

\* blocking_reason: a text, an empty one, or NULL.
Reason == {"given", "empty", None}

ASSUME ContentAssumption ==
    /\ Caller \in Users
    /\ {None, Unset} \cap (AgentStatus \cup {"given", "empty"}) = {}

Kept == {"none", "live", "deleted"}

VARIABLES agent,     \* agent_notes, agent_status, blocking_reason
          comment,   \* comments, and the task each is on
          page,      \* wiki_pages
          link,      \* todo_wiki_links
          snippet,   \* snippets
          project,   \* projects, by their names
          recurring, \* recurring_tasks: is_active, project_id
          feed       \* feed_sources: is_active

content == <<agent, comment, page, link, snippet, project, recurring, feed>>
tables  == <<todo, deps, content>>

Project == {name \in Categories : project[name] # "none"}

Unmarked == [notes |-> {}, status |-> None, reason |-> None]

ContentInit ==
    /\ Init
    /\ agent = [t \in Todos |-> Unmarked]
    /\ comment = [c \in Comments |-> [on |-> None, is |-> "none"]]
    /\ page = [p \in Pages |-> "none"]
    /\ link = {}
    /\ snippet = [s \in Snippets |-> "none"]
    /\ project = [name \in Categories |-> "none"]
    /\ recurring = [r \in Recurring |-> [is |-> "none", project |-> None]]
    /\ feed = [f \in Feeds |-> "none"]

ContentTypeOK ==
    /\ TypeOK
    /\ \A t \in Todos : /\ agent[t].notes \subseteq Notes
                        /\ agent[t].status \in AgentStatus \cup {None}
                        /\ agent[t].reason \in Reason
                        /\ agent[t] # Unmarked => todo[t] # None
    /\ \A c \in Comments : /\ comment[c].is \in Kept
                           /\ comment[c].is # "none" => comment[c].on \in Owned(Caller)
    /\ page \in [Pages -> Kept]
    /\ link \subseteq Pages \X Todos
    /\ snippet \in [Snippets -> Kept]
    /\ project \in [Categories -> {"none", "live", "archived"}]
    /\ \A r \in Recurring : /\ recurring[r].is \in {"none", "active", "inactive"}
                            /\ recurring[r].project \in Project \cup {None}
    /\ feed \in [Feeds -> {"none", "on", "off"}]

-----------------------------------------------------------------------------
\* A category sent with a task: its project is found, archived or not, or made.
Resolved(c) == project' = [name \in Categories |->
                             IF name = c /\ project[c] = "none" THEN "live"
                             ELSE project[name]]

TaskOnly(c) ==
    /\ Resolved(c)
    /\ UNCHANGED <<agent, comment, page, link, snippet, recurring, feed>>

\* A mistake: fields of a row that is not there.
UpdateAgentOfAny(t, fields) ==
    /\ agent' = [agent EXCEPT ![t] = fields]
    /\ UNCHANGED <<todo, deps, comment, page, link, snippet, project, recurring, feed>>

\* PUT /todos/{id} with agent fields.
UpdateAgent(t, fields) ==
    /\ t \in Owned(Caller)
    /\ agent' = [agent EXCEPT ![t] = fields]
    /\ UNCHANGED <<todo, deps, comment, page, link, snippet, project, recurring, feed>>

OnlyComments ==
    UNCHANGED <<todo, deps, agent, page, link, snippet, project, recurring, feed>>

CreateComment(c, t) ==
    /\ comment[c].is = "none"
    /\ t \in LiveOf(Caller)
    /\ comment' = [comment EXCEPT ![c] = [on |-> t, is |-> "live"]]
    /\ OnlyComments

\* A comment is reached through its task, as long as that is not deleted.
CommentOf(c) == comment[c].is = "live" /\ comment[c].on \in LiveOf(Caller)

UpdateComment(c) == CommentOf(c) /\ UNCHANGED tables

DeleteComment(c) ==
    /\ CommentOf(c)
    /\ comment' = [comment EXCEPT ![c].is = "deleted"]
    /\ OnlyComments

OnlyProjects == UNCHANGED <<todo, deps, agent, comment, page, link, snippet, feed>>

CreateProject(name) ==
    /\ project[name] = "none"               \* uq_projects_user_lower_name
    /\ project' = [project EXCEPT ![name] = "live"]
    /\ OnlyProjects /\ UNCHANGED recurring

\* Archived projects are found by id and by name as before.
ArchiveProject(name) ==
    /\ name \in Project
    /\ project' = [project EXCEPT ![name] = "archived"]
    /\ OnlyProjects /\ UNCHANGED recurring

UnarchiveProject(name) ==
    /\ name \in Project
    /\ project' = [project EXCEPT ![name] = "live"]
    /\ OnlyProjects /\ UNCHANGED recurring

\* The foreign keys are ON DELETE SET NULL.
DeleteProject(name) ==
    /\ name \in Project
    /\ project' = [project EXCEPT ![name] = "none"]
    /\ recurring' = [r \in Recurring |->
                       IF recurring[r].project = name
                       THEN [recurring[r] EXCEPT !.project = None]
                       ELSE recurring[r]]
    /\ OnlyProjects

OnlyRecurring ==
    UNCHANGED <<todo, deps, agent, comment, page, link, snippet, project, feed>>

CreateRecurring(r, name) ==
    /\ recurring[r].is = "none"
    /\ name \in Project \cup {None}
    /\ recurring' = [recurring EXCEPT ![r] = [is |-> "active", project |-> name]]
    /\ OnlyRecurring

\* is and name are Unset where the request leaves them out.
UpdateRecurring(r, is, name) ==
    /\ recurring[r].is # "none"
    /\ name \in Project \cup {None, Unset}
    /\ recurring' = [recurring EXCEPT ![r] =
                       [is |-> Given(is, recurring[r].is),
                        project |-> Given(name, recurring[r].project)]]
    /\ OnlyRecurring

DeleteRecurring(r) ==
    /\ recurring[r].is # "none"
    /\ recurring' = [recurring EXCEPT ![r].is = "inactive"]
    /\ OnlyRecurring

OnlyPages ==
    UNCHANGED <<todo, deps, agent, comment, snippet, project, recurring, feed>>

CreatePage(p) ==
    /\ page[p] = "none"
    /\ page' = [page EXCEPT ![p] = "live"]
    /\ OnlyPages /\ UNCHANGED link

\* The pages below go with it; links stay.
DeletePage(p, below) ==
    /\ page[p] = "live"
    /\ page' = [q \in Pages |->
                  IF q \in {p} \cup below /\ page[q] = "live" THEN "deleted"
                  ELSE page[q]]
    /\ OnlyPages /\ UNCHANGED link

LinkTask(p, t) ==
    /\ page[p] = "live"
    /\ t \in LiveOf(Caller)
    /\ <<p, t>> \notin link
    /\ link' = link \cup {<<p, t>>}
    /\ OnlyPages /\ UNCHANGED page

UnlinkTask(p, t) ==
    /\ page[p] = "live"
    /\ t \in LiveOf(Caller)
    /\ <<p, t>> \in link
    /\ link' = link \ {<<p, t>>}
    /\ OnlyPages /\ UNCHANGED page

\* Ids it does not find live, or finds linked, are only listed in the answer.
BatchLinkTasks(p, ts) ==
    /\ page[p] = "live"
    /\ link' = link \cup ({p} \X (ts \cap LiveOf(Caller)))
    /\ OnlyPages /\ UNCHANGED page

\* A batch links what it has created to the page it names.
CreateLinkedBatch(new, item, after, p, c) ==
    /\ p # None => page[p] = "live"
    /\ CreateBatch(Caller, new, item, after)
    /\ Resolved(c)
    /\ link' = link \cup (({p} \ {None}) \X new)
    /\ UNCHANGED <<agent, comment, page, snippet, recurring, feed>>

OnlySnippets ==
    UNCHANGED <<todo, deps, agent, comment, page, link, project, recurring, feed>>

CreateSnippet(s) ==
    /\ snippet[s] = "none"
    /\ snippet' = [snippet EXCEPT ![s] = "live"]
    /\ OnlySnippets

UpdateSnippet(s) == snippet[s] = "live" /\ UNCHANGED tables

DeleteSnippet(s) ==
    /\ snippet[s] = "live"
    /\ snippet' = [snippet EXCEPT ![s] = "deleted"]
    /\ OnlySnippets

OnlyFeeds ==
    UNCHANGED <<todo, deps, agent, comment, page, link, snippet, project, recurring>>

\* An administrator's requests; the name and the URL of a feed are unique.
CreateFeed(f, active) ==
    /\ feed[f] = "none"
    /\ feed' = [feed EXCEPT ![f] = IF active THEN "on" ELSE "off"]
    /\ OnlyFeeds

SetFeed(f, active) ==
    /\ feed[f] # "none"
    /\ feed' = [feed EXCEPT ![f] = IF active THEN "on" ELSE "off"]
    /\ OnlyFeeds

\* is_active, as the other fields, may be left out.
UpdateFeed(f, active) ==
    IF active = Unset THEN feed[f] # "none" /\ UNCHANGED tables ELSE SetFeed(f, active)

DeleteFeed(f) ==
    /\ feed[f] # "none"
    /\ feed' = [feed EXCEPT ![f] = "none"]
    /\ OnlyFeeds
=============================================================================

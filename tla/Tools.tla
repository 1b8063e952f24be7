-------------------------------- MODULE Tools --------------------------------
(***************************************************************************)
(* The tools of the MCP resource server (services/mcp-resource), called by *)
(* agents that share one API key, with the user at the web front end       *)
(* beside them.                                                            *)
(*                                                                         *)
(* A call is screened, runs, and its answer is screened (guard_tool).      *)
(* Screening awaits a service; running never awaits: the SDK's requests    *)
(* block the event loop, so that only the backend and the other clients    *)
(* move while a tool runs.  Arguments that fail the screening or the       *)
(* tool's own checks end the call before it has changed anything; such a   *)
(* call is not modelled.  An answer that fails it, or cannot be screened,  *)
(* becomes an error although the tool has run.  The server keeps nothing   *)
(* between calls; a restart forgets those in progress.                     *)
(***************************************************************************)
EXTENDS Content

Sdk == INSTANCE Client

CONSTANTS Agents,
          AgentSent,   \* bound: the agent statuses that are sent
          MaxWrites    \* bound: the calls that change a table

ASSUME ToolsAssumption ==
    /\ AgentSent \subseteq AgentStatus /\ "pending" \in Sent
    /\ MaxWrites \in Nat

VARIABLES call,     \* the call of each agent
          writes    \* the calls that changed a table

toolVars == <<tables, call, writes>>

\* task and notes: what add_agent_note is about to write; "noting" when it has read the
\* notes there are, "unread" when the answer had none.
Idle == [at |-> "idle", task |-> None, notes |-> {}]

ToolsInit == /\ ContentInit
             /\ call = [a \in Agents |-> Idle]
             /\ writes = 0

ToolsTypeOK ==
    /\ ContentTypeOK
    /\ \A a \in Agents : /\ call[a].at \in {"idle", "noting", "unread", "answered"}
                         /\ call[a].at = "noting" => call[a].task \in Owned(Caller)
    /\ writes \in 0..MaxWrites

-----------------------------------------------------------------------------
\* A mistake: requests are awaited, and other calls run meanwhile.
Awaited == TRUE

\* Between the two requests of add_agent_note.
Writing(a) == call[a].at \in {"noting", "unread"}

\* No tool is between two requests.
LoopFree == \A a \in Agents : ~Writing(a)

Begin(a) == call[a] = Idle /\ LoopFree

Answer(a) == call' = [call EXCEPT ![a] = [Idle EXCEPT !.at = "answered"]]

\* The answer passes, is blocked, or the guard is out of reach.
Screen(a) == /\ call[a].at = "answered"
             /\ LoopFree
             /\ call' = [call EXCEPT ![a] = Idle]
             /\ UNCHANGED <<tables, writes>>

Read(a) == Answer(a) /\ UNCHANGED tables

Run(a, request) == Answer(a) /\ request

Count == /\ writes' = writes + IF tables' = tables THEN 0 ELSE 1
         /\ writes' <= MaxWrites

-----------------------------------------------------------------------------
(* Tasks.                                                                  *)

Category == Categories \cup {None}

get_tasks(a)             == Read(a)
search_tasks(a)          == Read(a)
unified_search(a)        == Read(a)
get_task(a)              == Read(a)
get_agent_tasks(a)       == Read(a)
list_task_attachments(a) == Read(a)
list_task_comments(a)    == Read(a)
list_dependencies(a)     == Read(a)

create_task(a) ==
    \E t \in Todos, title \in Titles, p \in Todos \cup {None}, c \in Category :
        Run(a, Sdk!create_todo(t, title, p, c))

\* New tasks are pending; as the tool is called, or skip_duplicates has thinned it.
create_tasks(a) ==
    \E new \in SUBSET {t \in Todos : todo[t] = None} \ {{}} :
       \E item \in {i \in Items(new) : \A t \in new : i[t].status = "pending"},
          after \in SUBSET (new \X new), p \in Pages \cup {None}, c \in Category :
          Run(a, Sdk!batch_create_todos(new, item, after, p, c))

update_task(a) ==
    \E t \in Todos, title \in Titles \cup {None}, s \in Sent \cup {None},
       p \in Todos \cup {None}, c \in Category :
        Run(a, Sdk!update_todo(t, title, s, p, c))

delete_task(a)   == \E t \in Todos : Run(a, Sdk!delete_todo(t))
complete_task(a) == \E t \in Todos : Run(a, Sdk!complete_todo(t))

add_dependency(a) == \E t, d \in Todos : Run(a, Sdk!add_dependency(t, d))

add_task_comment(a) ==
    \E c \in Comments, t \in Todos : Run(a, Sdk!create_comment(c, t))

create_project(a) == \E name \in Categories : Run(a, Sdk!create_project(name))

TaskTool(a) ==
    \/ get_tasks(a) \/ search_tasks(a) \/ unified_search(a) \/ get_task(a)
    \/ get_agent_tasks(a) \/ list_task_attachments(a) \/ list_task_comments(a)
    \/ list_dependencies(a)
    \/ create_task(a) \/ create_tasks(a) \/ update_task(a) \/ delete_task(a)
    \/ complete_task(a) \/ add_dependency(a) \/ add_task_comment(a)
    \/ create_project(a)

-----------------------------------------------------------------------------
(* What agents note about a task.                                          *)

\* Type and tier of the action are not kept here.  The reason may be empty.
classify_task(a) ==
    \E t \in Todos, reason \in Reason :
        Run(a, Sdk!update_agent_fields(t, None, None, reason))

set_agent_status(a) ==
    \E t \in Todos, s \in AgentSent, reason \in Reason :
        /\ s = "blocked" => reason = "given"
        /\ LET why == IF s = "blocked" THEN reason ELSE None IN
           Run(a, Sdk!update_agent_fields(t, None, s, why))

WriteNext(a, at, t, notes) ==
    /\ call' = [call EXCEPT ![a] = [at |-> at, task |-> t, notes |-> notes]]
    /\ UNCHANGED tables

\* With append the notes are read first.  If that raises, the call is over; if it only
\* does not bring the task, the call goes on with the new note alone.
add_agent_note(a) ==
    \E t \in Todos, n \in Notes :
        \/ Run(a, Sdk!update_agent_fields(t, {n}, None, None))
        \/ Sdk!get_todo(t) /\ WriteNext(a, "noting", t, agent[t].notes \cup {n})
        \/ Sdk!get_todo_empty(t) /\ WriteNext(a, "unread", t, {n})
        \/ Read(a)

WriteNote(a) ==
    /\ Writing(a)
    /\ Run(a, Sdk!update_agent_fields(call[a].task, call[a].notes, None, None))

-----------------------------------------------------------------------------
(* The wiki, snippets and the news.                                        *)

search_wiki_pages(a)          == Read(a)
get_wiki_page(a)              == Read(a)
get_wiki_page_linked_tasks(a) == Read(a)
get_task_wiki_pages(a)        == Read(a)

create_wiki_page(a) == \E p \in Pages : Run(a, Sdk!create_wiki_page(p))
update_wiki_page(a) == \E p \in Pages : Run(a, Sdk!update_wiki_page(p))
delete_wiki_page(a) ==
    \E p \in Pages, below \in SUBSET Pages : Run(a, Sdk!delete_wiki_page(p, below))

link_wiki_page_to_task(a) ==
    \E p \in Pages, t \in Todos : Run(a, Sdk!link_wiki_page_to_task(p, t))

batch_link_wiki_page_to_tasks(a) ==
    \E p \in Pages, ts \in SUBSET Todos :
        Run(a, Sdk!batch_link_wiki_page_to_tasks(p, ts))

list_snippets(a) == Read(a)
get_snippet(a)   == Read(a)

create_snippet(a) == \E s \in Snippets : Run(a, Sdk!create_snippet(s))
update_snippet(a) == \E s \in Snippets : Run(a, Sdk!update_snippet(s))
delete_snippet(a) == \E s \in Snippets : Run(a, Sdk!delete_snippet(s))

WikiTool(a) ==
    \/ search_wiki_pages(a) \/ get_wiki_page(a) \/ get_wiki_page_linked_tasks(a)
    \/ get_task_wiki_pages(a) \/ list_snippets(a) \/ get_snippet(a)
    \/ create_wiki_page(a) \/ update_wiki_page(a) \/ delete_wiki_page(a)
    \/ link_wiki_page_to_task(a) \/ batch_link_wiki_page_to_tasks(a)
    \/ create_snippet(a) \/ update_snippet(a) \/ delete_snippet(a)

list_articles(a)     == Read(a)
get_article(a)       == Read(a)
list_feed_sources(a) == Read(a)

mark_article_read(a) == Run(a, Sdk!mark_article_read)
rate_article(a)      == Run(a, Sdk!rate_article)

create_feed_source(a) ==
    \E f \in Feeds, active \in BOOLEAN : Run(a, Sdk!create_feed_source(f, active))
update_feed_source(a) ==
    \E f \in Feeds, active \in BOOLEAN \cup {None} :
        Run(a, Sdk!update_feed_source(f, active))
delete_feed_source(a) == \E f \in Feeds : Run(a, Sdk!delete_feed_source(f))
toggle_feed_source(a) ==
    \E f \in Feeds, active \in BOOLEAN : Run(a, Sdk!toggle_feed_source(f, active))
force_fetch_feed(a) == \E f \in Feeds : Run(a, Sdk!force_fetch_feed(f))

NewsTool(a) ==
    \/ list_articles(a) \/ get_article(a) \/ list_feed_sources(a)
    \/ mark_article_read(a) \/ rate_article(a)
    \/ create_feed_source(a) \/ update_feed_source(a) \/ delete_feed_source(a)
    \/ toggle_feed_source(a) \/ force_fetch_feed(a)

-----------------------------------------------------------------------------
\* The user at the web front end: what no tool can do.
WebUser ==
    /\ \/ /\ \/ \E t, p \in Todos, title \in Titles : CreateSubtask(Caller, t, title, p)
             \/ \E t \in Todos : RestoreTodo(Caller, t)
             \/ \E t, d \in Todos : RemoveDependency(Caller, t, d)
          /\ UNCHANGED content
       \/ \E c \in Comments : UpdateComment(c) \/ DeleteComment(c)
       \/ \E name \in Categories :
             ArchiveProject(name) \/ UnarchiveProject(name) \/ DeleteProject(name)
       \/ \E r \in Recurring, name \in Category :
             \/ CreateRecurring(r, name)
             \/ \E is \in {"active", "inactive"} : UpdateRecurring(r, is, name)
             \/ UpdateRecurring(r, Unset, name)
             \/ UpdateRecurring(r, "active", Unset)
             \/ DeleteRecurring(r)
       \/ \E p \in Pages, t \in Todos : UnlinkTask(p, t)
    /\ UNCHANGED call

\* The server is started again.
Restart == /\ call' = [a \in Agents |-> Idle]
           /\ UNCHANGED <<tables, writes>>

ToolsNext ==
    \/ \E a \in Agents :
         \/ /\ Begin(a)
            /\ TaskTool(a) \/ classify_task(a) \/ set_agent_status(a)
               \/ add_agent_note(a) \/ WikiTool(a) \/ NewsTool(a)
            /\ Count
         \/ WriteNote(a) /\ Count
         \/ Screen(a)
    \/ WebUser /\ Count
    \/ Restart

ToolsSpec == ToolsInit /\ [][ToolsNext]_toolVars

-----------------------------------------------------------------------------
(***************************************************************************)
(* Properties.                                                             *)
(***************************************************************************)

\* A note that is appended leaves the others where they are, once they have been
\* read (add_agent_note reads the notes, adds to them and writes them back, while
\* other agents call the same tool).  "append: If True, append to existing notes" is
\* not kept where they have not been: the call that is at "unread" replaces them.
NotesKept ==
    [][\A a \in Agents : call[a].at = "noting" =>
          \A t \in Todos : agent[t].notes \subseteq agent'[t].notes]_toolVars

Twins(s, t) == /\ s # t
               /\ {s, t} \subseteq LiveOf(Caller)
               /\ todo[s].title = todo[t].title
               /\ {todo[s].status, todo[t].status} \subseteq Active

\* An agent that calls again because it was not told that its call had worked
\* adds no second active task of a title: what makes two is renaming or
\* reopening one that is there, or the user at the front end.
NoTwins ==
    [][\A s, t \in Todos : Twins(s, t)' /\ todo[t] = None =>
          \A a \in Agents : call[a] = call'[a]]_toolVars

\* The reason of a task that an agent reports as blocked is never NULL, whatever
\* is classified, noted and reported after (set_agent_status requires a reason
\* with the status, classify_task may be called without one, and then leaves the
\* old one).  It may be empty: set_agent_status refuses that, classify_task stores it.
BlockedHasReason ==
    \A t \in Todos : agent[t].status = "blocked" => agent[t].reason # None
=============================================================================

------------------------------- MODULE Client -------------------------------
(***************************************************************************)
(* The client SDK (packages/taskmanager-sdk): one operator per method that *)
(* the MCP server calls to change something, under the method's name.  It  *)
(* holds the API key of one user.                                          *)
(*                                                                         *)
(* A method sends one request and waits for the answer.  The request may   *)
(* be refused, never arrive, fail on the way, or be served and its answer  *)
(* lost.  Most of that is raised; a refusal with a status the client has   *)
(* no error for is returned as unsuccessful, and a body that cannot be     *)
(* parsed as success without data.  What a method returns is not kept:     *)
(* the only caller that goes on with it is add_agent_note, after get_todo. *)
(***************************************************************************)
EXTENDS Content

\* _make_request: the backend serves the request, or it does not.
Request(Served) == Served \/ UNCHANGED tables

\* _build_params leaves out the parameters that are None, so that no field of
\* a task can be cleared.
Param(x) == IF x = None THEN Unset ELSE x

-----------------------------------------------------------------------------
create_todo(t, title, p, c) ==
    Request(CreateTodo(Caller, t, title, "pending", p) /\ TaskOnly(c))

batch_create_todos(new, item, after, p, c) ==
    Request(CreateLinkedBatch(new, item, after, p, c))

\* The answer has the whole row, deleted or not.
get_todo(t) == t \in Owned(Caller)

\* Nothing is raised, and there is no data: whether or not there is a row.
get_todo_empty(t) == t \in Todos

update_todo(t, title, status, p, c) ==
    Request(/\ UpdateTodo(Caller, t, Param(title), Param(status), Param(p))
            /\ TaskOnly(c))

\* A mistake: a reason that is None is sent as null.
update_agent_fields_reason(t, notes, status, reason) ==
    LET old == agent[t] IN
    Request(UpdateAgent(t, [notes  |-> Given(Param(notes), old.notes),
                            status |-> Given(Param(status), old.status),
                            reason |-> reason]))

\* update_todo with the agent's fields.
update_agent_fields(t, notes, status, reason) ==
    LET old == agent[t] IN
    Request(UpdateAgent(t, [notes  |-> Given(Param(notes), old.notes),
                            status |-> Given(Param(status), old.status),
                            reason |-> Given(Param(reason), old.reason)]))

delete_todo(t)   == Request(DeleteTodo(Caller, t) /\ TaskOnly(None))
complete_todo(t) == Request(CompleteTodo(Caller, t) /\ TaskOnly(None))

add_dependency(t, d) == Request(AddDependency(Caller, t, d) /\ TaskOnly(None))

create_comment(c, t) == Request(CreateComment(c, t))

create_project(name) == Request(CreateProject(name))

create_wiki_page(p) == Request(CreatePage(p))

\* Title, text, slug and parent are Wiki's.
update_wiki_page(p) == Request(page[p] = "live" /\ UNCHANGED tables)

delete_wiki_page(p, below) == Request(DeletePage(p, below))

link_wiki_page_to_task(p, t) == Request(LinkTask(p, t))

batch_link_wiki_page_to_tasks(p, ts) == Request(BatchLinkTasks(p, ts))

create_snippet(s) == Request(CreateSnippet(s))
update_snippet(s) == Request(UpdateSnippet(s))
delete_snippet(s) == Request(DeleteSnippet(s))

create_feed_source(f, active) == Request(CreateFeed(f, active))

update_feed_source(f, active) == Request(UpdateFeed(f, Param(active)))

delete_feed_source(f)         == Request(DeleteFeed(f))
toggle_feed_source(f, active) == Request(SetFeed(f, active))

\* The articles it adds are no table of Content.
force_fetch_feed(f) == Request(feed[f] # "none" /\ UNCHANGED tables)

\* The endpoints behind these take a session cookie only, which the client has
\* not: they answer 401.
mark_article_read == UNCHANGED tables
rate_article      == UNCHANGED tables
=============================================================================

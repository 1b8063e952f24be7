----------------------------- MODULE Workspace -----------------------------
(***************************************************************************)
(* Requests of one user that overlap: tasks filed under a category, whose  *)
(* project is found or made, projects created, renamed and deleted,        *)
(* attachments, whose rows are in the database and whose files are on the  *)
(* disk, and the news: feeds are fetched, by the scheduler of every worker *)
(* and on request, and articles are marked.                                *)
(*                                                                         *)
(* A request is one transaction.  Its statements wait for row locks and    *)
(* for uncommitted rows of the same name; when requests wait for one       *)
(* another the database ends one of them (PostgreSQL, READ COMMITTED).     *)
(* Handlers that write nothing before they end are one action: their       *)
(* statements are sent with the commit.                                    *)
(***************************************************************************)
EXTENDS Handlers, Naturals, Sequences, FiniteSets

CONSTANTS Names, Files, Urls,
          Projects,       \* the ids of projects
          MaxProjects,    \* _MAX_PROJECTS_PER_USER
          Batched,        \* bound: the names in batches of two
          MaxBegun        \* bound: the requests

ASSUME WorkspaceAssumption ==
    /\ {MaxProjects, MaxBegun} \subseteq Nat /\ Batched \subseteq Names
    /\ None \notin Requests \cup Files \cup [by : Requests \cup {None}]

VARIABLES project,   \* projects
          row,       \* attachments: the files that have a committed row
          file,      \* the files in the upload directory
          article,   \* articles, by their URLs
          marked,    \* article_interactions: the articles with a row of the user
          job,       \* the requests in progress
          torn,      \* files left by what failed or was cut off; a record only
          begun      \* the requests so far

workspaceVars == <<project, row, file, article, marked, job, torn, begun>>
news == <<article, marked>>

\* names and got: the categories of a request and the projects they resolved
\* to, or the URLs of a fetch and those that are done; rows: what its SELECT ...
\* FOR UPDATE has found; locks and shares: the projects it has locked, for update
\* or by a foreign key.
NoJob == [at |-> "idle", names |-> <<>>, got |-> <<>>, rows |-> {}, locks |-> {},
          shares |-> {}, file |-> None]

Project(name, auto, by) == [name |-> name, auto |-> auto, by |-> by]

Article(by) == [by |-> by]

WorkspaceInit ==
    /\ project = [p \in Projects |-> None]
    /\ row = {} /\ file = {} /\ torn = {}
    /\ article = [u \in Urls |-> None]
    /\ marked = {}
    /\ job = [r \in Requests |-> NoJob]
    /\ begun = 0

There == {p \in Projects : project[p] # None}

\* by: the transaction that has inserted the row, until it commits.
Committed == {p \in There : project[p].by = None}

Visible(r) == {p \in There : project[p].by \in {None, r}}

Called(name) == {p \in There : project[p].name = name}

\* The articles that a request sees.
Stored(r) == {u \in Urls : article[u] # None /\ article[u].by \in {None, r}}

Doing(r, step) == job[r].at = step

\* TypeOK adds to the types that a row out of a transaction is a row of one
\* that is open, and that requests outside share no lock.
WorkspaceTypeOK ==
    /\ \A p \in There : /\ project[p].name \in Names /\ project[p].auto \in BOOLEAN
                        /\ project[p].by # None => ~Doing(project[p].by, "idle")
    /\ row \cup file \cup torn \subseteq Files
    /\ \A u \in Urls : article[u] = None \/ article[u].by \in Requests \cup {None}
    /\ marked \subseteq {u \in Urls : article[u] = Article(None)}
    /\ \A r \in Requests :
         /\ job[r].at \in {"idle", "lookup", "count", "insert", "write", "commit",
                           "saved", "flushed", "removed", "entry", "add", "fetched",
                           "found", "new"}
         /\ job[r].rows \cup job[r].locks \cup job[r].shares \subseteq Projects
         /\ \A s \in Requests \ {r} :
              job[r].locks \cap (job[s].locks \cup job[s].shares) = {}
    /\ begun \in 0..MaxBegun

-----------------------------------------------------------------------------
(* The session of a request (get_db): it commits, or rolls back.           *)

BeginJob(r) == /\ Doing(r, "idle")
               /\ begun < MaxBegun
               /\ begun' = begun + 1

\* A mistake: the session is not closed.
LeftOpen(r) == [job EXCEPT ![r] = [NoJob EXCEPT !.locks = job[r].locks]]

Closed(r) == [job EXCEPT ![r] = NoJob]

OnlyProjects == UNCHANGED <<row, file, torn, news>>

CommitProjects(r) ==
    /\ Doing(r, "commit")
    /\ project' = [p \in Projects |->
                     IF p \in There /\ project[p].by = r
                     THEN Project(project[p].name, project[p].auto, None)
                     ELSE project[p]]
    /\ job' = Closed(r)
    /\ OnlyProjects /\ UNCHANGED begun

\* A mistake: nothing is rolled back.
KeptRows(of, gone) == of

\* The rows of a table without those the transactions have inserted.
Without(of, gone) ==
    [k \in DOMAIN of |-> IF of[k] # None /\ of[k].by \in gone THEN None ELSE of[k]]

Rollback(r) == /\ project' = Without(project, {r})
               /\ article' = Without(article, {r})
               /\ job' = Closed(r)
               /\ UNCHANGED <<row, file, torn, marked, begun>>

-----------------------------------------------------------------------------
(* Categories: _resolve_category_to_project, called by create_todo and     *)
(* update_todo once, by batch_create_todos for one item after another.     *)

FileTasks(r, names) ==
    /\ BeginJob(r)
    /\ job' = [job EXCEPT ![r] = [NoJob EXCEPT !.at = "lookup", !.names = names]]
    /\ OnlyProjects /\ UNCHANGED project

Category(r) == job[r].names[Len(job[r].got) + 1]

\* The next item's category, or the tasks themselves.
Resolved(r, p) ==
    LET got == Append(job[r].got, p) IN
    [job EXCEPT ![r].got = got, ![r].rows = {},
                ![r].at = IF Len(got) = Len(job[r].names) THEN "write" ELSE "lookup"]

\* What is found without a lock may be renamed or deleted before it is used.
Lookup(r) ==
    /\ Doing(r, "lookup")
    /\ LET found == Called(Category(r)) \cap Visible(r) IN
       \/ \E p \in found : job' = Resolved(r, p)
       \/ /\ found = {}
          /\ job' = [job EXCEPT ![r].at = "count", ![r].rows = Visible(r)]
    /\ OnlyProjects /\ UNCHANGED <<project, begun>>

Held(p, r) == \E s \in Requests \ {r} : p \in job[s].locks \cup job[s].shares

\* SELECT id ... FOR UPDATE: the rows are those it saw when it began, less
\* what is deleted while it waits.
LockRow(r) ==
    /\ Doing(r, "count")
    /\ \E p \in job[r].rows \ job[r].locks :
         \/ p \notin There /\ job' = [job EXCEPT ![r].rows = @ \ {p}]
         \/ p \in There /\ ~Held(p, r) /\ job' = [job EXCEPT ![r].locks = @ \cup {p}]
    /\ OnlyProjects /\ UNCHANGED <<project, begun>>

RowsLocked(r) == Doing(r, "count") /\ job[r].rows \subseteq job[r].locks

UnderMax(r) ==
    /\ RowsLocked(r)
    /\ Cardinality(job[r].rows) < MaxProjects
    /\ job' = [job EXCEPT ![r].at = "insert"]
    /\ OnlyProjects /\ UNCHANGED <<project, begun>>

AtMax(r) == /\ RowsLocked(r)
            /\ Cardinality(job[r].rows) >= MaxProjects
            /\ Rollback(r)

\* An id that nothing refers to.
Fresh == CHOOSE p \in Projects \ There :
            \A r \in Requests : p \notin job[r].rows \cup {job[r].got[i] : i \in DOMAIN job[r].got}

InsertProject(r) ==
    /\ Doing(r, "insert")
    /\ Called(Category(r)) = {}
    /\ project' = [project EXCEPT ![Fresh] = Project(Category(r), TRUE, r)]
    /\ job' = Resolved(r, Fresh)
    /\ OnlyProjects /\ UNCHANGED begun

\* uq_projects_user_lower_name.  begin_nested() flushes the session before it
\* sets the savepoint, so the INSERT fails outside of it and takes the
\* transaction along: what the handler does next raises.
NameTaken(r) ==
    /\ Doing(r, "insert")
    /\ Called(Category(r)) \cap Committed # {}
    /\ Rollback(r)

InProjects(r) == {job[r].got[i] : i \in DOMAIN job[r].got}

\* The tasks are written; their foreign keys lock the projects.
WriteTasks(r) ==
    /\ Doing(r, "write")
    /\ InProjects(r) \subseteq There
    /\ \A p \in InProjects(r), s \in Requests \ {r} : p \notin job[s].locks
    /\ job' = [job EXCEPT ![r].at = "commit", ![r].shares = InProjects(r)]
    /\ OnlyProjects /\ UNCHANGED <<project, begun>>

ProjectGone(r) == /\ Doing(r, "write")
                  /\ ~(InProjects(r) \subseteq There)
                  /\ Rollback(r)

-----------------------------------------------------------------------------
(* Projects by themselves.                                                 *)

\* No limit, and the INSERT is sent before the commit.
CreateProject(r, name) ==
    /\ BeginJob(r)
    /\ Called(name) = {}
    /\ project' = [project EXCEPT ![Fresh] = Project(name, FALSE, r)]
    /\ job' = [job EXCEPT ![r] = [NoJob EXCEPT !.at = "commit", !.names = <<name>>]]
    /\ OnlyProjects

Changeable(p) == p \in Committed /\ \A r \in Requests : p \notin job[r].locks

UpdateProject(r, p, name) ==
    /\ BeginJob(r)
    /\ Changeable(p)
    /\ Called(name) = {}
    /\ project' = [project EXCEPT ![p].name = name]
    /\ OnlyProjects /\ UNCHANGED job

\* The tasks of the project have none from then on.
DeleteProject(r, p) ==
    /\ BeginJob(r)
    /\ Changeable(p)
    /\ \A s \in Requests : p \notin job[s].shares
    /\ project' = [project EXCEPT ![p] = None]
    /\ OnlyProjects /\ UNCHANGED job

-----------------------------------------------------------------------------
(* The news.  An entry that is too old or off the subject is as if it were *)
(* not in its feed, a feed that cannot be fetched as if it had none.  When *)
(* a feed was last fetched is not kept.                                    *)

OnlyNews == UNCHANGED <<project, row, file, torn>>

\* The entries of the active feeds, one feed after another, or of the one that
\* an administrator fetches.
FetchFeeds(r, urls) ==
    /\ BeginJob(r)
    /\ job' = [job EXCEPT ![r] = [NoJob EXCEPT !.at = "entry", !.names = urls]]
    /\ OnlyNews /\ UNCHANGED news

Entry(r) == job[r].names[Len(job[r].got) + 1]

\* With its last entry the feed ends, which may be this one.
Done(r) ==
    LET got == Append(job[r].got, Entry(r)) IN
    \/ job' = [job EXCEPT ![r].got = got, ![r].at = "fetched"]
    \/ /\ Len(got) < Len(job[r].names)
       /\ job' = [job EXCEPT ![r].got = got, ![r].at = "entry"]

ReadEntry(r) ==
    /\ Doing(r, "entry")
    /\ \/ Entry(r) \in Stored(r) /\ Done(r)
       \/ Entry(r) \notin Stored(r) /\ job' = [job EXCEPT ![r].at = "add"]
    /\ OnlyNews /\ UNCHANGED <<news, begun>>

\* The INSERT is sent with the next statement; it waits for an article of the
\* same URL that is not committed.
AddArticle(r) ==
    /\ Doing(r, "add")
    /\ article[Entry(r)] = None
    /\ article' = [article EXCEPT ![Entry(r)] = Article(r)]
    /\ Done(r)
    /\ OnlyNews /\ UNCHANGED <<marked, begun>>

\* What the feed has added is rolled back, and the handler of the error fails on
\* the feed it wants to name: the feeds after this one are not fetched.
ArticleTaken(r) == /\ Doing(r, "add")
                   /\ article[Entry(r)] = Article(None)
                   /\ Rollback(r)

\* Each feed is committed by itself.
CommitFeed(r) ==
    /\ Doing(r, "fetched")
    /\ article' = [u \in Urls |-> IF article[u] = Article(r) THEN Article(None)
                                  ELSE article[u]]
    /\ job' = IF Len(job[r].got) = Len(job[r].names) THEN Closed(r)
              ELSE [job EXCEPT ![r].at = "entry"]
    /\ OnlyNews /\ UNCHANGED <<marked, begun>>

\* The row of the user is found, and updated with the commit, or a new one is
\* inserted with it.  What the row says, and the score that a rating gives to
\* the feed, are not kept.
Interact(r, u) ==
    /\ BeginJob(r)
    /\ article[u] = Article(None)
    /\ job' = [job EXCEPT ![r] = [NoJob EXCEPT !.names = <<u>>,
                                              !.at = IF u \in marked THEN "found" ELSE "new"]]
    /\ OnlyNews /\ UNCHANGED news

MarkArticleRead(r, u) == Interact(r, u)
RateArticle(r, u)     == Interact(r, u)
BookmarkArticle(r, u) == Interact(r, u)

SaveInteraction(r) ==
    /\ \/ Doing(r, "found")
       \/ Doing(r, "new") /\ Entry(r) \notin marked
    /\ marked' = marked \cup {Entry(r)}
    /\ job' = Closed(r)
    /\ OnlyNews /\ UNCHANGED <<article, begun>>

\* Another request has inserted the row meanwhile.
InteractionTaken(r) == /\ Doing(r, "new")
                       /\ Entry(r) \in marked
                       /\ Rollback(r)

-----------------------------------------------------------------------------
(* Attachments.                                                            *)

Working(r, step, f) == job' = [job EXCEPT ![r] = [NoJob EXCEPT !.at = step, !.file = f]]

\* A file of a new name; if writing it fails, what is written stays.
SaveFile(r, f) ==
    /\ f \notin file \cup row \cup torn
    /\ \A s \in Requests : job[s].file # f
    /\ file' = file \cup {f}
    /\ \/ Working(r, "saved", f) /\ UNCHANGED torn
       \/ torn' = torn \cup {f} /\ UNCHANGED job

UploadAttachment(r, f) == /\ BeginJob(r)
                          /\ SaveFile(r, f)
                          /\ UNCHANGED <<project, row, news>>

InsertRow(r) ==
    /\ Doing(r, "saved")
    /\ job' = [job EXCEPT ![r].at = "flushed"]
    /\ UNCHANGED <<project, row, file, torn, news, begun>>

\* A mistake: the file is left where it is.
LeftBehind(f) == UNCHANGED <<file, torn>>

\* Its failure is only logged.
DeleteFile(f) == \/ file' = file \ {f} /\ UNCHANGED torn
                 \/ torn' = torn \cup {f} /\ UNCHANGED file

InsertFails(r) ==
    /\ Doing(r, "saved")
    /\ DeleteFile(job[r].file)
    /\ job' = Closed(r)
    /\ UNCHANGED <<project, row, news, begun>>

\* The file goes first.  It may be gone: another request deletes the same.
DeleteAttachment(r, f) ==
    /\ BeginJob(r)
    /\ f \in row
    /\ file' = file \ {f}
    /\ Working(r, "removed", f)
    /\ UNCHANGED <<project, row, torn, news>>

CommitAttachment(r) ==
    LET f == job[r].file IN
    /\ \/ Doing(r, "flushed") /\ row' = row \cup {f} /\ UNCHANGED torn
       \/ Doing(r, "removed") /\ row' = row \ {f} /\ UNCHANGED torn
       \/ /\ Doing(r, "flushed") \/ Doing(r, "removed")    \* the commit fails
          /\ torn' = torn \cup {f}
          /\ UNCHANGED row
    /\ job' = Closed(r)
    /\ UNCHANGED <<project, file, news, begun>>

-----------------------------------------------------------------------------
(* The database and the server.                                            *)

Blockers(r) ==
    {s \in Requests \ {r} :
       \/ /\ Doing(r, "count")
          /\ (job[r].rows \ job[r].locks) \cap (job[s].locks \cup job[s].shares) # {}
       \/ Doing(r, "insert") /\ \E p \in Called(Category(r)) : project[p].by = s
       \/ Doing(r, "write") /\ InProjects(r) \cap job[s].locks # {}
       \/ Doing(r, "add") /\ article[Entry(r)] = Article(s)}

\* The database has found a deadlock and ends a request that is part of it.
DeadlockFound(r) ==
    /\ \E S \in SUBSET Requests : r \in S /\ \A s \in S : Blockers(s) \cap S # {}
    /\ Rollback(r)

Restart ==
    /\ \E r \in Requests : ~Doing(r, "idle")
    /\ project' = Without(project, Requests)
    /\ article' = Without(article, Requests)
    /\ torn' = torn \cup ({job[r].file : r \in Requests} \ {None})
    /\ job' = [r \in Requests |-> NoJob]
    /\ UNCHANGED <<row, file, marked, begun>>

\* What a request does once it has begun.
Step(r) ==
    \/ Lookup(r) \/ LockRow(r) \/ UnderMax(r) \/ AtMax(r) \/ InsertProject(r)
    \/ NameTaken(r) \/ WriteTasks(r) \/ ProjectGone(r) \/ CommitProjects(r)
    \/ ReadEntry(r) \/ AddArticle(r) \/ ArticleTaken(r) \/ CommitFeed(r)
    \/ SaveInteraction(r) \/ InteractionTaken(r)
    \/ InsertRow(r) \/ InsertFails(r) \/ CommitAttachment(r)
    \/ DeadlockFound(r)

WorkspaceNext ==
    \/ \E r \in Requests :
         \/ \E n \in Names : FileTasks(r, <<n>>)
         \/ \E n, m \in Batched : FileTasks(r, <<n, m>>)
         \/ \E n \in Names : CreateProject(r, n)
         \/ \E p \in Projects, n \in Names : UpdateProject(r, p, n)
         \/ \E p \in Projects : DeleteProject(r, p)
         \/ \E f \in Files : UploadAttachment(r, f) \/ DeleteAttachment(r, f)
         \/ \E u, v \in Urls : FetchFeeds(r, <<u, v>>)
         \/ \E u \in Urls : MarkArticleRead(r, u) \/ RateArticle(r, u) \/ BookmarkArticle(r, u)
         \/ Step(r)
    \/ Restart

\* The server goes on with every request it has begun.
WorkspaceSpec == WorkspaceInit /\ [][WorkspaceNext]_workspaceVars /\ \A r \in Requests : WF_workspaceVars(Step(r))

-----------------------------------------------------------------------------
(***************************************************************************)
(* Properties.                                                             *)
(***************************************************************************)

\* No request waits for ever: not for the locks of the others, not for a name
\* they are about to take, not with them in a circle (two batches that make
\* each other's projects, _resolve_category_to_project).
RequestsEnd == \A r \in Requests : ~Doing(r, "idle") ~> Doing(r, "idle")

\* An attachment has its file and a file its attachment, but for the requests
\* in progress and for files that a failure or a restart has left so
\* (upload_attachment cleans up, delete_attachment removes the file first).
FilesAgree ==
    \A f \in Files \ torn :
        (f \in row <=> f \in file) \/ \E r \in Requests : job[r].file = f

\* "concurrent requests from both passing the check and collectively overshooting
\* the cap" are prevented (_resolve_category_to_project): the projects made for a
\* category are no more than the limit.
ProjectsWithinMax == Cardinality({p \in Committed : project[p].auto}) <= MaxProjects
=============================================================================

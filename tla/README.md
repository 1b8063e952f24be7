# Task Manager: a verification project

TLA+ models of the parts of this repository in which several requests,
clients or connections meet, the TLC runs that check them on small
instances, and TLAPS proofs of what matters most for every instance. Paths are
relative to the repository; `app/` is `services/backend/app/`, `relay/` is
`services/mcp-relay/mcp_relay/`.

The modules model code, so each says in its head which file it is of, and
`PROJECT.json` maps every definition to its lines.

## 1. The system

A FastAPI backend over PostgreSQL, a Svelte frontend, and three MCP servers:
an authorization server, a resource server that turns tools into calls of the
backend, and a relay by which agents send each other messages.

How the parts meet:

* Every backend request is one transaction of `app/dependencies.py:get_db`: it
  commits after the answer has been sent and rolls back when the handler raises.
  Isolation is READ COMMITTED; only three places lock rows (`FOR UPDATE`).
  Whatever a refused request has written is gone, wanted or not.
* A committed change of a task fires a trigger (`alembic` 0031), whose NOTIFY the
  `EventBus` hears on a connection of its own and puts into one bounded queue per
  open stream; `app/api/events.py` sends it on; the tab reloads.
* The relay's store has two forms behind one interface: in memory, where an
  asyncio loop makes each call atomic, and on Redis, where it does not.
* An agent calls a tool of the resource server with a token of the authorization
  server. The tool calls the backend through the SDK with the one API key
  of the resource server, whoever the agent is, and blocks the loop while it does.
* The authorization server is itself a client of the backend's OAuth provider: it
  exchanges the backend's code, makes a code of its own, and keeps tokens of its own.

| Part | State | Operations | What makes it hard | What makes it correct | Model |
|---|---|---|---|---|---|
| Tasks (`app/api/todos.py`, `trash.py`) | rows with owner, parent, status, soft delete; dependency pairs | create, subtask, batch, update, bulk update, complete, delete, restore, add and remove a dependency | graphs kept by checks of single requests; deleted rows still hold edges; restore checks nothing | both graphs acyclic | `TaskGraph` |
| Registration (`app/api/auth.py`, `registration_codes.py`) | users; codes with a maximum, a count, an expiry | register; create, deactivate, delete a code | the row lock, the unique index, rollback | no code admits more users than it may; nobody waits for ever | `Registration` |
| Relay (`relay/server.py`, `redis_store.py`) | a list and an event per channel | send, read, page, wait, clear, delete a channel or a message | interleaving of Redis calls, lost wake-ups, trimming under readers | a log in order that loses only what is old or removed | `ChannelLog`, `Relay`, `RedisRelay` |
| Live updates (`app/services/event_bus.py`, `app/api/events.py`, `eventStream.ts`, `eventHandlers.ts`, `stores/todos.ts`) | queues, the bus's connection, streams, timers, stores | notify, dispatch, reconnect, reload | lost connections on both sides, answers before commits | what others change is shown in the end, or lost in one of four known ways | `LiveUpdates` |
| Wiki (`app/api/wiki.py`) | a tree of pages, revisions | create, update, append, move, delete | checks before writes without locks, soft delete of subtrees | a whole tree of bounded depth, complete revisions | `Wiki`; its links in `Content` |
| OAuth provider (`app/api/oauth/`, `service_accounts.py`) | clients, codes, device codes, tokens | consent, decide, exchange, poll, refresh, revoke | a row is read, then deleted, without a lock; answers before commits | a token goes back to a consent; what is allowed once is one row; what is revoked stays so | `OAuth` |
| MCP authorization server (`services/mcp-auth`, `packages/mcp-auth-framework`) | states and codes in memory, tokens in memory or PostgreSQL | authorize, callback, exchange, refresh, poll | awaits between look-up and removal, crashes, two storages | a code answered once; only a crash, the time or a deletion that was done and not confirmed leaves the client without a token | `AuthServer` |
| Login (`app/api/auth.py`, `webauthn.py`, `oauth/github.py`), API keys | users, sessions, passkeys, challenges in memory, states, linked accounts, keys | log in in three ways, change the password, add and remove | a state that a rollback brings back, a login that overlaps a change, a limit under a lock of other rows | each challenge good for once, sessions end with the password unless the login overlapped the change, keys bounded | `Access` |
| MCP resource server, its guard and the SDK (`services/mcp-resource`, `packages/mcp-resource-framework`, `packages/taskmanager-sdk`) | none, but for a call in progress | 43 tools | lost answers and retries, notes read and written back, what None leaves out | a repeated call makes nothing twice; notes that were read, and reasons, stay | `Client`, `Tools` |
| Projects and categories (`app/api/projects.py`, `_resolve_category_to_project`) | rows under a limit, unique by name | create, rename, archive, delete; made for a category | row locks, unique names and batches that wait for each other | every request ends; the limit | `Workspace`, `Content` |
| Attachments (`app/api/attachments.py`, `app/services/storage.py`) | a file and a row | upload, delete | two stores, no common commit | a row has its file | `Workspace` |
| News (`news_fetcher.py`, `app/api/news.py`) | feeds, articles, interactions | fetch, read, rate, bookmark; edit feeds | every worker fetches; unique URLs across a batch in one commit | every request ends | `Workspace`, `Content` |
| Comments, snippets, recurring tasks | single rows | create, update, delete | little | | `Content` |
| Rate limiter (`app/core/rate_limit.py`) | timestamps in one row | check, record | the record is rolled back with the request that raises | | not modelled, see 6 |
| Search, notifications, logs, the relay proxy, middleware, metrics, summaries | none that anything depends on | queries, forwarding, text | little | | not modelled |

`PROJECT.json` lists every component with the reason it is, or is not, modelled,
and under `hazards` the places where this code can go wrong in ways a unit test
hardly reaches, each at its line. Besides those in the list:

* duplicate sort positions under overlapping requests (`app/db/queries.py:88` says so
  itself), and duplicate titles under overlapping creations;
* a bulk update that leaves the date of completion; subtasks of a deleted
  parent that no listing shows and that still count as duplicates;
* timestamps in Redis that are taken before the push;
* a reload that ignores the page's filters, an open stream's database session;
* `save_file` leaves what it has written when writing fails (in `Workspace`, `torn`);
* wiki notifications that nobody can receive, because only the owner of a page
  can subscribe to it and the one who changes a page is left out (`wiki.py:1087`);
* a slug that is free among live pages and taken by a deleted one.

## 2. The modules

| Module | Models | Atomic step | State |
|---|---|---|---|
| `TaskGraph` | the task endpoints | a request | `todo` (table todos), `deps` (table task_dependencies) |
| `Registration` | `register` and the endpoints of the codes | an SQL statement | `code`, `cameWith` (committed tables), `reg` (the transactions) |
| `ChannelLog` | what a message store promises | a client's operation | `log` |
| `Relay` | `MessageStore` in memory | a call; a long poll is several | `channel`, `waiter`, `pager`, `sent` |
| `RedisRelay` | `RedisMessageStore` | a Redis call | `members` and `list` (Redis), `task` (the coroutines), `sent` |
| `LiveUpdates` | commit, bus, stream, tab | a callback or an answer | `db`, `pending`, `reply`, `wire`, `bus`, `stream`, `queue`, `timer`, `loads`, `store`; histories `blind`, `missed` |
| `Wiki` | pages and revisions | what a request reads, what it locks, its commit | `page`, `saved`, `req` |
| `OAuth` | the OAuth provider | what a request reads, its commit | `client`, `account`, `grant`, `token` (tables), `expired`, `req`; histories |
| `AuthServer` | the MCP authorization server | from one await to the next | `mapping`, `code` (memory), `pair` (either storage), `login`, `req`, `crashes` |
| `Access` | logins, passkeys, GitHub, keys | what a request reads, its commit | the tables `mail`, `password`, `session`, `link`, `passkey`, `key`, `state`; `challenge` (memory); `req` |
| `Content` | everything of a user beside tasks, over `TaskGraph` | a request | `agent`, `comment`, `page`, `link`, `snippet`, `project`, `recurring`, `feed` |
| `Client` | the SDK, over `Content` | a request that is served or not | |
| `Tools` | the tools of the resource server, over both | a call, its second request, its screening | `call` |
| `Workspace` | projects, attachments, news | an SQL statement, a file operation | `project`, `row`, `article`, `marked` (tables), `file` (disk), `job` (the requests), `torn` |
| `Handlers` | what `Registration`, `Access`, `Wiki` and `Workspace` have in common: the requests in progress, and NULL | | |
| `TaskProofs` (of `TaskGraph` and `Tools`), `AccountProofs` (of `Registration` and `Access`), `WorkspaceProofs` (of `Workspace` and `Wiki`), `RelayProofs`, `RedisRelayProofs`, `LiveUpdatesProofs`, `OAuthProofs`, `AuthServerProofs` | the inductive invariants and theorems of section 5 | | |
| `MC...` | the symmetry, and for tasks one bound, of the instances | | |

Composition: `Relay` and `RedisRelay` both instantiate `ChannelLog` with a
refinement mapping, so the two stores are compared with one promise and not with
each other. In `Relay` the mapping is the table itself; in `RedisRelay` the log of a
channel is its list cut to the maximum, present when the set of channels names it.
`Content` extends `TaskGraph`; `Client` extends `Content` and says what a request of
the SDK does to it; `Tools` instantiates `Client` and composes it with agents, the user
at the front end and restarts.

### TaskGraph

A task is a row or `None`; `live` is `deleted_at IS NULL`, `dated` is
`completed_date IS NOT NULL`. Each endpoint that writes is an action, with its
guards in the order of the code: who may be a parent
(`_verify_parent_allows_children`), whether live subtasks forbid a move, whether
an active task has the title, and for a dependency the search of
`_check_circular_dependency`, as the least set that contains the start and is closed
under one user's edges. A batch is one action: its items and the dependencies among
them by index, of which `Sorted` asks that some order exists
(`_validate_batch_dependency_graph`). A refused request changes nothing and has no
action. Properties: both graphs acyclic through batches, deletes and restores.
`HierarchyAcyclic` leaves out a task that is its own parent, because
`update_todo` lets one be.

### Registration

One action per statement of `validate_and_use_registration_code` and `register`:
take the lock and count, look for the address, insert (waiting for an uncommitted row
with the same address), commit. An administrator creates, deactivates and deletes
codes meanwhile, which wait for the same lock; codes expire; a connection is lost at
any point. What a transaction wrote is in `reg` until `Commit`, and goes with it when the
request is refused: the count too, if the address is taken, which the comment in the code denies
(section 4). `UsersWithinMax` says that a code admits no more users than are counted, nor more
than its maximum, and holds under either reading.

### ChannelLog, Relay, RedisRelay

`ChannelLog` says what a client may rely on: per channel a sequence in the order of
sending, of at most `MaxPerChannel`, at most `MaxChannels` channels, nothing removed
but by a request or by the maximum. `Relay` adds long polls (`Wait`, `Woken`,
`TimeOut`, and the detached ones whose event was dropped with the channel) and
readers that page forwards and backwards while others send. `RedisRelay` splits every
operation at its awaits. On the channels in `Kept`, whose clients send and clear, it is
shown to implement the log as `KeepSpec`, in which no message is removed on its own,
whatever happens in the other channels. With deletions in a channel it does not: a
deletion that reads the list, drops it and writes it back loses what was pushed
meanwhile. `SenderOrderKept` says what remains true of every channel.

### LiveUpdates

A store is the set of changes it shows. `Make`, `Commit` and `Answer` are three
steps because the answer leaves before the commit. The bus may lose its
connection, which drops what is on the wire and closes the streams by a sentinel in
their queues; a stream may be lost; a tab reloads when it reconnects, and by a timer
when it hears of a change. Nothing orders what the code does not order: a tab
reconnects whether or not the bus is back, a page's first load is read before or after
its stream opens, answers of loads overtake each other, and a load may fail (`LoadFails`),
whose error the code swallows. Queues are bounded and may be full.

Changes do get lost, then, and two histories, which no step depends on, say which.
`blind` is a tab that hears nothing of what is committed now: its stream was opened while the
bus was lost, or not opened yet when the page asked for its tables, or its queue had no room
for the sentinel. `missed` collects what is announced to such a tab or to a full queue,
what an older answer takes back, and what a failed last load would have shown; it is
emptied by the next load of the table or the loss of the stream, after which the tab reloads.
`NothingLost` and `ShownInTheEnd` say that nothing else is lost: any other change is on its
way, and is shown in the end.

### Wiki

A request checks what is committed, then writes. `alone`, chosen in the initial
state, says whether a request begins only after the commit of the one before. The
guarantees about the tree and about the text are stated for `alone`, since
nothing is locked between the check and the write. `UpdatesCounted` is stated for
all: the increment in SQL counts overlapping updates too. When requests overlap, TLC
finds with two pages and two requests that a page vanishes from the tree (each of two
moves makes the other page the parent; or a page is created below one that is being
deleted), that two revisions have the same number, and that a text is overwritten
without being in any revision, because an update that waited for the row's lock
saves the page as it had read it before.

### OAuth, AuthServer, Access

All three are about something that is good for one use: a code, a refresh token, a
challenge, a state. A request has a first action (`Begin...`), with what it reads
and its guards, and a second, its commit; what it read is in `req`. Histories, which
the code does not keep, say what a row once stood for: `allowed` and `made` in `OAuth`,
`login` in `AuthServer`, `used` in `Access`.

In `OAuth` nothing is locked, so one code can be exchanged twice by requests that
overlap. `OneRowPerGrant` says precisely what that costs: the rows of a grant are one
more than the deletions that found nothing (`missed`), and none is missed where
requests are `alone`. In `AuthServer` a handler is alone until it awaits, so that a
second exchange of a code can store a pair, but its `del` raises and the client never
learns it: `CodeAnsweredOnce`. `LoginKept` and `NewestRefreshes` are the two sides of
rotation: not too little is kept, not too much. A pair's refresh token is in the
database, in memory, lost by a crash, gone, or `"cut"`: a query of the storage fails
(`Fail`) before or after it had its effect, and a DELETE of the old token that was executed
and not confirmed leaves the client without either. `Access` has the one lock among the
three, `DELETE ... RETURNING` on the state of a GitHub login, and a memory that no
rollback restores, the challenges. A change of a password is two steps: `EndSessions`, the
DELETE of the sessions that are committed by then, and `UpdatePassword`, the commit. A row
that is deleted and not committed is marked, so that a logout waits for it and a rollback
restores it. A login can commit after the change, or between the two steps: `missed` marks
the session that it leaves, and `ChangeEndsSessions` is about all others.

### Content, Client, Tools

A tool's operator is what it asks of the SDK, an SDK method what it asks of the
backend, under the names of the code. `Request` is the network: the request is served,
or not, and the caller cannot tell a lost request from a lost answer. A tool that
reads is a call whose answer is screened and that changes nothing. `add_agent_note`
is the only tool of two requests, hence the states `"noting"`, the notes were read, and
`"unread"`, the answer was no error and brought nothing (`get_todo_empty`), whereupon the
tool goes on with the new note alone. That no other tool runs between the two (`LoopFree`)
is because the SDK blocks the loop, and `NotesKept` depends on just that: its mutant lets
tools interleave. A reason is given, empty or NULL: `classify_task` stores an empty one
over any other (section 4), no tool a NULL (`BlockedHasReason`). The user at the front end
does what no tool can do: subtasks, the trash, removed dependencies and links, comments,
archived projects, recurring tasks.

### Workspace

The statements of transactions that overlap, with what the database makes them wait
for: row locks (`locks` for update, `shares` for foreign keys) and rows of the same
name or URL that are not committed yet. A circle of such waits is found and one request
of it ended, with everything it has written (`DeadlockFound`). `begin_nested()` flushes
before it sets the savepoint, so a name that another request has taken meanwhile
ends the request (`NameTaken`) instead of being looked up again, as the comment in the
code has it. A fetch of feeds commits feed by feed and ends at the first URL it loses.
`torn` records the files whose request failed or was cut off between the disk and
the commit; `FilesAgree` is about all others.

## 3. The runs

Twelve runs; each property of a passing run also has a mutant, a small
mistake in one definition under which TLC finds the property violated. The last
ends in a violation (section 4).

| Run | Bounds | Shows |
|---|---|---|
| `task_graph` | 2 users, 3 tasks, 2 titles, batches of up to 3; no step from a state with a completion date | the graphs' invariants |
| `registration` | 2 requests, 2 codes, 2 addresses, maximum 2 | users within the count and the maximum, commits under live codes, termination |
| `relay` | 2 channel names, 1 channel allowed, 2 senders, 1 long poll, 1 pager, 4 messages, 3 per channel, pages of 0, 1 and 3, cut to 2 | refinement, no missed message, no gaps |
| `redis` | 2 channels, one of them without deletions, 2 clients, 3 messages, 2 per channel | refinement, order per sender |
| `live_updates` | 1 tab and 1 other author, 2 changes, 1 outage, 1 lost stream, 1 failed load, queue of 1 | nothing lost but in four ways, the rest shown in the end |
| `wiki` | 4 pages, depth 3 (the code's), 2 updates; overlapping requests on 1 page | the tree, the revisions |
| `oauth` | 3 clients, 2 users, 1 code, 1 device code, 2 requests, 1 grant, 3 tokens, 1 code or token past its time | consent behind every token, one row per grant, revocation |
| `auth_server` | 1 client, 1 state, 1 resource, 2 scopes, 2 requests, 1 login, 3 pairs, 1 refresh token past its time, 1 crash | one answer per code, rotation, terms |
| `access` | 2 users, 2 addresses, 1 GitHub account, 1 state, 1 challenge, 1 passkey, 3 keys with a limit of 1, 3 rows at a time, 1 change of a password, 2 requests; no step from a state with keys and anything of passkeys or GitHub | single use, sessions end, keys bounded |
| `tools` | 2 agents, 2 tasks, 2 titles, 2 notes, one of each other thing, 3 calls that change something | notes, duplicates, reasons |
| `workspace` | 2 requests at a time, 3 in all, 3 names, batches of 2 over two of them, a limit of 2 projects, 1 file, 2 articles | every request ends, files agree |
| `project_cap` (violation) | 2 requests, 2 names, a limit of 1 | one project more than the limit |

Why the bounds are enough. A cycle closed through a third task, and a dependency of a
deleted one, need three tasks; a path through another owner needs two users. Two
registrations make every race on one code and one address, two codes let them
not race, and a maximum of 2 is met and exceeded. Four messages in a channel
of three evict one, between two pages of a pager that has shown two. In Redis a trim
races a push with two clients, and a third message finds a list that is full; the
second channel is where deletions read and write back. Four pages are one more than
the depth allows, so that a move is refused because of what lies below the page. The
queue of 1 in `live_updates` is full with the first of two changes, so that the second, or
the sentinel, is dropped; with a lost stream, an outage and a failed load there are
enough loads in flight for answers to overtake each other. Three tokens
are an exchange and two refreshes, or two exchanges of one code and a refresh;
a second grant would share nothing with the first. Three pairs are a login and two
rotations, or two exchanges of a code and a rotation, with the crash anywhere. Two
requests make every race of `Access` on one state, one challenge and one password: a
login may overlap the change as a whole or commit between its two steps. A
limit of 1 lets two requests exceed it, and three keys are all the rows that takes, while
no table but the sessions is concerned. A
state or challenge that nothing holds any more is drawn again, so that one of each
makes behaviours of any length. In `tools` three changes are two agents and the
front end, or a call, its repetition and what the other agent does between. In
`workspace` two batches of two names each make the deadlocks, a third request, begun when
one has ended, uses what it left, and the third name meets the limit.

Symmetry is used in runs without liveness only: tasks and users, channels and
clients, pages and requests are interchangeable in the modules. Deadlock is not
checked where tokens, updates, changes or requests are bounded and the system then
rests (the runs of `LiveUpdates`, `Wiki`, `OAuth`, `AuthServer` and `Workspace`); it is checked in
the others.

Fairness. `Registration`: strong fairness of each registration's own statements,
because PostgreSQL grants a row lock to those who wait in turn, so one that is
released again and again is obtained; none for clients, administrators, expiry or
crashes. `LiveUpdates`: weak fairness of the server's steps and of each tab's, since
asyncio and the browser run what is ready, the bus retries for ever and so does
the tab; none for faults and changes, which are bounded. `Workspace`: weak fairness of what
each request does once it has begun, the grant of a lock it waits for and the end
of a deadlock included, since the server goes on with every request and the database
looks for deadlocks; the locks it waits for are held by requests that end, of which
there are finitely many. None for new requests and restarts. The other modules state
no liveness.

## 4. The findings

`project_cap` ends in a violation of `ProjectsWithinMax`: `todos.py:466` says that the lock on
the user's projects keeps concurrent requests from "collectively overshooting the cap". It
locks the rows that exist; a request that waits for them does not see the row the other has
inserted, and without a project there is nothing to lock.

Eight sentences more are not so. The models do what the code does, and a property of a passing
run, which says so where it is stated, is about what remains true beside each but one.

| What is said | What is so | What is checked |
|---|---|---|
| `auth.py:103`: if the address is taken, "the code usage is still incremented" | The exception rolls it back: `RefusedUsesRolledBack` proves that the count of every code is the number of its users. | `UsersWithinMax` |
| `auth.py:309`: "Invalidate all user sessions" | The session of a login that the change overlaps stays. | `ChangeEndsSessions`, of all others |
| `api_keys.py:108`: row locking is "to prevent race condition" | Neither of two requests sees the row the other inserts. | `KeysBounded`, by how much at most |
| `token.py:135`: "single use" | The DELETE of a row that is gone is no error, and two exchanges both issue a token. | `OneRowPerGrant`, one row for each that found nothing |
| `eventStream.ts:71`: "reload all stores to catch missed events" | What is committed between that reload and the reconnection of the bus is announced to nobody. | `NothingLost`, `ShownInTheEnd`, of all else |
| `eventHandlers.ts:51`: own changes are "already reflected in the store" | A load that was read before the commit takes them back, and their event is dropped. | nothing: the properties are about the changes of others |
| `server.py:1574`: a reason is required with "blocked" | `classify_task` writes an empty one over it. | `BlockedHasReason`, never NULL |
| `server.py:1509`: "append to existing notes" | When they are not read and nothing is raised, they are overwritten. | `NotesKept`, in every other case |

Modelling met more places where the code does other than a comment or a test says.
They are in the models as the code has them, and no property is stated that they
would break:

* `app/api/trash.py:114`: a subtask is deleted, its parent becomes a subtask, the first
  is restored: three levels, where `todos.py:863` allows one.
* `relay/redis_store.py:201`: `delete_message` loses what is pushed while it
  rewrites the list; line 184 promises to remove the message that is named.
* `app/api/todos.py:480`: the savepoint does not catch the INSERT it is there for
  (`NameTaken`).
* `app/api/news.py` takes a session cookie for articles, so the tools that read and
  rate them always fail, which `services/mcp-resource/README.md:84` lists as working.
* `set_agent_status` says that the reason is null for other states than "blocked"; the SDK
  leaves a None out, and the old reason stays.
* `app/services/news_fetcher.py:297`: the handler of a database error reads a feed that the
  rollback has expired, and the job ends instead of going on to the next feed.
* `app/api/oauth/github.py:248` reads a relation that was not loaded: a login by an
  account that is linked already raises, rolls back its state and ends in an error.
* A rate limiter's record is rolled back with the refused request (`app/api/auth.py:177`).

## 5. The proofs

| Module | Theorem | States, for every value of the constants |
|---|---|---|
| `TaskProofs` | `Typing` | `TypeOK` |
| | `DependenciesStayAcyclic` | `DependenciesWithinOwner` and `DependenciesAcyclic` |
| | `HierarchyStaysAcyclic` | `FamilyWithinOwner` and `HierarchyAcyclic` |
| | `ToolsTypes` | `ToolsTypeOK` |
| | `BlockedTasksHaveReason` | `BlockedHasReason` |
| | `AppendedNotesKept` | `NotesKept`, an action property |
| | `CallsAddNoTwins` | `NoTwins`, an action property |
| | `ToolsRefineTaskGraph` | every behaviour of `ToolsSpec` is one of `TaskGraph`'s `Spec` |
| | `ToolsKeepDependenciesAcyclic`, `ToolsKeepHierarchyAcyclic` | so both graphs of `TaskGraph` stay acyclic under the tools |
| `AccountProofs` | `RegistrationTypes` | `RegistrationTypeOK` |
| | `CodeAdmitsAtMostMax` | `UsersWithinMax` |
| | `RefusedUsesRolledBack` | `UsesCountUsers`: each code is counted once for each of its users |
| | `CommitUnderLiveCode` | `CommitsUnderLiveCode`, an action property |
| | `AccessTypes` | `TypeOK` of `Access` |
| | `NothingUsedTwice` | `UsedOnce` |
| | `ChangesEndSessions` | `ChangeEndsSessions` |
| | `KeysStayBounded` | `KeysBounded` |
| `RelayProofs` | `RelayTypes` | `TypeOK`, with both maxima |
| | `WaitersMissNothing` | `AttachedMissNothing` |
| | `PagesHaveNoGap` | `PagesLeaveNoGap` |
| | `RelayImplementsLog` | `ImplementsLog`, the refinement of `ChannelLog` |
| `RedisRelayProofs` | `SendersKeepOrder` | `SenderOrderKept` |
| | `RedisImplementsLog` | `ImplementsLog`, if `Kept` is finite and has at most `MaxChannels` members |
| `LiveUpdatesProofs` | `LiveUpdatesTypes` | `TypeOK` |
| | `NothingIsLost` | `NothingLost` |
| `OAuthProofs` | `OAuthTypes` | `TypeOK` |
| | `ConsentBehindEveryToken` | `TokensFromConsent` |
| | `GrantsKeepOneRow` | `OneRowPerGrant` |
| | `RevocationIsFinal` | `RevokedForGood` |
| `AuthServerProofs` | `AuthServerTypes` | `TypeOK` |
| | `OneAnswerPerCode` | `CodeAnsweredOnce` |
| | `RotationKeepsLogin` | `LoginKept` |
| | `OnlyNewestRefreshes` | `NewestRefreshes` |
| | `ChainKeepsTerms` | `TermsKept` |
| `WorkspaceProofs` | `WorkspaceTypes` | `WorkspaceTypeOK` |
| | `AttachmentsAgree` | `FilesAgree` |
| | `WikiTypes` | `TypeOK` of `Wiki` |
| | `UpdatesAreCounted` | `UpdatesCounted` |
| | `TreeIsWhole` | `EveryPageInTree` |
| | `TextIsKept` | `TextKeptAlone`, an action property |

With these every property of a passing run is proved that is not about liveness.

Assumptions: those the modules name on their constants, and for one theorem the
hypothesis in the table. On the constants: `None` is no task, row, message, page, file or
status; maxima are natural numbers, and positive where the code's are; sets that are
counted are finite, as the pages of a user are (`WikiAssumption`); clients may send the
status that a new task has (`"pending" \in Sent`, in `ToolsAssumption`); the API key is
one of a user. TLC evaluates each on the run of its module. The hypothesis is there
because the code breaks the property without it, not because the proof does:
`Cardinality(Kept) <= MaxChannels`, since SISMEMBER, SCARD and SADD are three calls, so that
senders that overlap open more channels than the maximum. The log has room as long as
the channels in question are no more than the maximum, however many others there are.

There is an inductive invariant for each model (`Inv`; `DependencyInv`, `HierarchyInv`
and `ToolsInv` in `TaskProofs`; `RegistrationInv`, `WorkspaceInv` and `WikiInv` after their
models), which holds initially and is kept by every step; TLC has checked it on the instance of the module's run. One lemma
per action shows that the action keeps it, and the theorems follow. What follows says
what had to be added to the properties, and why.

Dependencies. Acyclicity is stated without paths: every nonempty set has a member
with no successor in it. `DependenciesAcyclic` alone is not inductive, since the
search follows one user's edges only: the invariant adds that an edge lies within
one owner, and that a row keeps its owner (`OwnerKept`). The step that matters is
`AcyclicExtended`: if the start is not in a set closed under the edges that holds the
end, a new edge closes no cycle; for a set that holds both ends one looks at its part
in the closed set. For batches, `Sorted` gives every set of new tasks a last one, and the
edges of a batch join new tasks only.

Hierarchy. All links a request adds lead to one task that was a root
(`LinksStep`). Links are not of depth one, since the code counts live subtasks only
and deleted ones are restored. But that root stays one, apart from a link to itself,
so that it is in no set of which each member has another for a parent; such a set,
a loop, has no new link in it and was there before.

Registration. What the lock promises is the strengthening `LockInv`: a registration
past its check holds its code alone (`Exclusive`), the code is still as it was read
(`Held`), no user has the address of one that inserted (`NotYetUser`), and no two
inserted the same (`Alone`). From these a commit adds one user and one use.
`Held` is also what makes a commit happen under a live code.

Relay. `InOrder`: a channel is in the order of its ids, and none is newer than `sent`.
`PagersKeepTo`: what a pager was shown lies on the far side of its cursor, which it was
shown. So what a page adds lies beyond all that was shown before, and between the old
cursor and the new nothing is left out. A deletion between two pages moves places but
not ids. The refinement needs `Types` and `InOrder`: a message that is sent is not in the
log yet, and the table of channels is the log.

Redis. A deletion writes back a copy of the list that is as old as its LRANGE. So the
invariant is about the copies as well as the lists: each is `Sound`, in the order of every
sender, with nothing as new as the message its sender is about to push (`AllSound`). It is
kept because a client does one operation at a time and takes its id before it pushes.
For the refinement, `EmptyBefore`: a channel in `Kept` that is not a member has an empty
list, since nobody deletes there and a push comes after its SADD (`Busy`). `TrimmedTwice`
is the lemma behind the mapping: cutting to the maximum before a push and after is
cutting after, so that an LTRIM, however late, is no step of the log. `IdsLeft` counts
the sends under way, so that the bound `MaySend` leaves each its id.

Live updates. `Settled` follows every committed change that others made: the store shows
it, it is on its way (`Coming`), or it is in `missed`. `Told` is about lost connections:
while the bus hears nothing, every tab that is not `blind` has no stream or the sentinel in
its queue, and will reload; a stream that is not open is one that will reload, unless the
page never had one. The step that matters is the arrival of a load: which changes it takes
back depends on the loads in flight behind it (`ArrivedLoad`, `ArriveInv`). There is no
hypothesis on the order of answers, on connections or on room in a queue.

OAuth. `Asks` says what a request read before its commit and still relies on: the consent
for its grant, and the row it spends, which may be gone. `Approved` carries a consent from
the decision to the row. `OneRowPerGrant` is a count, kept because a commit
takes a row away or counts a deletion that missed; `MadeOnce` has a grant begin
with nothing. For requests that do not overlap, `Single` says that the row read is there
at the commit, and `OneRowAlone` and `RevokedKept` say the rest without counting.

Authorization server. `Begun`, `Serves` and `Holds` say of each await what the request has
in hand: the login, the pair it spends and has told somebody of, the pair it has stored and
told nobody of. `OwnPairs` keeps two requests from the same stored pair. `ToldOnce` is
the reason for `CodeAnsweredOnce`: while a code, or a device's login, is there to
be answered, no pair of its login is told. `InTurn` has a refresh that overlaps
nothing spend the newest pair. `Cut` is the one step that takes a token from the chain and
puts none in its place; `NewestRefreshes` excepts the pair that was cut, and no other of its chain.

Access. `OnePlace`: a state or challenge is in its table or with one request, and while it
is anywhere it has done nothing; a roll-back puts a state back and not a challenge. `Ends`:
one change of a user's password commits at a time, and from its DELETE on every session of
the user that is not ended is of a login that it overlaps.
`KeysBounded` is not inductive, nor is the same bound with the requests that still
may add a key: a deletion brings users under the limit again. `KeysWithCreators` says
it for every subset of a user's keys, as if the others were deleted already.

Tools. `ContentTyped` says of every table which other rows its rows are on; a row, once
there, keeps its owner, so that nothing on it goes stale (`OwnedGrows`). `Noting` is about
the one tool of two requests: whoever is between them is alone there, and if the first
brought the task, holds every note it has, so what is written back takes none away. Each tool leaves tasks and
fields alone (`Apart`), writes the fields of one task, or is one request of `TaskGraph`
(`ByGraph`); that is the refinement, by which the graphs stay acyclic however they are
used. `NoTwins` rests on the look for a duplicate in the requests that create; other
calls add no row. How often a call is repeated does not matter to either.

Workspace. `Claims` says where an upload or a deletion is between the two stores: one that
has saved its file has a file without a row, and nobody else claims it; one that deletes
has removed the file already. `Owners` and `LocksApart` are what the locks promise: a row
that is not committed belongs to a request that is at the work that adds such rows, and a
lock to one request. They are needed because the end of a request, by a deadlock, a
failure or a restart, ends what it held, and nothing else.

Wiki. The tree is whole when its pages can be ranked: `Ranked(d)` puts every root on level
1 and every other live page one level below its parent, which is live, and there are
`MaxDepth` levels. From a ranking follows what the code's three walks compute: the level a page
is found on, that nothing above a page is below it, and that the depth of a subtree is
the way to its lowest page (`DepthRank`, `NotBelow`, `SubtreeDeep`). A creation extends
the ranking, a deletion restricts it, and a move shifts the subtree, which the two checks of
`_validate_parent` leave room for (`TreeCreate`, `TreeDelete`, `TreeMove`). `Settled` is
about requests that do not overlap: what one has read is still so when it writes.
`Named` is for those that do: a page that is being created has one creator, and no
request makes a page its own parent. `Numbered` keeps numbers within their bound: a number and the updates that
may still raise it are no more than the updates begun.

Recursion. `Wiki` writes its walks as recursive functions on `0..n`. What such a function is
is proved, not assumed: `Least`, `Induct` and `Recursion` in `WorkspaceProofs` derive
least elements, induction over numbers and the existence of such a function from a
theorem of the library, that inclusion is well founded on finite sets. The predicate
in `Induct` is a set, so that no operator is a parameter.

Model-checked only. The liveness properties (`RegistrationsEnd`, `ShownInTheEnd`,
`RequestsEnd`) and whatever needs ENABLED are beyond these provers. Where the code walks
a sequence, a fold is beyond them too, and the model says the result by places (`Without`).

## 6. What is not modelled

Within the modelled components: overlapping requests on the two graphs of tasks;
positions, tags, dates; slugs and subscriptions of the wiki; stores other than the one
of the tasks; what can only refuse a request, such as secrets, signatures, PKCE,
redirect URIs and scopes of API keys; the score of a feed and the summaries of articles;
failures of PostgreSQL or Redis beyond a lost connection or a failed commit; the relay's
HTTP and tool layers; the formatting of answers. The SDK's methods that no tool
calls are left out, too.

Components without a module. Search, the logs for administrators, the relay proxy and
the middleware keep no state. Notifications are never made for anybody who could
read them. The rate limiter is left out because it has no effect on what is modelled:
its record is written on the session of a request that then raises, so the limit is
never reached. The rest of the frontend repeats the pattern of the task store.

## 7. The plan

In order of what is worth most:

1. Task requests at statement level, so that they overlap: which of `TaskGraph`'s
   invariants survive, and which two requests close a cycle.
2. The score of a feed, under ratings that overlap.
3. Slugs of the wiki, live and deleted.

Modules with proofs hold no RECURSIVE operator; a closure is written as a least set or
as a recursive function, as it is in `TaskGraph` and `Wiki`.

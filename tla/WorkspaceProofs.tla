--------------------------- MODULE WorkspaceProofs ---------------------------
(***************************************************************************)
(* Theorems about Workspace and Wiki for any requests, projects, files,    *)
(* articles and pages, and any limits.                                     *)
(***************************************************************************)
EXTENDS Workspace, Wiki, FiniteSetTheorems, TLAPS

-----------------------------------------------------------------------------
(* Workspace.                                                              *)

Filing  == {"lookup", "count", "insert", "write", "commit"}
Reading == {"entry", "add", "fetched"}
OnDisk  == {"saved", "flushed", "removed"}

IsSequence(s) == \E S : s \in Seq(S)

\* What a request is, and what it knows where it is.
Shape(q) ==
    /\ DOMAIN q = {"at", "names", "got", "rows", "locks", "shares", "file"}
    /\ q.at \in {"idle", "found", "new"} \cup Filing \cup Reading \cup OnDisk
    /\ q.rows \cup q.locks \cup q.shares \subseteq Projects
    /\ IsSequence(q.got)
    /\ q.at \in {"lookup", "count", "insert"} =>
         q.names \in Seq(Names) /\ Len(q.got) < Len(q.names)
    /\ q.at \in {"found", "new"} => q.got = <<>> /\ \E u \in Urls : q.names = <<u>>
    /\ IF q.at \in OnDisk THEN q.file \in Files ELSE q.file = None

Requested == /\ DOMAIN job = Requests
             /\ \A r \in Requests : Shape(job[r])

Tables ==
    /\ project \in [Projects ->
          [name : Names, auto : BOOLEAN, by : Requests \cup {None}] \cup {None}]
    /\ article \in [Urls -> [by : Requests \cup {None}] \cup {None}]
    /\ marked \subseteq {u \in Urls : article[u] = Article(None)}
    /\ row \cup file \cup torn \subseteq Files
    /\ begun \in 0..MaxBegun

\* Rows out of a transaction are rows of one that is open, at the work that adds
\* such rows.
Owners ==
    /\ \A p \in There : project[p].by # None => job[project[p].by].at \in Filing
    /\ \A u \in Urls : article[u] # None /\ article[u].by # None =>
                         job[article[u].by].at \in Reading
    /\ \A r \in Requests : job[r].at \in {"found", "new"} =>
                             article[job[r].names[1]] = Article(None)

LocksApart ==
    \A r, s \in Requests : r # s => job[r].locks \cap (job[s].locks \cup job[s].shares) = {}

\* A request that uploads has the only claim on a file without a row; one that
\* deletes has removed the file.
Claims ==
    \A r \in Requests :
      /\ job[r].at \in {"saved", "flushed"} =>
           /\ job[r].file \in file \ row
           /\ \A s \in Requests \ {r} : job[s].file # job[r].file
      /\ job[r].at = "removed" => job[r].file \notin file

WorkspaceInv == Requested /\ Tables /\ Owners /\ LocksApart /\ Claims /\ FilesAgree

-----------------------------------------------------------------------------
LEMMA NoJobShape == Shape(NoJob)
  <1>1. <<>> \in Seq({})
    OBVIOUS
  <1>2. QED
    BY <1>1 DEF Shape, NoJob, IsSequence, Filing, Reading, OnDisk

LEMMA WorkspaceInitInv == WorkspaceInit => WorkspaceInv
  <1> SUFFICES ASSUME WorkspaceInit PROVE WorkspaceInv
    OBVIOUS
  <1> USE DEF WorkspaceInit
  <1>1. \A r \in Requests : job[r] = NoJob
    OBVIOUS
  <1>2. Shape(NoJob)
    BY NoJobShape
  <1>3. Requested
    BY <1>1, <1>2 DEF Requested
  <1>4. Tables
    BY WorkspaceAssumption DEF Tables
  <1>5. There = {} /\ \A u \in Urls : article[u] = None
    BY DEF There
  <1> HIDE DEF WorkspaceInit
  <1>6. Owners /\ LocksApart
    BY <1>1, <1>5 DEF Owners, LocksApart, NoJob
  <1>7. Claims /\ FilesAgree
    BY <1>1 DEF Claims, FilesAgree, NoJob, WorkspaceInit
  <1>8. QED
    BY <1>3, <1>4, <1>6, <1>7 DEF WorkspaceInv

LEMMA AppendAny ==
  ASSUME NEW s, IsSequence(s), NEW x
  PROVE  /\ Len(s) \in Nat /\ Len(Append(s, x)) = Len(s) + 1
         /\ IsSequence(Append(s, x))
  <1>1. PICK S : s \in Seq(S)
    BY DEF IsSequence
  <1>2. s \in Seq(S \cup {x})
    BY <1>1
  <1>3. Append(s, x) \in Seq(S \cup {x})
    BY <1>2
  <1>4. QED
    BY <1>2, <1>3 DEF IsSequence

\* What one request does to the others' rows, locks and files.
LEMMA OneMoves ==
  ASSUME WorkspaceInv, NEW r \in Requests,
         DOMAIN job' = Requests, Shape(job[r])',
         \A s \in Requests \ {r} : job'[s] = job[s],
         Tables', Claims', FilesAgree',
         \A p \in There' : project'[p].by # None =>
            IF project'[p].by = r THEN job'[r].at \in Filing
            ELSE p \in There /\ project[p].by = project'[p].by,
         \A u \in Urls : article'[u] # None /\ article'[u].by # None =>
            IF article'[u].by = r THEN job'[r].at \in Reading
            ELSE article[u] # None /\ article[u].by = article'[u].by,
         \A u \in Urls : article[u] = Article(None) => article'[u] = Article(None),
         job'[r].at \in {"found", "new"} => article'[job'[r].names[1]] = Article(None),
         \A s \in Requests \ {r} :
            /\ job'[r].locks \cap (job[s].locks \cup job[s].shares) = {}
            /\ job[s].locks \cap job'[r].shares = {}
  PROVE  WorkspaceInv'
  <1> USE DEF WorkspaceInv
  <1>1. Requested'
    BY DEF Requested, Shape
  <1>2. LocksApart'
    BY DEF LocksApart
  <1>3. \A s \in Requests : job'[s].at \in {"found", "new"} =>
           article'[job'[s].names[1]] = Article(None)
    <2> SUFFICES ASSUME NEW s \in Requests \ {r}, job[s].at \in {"found", "new"}
                 PROVE  article'[job[s].names[1]] = Article(None)
      OBVIOUS
    <2>1. PICK u \in Urls : job[s].names = <<u>>
      BY DEF Requested, Shape
    <2>2. job[s].names[1] = u
      BY <2>1
    <2>3. QED
      BY <2>2 DEF Owners
  <1>4. Owners'
    BY <1>3 DEF Owners, Tables, There
  <1>5. QED
    BY <1>1, <1>2, <1>4

\* A request that has no file leaves what is said of files.
LEMMA NoFile ==
  ASSUME WorkspaceInv, NEW r \in Requests,
         job[r].at \notin OnDisk, job'[r].at \notin OnDisk,
         job'[r].file = None,
         \A s \in Requests \ {r} : job'[s] = job[s],
         UNCHANGED <<row, file, torn>>
  PROVE  Claims' /\ FilesAgree'
  <1>1. job[r].file = None
    BY DEF WorkspaceInv, Requested, Shape
  <1>2. \A s \in Requests : job[s].at \in OnDisk => job[s].file # None
    BY WorkspaceAssumption DEF WorkspaceInv, Requested, Shape
  <1>3. Claims'
    BY <1>1, <1>2 DEF WorkspaceInv, Claims, OnDisk
  <1>4. \A s \in Requests : job'[s].file = job[s].file
    BY <1>1
  <1>5. FilesAgree'
    BY <1>4 DEF WorkspaceInv, FilesAgree
  <1>6. QED
    BY <1>3, <1>5

\* A request on tasks and projects, from one step to the next: no file, no article.
LEMMA ProjectMoves ==
  ASSUME WorkspaceInv, NEW r \in Requests,
         DOMAIN job' = Requests, Shape(job[r])',
         \A s \in Requests \ {r} : job'[s] = job[s],
         job[r].at \in Filing \cup {"idle"}, job'[r].at \in Filing,
         Tables', UNCHANGED <<row, file, torn, article>>,
         \A p \in There' : project'[p].by # None =>
            project'[p].by = r \/ (p \in There /\ project[p].by = project'[p].by),
         \A s \in Requests \ {r} :
            /\ job'[r].locks \cap (job[s].locks \cup job[s].shares) = {}
            /\ job[s].locks \cap job'[r].shares = {}
  PROVE  WorkspaceInv'
  <1>1. /\ job[r].at \notin OnDisk /\ job'[r].at \notin OnDisk
        /\ job[r].at \notin Reading /\ job'[r].at \notin {"found", "new"}
    BY DEF Filing, OnDisk, Reading
  <1>2. job'[r].file = None
    BY <1>1 DEF Shape
  <1>3. Claims' /\ FilesAgree'
    BY <1>1, <1>2, NoFile
  <1>4. \A u \in Urls : article'[u] # None /\ article'[u].by # None => article'[u].by # r
    BY <1>1 DEF WorkspaceInv, Owners
  <1>5. QED
    BY <1>1, <1>3, <1>4, OneMoves

\* What a request has for rows when it says where it is.
LEMMA ProjectKept ==
  ASSUME WorkspaceInv, NEW r \in Requests,
         DOMAIN job' = Requests, Shape(job[r])',
         \A s \in Requests \ {r} : job'[s] = job[s],
         job[r].at \in Filing \cup {"idle"}, job'[r].at \in Filing,
         UNCHANGED <<project, row, file, torn, article, marked>>, begun' \in 0..MaxBegun,
         \A s \in Requests \ {r} :
            /\ job'[r].locks \cap (job[s].locks \cup job[s].shares) = {}
            /\ job[s].locks \cap job'[r].shares = {}
  PROVE  WorkspaceInv'
  <1>1. Tables'
    BY DEF WorkspaceInv, Tables
  <1>2. There' = There
    BY DEF There
  <1>3. QED
    BY <1>1, <1>2, ProjectMoves

LEMMA FileTasksInv ==
  ASSUME WorkspaceInv, NEW r \in Requests, NEW names, names \in Seq(Names), Len(names) > 0,
         FileTasks(r, names)
  PROVE  WorkspaceInv'
  <1> DEFINE q == [NoJob EXCEPT !.at = "lookup", !.names = names]
  <1>1. /\ job' = [job EXCEPT ![r] = q] /\ job[r].at = "idle"
        /\ UNCHANGED <<project, row, file, torn, article, marked>>
        /\ begun < MaxBegun /\ begun' = begun + 1
    BY DEF FileTasks, BeginJob, Doing, OnlyProjects, news
  <1>2. Shape(q) /\ q.at \in Filing /\ q.locks = {} /\ q.shares = {}
    <2>1. IsSequence(<<>>) /\ Len(<<>>) = 0
      <3>1. <<>> \in Seq({})
        OBVIOUS
      <3>2. QED
        BY <3>1 DEF IsSequence
    <2>2. /\ DOMAIN q = {"at", "names", "got", "rows", "locks", "shares", "file"}
          /\ q.at = "lookup" /\ q.names = names /\ q.got = <<>> /\ q.file = None
          /\ q.rows = {} /\ q.locks = {} /\ q.shares = {}
      BY DEF NoJob
    <2> HIDE DEF q
    <2>3. QED
      BY <2>1, <2>2 DEF Shape, Filing, Reading, OnDisk
  <1> HIDE DEF q
  <1>3. DOMAIN job' = Requests /\ job'[r] = q /\ \A s \in Requests \ {r} : job'[s] = job[s]
    BY <1>1 DEF WorkspaceInv, Requested
  <1>4. Shape(job[r])'
    BY <1>2, <1>3 DEF Shape
  <1>5. begun' \in 0..MaxBegun
    BY <1>1, WorkspaceAssumption DEF WorkspaceInv, Tables
  <1>6. QED
    BY <1>1, <1>2, <1>3, <1>4, <1>5, ProjectKept

\* The category of one item has found its project: the next item's, or the tasks.
LEMMA ResolvedShape ==
  ASSUME WorkspaceInv, NEW r \in Requests, job[r].at \in {"lookup", "insert"},
         NEW p, job' = Resolved(r, p)
  PROVE  /\ DOMAIN job' = Requests /\ Shape(job[r])'
         /\ \A s \in Requests \ {r} : job'[s] = job[s]
         /\ job'[r].at \in Filing
         /\ job'[r].locks = job[r].locks /\ job'[r].shares = job[r].shares
  <1> DEFINE got == Append(job[r].got, p)
             at == IF Len(got) = Len(job[r].names) THEN "write" ELSE "lookup"
  <1>1. DOMAIN job = Requests /\ Shape(job[r])
    BY DEF WorkspaceInv, Requested
  <1>2. /\ job[r].names \in Seq(Names) /\ Len(job[r].got) < Len(job[r].names)
        /\ job[r].file = None /\ IsSequence(job[r].got)
        /\ DOMAIN job[r] = {"at", "names", "got", "rows", "locks", "shares", "file"}
    BY <1>1 DEF Shape, OnDisk
  <1>3. /\ IsSequence(got) /\ Len(got) = Len(job[r].got) + 1 /\ Len(job[r].got) \in Nat
    BY <1>2, AppendAny
  <1>4. Len(job[r].names) \in Nat
    BY <1>2
  <1>5. at = "lookup" => Len(got) < Len(job[r].names)
    BY <1>2, <1>3, <1>4
  <1>6. at \in {"write", "lookup"}
    OBVIOUS
  <1>7. job' = [job EXCEPT ![r].got = got, ![r].rows = {}, ![r].at = at]
    BY DEF Resolved
  <1> HIDE DEF got, at
  <1>8. DOMAIN job' = Requests /\ \A s \in Requests \ {r} : job'[s] = job[s]
    BY <1>1, <1>7
  <1>9. /\ DOMAIN job'[r] = {"at", "names", "got", "rows", "locks", "shares", "file"}
        /\ job'[r].at = at /\ job'[r].got = got /\ job'[r].rows = {}
        /\ job'[r].names = job[r].names /\ job'[r].file = None
        /\ job'[r].locks = job[r].locks /\ job'[r].shares = job[r].shares
    BY <1>1, <1>2, <1>7
  <1>10. Shape(job[r])'
    BY <1>1, <1>2, <1>3, <1>5, <1>6, <1>9 DEF Shape, Filing, OnDisk
  <1>11. QED
    BY <1>6, <1>8, <1>9, <1>10 DEF Filing

\* The steps of a filing that look at projects and lock them.
LEMMA LookingInv ==
  ASSUME WorkspaceInv, NEW r \in Requests, Lookup(r) \/ LockRow(r) \/ UnderMax(r)
  PROVE  WorkspaceInv'
  <1>1. DOMAIN job = Requests /\ Shape(job[r])
    BY DEF WorkspaceInv, Requested
  <1>2. UNCHANGED <<project, row, file, torn, article, marked, begun>>
    BY DEF Lookup, LockRow, UnderMax, OnlyProjects, news
  <1>3. begun' \in 0..MaxBegun
    BY <1>2 DEF WorkspaceInv, Tables
  <1>4. job[r].at \in {"lookup", "count"}
    BY DEF Lookup, LockRow, UnderMax, RowsLocked, Doing
  <1>5. /\ DOMAIN job[r] = {"at", "names", "got", "rows", "locks", "shares", "file"}
        /\ job[r].names \in Seq(Names) /\ Len(job[r].got) < Len(job[r].names)
        /\ IsSequence(job[r].got) /\ job[r].file = None
        /\ job[r].rows \cup job[r].locks \cup job[r].shares \subseteq Projects
    BY <1>1, <1>4 DEF Shape, OnDisk
  <1>6. ASSUME NEW p, job[r].at = "lookup", job' = Resolved(r, p)
        PROVE  WorkspaceInv'
    <2>1. \A s \in Requests \ {r} :
            /\ job[r].locks \cap (job[s].locks \cup job[s].shares) = {}
            /\ job[s].locks \cap job[r].shares = {}
      BY DEF WorkspaceInv, LocksApart
    <2>2. job[r].at \in Filing
      BY <1>4 DEF Filing
    <2>3. QED
      BY <1>2, <1>3, <1>6, <2>1, <2>2, ResolvedShape, ProjectKept
  <1>7. ASSUME NEW at \in {"count", "insert"}, NEW rows \in SUBSET Projects,
               NEW locks \in SUBSET Projects,
               job' = [job EXCEPT ![r].at = at, ![r].rows = rows, ![r].locks = locks],
               \A p \in locks : p \in job[r].locks \/ ~Held(p, r)
        PROVE  WorkspaceInv'
    <2>1. DOMAIN job' = Requests /\ \A s \in Requests \ {r} : job'[s] = job[s]
      BY <1>1, <1>7
    <2>2. /\ DOMAIN job'[r] = {"at", "names", "got", "rows", "locks", "shares", "file"}
          /\ job'[r].at = at /\ job'[r].got = job[r].got /\ job'[r].rows = rows
          /\ job'[r].names = job[r].names /\ job'[r].file = None
          /\ job'[r].locks = locks /\ job'[r].shares = job[r].shares
      BY <1>1, <1>5, <1>7
    <2>3. Shape(job[r])'
      BY <1>5, <2>2 DEF Shape, Filing, OnDisk
    <2>4. \A s \in Requests \ {r} :
            /\ locks \cap (job[s].locks \cup job[s].shares) = {}
            /\ job[s].locks \cap job[r].shares = {}
      BY <1>7 DEF WorkspaceInv, LocksApart, Held
    <2>5. job[r].at \in Filing /\ job'[r].at \in Filing
      BY <1>4, <2>2 DEF Filing
    <2>6. QED
      BY <1>2, <1>3, <2>1, <2>2, <2>3, <2>4, <2>5, ProjectKept
  <1>8. Visible(r) \in SUBSET Projects
    BY DEF Visible, There
  <1>9. CASE Lookup(r)
    <2>1. CASE \E p \in Called(Category(r)) \cap Visible(r) : job' = Resolved(r, p)
      BY <1>6, <1>9, <2>1 DEF Lookup, Doing
    <2>2. CASE job' = [job EXCEPT ![r].at = "count", ![r].rows = Visible(r)]
      <3>1. job' = [job EXCEPT ![r].at = "count", ![r].rows = Visible(r),
                               ![r].locks = job[r].locks]
        BY <1>1, <1>5, <2>2
      <3>2. QED
        BY <1>5, <1>7, <1>8, <3>1
    <2>3. QED
      BY <1>9, <2>1, <2>2 DEF Lookup
  <1>10. CASE LockRow(r)
    <2>1. PICK p \in job[r].rows \ job[r].locks :
            \/ job' = [job EXCEPT ![r].rows = @ \ {p}]
            \/ ~Held(p, r) /\ job' = [job EXCEPT ![r].locks = @ \cup {p}]
      BY <1>10 DEF LockRow
    <2>2. job[r].at = "count"
      BY <1>10 DEF LockRow, Doing
    <2>3. CASE job' = [job EXCEPT ![r].rows = @ \ {p}]
      <3>1. job' = [job EXCEPT ![r].at = "count", ![r].rows = job[r].rows \ {p},
                               ![r].locks = job[r].locks]
        BY <1>1, <1>5, <2>2, <2>3
      <3>2. job[r].rows \ {p} \in SUBSET Projects
        BY <1>5
      <3>3. QED
        BY <1>5, <1>7, <3>1, <3>2
    <2>4. CASE ~Held(p, r) /\ job' = [job EXCEPT ![r].locks = @ \cup {p}]
      <3>1. job' = [job EXCEPT ![r].at = "count", ![r].rows = job[r].rows,
                               ![r].locks = job[r].locks \cup {p}]
        BY <1>1, <1>5, <2>2, <2>4
      <3>2. job[r].locks \cup {p} \in SUBSET Projects
        BY <1>5, <2>1
      <3>3. \A x \in job[r].locks \cup {p} : x \in job[r].locks \/ ~Held(x, r)
        BY <2>4
      <3>4. QED
        BY <1>5, <1>7, <3>1, <3>2, <3>3
    <2>5. QED
      BY <2>1, <2>3, <2>4
  <1>11. CASE UnderMax(r)
    <2>1. job' = [job EXCEPT ![r].at = "insert", ![r].rows = job[r].rows,
                             ![r].locks = job[r].locks]
      BY <1>1, <1>5, <1>11 DEF UnderMax
    <2>2. QED
      BY <1>5, <1>7, <2>1
  <1>12. QED
    BY <1>9, <1>10, <1>11

\* The rows of the table without those of one transaction.
LEMMA RollbackInv ==
  ASSUME WorkspaceInv, NEW r \in Requests, job[r].at \notin OnDisk, Rollback(r)
  PROVE  WorkspaceInv'
  <1>1. DOMAIN job = Requests
    BY DEF WorkspaceInv, Requested
  <1>2. /\ project' = Without(project, {r}) /\ article' = Without(article, {r})
        /\ job' = [job EXCEPT ![r] = NoJob]
        /\ UNCHANGED <<row, file, torn, marked, begun>>
    BY DEF Rollback, Closed
  <1>3. /\ DOMAIN job' = Requests /\ job'[r] = NoJob
        /\ \A s \in Requests \ {r} : job'[s] = job[s]
    BY <1>1, <1>2
  <1>4. /\ NoJob.at = "idle" /\ NoJob.locks = {} /\ NoJob.shares = {}
        /\ NoJob.file = None /\ Shape(NoJob)
    BY NoJobShape DEF NoJob
  <1>5. Shape(job[r])'
    BY <1>3, <1>4 DEF Shape
  <1>6. \A p \in Projects :
          project'[p] = IF project[p] # None /\ project[p].by = r THEN None ELSE project[p]
    BY <1>2 DEF Without, WorkspaceInv, Tables
  <1>7. \A u \in Urls :
          article'[u] = IF article[u] # None /\ article[u].by = r THEN None ELSE article[u]
    BY <1>2 DEF Without, WorkspaceInv, Tables
  <1>8. \A u \in Urls : article[u] = Article(None) => article'[u] = Article(None)
    BY <1>7, WorkspaceAssumption DEF Article
  <1>9. Tables'
    <2>1. /\ project' \in [Projects ->
                [name : Names, auto : BOOLEAN, by : Requests \cup {None}] \cup {None}]
          /\ article' \in [Urls -> [by : Requests \cup {None}] \cup {None}]
      BY <1>2, <1>6, <1>7 DEF Without, WorkspaceInv, Tables
    <2>2. QED
      BY <1>2, <1>8, <2>1 DEF WorkspaceInv, Tables
  <1>10. Claims' /\ FilesAgree'
    BY <1>2, <1>3, <1>4, NoFile DEF OnDisk
  <1>11. \A p \in There' : project'[p].by # r /\ p \in There /\ project'[p] = project[p]
    BY <1>6 DEF There
  <1>12. \A u \in Urls : article'[u] # None => article'[u].by # r /\ article'[u] = article[u]
    BY <1>7
  <1>13. QED
    BY <1>3, <1>4, <1>5, <1>8, <1>9, <1>10, <1>11, <1>12, OneMoves DEF Filing, Reading

\* A request with no rows of its own, and no file, is over.
LEMMA ClosedInv ==
  ASSUME WorkspaceInv, NEW r \in Requests, job' = Closed(r), Tables', Claims', FilesAgree',
         \A p \in There' : project'[p].by # r /\ p \in There /\ project'[p] = project[p],
         \A u \in Urls : article'[u] # None =>
            article'[u].by # r /\ article[u] # None /\ article'[u].by \in {article[u].by, None},
         \A u \in Urls : article[u] = Article(None) => article'[u] = Article(None)
  PROVE  WorkspaceInv'
  <1>1. DOMAIN job = Requests
    BY DEF WorkspaceInv, Requested
  <1>2. /\ DOMAIN job' = Requests /\ job'[r] = NoJob
        /\ \A s \in Requests \ {r} : job'[s] = job[s]
    BY <1>1 DEF Closed
  <1>3. /\ NoJob.at = "idle" /\ NoJob.locks = {} /\ NoJob.shares = {} /\ Shape(NoJob)
    BY NoJobShape DEF NoJob
  <1>4. Shape(job[r])'
    BY <1>2, <1>3 DEF Shape
  <1>5. QED
    BY <1>2, <1>3, <1>4, OneMoves

\* A project that a transaction has inserted; Fresh may be any id, or none.
LEMMA ProjectAdded ==
  ASSUME WorkspaceInv, NEW r \in Requests, NEW name \in Names, NEW auto \in BOOLEAN,
         project' = [project EXCEPT ![Fresh] = Project(name, auto, r)]
  PROVE  /\ project' \in [Projects ->
               [name : Names, auto : BOOLEAN, by : Requests \cup {None}] \cup {None}]
         /\ \A p \in There' : project'[p].by # None =>
               project'[p].by = r \/ (p \in There /\ project[p].by = project'[p].by)
  <1>1. Project(name, auto, r) \in [name : Names, auto : BOOLEAN, by : Requests \cup {None}]
        /\ Project(name, auto, r).by = r
    BY DEF Project
  <1>2. project \in [Projects ->
               [name : Names, auto : BOOLEAN, by : Requests \cup {None}] \cup {None}]
    BY DEF WorkspaceInv, Tables
  <1>3. \A p \in Projects : project'[p] = IF p = Fresh THEN Project(name, auto, r)
                                          ELSE project[p]
    BY <1>2
  <1>4. QED
    BY <1>1, <1>2, <1>3 DEF There

LEMMA InsertProjectInv ==
  ASSUME WorkspaceInv, NEW r \in Requests, InsertProject(r)
  PROVE  WorkspaceInv'
  <1>1. /\ job[r].at = "insert" /\ job' = Resolved(r, Fresh)
        /\ project' = [project EXCEPT ![Fresh] = Project(Category(r), TRUE, r)]
        /\ UNCHANGED <<row, file, torn, article, marked, begun>>
    BY DEF InsertProject, Doing, OnlyProjects, news
  <1>2. Category(r) \in Names
    <2>1. job[r].names \in Seq(Names) /\ Len(job[r].got) < Len(job[r].names)
      BY <1>1 DEF WorkspaceInv, Requested, Shape
    <2>2. Len(job[r].got) \in Nat
      <3>1. IsSequence(job[r].got)
        BY DEF WorkspaceInv, Requested, Shape
      <3>2. QED
        BY <3>1, AppendAny
    <2>3. Len(job[r].got) + 1 \in 1..Len(job[r].names)
      BY <2>1, <2>2
    <2>4. QED
      BY <2>1, <2>3 DEF Category
  <1>3. PICK name \in Names : name = Category(r)
    BY <1>2
  <1>4. /\ project' \in [Projects ->
               [name : Names, auto : BOOLEAN, by : Requests \cup {None}] \cup {None}]
        /\ \A p \in There' : project'[p].by # None =>
               project'[p].by = r \/ (p \in There /\ project[p].by = project'[p].by)
    BY <1>1, <1>3, ProjectAdded
  <1>5. Tables'
    BY <1>1, <1>4 DEF WorkspaceInv, Tables
  <1>6. \A s \in Requests \ {r} :
            /\ job[r].locks \cap (job[s].locks \cup job[s].shares) = {}
            /\ job[s].locks \cap job[r].shares = {}
    BY DEF WorkspaceInv, LocksApart
  <1>7. job[r].at \in Filing
    BY <1>1 DEF Filing
  <1>8. QED
    BY <1>1, <1>4, <1>5, <1>6, <1>7, ResolvedShape, ProjectMoves

\* The tasks share the projects that they are in.
LEMMA WriteTasksInv ==
  ASSUME WorkspaceInv, NEW r \in Requests, WriteTasks(r)
  PROVE  WorkspaceInv'
  <1>1. /\ job[r].at = "write" /\ InProjects(r) \subseteq Projects
        /\ \A p \in InProjects(r), s \in Requests \ {r} : p \notin job[s].locks
        /\ job' = [job EXCEPT ![r].at = "commit", ![r].shares = InProjects(r)]
        /\ UNCHANGED <<project, row, file, torn, article, marked, begun>>
    BY DEF WriteTasks, Doing, OnlyProjects, news, There
  <1>2. DOMAIN job = Requests /\ Shape(job[r])
    BY DEF WorkspaceInv, Requested
  <1>3. DOMAIN job' = Requests /\ \A s \in Requests \ {r} : job'[s] = job[s]
    BY <1>1, <1>2
  <1>4. DOMAIN job[r] = {"at", "names", "got", "rows", "locks", "shares", "file"}
    BY <1>2 DEF Shape
  <1>5. /\ DOMAIN job'[r] = {"at", "names", "got", "rows", "locks", "shares", "file"}
        /\ job'[r].at = "commit" /\ job'[r].got = job[r].got /\ job'[r].rows = job[r].rows
        /\ job'[r].file = job[r].file
        /\ job'[r].locks = job[r].locks /\ job'[r].shares = InProjects(r)
    BY <1>1, <1>2, <1>4
  <1>6. Shape(job[r])'
    BY <1>1, <1>2, <1>5 DEF Shape, Filing, OnDisk
  <1>7. \A s \in Requests \ {r} :
            /\ job[r].locks \cap (job[s].locks \cup job[s].shares) = {}
            /\ job[s].locks \cap InProjects(r) = {}
    BY <1>1 DEF WorkspaceInv, LocksApart
  <1>8. job[r].at \in Filing /\ job'[r].at \in Filing
    BY <1>1, <1>5 DEF Filing
  <1>9. begun' \in 0..MaxBegun
    BY <1>1 DEF WorkspaceInv, Tables
  <1>10. QED
    BY <1>1, <1>3, <1>5, <1>6, <1>7, <1>8, <1>9, ProjectKept

LEMMA CommitProjectsInv ==
  ASSUME WorkspaceInv, NEW r \in Requests, CommitProjects(r)
  PROVE  WorkspaceInv'
  <1>1. /\ job[r].at = "commit" /\ job' = Closed(r)
        /\ UNCHANGED <<row, file, torn, article, marked, begun>>
    BY DEF CommitProjects, Doing, OnlyProjects, news
  <1>2. DOMAIN job = Requests
    BY DEF WorkspaceInv, Requested
  <1>3. /\ DOMAIN job' = Requests /\ job'[r] = NoJob
        /\ \A s \in Requests \ {r} : job'[s] = job[s]
    BY <1>1, <1>2 DEF Closed
  <1>4. /\ NoJob.at = "idle" /\ NoJob.locks = {} /\ NoJob.shares = {}
        /\ NoJob.file = None /\ Shape(NoJob)
    BY NoJobShape DEF NoJob
  <1>5. Shape(job[r])'
    BY <1>3, <1>4 DEF Shape
  <1>6. \A p \in Projects : project'[p] =
          IF p \in There /\ project[p].by = r
          THEN Project(project[p].name, project[p].auto, None) ELSE project[p]
    BY DEF CommitProjects
  <1>7. \A p \in There : Project(project[p].name, project[p].auto, None)
                            \in [name : Names, auto : BOOLEAN, by : Requests \cup {None}]
    BY DEF There, WorkspaceInv, Tables, Project
  <1>8. project' \in [Projects ->
               [name : Names, auto : BOOLEAN, by : Requests \cup {None}] \cup {None}]
    <2>1. \A p \in Projects : project'[p] \in
             [name : Names, auto : BOOLEAN, by : Requests \cup {None}] \cup {None}
      BY <1>6, <1>7 DEF WorkspaceInv, Tables
    <2>2. QED
      BY <2>1 DEF CommitProjects
  <1>9. Tables'
    BY <1>1, <1>8 DEF WorkspaceInv, Tables
  <1>10. Claims' /\ FilesAgree'
    BY <1>1, <1>3, <1>4, NoFile DEF OnDisk
  <1>11. \A p \in There' : project'[p].by # None =>
            project'[p].by # r /\ p \in There /\ project'[p] = project[p]
    <2>1. \A p \in Projects : Project(project[p].name, project[p].auto, None).by = None
      BY DEF Project
    <2>2. \A p \in There' : p \in Projects /\ project'[p] # None
      BY DEF There
    <2>3. \A p \in Projects : p \in There <=> project[p] # None
      BY DEF There
    <2>4. QED
      BY <1>6, <2>1, <2>2, <2>3
  <1>12. \A u \in Urls : article[u] # None => article[u].by # r
    BY <1>1, WorkspaceAssumption DEF WorkspaceInv, Owners, Reading
  <1>13. QED
    BY <1>1, <1>3, <1>4, <1>5, <1>9, <1>10, <1>11, <1>12, OneMoves

LEMMA CreateProjectInv ==
  ASSUME WorkspaceInv, NEW r \in Requests, NEW name \in Names, CreateProject(r, name)
  PROVE  WorkspaceInv'
  <1> DEFINE q == [NoJob EXCEPT !.at = "commit", !.names = <<name>>]
  <1>1. /\ job' = [job EXCEPT ![r] = q] /\ job[r].at = "idle"
        /\ project' = [project EXCEPT ![Fresh] = Project(name, FALSE, r)]
        /\ UNCHANGED <<row, file, torn, article, marked>>
        /\ begun < MaxBegun /\ begun' = begun + 1
    BY DEF CreateProject, BeginJob, Doing, OnlyProjects, news
  <1>2. /\ DOMAIN q = DOMAIN NoJob /\ q.at = "commit" /\ q.got = NoJob.got
        /\ q.rows = NoJob.rows /\ q.locks = {} /\ q.shares = {} /\ q.file = None
    BY DEF NoJob
  <1>3. Shape(q) /\ q.at \in Filing
    BY <1>2, NoJobShape DEF Shape, Filing, OnDisk, NoJob
  <1> HIDE DEF q
  <1>4. DOMAIN job' = Requests /\ job'[r] = q /\ \A s \in Requests \ {r} : job'[s] = job[s]
    BY <1>1 DEF WorkspaceInv, Requested
  <1>5. Shape(job[r])'
    BY <1>3, <1>4 DEF Shape
  <1>6. /\ project' \in [Projects ->
               [name : Names, auto : BOOLEAN, by : Requests \cup {None}] \cup {None}]
        /\ \A p \in There' : project'[p].by # None =>
               project'[p].by = r \/ (p \in There /\ project[p].by = project'[p].by)
    BY <1>1, ProjectAdded
  <1>7. begun' \in 0..MaxBegun
    BY <1>1, WorkspaceAssumption DEF WorkspaceInv, Tables
  <1>8. Tables'
    BY <1>1, <1>6, <1>7 DEF WorkspaceInv, Tables
  <1>9. /\ job'[r].at \in Filing /\ job'[r].locks = {} /\ job'[r].shares = {}
        /\ job[r].at \in Filing \cup {"idle"}
    BY <1>1, <1>2, <1>3, <1>4
  <1>10. UNCHANGED <<row, file, torn, article>>
    BY <1>1
  <1>11. QED
    BY <1>4, <1>5, <1>6, <1>8, <1>9, <1>10, ProjectMoves

\* The requests of one statement: a project renamed or deleted.
LEMMA UpdateDeleteInv ==
  ASSUME WorkspaceInv, NEW r \in Requests, NEW p \in Projects,
         (\E name \in Names : UpdateProject(r, p, name)) \/ DeleteProject(r, p)
  PROVE  WorkspaceInv'
  <1>1. /\ p \in There /\ project[p].by = None
        /\ UNCHANGED <<row, file, torn, article, marked, job>>
        /\ begun < MaxBegun /\ begun' = begun + 1
    BY DEF UpdateProject, DeleteProject, Changeable, Committed, BeginJob, OnlyProjects, news
  <1>2. project[p] \in [name : Names, auto : BOOLEAN, by : Requests \cup {None}]
    BY <1>1 DEF There, WorkspaceInv, Tables
  <1>3. PICK x : /\ x \in [name : Names, auto : BOOLEAN, by : Requests \cup {None}] \cup {None}
                 /\ project' = [project EXCEPT ![p] = x]
                 /\ x # None => x.by = None
    <2>1. CASE DeleteProject(r, p)
      BY <2>1 DEF DeleteProject
    <2>2. ASSUME NEW name \in Names, UpdateProject(r, p, name)
          PROVE  \E x : /\ x \in [name : Names, auto : BOOLEAN, by : Requests \cup {None}]
                                   \cup {None}
                        /\ project' = [project EXCEPT ![p] = x]
                        /\ x # None => x.by = None
      <3> DEFINE x == [project[p] EXCEPT !.name = name]
      <3>1. project' = [project EXCEPT ![p] = x]
        BY <2>2 DEF UpdateProject
      <3>2. x \in [name : Names, auto : BOOLEAN, by : Requests \cup {None}] /\ x.by = None
        BY <1>1, <1>2
      <3> HIDE DEF x
      <3>3. QED
        BY <3>1, <3>2
    <2>3. QED
      BY <2>1, <2>2
  <1>4. /\ project' \in [Projects ->
               [name : Names, auto : BOOLEAN, by : Requests \cup {None}] \cup {None}]
        /\ \A y \in Projects : project'[y] = IF y = p THEN x ELSE project[y]
    BY <1>3 DEF WorkspaceInv, Tables
  <1>5. begun' \in 0..MaxBegun
    BY <1>1, WorkspaceAssumption DEF WorkspaceInv, Tables
  <1>6. Tables'
    BY <1>1, <1>4, <1>5 DEF WorkspaceInv, Tables
  <1>7. \A y \in There' : project'[y].by # None => y \in There /\ project'[y] = project[y]
    BY <1>3, <1>4 DEF There
  <1>8. Owners'
    BY <1>1, <1>7 DEF WorkspaceInv, Owners
  <1>9. Requested' /\ LocksApart' /\ Claims' /\ FilesAgree'
    BY <1>1 DEF WorkspaceInv, Requested, Shape, LocksApart, Claims, FilesAgree
  <1>10. QED
    BY <1>6, <1>8, <1>9 DEF WorkspaceInv

-----------------------------------------------------------------------------
(* The news.                                                               *)

\* A request for news, from one step to the next: no project and no file.
LEMMA NewsMoves ==
  ASSUME WorkspaceInv, NEW r \in Requests,
         DOMAIN job' = Requests, Shape(job[r])',
         \A s \in Requests \ {r} : job'[s] = job[s],
         job[r].at \in Reading \cup {"idle"}, job'[r].at \in Reading \cup {"found", "new"},
         Tables', UNCHANGED <<project, row, file, torn>>,
         \A u \in Urls : article'[u] # None /\ article'[u].by # None =>
            \/ article'[u].by = r /\ job'[r].at \in Reading
            \/ article[u] # None /\ article[u].by = article'[u].by /\ article[u].by # r,
         \A u \in Urls : article[u] = Article(None) => article'[u] = Article(None),
         job'[r].at \in {"found", "new"} => article'[job'[r].names[1]] = Article(None),
         job'[r].locks \subseteq job[r].locks, job'[r].shares \subseteq job[r].shares
  PROVE  WorkspaceInv'
  <1>1. /\ job[r].at \notin OnDisk /\ job'[r].at \notin OnDisk
        /\ job[r].at \notin Filing
    BY DEF Filing, OnDisk, Reading
  <1>2. job'[r].file = None
    BY <1>1 DEF Shape
  <1>3. Claims' /\ FilesAgree'
    BY <1>1, <1>2, NoFile
  <1>4. There' = There
    BY DEF There
  <1>5. \A p \in There : project[p].by # None => project[p].by # r
    BY <1>1 DEF WorkspaceInv, Owners
  <1>6. \A s \in Requests \ {r} :
            /\ job'[r].locks \cap (job[s].locks \cup job[s].shares) = {}
            /\ job[s].locks \cap job'[r].shares = {}
    BY DEF WorkspaceInv, LocksApart
  <1>7. \A u \in Urls : article'[u] # None /\ article'[u].by # None =>
            IF article'[u].by = r THEN job'[r].at \in Reading
            ELSE article[u] # None /\ article[u].by = article'[u].by
    OBVIOUS
  <1>8. \A p \in There' : project'[p].by # None =>
            IF project'[p].by = r THEN job'[r].at \in Filing
            ELSE p \in There /\ project[p].by = project'[p].by
    BY <1>4, <1>5
  <1>9. QED
    BY <1>3, <1>6, <1>7, <1>8, OneMoves

\* The requests that begin with the URLs of articles.
LEMMA NewsBegins ==
  ASSUME WorkspaceInv, NEW r \in Requests, NEW at \in {"entry", "found", "new"}, NEW urls,
         BeginJob(r), job' = [job EXCEPT ![r] = [NoJob EXCEPT !.names = urls, !.at = at]],
         UNCHANGED <<project, row, file, torn, article, marked>>,
         at # "entry" => \E u \in Urls : urls = <<u>> /\ article[u] = Article(None)
  PROVE  WorkspaceInv'
  <1> DEFINE q == [NoJob EXCEPT !.names = urls, !.at = at]
  <1>1. job' = [job EXCEPT ![r] = q]
    OBVIOUS
  <1>2. /\ DOMAIN q = DOMAIN NoJob /\ q.at = at /\ q.got = <<>> /\ q.names = urls
        /\ q.rows = {} /\ q.locks = {} /\ q.shares = {} /\ q.file = None
        /\ NoJob.got = <<>>
    BY DEF NoJob
  <1>3. Shape(q)
    BY <1>2, NoJobShape DEF Shape, Filing, Reading, OnDisk
  <1> HIDE DEF q
  <1>4. DOMAIN job' = Requests /\ job'[r] = q /\ \A s \in Requests \ {r} : job'[s] = job[s]
    BY <1>1 DEF WorkspaceInv, Requested
  <1>5. Shape(job[r])'
    BY <1>3, <1>4 DEF Shape
  <1>6. job[r].at = "idle" /\ begun < MaxBegun /\ begun' = begun + 1
    BY DEF BeginJob, Doing
  <1>7. begun' \in 0..MaxBegun
    BY <1>6, WorkspaceAssumption DEF WorkspaceInv, Tables
  <1>8. Tables'
    BY <1>7 DEF WorkspaceInv, Tables
  <1>9. \A u \in Urls : article[u] # None /\ article[u].by # None => article[u].by # r
    BY <1>6 DEF WorkspaceInv, Owners, Reading
  <1>10. at # "entry" => article[urls[1]] = Article(None)
    <2> SUFFICES ASSUME at # "entry" PROVE article[urls[1]] = Article(None)
      OBVIOUS
    <2>1. PICK u \in Urls : urls = <<u>> /\ article[u] = Article(None)
      OBVIOUS
    <2>2. urls[1] = u
      BY <2>1
    <2>3. QED
      BY <2>1, <2>2
  <1>11. /\ job'[r].locks = {} /\ job'[r].shares = {} /\ job'[r].at = at
         /\ job'[r].names = urls
    BY <1>2, <1>4
  <1>12. /\ job'[r].at \in Reading \cup {"found", "new"} /\ job[r].at \in Reading \cup {"idle"}
         /\ job'[r].at \in {"found", "new"} => at # "entry"
    BY <1>6, <1>11 DEF Reading
  <1>13. QED
    BY <1>4, <1>5, <1>8, <1>9, <1>10, <1>11, <1>12, NewsMoves

LEMMA FetchFeedsInv ==
  ASSUME WorkspaceInv, NEW r \in Requests, NEW urls, FetchFeeds(r, urls)
  PROVE  WorkspaceInv'
  <1>1. /\ BeginJob(r) /\ UNCHANGED <<project, row, file, torn, article, marked>>
        /\ job' = [job EXCEPT ![r] = [NoJob EXCEPT !.at = "entry", !.names = urls]]
    BY DEF FetchFeeds, OnlyNews, news
  <1>2. [NoJob EXCEPT !.at = "entry", !.names = urls] =
        [NoJob EXCEPT !.names = urls, !.at = "entry"]
    BY DEF NoJob
  <1>3. QED
    BY <1>1, <1>2, NewsBegins

LEMMA InteractInv ==
  ASSUME WorkspaceInv, NEW r \in Requests, NEW u \in Urls, Interact(r, u)
  PROVE  WorkspaceInv'
  <1>1. PICK at \in {"found", "new"} :
           job' = [job EXCEPT ![r] = [NoJob EXCEPT !.names = <<u>>, !.at = at]]
    BY DEF Interact
  <1>2. /\ BeginJob(r) /\ UNCHANGED <<project, row, file, torn, article, marked>>
        /\ article[u] = Article(None)
    BY DEF Interact, OnlyNews, news
  <1>3. QED
    BY <1>1, <1>2, NewsBegins

\* Done and the way to add are steps of a fetch that keep everything but where it is.
LEMMA DoneShape ==
  ASSUME WorkspaceInv, NEW r \in Requests, job[r].at \in {"entry", "add"},
         Done(r) \/ job' = [job EXCEPT ![r].at = "add"]
  PROVE  /\ DOMAIN job' = Requests /\ Shape(job[r])'
         /\ \A s \in Requests \ {r} : job'[s] = job[s]
         /\ job'[r].at \in Reading
         /\ job'[r].locks = job[r].locks /\ job'[r].shares = job[r].shares
  <1> DEFINE longer == Append(job[r].got, Entry(r))
  <1>1. DOMAIN job = Requests /\ Shape(job[r])
    BY DEF WorkspaceInv, Requested
  <1>2. /\ IsSequence(job[r].got) /\ job[r].file = None
        /\ DOMAIN job[r] = {"at", "names", "got", "rows", "locks", "shares", "file"}
    BY <1>1 DEF Shape, OnDisk
  <1>3. IsSequence(longer)
    BY <1>2, AppendAny
  <1>4. \/ job' = [job EXCEPT ![r].got = longer, ![r].at = "fetched"]
        \/ job' = [job EXCEPT ![r].got = longer, ![r].at = "entry"]
        \/ job' = [job EXCEPT ![r].at = "add"]
    BY DEF Done
  <1> HIDE DEF longer
  <1>5. DOMAIN job' = Requests /\ \A s \in Requests \ {r} : job'[s] = job[s]
    BY <1>1, <1>4
  <1>6. /\ DOMAIN job'[r] = {"at", "names", "got", "rows", "locks", "shares", "file"}
        /\ job'[r].at \in {"fetched", "entry", "add"}
        /\ job'[r].got \in {longer, job[r].got} /\ job'[r].rows = job[r].rows
        /\ job'[r].names = job[r].names /\ job'[r].file = None
        /\ job'[r].locks = job[r].locks /\ job'[r].shares = job[r].shares
    BY <1>1, <1>2, <1>4
  <1>7. Shape(job[r])'
    BY <1>1, <1>2, <1>3, <1>6 DEF Shape, Filing, Reading, OnDisk
  <1>8. QED
    BY <1>5, <1>6, <1>7 DEF Reading

LEMMA ReadEntryInv ==
  ASSUME WorkspaceInv, NEW r \in Requests, ReadEntry(r)
  PROVE  WorkspaceInv'
  <1>1. /\ job[r].at = "entry" /\ UNCHANGED <<project, row, file, torn, article, marked, begun>>
        /\ Done(r) \/ job' = [job EXCEPT ![r].at = "add"]
    BY DEF ReadEntry, Doing, OnlyNews, news
  <1>2. /\ DOMAIN job' = Requests /\ Shape(job[r])'
        /\ \A s \in Requests \ {r} : job'[s] = job[s]
        /\ job'[r].at \in Reading
        /\ job'[r].locks = job[r].locks /\ job'[r].shares = job[r].shares
    BY <1>1, DoneShape
  <1>3. Tables'
    BY <1>1 DEF WorkspaceInv, Tables
  <1>4. job[r].at \in Reading /\ job'[r].at \notin {"found", "new"}
    BY <1>1, <1>2 DEF Reading
  <1>5. QED
    BY <1>1, <1>2, <1>3, <1>4, NewsMoves

LEMMA AddArticleInv ==
  ASSUME WorkspaceInv, NEW r \in Requests, AddArticle(r)
  PROVE  WorkspaceInv'
  <1>1. /\ job[r].at = "add" /\ UNCHANGED <<project, row, file, torn, marked, begun>>
        /\ Done(r) /\ article[Entry(r)] = None
        /\ article' = [article EXCEPT ![Entry(r)] = Article(r)]
    BY DEF AddArticle, Doing, OnlyNews
  <1>2. /\ DOMAIN job' = Requests /\ Shape(job[r])'
        /\ \A s \in Requests \ {r} : job'[s] = job[s]
        /\ job'[r].at \in Reading
        /\ job'[r].locks = job[r].locks /\ job'[r].shares = job[r].shares
    BY <1>1, DoneShape
  <1>3. Article(r) \in [by : Requests \cup {None}] /\ Article(r).by = r
    BY DEF Article
  <1>4. /\ \A u \in Urls : article'[u] = IF u = Entry(r) THEN Article(r) ELSE article[u]
        /\ article' \in [Urls -> [by : Requests \cup {None}] \cup {None}]
    BY <1>1, <1>3 DEF WorkspaceInv, Tables
  <1>5. \A u \in Urls : article[u] = Article(None) => article'[u] = Article(None)
    <2>1. Article(None) # None
      BY WorkspaceAssumption DEF Article
    <2>2. QED
      BY <1>1, <1>4, <2>1
  <1>6. Tables'
    BY <1>1, <1>4, <1>5 DEF WorkspaceInv, Tables
  <1>7. job[r].at \in Reading /\ job'[r].at \notin {"found", "new"}
    BY <1>1, <1>2 DEF Reading
  <1>8. \A u \in Urls : article'[u] # None /\ article'[u].by # None =>
            \/ article'[u].by = r
            \/ article[u] # None /\ article[u].by = article'[u].by /\ article[u].by # r
    BY <1>3, <1>4
  <1>9. QED
    BY <1>1, <1>2, <1>5, <1>6, <1>7, <1>8, NewsMoves

LEMMA CommitFeedInv ==
  ASSUME WorkspaceInv, NEW r \in Requests, CommitFeed(r)
  PROVE  WorkspaceInv'
  <1>1. /\ job[r].at = "fetched" /\ UNCHANGED <<project, row, file, torn, marked, begun>>
        /\ \A u \in Urls : article'[u] = IF article[u] = Article(r) THEN Article(None)
                                         ELSE article[u]
        /\ DOMAIN article' = Urls
    BY DEF CommitFeed, Doing, OnlyNews
  <1>2. DOMAIN job = Requests /\ Shape(job[r])
    BY DEF WorkspaceInv, Requested
  <1>3. /\ Article(None) \in [by : Requests \cup {None}] /\ Article(None).by = None
        /\ Article(None) # None /\ Article(r) # Article(None)
    <2>1. Article(r).by = r /\ Article(None).by = None
      BY DEF Article
    <2>2. QED
      BY <2>1, WorkspaceAssumption DEF Article
  <1>4. article' \in [Urls -> [by : Requests \cup {None}] \cup {None}]
    <2>1. article' = [u \in Urls |-> IF article[u] = Article(r) THEN Article(None)
                                     ELSE article[u]]
      BY DEF CommitFeed
    <2>2. QED
      BY <1>3, <2>1 DEF WorkspaceInv, Tables
  <1>5. \A u \in Urls : article[u] = Article(None) => article'[u] = Article(None)
    BY <1>1
  <1>6. Tables'
    BY <1>1, <1>4, <1>5 DEF WorkspaceInv, Tables
  <1>7. \A u \in Urls : article[u] # None /\ article[u].by = r => article[u] = Article(r)
    BY DEF WorkspaceInv, Tables, Article
  <1>8. \A u \in Urls : article'[u] # None /\ article'[u].by # None =>
           article'[u] = article[u] /\ article[u].by # r
    BY <1>1, <1>3, <1>7
  <1>9. CASE job' = Closed(r)
    <2>1. /\ DOMAIN job' = Requests /\ job'[r] = NoJob
          /\ \A s \in Requests \ {r} : job'[s] = job[s]
      BY <1>2, <1>9 DEF Closed
    <2>2. /\ NoJob.at = "idle" /\ NoJob.locks = {} /\ NoJob.shares = {}
          /\ NoJob.file = None /\ Shape(NoJob)
      BY NoJobShape DEF NoJob
    <2>3. Shape(job[r])'
      BY <2>1, <2>2 DEF Shape
    <2>4. Claims' /\ FilesAgree'
      BY <1>1, <2>1, <2>2, NoFile DEF OnDisk
    <2>5. There' = There
      BY <1>1 DEF There
    <2>6. \A p \in There : project[p].by # None => project[p].by # r
      BY <1>1 DEF WorkspaceInv, Owners, Filing
    <2>7. QED
      BY <1>1, <1>5, <1>6, <1>8, <2>1, <2>2, <2>3, <2>4, <2>5, <2>6, OneMoves
  <1>10. CASE job' = [job EXCEPT ![r].at = "entry"]
    <2>1. DOMAIN job' = Requests /\ \A s \in Requests \ {r} : job'[s] = job[s]
      BY <1>2, <1>10
    <2>2. job[r].file = None
          /\ DOMAIN job[r] = {"at", "names", "got", "rows", "locks", "shares", "file"}
      BY <1>1, <1>2 DEF Shape, OnDisk
    <2>3. /\ DOMAIN job'[r] = {"at", "names", "got", "rows", "locks", "shares", "file"}
          /\ job'[r].at = "entry" /\ job'[r].got = job[r].got
          /\ job'[r].rows = job[r].rows /\ job'[r].file = None
          /\ job'[r].locks = job[r].locks /\ job'[r].shares = job[r].shares
      BY <1>2, <1>10, <2>2
    <2>4. Shape(job[r])'
      BY <1>2, <2>3 DEF Shape, Reading, OnDisk
    <2>5. job[r].at \in Reading /\ job'[r].at \in Reading /\ job'[r].at \notin {"found", "new"}
      BY <1>1, <2>3 DEF Reading
    <2>6. QED
      BY <1>1, <1>5, <1>6, <1>8, <2>1, <2>3, <2>4, <2>5, NewsMoves
  <1>11. QED
    BY <1>9, <1>10 DEF CommitFeed

LEMMA SaveInteractionInv ==
  ASSUME WorkspaceInv, NEW r \in Requests, SaveInteraction(r)
  PROVE  WorkspaceInv'
  <1>1. /\ job[r].at \in {"found", "new"} /\ job' = Closed(r)
        /\ UNCHANGED <<project, row, file, torn, article, begun>>
        /\ marked' = marked \cup {Entry(r)}
    BY DEF SaveInteraction, Doing, OnlyNews
  <1>2. PICK u \in Urls : job[r].names = <<u>> /\ job[r].got = <<>>
    BY <1>1 DEF WorkspaceInv, Requested, Shape
  <1>3. Entry(r) = u /\ job[r].names[1] = u
    <2>1. Len(job[r].got) + 1 = 1
      BY <1>2
    <2>2. QED
      BY <1>2, <2>1 DEF Entry
  <1>4. article[u] = Article(None)
    BY <1>1, <1>3 DEF WorkspaceInv, Owners
  <1>5. Tables'
    BY <1>1, <1>3, <1>4 DEF WorkspaceInv, Tables
  <1>6. /\ \A p \in There : project[p].by # r
        /\ \A x \in Urls : article[x] # None => article[x].by # r
    BY <1>1, WorkspaceAssumption DEF WorkspaceInv, Owners, Filing, Reading
  <1>7. There' = There
    BY <1>1 DEF There
  <1>8. job[r].at \notin OnDisk /\ NoJob.at \notin OnDisk /\ NoJob.file = None
    BY <1>1 DEF OnDisk, NoJob
  <1>9. job'[r] = NoJob /\ \A s \in Requests \ {r} : job'[s] = job[s]
    BY <1>1 DEF Closed, WorkspaceInv, Requested
  <1>10. Claims' /\ FilesAgree'
    BY <1>1, <1>8, <1>9, NoFile
  <1>11. QED
    BY <1>1, <1>5, <1>6, <1>7, <1>10, ClosedInv

-----------------------------------------------------------------------------
(* Attachments.                                                            *)

\* A request on a file, from one step to the next: no project and no article.
LEMMA FileMoves ==
  ASSUME WorkspaceInv, NEW r \in Requests,
         DOMAIN job' = Requests, Shape(job[r])',
         \A s \in Requests \ {r} : job'[s] = job[s],
         job[r].at \in OnDisk \cup {"idle"}, job'[r].at \in OnDisk \cup {"idle"},
         row' \cup file' \cup torn' \subseteq Files, begun' \in 0..MaxBegun,
         UNCHANGED <<project, article, marked>>, Claims', FilesAgree',
         job'[r].locks \subseteq job[r].locks, job'[r].shares \subseteq job[r].shares
  PROVE  WorkspaceInv'
  <1>1. /\ job[r].at \notin Filing /\ job[r].at \notin Reading
        /\ job'[r].at \notin {"found", "new"}
    BY DEF Filing, OnDisk, Reading
  <1>2. There' = There
    BY DEF There
  <1>3. /\ \A p \in There : project[p].by # None => project[p].by # r
        /\ \A u \in Urls : article[u] # None /\ article[u].by # None => article[u].by # r
    BY <1>1 DEF WorkspaceInv, Owners
  <1>4. \A s \in Requests \ {r} :
            /\ job'[r].locks \cap (job[s].locks \cup job[s].shares) = {}
            /\ job[s].locks \cap job'[r].shares = {}
    BY DEF WorkspaceInv, LocksApart
  <1>5. Tables'
    BY DEF WorkspaceInv, Tables
  <1>6. QED
    BY <1>1, <1>2, <1>3, <1>4, <1>5, OneMoves

\* The requests that begin with a file.
LEMMA WorkingFacts ==
  ASSUME WorkspaceInv, NEW r \in Requests, NEW at \in OnDisk, NEW f \in Files,
         Working(r, at, f)
  PROVE  /\ DOMAIN job' = Requests /\ Shape(job[r])'
         /\ \A s \in Requests \ {r} : job'[s] = job[s]
         /\ job'[r].at = at /\ job'[r].file = f
         /\ job'[r].locks = {} /\ job'[r].shares = {}
  <1> DEFINE q == [NoJob EXCEPT !.at = at, !.file = f]
  <1>1. job' = [job EXCEPT ![r] = q]
    BY DEF Working
  <1>2. /\ DOMAIN q = DOMAIN NoJob /\ q.at = at /\ q.file = f /\ q.got = NoJob.got
        /\ q.rows = {} /\ q.locks = {} /\ q.shares = {}
    BY DEF NoJob
  <1>3. Shape(q)
    BY <1>2, NoJobShape DEF Shape, Filing, Reading, OnDisk
  <1> HIDE DEF q
  <1>4. DOMAIN job' = Requests /\ job'[r] = q /\ \A s \in Requests \ {r} : job'[s] = job[s]
    BY <1>1 DEF WorkspaceInv, Requested
  <1>5. QED
    BY <1>2, <1>3, <1>4 DEF Shape

LEMMA UploadInv ==
  ASSUME WorkspaceInv, NEW r \in Requests, NEW f \in Files, UploadAttachment(r, f)
  PROVE  WorkspaceInv'
  <1>1. /\ job[r].at = "idle" /\ begun < MaxBegun /\ begun' = begun + 1
        /\ f \notin file \cup row \cup torn /\ \A s \in Requests : job[s].file # f
        /\ file' = file \cup {f} /\ UNCHANGED <<project, article, marked, row>>
        /\ \/ Working(r, "saved", f) /\ UNCHANGED torn
           \/ torn' = torn \cup {f} /\ UNCHANGED job
    BY DEF UploadAttachment, SaveFile, BeginJob, Doing, news
  <1>2. begun' \in 0..MaxBegun
    BY <1>1, WorkspaceAssumption DEF WorkspaceInv, Tables
  <1>3. row' \cup file' \cup torn' \subseteq Files
    BY <1>1 DEF WorkspaceInv, Tables
  <1>4. CASE Working(r, "saved", f) /\ UNCHANGED torn
    <2>1. /\ DOMAIN job' = Requests /\ Shape(job[r])'
          /\ \A s \in Requests \ {r} : job'[s] = job[s]
          /\ job'[r].at = "saved" /\ job'[r].file = f
          /\ job'[r].locks = {} /\ job'[r].shares = {}
      BY <1>4, WorkingFacts DEF OnDisk
    <2>2. Claims'
      BY <1>1, <2>1 DEF WorkspaceInv, Claims
    <2>3. job[r].file = None
      BY <1>1 DEF WorkspaceInv, Requested, Shape, OnDisk
    <2>4. FilesAgree'
      <3> SUFFICES ASSUME NEW g \in Files \ torn',
                          \A s \in Requests : job'[s].file # g
                   PROVE  g \in row' <=> g \in file'
        BY DEF FilesAgree
      <3>1. g # f /\ \A s \in Requests : job[s].file # g
        BY <2>1, <2>3, WorkspaceAssumption
      <3>2. QED
        BY <1>1, <1>4, <3>1 DEF WorkspaceInv, FilesAgree
    <2>5. job'[r].at \in OnDisk \cup {"idle"} /\ job[r].at \in OnDisk \cup {"idle"}
      BY <1>1, <2>1 DEF OnDisk
    <2>6. QED
      BY <1>1, <1>2, <1>3, <2>1, <2>2, <2>4, <2>5, FileMoves
  <1>5. CASE torn' = torn \cup {f} /\ UNCHANGED job
    <2>1. Claims' /\ FilesAgree'
      BY <1>1, <1>5 DEF WorkspaceInv, Claims, FilesAgree
    <2>2. Requested' /\ LocksApart' /\ Owners' /\ Tables'
      BY <1>1, <1>2, <1>3, <1>5
         DEF WorkspaceInv, Requested, Shape, LocksApart, Owners, Tables, There
    <2>3. QED
      BY <2>1, <2>2 DEF WorkspaceInv
  <1>6. QED
    BY <1>1, <1>4, <1>5

LEMMA DeleteAttachmentInv ==
  ASSUME WorkspaceInv, NEW r \in Requests, NEW f \in Files, DeleteAttachment(r, f)
  PROVE  WorkspaceInv'
  <1>1. /\ job[r].at = "idle" /\ begun < MaxBegun /\ begun' = begun + 1
        /\ f \in row /\ file' = file \ {f} /\ Working(r, "removed", f)
        /\ UNCHANGED <<project, article, marked, row, torn>>
    BY DEF DeleteAttachment, BeginJob, Doing, news
  <1>2. begun' \in 0..MaxBegun
    BY <1>1, WorkspaceAssumption DEF WorkspaceInv, Tables
  <1>3. row' \cup file' \cup torn' \subseteq Files
    BY <1>1 DEF WorkspaceInv, Tables
  <1>4. /\ DOMAIN job' = Requests /\ Shape(job[r])'
        /\ \A s \in Requests \ {r} : job'[s] = job[s]
        /\ job'[r].at = "removed" /\ job'[r].file = f
        /\ job'[r].locks = {} /\ job'[r].shares = {}
    BY <1>1, WorkingFacts DEF OnDisk
  <1>5. Claims'
    BY <1>1, <1>4 DEF WorkspaceInv, Claims
  <1>6. job[r].file = None
    BY <1>1 DEF WorkspaceInv, Requested, Shape, OnDisk
  <1>7. FilesAgree'
    <2> SUFFICES ASSUME NEW g \in Files \ torn,
                        \A s \in Requests : job'[s].file # g
                 PROVE  g \in row <=> g \in file'
      BY <1>1 DEF FilesAgree
    <2>1. g # f /\ \A s \in Requests : job[s].file # g
      BY <1>4, <1>6, WorkspaceAssumption
    <2>2. QED
      BY <1>1, <2>1 DEF WorkspaceInv, FilesAgree
  <1>8. job'[r].at \in OnDisk \cup {"idle"} /\ job[r].at \in OnDisk \cup {"idle"}
    BY <1>1, <1>4 DEF OnDisk
  <1>9. QED
    BY <1>1, <1>2, <1>3, <1>4, <1>5, <1>7, <1>8, FileMoves

LEMMA InsertRowInv ==
  ASSUME WorkspaceInv, NEW r \in Requests, InsertRow(r)
  PROVE  WorkspaceInv'
  <1>1. /\ job[r].at = "saved" /\ job' = [job EXCEPT ![r].at = "flushed"]
        /\ UNCHANGED <<project, row, file, torn, article, marked, begun>>
    BY DEF InsertRow, Doing, news
  <1>2. DOMAIN job = Requests /\ Shape(job[r])
    BY DEF WorkspaceInv, Requested
  <1>3. DOMAIN job[r] = {"at", "names", "got", "rows", "locks", "shares", "file"}
    BY <1>2 DEF Shape
  <1>4. DOMAIN job' = Requests /\ \A s \in Requests \ {r} : job'[s] = job[s]
    BY <1>1, <1>2
  <1>5. /\ DOMAIN job'[r] = {"at", "names", "got", "rows", "locks", "shares", "file"}
        /\ job'[r].at = "flushed" /\ job'[r].got = job[r].got
        /\ job'[r].rows = job[r].rows /\ job'[r].file = job[r].file
        /\ job'[r].locks = job[r].locks /\ job'[r].shares = job[r].shares
    BY <1>1, <1>2, <1>3
  <1>6. Shape(job[r])'
    BY <1>1, <1>2, <1>5 DEF Shape, Filing, OnDisk
  <1>7. \A s \in Requests : job'[s].file = job[s].file
    BY <1>4, <1>5
  <1>8. Claims'
    BY <1>1, <1>4, <1>5, <1>7 DEF WorkspaceInv, Claims
  <1>9. FilesAgree'
    BY <1>1, <1>7 DEF WorkspaceInv, FilesAgree
  <1>10. job'[r].at \in OnDisk \cup {"idle"} /\ job[r].at \in OnDisk \cup {"idle"}
    BY <1>1, <1>5 DEF OnDisk
  <1>11. row' \cup file' \cup torn' \subseteq Files /\ begun' \in 0..MaxBegun
    BY <1>1 DEF WorkspaceInv, Tables
  <1>12. QED
    BY <1>1, <1>4, <1>5, <1>6, <1>8, <1>9, <1>10, <1>11, FileMoves

\* The end of an upload or of a deletion: the row as it is then, the file as it is
\* then, agree or one of them is torn.
LEMMA FileEndsInv ==
  ASSUME WorkspaceInv, NEW r \in Requests, InsertFails(r) \/ CommitAttachment(r)
  PROVE  WorkspaceInv'
  <1> DEFINE f == job[r].file
  <1>1. /\ job[r].at \in OnDisk /\ job' = [job EXCEPT ![r] = NoJob]
        /\ UNCHANGED <<project, article, marked, begun>>
    BY DEF InsertFails, CommitAttachment, Doing, OnDisk, news, Closed
  <1>2. f \in Files
    BY <1>1 DEF WorkspaceInv, Requested, Shape
  <1>3. /\ DOMAIN job' = Requests /\ job'[r] = NoJob
        /\ \A s \in Requests \ {r} : job'[s] = job[s]
    BY <1>1 DEF WorkspaceInv, Requested
  <1>4. /\ NoJob.at = "idle" /\ NoJob.locks = {} /\ NoJob.shares = {}
        /\ NoJob.file = None /\ Shape(NoJob)
    BY NoJobShape DEF NoJob
  <1>5. Shape(job[r])'
    BY <1>3, <1>4 DEF Shape
  <1>6. /\ row' \subseteq row \cup {f} /\ row \ {f} \subseteq row'
        /\ file' \subseteq file /\ file \ {f} \subseteq file'
        /\ torn' \subseteq torn \cup {f} /\ torn \subseteq torn'
        /\ f \in torn' \/ (f \in row' <=> f \in file')
    <2>1. CASE InsertFails(r)
      BY <2>1 DEF InsertFails, DeleteFile, Doing, WorkspaceInv, Claims
    <2>2. CASE CommitAttachment(r)
      BY <2>2 DEF CommitAttachment, Doing, WorkspaceInv, Claims
    <2>3. QED
      BY <2>1, <2>2
  <1>7. row' \cup file' \cup torn' \subseteq Files /\ begun' \in 0..MaxBegun
    BY <1>1, <1>2, <1>6 DEF WorkspaceInv, Tables
  <1>8. \A s \in Requests \ {r} : job[s].at \in {"saved", "flushed"} => job[s].file # f
    BY DEF WorkspaceInv, Claims
  <1> HIDE DEF f
  <1>9. Claims'
    <2> SUFFICES ASSUME NEW s \in Requests, job'[s].at \in {"saved", "flushed", "removed"}
                 PROVE  /\ job'[s].at \in {"saved", "flushed"} =>
                             /\ job'[s].file \in file' \ row'
                             /\ \A x \in Requests \ {s} : job'[x].file # job'[s].file
                        /\ job'[s].at = "removed" => job'[s].file \notin file'
      BY DEF Claims
    <2>1. s # r /\ job'[s] = job[s]
      BY <1>3, <1>4
    <2>2. job[s].file \in Files
      BY <2>1 DEF WorkspaceInv, Requested, Shape, OnDisk
    <2>3. CASE job[s].at = "removed"
      BY <1>6, <2>1, <2>3 DEF WorkspaceInv, Claims
    <2>4. CASE job[s].at \in {"saved", "flushed"}
      <3>1. job[s].file # f /\ job[s].file \in file \ row
        BY <1>8, <2>1, <2>4 DEF WorkspaceInv, Claims
      <3>2. \A x \in Requests \ {s} : job'[x].file # job'[s].file
        BY <1>3, <1>4, <2>1, <2>2, <2>4, WorkspaceAssumption DEF WorkspaceInv, Claims
      <3>3. job[s].file \in file' \ row'
        BY <1>6, <3>1
      <3>4. QED
        BY <2>1, <2>4, <3>2, <3>3
    <2>5. QED
      BY <2>1, <2>3, <2>4
  <1>10. FilesAgree'
    <2> SUFFICES ASSUME NEW g \in Files \ torn',
                        \A s \in Requests : job'[s].file # g
                 PROVE  g \in row' <=> g \in file'
      BY DEF FilesAgree
    <2>1. CASE g = f
      BY <1>6, <2>1
    <2>2. CASE g # f
      <3>1. \A s \in Requests : job[s].file # g
        BY <1>3, <2>2 DEF f
      <3>2. g \in Files \ torn /\ (g \in row' <=> g \in row) /\ (g \in file' <=> g \in file)
        BY <1>6, <2>2
      <3>3. QED
        BY <3>1, <3>2 DEF WorkspaceInv, FilesAgree
    <2>3. QED
      BY <2>1, <2>2
  <1>11. job'[r].at \in OnDisk \cup {"idle"} /\ job[r].at \in OnDisk \cup {"idle"}
         /\ job'[r].locks = {} /\ job'[r].shares = {}
    BY <1>1, <1>3, <1>4
  <1>12. QED
    BY <1>1, <1>3, <1>5, <1>7, <1>9, <1>10, <1>11, FileMoves

-----------------------------------------------------------------------------
(* The database and the server.                                            *)

\* Whom a deadlock ends was waiting, and a request that waits has no file.
LEMMA DeadlockInv ==
  ASSUME WorkspaceInv, NEW r \in Requests, DeadlockFound(r)
  PROVE  WorkspaceInv'
  <1>1. Blockers(r) # {}
    BY DEF DeadlockFound
  <1>2. job[r].at \in {"count", "insert", "write", "add"}
    BY <1>1 DEF Blockers, Doing
  <1>3. job[r].at \notin OnDisk /\ Rollback(r)
    BY <1>2 DEF OnDisk, DeadlockFound
  <1>4. QED
    BY <1>3, RollbackInv

LEMMA RestartInv ==
  ASSUME WorkspaceInv, Restart
  PROVE  WorkspaceInv'
  <1>1. /\ project' = Without(project, Requests) /\ article' = Without(article, Requests)
        /\ torn' = torn \cup ({job[r].file : r \in Requests} \ {None})
        /\ job' = [r \in Requests |-> NoJob]
        /\ UNCHANGED <<row, file, marked, begun>>
    BY DEF Restart
  <1>2. /\ DOMAIN job' = Requests /\ \A r \in Requests : job'[r] = NoJob
        /\ NoJob.at = "idle" /\ NoJob.locks = {} /\ NoJob.shares = {}
        /\ NoJob.file = None /\ Shape(NoJob)
    BY <1>1, NoJobShape DEF NoJob
  <1>3. Requested'
    BY <1>2 DEF Requested, Shape
  <1>4. \A p \in Projects : project'[p] =
          IF project[p] # None /\ project[p].by \in Requests THEN None ELSE project[p]
    BY <1>1 DEF Without, WorkspaceInv, Tables
  <1>5. \A u \in Urls : article'[u] =
          IF article[u] # None /\ article[u].by \in Requests THEN None ELSE article[u]
    BY <1>1 DEF Without, WorkspaceInv, Tables
  <1>6. \A u \in Urls : article[u] = Article(None) => article'[u] = Article(None)
    BY <1>5, WorkspaceAssumption DEF Article
  <1>7. Tables'
    <2>1. /\ project' \in [Projects ->
                [name : Names, auto : BOOLEAN, by : Requests \cup {None}] \cup {None}]
          /\ article' \in [Urls -> [by : Requests \cup {None}] \cup {None}]
      BY <1>1, <1>4, <1>5 DEF Without, WorkspaceInv, Tables
    <2>2. \A r \in Requests : job[r].file \in Files \cup {None}
      BY DEF WorkspaceInv, Requested, Shape
    <2>3. QED
      BY <1>1, <1>6, <2>1, <2>2 DEF WorkspaceInv, Tables
  <1>8. Owners'
    <2>1. \A p \in Projects : project'[p] # None => project'[p].by = None
      BY <1>4 DEF WorkspaceInv, Tables
    <2>2. \A u \in Urls : article'[u] # None => article'[u].by = None
      BY <1>5 DEF WorkspaceInv, Tables
    <2>3. QED
      BY <1>2, <2>1, <2>2 DEF Owners, There
  <1>9. LocksApart' /\ Claims'
    BY <1>2 DEF LocksApart, Claims
  <1>10. FilesAgree'
    <2> SUFFICES ASSUME NEW g \in Files \ torn'
                 PROVE  g \in row <=> g \in file
      BY <1>1 DEF FilesAgree
    <2>1. g \notin torn /\ \A r \in Requests : job[r].file # g
      BY <1>1, WorkspaceAssumption
    <2>2. QED
      BY <2>1 DEF WorkspaceInv, FilesAgree
  <1>11. QED
    BY <1>3, <1>7, <1>8, <1>9, <1>10 DEF WorkspaceInv

LEMMA StepInv ==
  ASSUME WorkspaceInv, NEW r \in Requests, Step(r)
  PROVE  WorkspaceInv'
  <1>1. ASSUME AtMax(r) \/ NameTaken(r) \/ ProjectGone(r) \/ ArticleTaken(r)
                 \/ InteractionTaken(r)
        PROVE  WorkspaceInv'
    <2>1. Rollback(r) /\ job[r].at \notin OnDisk
      BY <1>1 DEF AtMax, NameTaken, ProjectGone, ArticleTaken, InteractionTaken,
                  RowsLocked, Doing, OnDisk
    <2>2. QED
      BY <2>1, RollbackInv
  <1>2. QED
    BY <1>1, LookingInv, InsertProjectInv, WriteTasksInv, CommitProjectsInv, ReadEntryInv,
       AddArticleInv, CommitFeedInv, SaveInteractionInv, InsertRowInv, FileEndsInv,
       DeadlockInv
       DEF Step

LEMMA WorkspaceNextInv ==
  ASSUME WorkspaceInv, [WorkspaceNext]_workspaceVars
  PROVE  WorkspaceInv'
  <1>1. CASE UNCHANGED workspaceVars
    BY <1>1 DEF workspaceVars, WorkspaceInv, Requested, Shape, Tables, Owners, LocksApart,
                Claims, FilesAgree, There
  <1>2. CASE Restart
    BY <1>2, RestartInv
  <1>3. ASSUME NEW r \in Requests, NEW n \in Names, FileTasks(r, <<n>>)
        PROVE  WorkspaceInv'
    <2>1. <<n>> \in Seq(Names) /\ Len(<<n>>) > 0
      OBVIOUS
    <2>2. QED
      BY <1>3, <2>1, FileTasksInv
  <1>4. ASSUME NEW r \in Requests, NEW n \in Batched, NEW m \in Batched,
               FileTasks(r, <<n, m>>)
        PROVE  WorkspaceInv'
    <2>1. <<n, m>> \in Seq(Names) /\ Len(<<n, m>>) > 0
      BY WorkspaceAssumption
    <2>2. QED
      BY <1>4, <2>1, FileTasksInv
  <1>5. ASSUME NEW r \in Requests, NEW u \in Urls,
               MarkArticleRead(r, u) \/ RateArticle(r, u) \/ BookmarkArticle(r, u)
        PROVE  WorkspaceInv'
    BY <1>5, InteractInv DEF MarkArticleRead, RateArticle, BookmarkArticle
  <1>6. ASSUME NEW r \in Requests, NEW p \in Projects,
               (\E n \in Names : UpdateProject(r, p, n)) \/ DeleteProject(r, p)
        PROVE  WorkspaceInv'
    BY <1>6, UpdateDeleteInv
  <1>7. ASSUME NEW r \in Requests, NEW f \in Files,
               UploadAttachment(r, f) \/ DeleteAttachment(r, f)
        PROVE  WorkspaceInv'
    BY <1>7, UploadInv, DeleteAttachmentInv
  <1>8. ASSUME NEW r \in Requests, NEW u \in Urls, NEW v \in Urls, FetchFeeds(r, <<u, v>>)
        PROVE  WorkspaceInv'
    BY <1>8, FetchFeedsInv
  <1>9. ASSUME NEW r \in Requests, NEW n \in Names, CreateProject(r, n)
        PROVE  WorkspaceInv'
    BY <1>9, CreateProjectInv
  <1>10. CASE WorkspaceNext
    BY <1>2, <1>3, <1>4, <1>5, <1>6, <1>7, <1>8, <1>9, <1>10, StepInv DEF WorkspaceNext
  <1>11. QED
    BY <1>1, <1>10

-----------------------------------------------------------------------------
\* What the locks, the transactions and the order of the statements keep, of tables,
\* requests and files together, for any requests, names, files and bounds.
THEOREM WorkspaceKept == WorkspaceSpec => []WorkspaceInv
  <1>1. WorkspaceInv /\ [WorkspaceNext]_workspaceVars => WorkspaceInv'
    BY WorkspaceNextInv
  <1>2. QED
    BY <1>1, WorkspaceInitInv, PTL DEF WorkspaceSpec

\* Tables and requests have their types, a row that is not committed is one of an open
\* transaction, and no two requests have a lock on one project.
THEOREM WorkspaceTypes == WorkspaceSpec => []WorkspaceTypeOK
  <1>1. WorkspaceInv => WorkspaceTypeOK
    <2> SUFFICES ASSUME WorkspaceInv PROVE WorkspaceTypeOK
      OBVIOUS
    <2>1. \A p \in There : /\ project[p].name \in Names /\ project[p].auto \in BOOLEAN
                           /\ project[p].by # None => ~Doing(project[p].by, "idle")
      BY DEF WorkspaceInv, Tables, Owners, There, Doing, Filing
    <2>2. \A u \in Urls : article[u] = None \/ article[u].by \in Requests \cup {None}
      BY DEF WorkspaceInv, Tables
    <2>3. \A r \in Requests :
             /\ job[r].at \in {"idle", "lookup", "count", "insert", "write", "commit",
                               "saved", "flushed", "removed", "entry", "add", "fetched",
                               "found", "new"}
             /\ job[r].rows \cup job[r].locks \cup job[r].shares \subseteq Projects
      BY DEF WorkspaceInv, Requested, Shape, Filing, Reading, OnDisk
    <2>4. QED
      BY <2>1, <2>2, <2>3 DEF WorkspaceInv, Tables, LocksApart, WorkspaceTypeOK
  <1>2. QED
    BY <1>1, WorkspaceKept, PTL

\* A file without a row and a row without a file are of a request in progress, or what
\* a failure or a restart has left, for any number of overlapping uploads and deletions.
THEOREM AttachmentsAgree == WorkspaceSpec => []FilesAgree
  <1>1. WorkspaceInv => FilesAgree
    BY DEF WorkspaceInv
  <1>2. QED
    BY <1>1, WorkspaceKept, PTL

-----------------------------------------------------------------------------
(* Induction and recursive functions.                                      *)

\* Every set of numbers that is not empty has a least one: of the intervals 1..n, which
\* are finite sets, one is least.
LEMMA Least ==
  ASSUME NEW T \in SUBSET Nat, T # {}
  PROVE  \E m \in T : \A k \in T : m <= k
  <1> DEFINE F == {1..n : n \in T}
  <1>1. IsWellFoundedOn(StrictSubsetOrdering(Nat), FiniteSubsetsOf(Nat))
    BY FS_StrictSubsetOrderingWellFounded
  <1>2. F \subseteq FiniteSubsetsOf(Nat) /\ F # {}
    <2>1. \A n \in T : 1..n \in FiniteSubsetsOf(Nat)
      BY FS_Interval DEF FiniteSubsetsOf
    <2>2. QED
      BY <2>1
  <1> HIDE DEF F
  <1>3. PICK s \in F : \A r \in F : <<r, s>> \notin StrictSubsetOrdering(Nat)
    BY <1>1, <1>2, WFMin
  <1>4. PICK m \in T : s = 1..m
    BY DEF F
  <1>5. ASSUME NEW k \in T, k < m PROVE FALSE
    <2>1. 1..k \in F
      BY DEF F
    <2>2. 1..k \subseteq 1..m /\ 1..k # 1..m
      BY <1>5
    <2>3. <<1..k, s>> \in StrictSubsetOrdering(Nat)
      BY <1>4, <2>2 DEF StrictSubsetOrdering
    <2>4. QED
      BY <1>3, <2>1, <2>3
  <1>6. QED
    BY <1>5

\* Induction, on a set.
LEMMA Induct ==
  ASSUME NEW T, 0 \in T, \A n \in Nat : n \in T => n + 1 \in T
  PROVE  Nat \subseteq T
  <1>1. SUFFICES ASSUME Nat \ T # {} PROVE FALSE
    OBVIOUS
  <1>2. PICK m \in Nat \ T : \A k \in Nat \ T : m <= k
    BY <1>1, Least
  <1>3. m # 0 /\ m - 1 \in Nat /\ m - 1 \in T
    BY <1>2
  <1>4. QED
    BY <1>2, <1>3

\* A function on 0..n that is defined by recursion on its argument is there.
LEMMA Recursion ==
  ASSUME NEW S, NEW a \in S, NEW n \in Nat, NEW h \in [1..n -> [S -> S]]
  PROVE  \E f \in [0..n -> S] : f = [i \in 0..n |-> IF i = 0 THEN a ELSE h[i][f[i - 1]]]
  <1> DEFINE Good(k, f) == /\ f \in [0..k -> S] /\ f[0] = a
                           /\ \A i \in 1..k : f[i] = h[i][f[i - 1]]
             T == {k \in Nat : k <= n => \E f : Good(k, f)}
  <1>1. 0 \in T
    <2>1. Good(0, [i \in 0..0 |-> a])
      OBVIOUS
    <2> HIDE DEF Good
    <2>2. QED
      BY <2>1
  <1>2. ASSUME NEW k \in Nat, k \in T PROVE k + 1 \in T
    <2>1. SUFFICES ASSUME k + 1 <= n PROVE \E f : Good(k + 1, f)
      OBVIOUS
    <2>2. PICK f : Good(k, f)
      <3>1. k <= n
        BY <2>1
      <3> HIDE DEF Good
      <3>2. QED
        BY <1>2, <3>1
    <2> DEFINE g == [i \in 0..(k + 1) |-> IF i = k + 1 THEN h[k + 1][f[k]] ELSE f[i]]
    <2>3. h[k + 1][f[k]] \in S
      BY <2>1, <2>2
    <2>4. g \in [0..(k + 1) -> S]
      BY <2>2, <2>3
    <2>5. g[0] = a
      BY <2>2
    <2>6. ASSUME NEW i \in 1..(k + 1) PROVE g[i] = h[i][g[i - 1]]
      <3>1. i - 1 \in 0..(k + 1) /\ i - 1 # k + 1 /\ g[i - 1] = f[i - 1]
        OBVIOUS
      <3>2. CASE i = k + 1
        BY <3>1, <3>2
      <3>3. CASE i # k + 1
        <4>1. i \in 1..k /\ g[i] = f[i]
          BY <3>3
        <4>2. QED
          BY <2>2, <3>1, <4>1
      <3>4. QED
        BY <3>2, <3>3
    <2> HIDE DEF g
    <2>7. Good(k + 1, g)
      BY <2>4, <2>5, <2>6
    <2> HIDE DEF Good
    <2>8. QED
      BY <2>7
  <1>3. n \in T
    <2> HIDE DEF T
    <2>1. Nat \subseteq T
      BY <1>1, <1>2, Induct
    <2>2. QED
      BY <2>1
  <1>4. PICK f : Good(n, f)
    <2> HIDE DEF Good
    <2>1. QED
      BY <1>3
  <1>5. f \in [0..n -> S] /\ f = [i \in 0..n |-> IF i = 0 THEN a ELSE h[i][f[i - 1]]]
    BY <1>4
  <1>6. QED
    BY <1>5

Height == Cardinality(Pages)

LEMMA HeightIsNat == Height \in Nat /\ Steps = 1..Height /\ {0} \cup Steps = 0..Height
  <1>1. Height \in Nat
    BY WikiAssumption, FS_CardinalityType DEF Height
  <1>2. QED
    BY <1>1 DEF Steps, Height

\* Rows are rows of wiki_pages, and parents are pages.
PagesTyped ==
    /\ page \in [Pages -> WikiPage \cup {None}]
    /\ \A p \in Pages : page[p] # None => page[p].parent # p

LEMMA ParentTyped ==
  ASSUME PagesTyped, NEW x \in Live \cup {None}
  PROVE  ParentOf(x) \in Live \cup {None}
  <1>1. \A p \in Pages : page[p] # None => page[p].parent \in Pages \cup {None}
    BY DEF PagesTyped, WikiPage
  <1>2. QED
    BY <1>1 DEF ParentOf, Live, Exists

\* The pages above a page, one after another.
LEMMA AboveIs ==
  ASSUME PagesTyped, NEW p \in Live \cup {None}
  PROVE  /\ Above(p)[0] = p
         /\ \A n \in Steps : Above(p)[n] = ParentOf(Above(p)[n - 1])
  <1> DEFINE S == Live \cup {None}
  <1>1. \E f : f = [n \in 0..Height |-> IF n = 0 THEN p ELSE ParentOf(f[n - 1])]
    <2>1. PICK h : h = [n \in 1..Height |-> [x \in S |-> ParentOf(x)]]
      OBVIOUS
    <2>2. \A x \in S : ParentOf(x) \in S
      BY ParentTyped
    <2>3. h \in [1..Height -> [S -> S]]
      BY <2>1, <2>2
    <2>4. PICK f \in [0..Height -> S] :
             f = [i \in 0..Height |-> IF i = 0 THEN p ELSE h[i][f[i - 1]]]
      <3>1. p \in S /\ Height \in Nat
        BY HeightIsNat
      <3> HIDE DEF S
      <3>2. QED
        BY <2>3, <3>1, Recursion
    <2>5. f = [n \in 0..Height |-> IF n = 0 THEN p ELSE ParentOf(f[n - 1])]
      <3>1. \A i \in 0..Height : i # 0 => h[i][f[i - 1]] = ParentOf(f[i - 1])
        BY <2>1, HeightIsNat
      <3> HIDE DEF S
      <3>2. QED
        BY <2>4, <3>1
    <2>6. QED
      BY <2>5
  <1>2. Above(p) = [n \in 0..Height |-> IF n = 0 THEN p ELSE ParentOf(Above(p)[n - 1])]
    <2>1. {0} \cup Steps = 0..Height
      BY HeightIsNat
    <2>2. QED
      BY <1>1, <2>1, Zenon DEF Above
  <1>3. QED
    BY <1>2, HeightIsNat

\* The pages below a page, one level after another.
LEMMA BelowIs ==
  ASSUME NEW p \in Pages
  PROVE  /\ Below(p)[0] = {p}
         /\ \A n \in Steps :
              Below(p)[n] = ChildrenOf(IF n = 1 THEN {p} ELSE Below(p)[n - 1] \ {p})
  <1> DEFINE S == SUBSET Pages
             next(n, x) == ChildrenOf(IF n = 1 THEN {p} ELSE x \ {p})
  <1>1. \E f : f = [n \in 0..Height |-> IF n = 0 THEN {p} ELSE next(n, f[n - 1])]
    <2>1. PICK h : h = [n \in 1..Height |-> [x \in S |-> next(n, x)]]
      OBVIOUS
    <2>2. \A n \in 1..Height, x \in S : next(n, x) \in S
      BY DEF ChildrenOf, Live
    <2> HIDE DEF next
    <2>3. h \in [1..Height -> [S -> S]]
      BY <2>1, <2>2
    <2>4. PICK f \in [0..Height -> S] :
             f = [i \in 0..Height |-> IF i = 0 THEN {p} ELSE h[i][f[i - 1]]]
      <3>1. PICK a \in S : a = {p}
        OBVIOUS
      <3> HIDE DEF S
      <3>2. \E f \in [0..Height -> S] :
              f = [i \in 0..Height |-> IF i = 0 THEN a ELSE h[i][f[i - 1]]]
        BY <2>3, <3>1, HeightIsNat, Recursion
      <3>3. QED
        BY <3>1, <3>2
    <2>5. f = [n \in 0..Height |-> IF n = 0 THEN {p} ELSE next(n, f[n - 1])]
      <3>1. \A i \in 0..Height : i # 0 => h[i][f[i - 1]] = next(i, f[i - 1])
        BY <2>1, HeightIsNat
      <3> HIDE DEF S
      <3>2. QED
        BY <2>4, <3>1
    <2>6. QED
      BY <2>5
  <1>2. Below(p) = [n \in 0..Height |-> IF n = 0 THEN {p} ELSE next(n, Below(p)[n - 1])]
    <2>1. {0} \cup Steps = 0..Height
      BY HeightIsNat
    <2>2. QED
      BY <1>1, <2>1, Zenon DEF Below
  <1>3. \A n \in 0..Height :
           Below(p)[n] = IF n = 0 THEN {p} ELSE next(n, Below(p)[n - 1])
    <2> HIDE DEF next
    <2>1. QED
      BY <1>2
  <1>4. 0 \in 0..Height /\ \A n \in Steps : n \in 0..Height /\ n # 0
    BY HeightIsNat
  <1>5. QED
    BY <1>3, <1>4

\* The levels of the tree, from the top.
LEMMA LevelIs ==
  \A n \in 1..MaxDepth : Level[n] = ChildrenOf(IF n = 1 THEN {None} ELSE Level[n - 1])
  <1> DEFINE S == SUBSET (Pages \cup {None})
             next(i, x) == ChildrenOf(IF i = 1 THEN {None} ELSE x)
  <1>1. \E f : f = [i \in 1..MaxDepth |-> next(i, f[i - 1])]
    <2>1. PICK h : h = [i \in 1..MaxDepth |-> [x \in S |-> next(i, x)]]
      OBVIOUS
    <2>2. \A i \in 1..MaxDepth, x \in S : next(i, x) \in S
      BY DEF ChildrenOf, Live
    <2> HIDE DEF next
    <2>3. h \in [1..MaxDepth -> [S -> S]]
      BY <2>1, <2>2
    <2>4. PICK f \in [0..MaxDepth -> S] :
             f = [i \in 0..MaxDepth |-> IF i = 0 THEN {None} ELSE h[i][f[i - 1]]]
      <3>1. PICK a \in S : a = {None}
        OBVIOUS
      <3>2. MaxDepth \in Nat
        BY WikiAssumption
      <3> HIDE DEF S
      <3>3. \E f \in [0..MaxDepth -> S] :
              f = [i \in 0..MaxDepth |-> IF i = 0 THEN a ELSE h[i][f[i - 1]]]
        BY <2>3, <3>2, <3>1, Recursion
      <3>4. QED
        BY <3>1, <3>3
    <2> DEFINE g == [i \in 1..MaxDepth |-> f[i]]
    <2>5. \A i \in 1..MaxDepth : f[i] = next(i, f[i - 1])
      <3>1. \A i \in 1..MaxDepth : i \in 0..MaxDepth /\ i - 1 \in 0..MaxDepth /\ i # 0
        BY WikiAssumption
      <3>2. \A i \in 1..MaxDepth : f[i] = h[i][f[i - 1]]
        BY <2>4, <3>1
      <3>3. \A i \in 1..MaxDepth : f[i - 1] \in S
        BY <2>4, <3>1
      <3> HIDE DEF S
      <3>4. QED
        BY <2>1, <3>2, <3>3
    <2>6. \A i \in 1..MaxDepth : next(i, f[i - 1]) = next(i, g[i - 1])
      <3>1. \A i \in 1..MaxDepth : i # 1 => f[i - 1] = g[i - 1]
        BY WikiAssumption
      <3> HIDE DEF g
      <3>2. QED
        BY <3>1 DEF next
    <2>7. g = [i \in 1..MaxDepth |-> next(i, g[i - 1])]
      <3>1. g = [i \in 1..MaxDepth |-> next(i, f[i - 1])]
        BY <2>5
      <3> HIDE DEF g
      <3>2. QED
        BY <2>6, <3>1
    <2>8. QED
      BY <2>7
  <1>2. Level = [i \in 1..MaxDepth |-> next(i, Level[i - 1])]
    BY <1>1, Zenon DEF Level
  <1>3. QED
    BY <1>2

-----------------------------------------------------------------------------
(* The tree.                                                               *)

\* d gives every live page its level in the tree, of which there are MaxDepth.
Ranked(d) ==
    /\ d \in [Pages -> 1..MaxDepth]
    /\ \A p \in Live : IF page[p].parent = None THEN d[p] = 1
                       ELSE page[p].parent \in Live /\ d[p] = d[page[p].parent] + 1

LEMMA RankTyped ==
  ASSUME NEW d, Ranked(d)
  PROVE  \A p \in Pages : d[p] \in Nat /\ d[p] >= 1 /\ d[p] <= MaxDepth
  <1>1. MaxDepth \in Nat
    BY WikiAssumption
  <1>2. QED
    BY <1>1 DEF Ranked

\* From a live page there is a page of every level up to the top.
LEMMA LevelsAbove ==
  ASSUME NEW d, Ranked(d), NEW x \in Live
  PROVE  \A k \in 1..d[x] : \E y \in Live : d[y] = k
  <1> DEFINE T == {j \in Nat : j < d[x] => \E y \in Live : d[y] = d[x] - j}
  <1>1. \A y \in Live : y \in Pages /\ d[y] \in Nat /\ d[y] >= 1
    BY RankTyped DEF Live
  <1>2. 0 \in T
    <2>1. d[x] = d[x] - 0
      BY <1>1
    <2>2. QED
      BY <2>1
  <1>3. ASSUME NEW j \in Nat, j \in T PROVE j + 1 \in T
    <2>1. SUFFICES ASSUME j + 1 < d[x] PROVE \E y \in Live : d[y] = d[x] - (j + 1)
      OBVIOUS
    <2>2. j < d[x]
      BY <1>1, <2>1
    <2>3. PICK y \in Live : d[y] = d[x] - j
      BY <1>3, <2>2
    <2>4. d[y] # 1
      BY <1>1, <2>1, <2>3
    <2>5. page[y].parent \in Live /\ d[y] = d[page[y].parent] + 1
      BY <2>4 DEF Ranked
    <2>6. d[page[y].parent] = d[x] - (j + 1)
      BY <1>1, <2>3, <2>5
    <2>7. QED
      BY <2>5, <2>6
  <1>4. Nat \subseteq T
    <2> HIDE DEF T
    <2>1. QED
      BY <1>2, <1>3, Induct
  <1>5. ASSUME NEW k \in 1..d[x] PROVE \E y \in Live : d[y] = k
    <2>1. d[x] - k \in Nat /\ d[x] - k < d[x] /\ d[x] - (d[x] - k) = k
      BY <1>1, <1>5
    <2>2. d[x] - k \in T
      BY <1>4, <2>1
    <2>3. QED
      BY <2>1, <2>2
  <1>6. QED
    BY <1>5

\* The numbers 1..k are no more than the pages of which they are the levels.
LEMMA Counted ==
  ASSUME NEW k \in Nat, NEW Y \in SUBSET Pages, NEW f,
         \A i \in 1..k : \E y \in Y : f[y] = i
  PROVE  IsFiniteSet(Y) /\ Cardinality(Y) \in Nat /\ k <= Cardinality(Y)
  <1>1. IsFiniteSet(Y)
    BY WikiAssumption, FS_Subset
  <1> DEFINE g == [y \in Y |-> IF f[y] \in 1..k THEN f[y] ELSE k]
  <1>2. CASE k = 0
    BY <1>1, <1>2, FS_CardinalityType
  <1>3. CASE k # 0
    <2>1. g \in Surjection(Y, 1..k)
      <3>1. g \in [Y -> 1..k]
        BY <1>3
      <3>2. \A i \in 1..k : \E y \in Y : g[y] = i
        OBVIOUS
      <3> HIDE DEF g
      <3>3. QED
        BY <3>1, <3>2 DEF Surjection
    <2>2. Cardinality(1..k) <= Cardinality(Y)
      BY <1>1, <2>1, FS_Surjection
    <2>3. Cardinality(1..k) = k
      BY FS_Interval
    <2>4. QED
      BY <1>1, <2>2, <2>3, FS_CardinalityType
  <1>4. QED
    BY <1>2, <1>3

\* No page is further down than there are pages.
LEMMA RankBound ==
  ASSUME NEW d, Ranked(d), NEW x \in Live
  PROVE  d[x] \in 1..Height
  <1>1. d[x] \in Nat /\ d[x] >= 1
    BY RankTyped DEF Live
  <1>2. \A k \in 1..d[x] : \E y \in Live : d[y] = k
    BY LevelsAbove
  <1>3. \A k \in 1..d[x] : \E y \in Pages : d[y] = k
    BY <1>2 DEF Live
  <1>4. d[x] <= Height
    BY <1>1, <1>3, Counted DEF Height
  <1>5. QED
    BY <1>1, <1>4, HeightIsNat

\* The tree that get_wiki_tree builds holds every live page.
LEMMA EveryPage ==
  ASSUME NEW d, Ranked(d)
  PROVE  Live = UNION {Level[n] : n \in 1..MaxDepth}
  <1>8. None \notin Pages /\ MaxDepth \in Nat
    BY WikiAssumption
  <1>1. \A y \in Live : y \in Pages /\ d[y] \in Nat /\ d[y] >= 1 /\ d[y] <= MaxDepth
    BY RankTyped DEF Live
  <1> DEFINE T == {j \in Nat : j + 1 <= MaxDepth => Level[j + 1] = {y \in Live : d[y] = j + 1}}
  <1>2. 0 \in T
    <2>1. SUFFICES ASSUME 1 <= MaxDepth PROVE Level[1] = {y \in Live : d[y] = 1}
      OBVIOUS
    <2>2. 1 \in 1..MaxDepth
      BY <1>8, <2>1
    <2>3. Level[1] = ChildrenOf({None})
      BY <2>2, LevelIs
    <2>4. \A y \in Live : d[y] = 1 <=> page[y].parent = None
      BY <1>1 DEF Ranked
    <2>5. QED
      BY <2>3, <2>4 DEF ChildrenOf
  <1>3. ASSUME NEW j \in Nat, j \in T PROVE j + 1 \in T
    <2>1. SUFFICES ASSUME (j + 1) + 1 <= MaxDepth
                   PROVE  Level[(j + 1) + 1] = {y \in Live : d[y] = (j + 1) + 1}
      OBVIOUS
    <2>2. /\ (j + 1) + 1 \in 1..MaxDepth /\ (j + 1) + 1 # 1 /\ ((j + 1) + 1) - 1 = j + 1
          /\ j + 1 <= MaxDepth
      BY <1>8, <2>1
    <2>3. Level[(j + 1) + 1] = ChildrenOf(Level[j + 1])
      BY <2>2, LevelIs
    <2>4. Level[j + 1] = {y \in Live : d[y] = j + 1}
      BY <1>3, <2>2
    <2>5. \A y \in Live : d[y] = (j + 1) + 1 <=>
             page[y].parent \in Live /\ d[page[y].parent] = j + 1
      <3> SUFFICES ASSUME NEW y \in Live
                   PROVE  d[y] = (j + 1) + 1 <=>
                            page[y].parent \in Live /\ d[page[y].parent] = j + 1
        OBVIOUS
      <3>1. CASE page[y].parent = None
        <4>1. d[y] = 1 /\ page[y].parent \notin Live
          BY <1>8, <1>1, <3>1 DEF Ranked
        <4>2. QED
          BY <4>1
      <3>2. CASE page[y].parent # None
        <4>1. page[y].parent \in Live /\ d[y] = d[page[y].parent] + 1
          BY <3>2 DEF Ranked
        <4>2. d[page[y].parent] \in Nat
          BY <1>1, <4>1
        <4>3. QED
          BY <4>1, <4>2
      <3>3. QED
        BY <3>1, <3>2
    <2>6. QED
      BY <2>3, <2>4, <2>5 DEF ChildrenOf
  <1>4. Nat \subseteq T
    <2> HIDE DEF T
    <2>1. QED
      BY <1>2, <1>3, Induct
  <1>5. ASSUME NEW n \in 1..MaxDepth PROVE Level[n] = {y \in Live : d[y] = n}
    <2>1. n - 1 \in Nat /\ (n - 1) + 1 = n /\ n <= MaxDepth
      BY <1>8
    <2>2. n - 1 \in T
      BY <1>4, <2>1
    <2>3. QED
      BY <2>1, <2>2
  <1>6. \A y \in Live : d[y] \in 1..MaxDepth
    BY <1>8, <1>1
  <1>7. QED
    BY <1>5, <1>6

\* A page is one level below its parent, in the levels of any page that is live.
LEMMA BelowParent ==
  ASSUME NEW p \in Pages, NEW n \in Steps, NEW x \in Below(p)[n]
  PROVE  /\ x \in Live
         /\ IF n = 1 THEN page[x].parent = p
            ELSE page[x].parent \in Below(p)[n - 1] /\ page[x].parent # p
  <1>1. x \in ChildrenOf(IF n = 1 THEN {p} ELSE Below(p)[n - 1] \ {p})
    BY BelowIs
  <1>2. QED
    BY <1>1 DEF ChildrenOf

LEMMA BelowRank ==
  ASSUME NEW d, Ranked(d), NEW p \in Live
  PROVE  \A n \in Steps : \A x \in Below(p)[n] : d[x] = d[p] + n
  <1> DEFINE T == {j \in Nat : j + 1 \in Steps =>
                                 \A x \in Below(p)[j + 1] : d[x] = d[p] + (j + 1)}
  <1>1. p \in Pages /\ None \notin Live
    BY WikiAssumption DEF Live
  <1>2. 0 \in T
    <2>1. SUFFICES ASSUME 1 \in Steps, NEW x \in Below(p)[1] PROVE d[x] = d[p] + 1
      OBVIOUS
    <2>2. x \in Live /\ page[x].parent = p
      BY <1>1, <2>1, BelowParent
    <2>3. QED
      BY <1>1, <2>2 DEF Ranked
  <1>3. ASSUME NEW j \in Nat, j \in T PROVE j + 1 \in T
    <2>1. SUFFICES ASSUME (j + 1) + 1 \in Steps, NEW x \in Below(p)[(j + 1) + 1]
                   PROVE  d[x] = d[p] + ((j + 1) + 1)
      OBVIOUS
    <2>2. j + 1 \in Steps /\ (j + 1) + 1 # 1 /\ ((j + 1) + 1) - 1 = j + 1
      BY <2>1, HeightIsNat
    <2>3. x \in Live /\ page[x].parent \in Below(p)[j + 1]
      BY <1>1, <2>1, <2>2, BelowParent
    <2>4. d[page[x].parent] = d[p] + (j + 1) /\ page[x].parent \in Live
      BY <1>1, <1>3, <2>2, <2>3, BelowParent
    <2>5. d[x] = d[page[x].parent] + 1
      BY <1>1, <2>3, <2>4 DEF Ranked
    <2>6. d[p] \in Nat
      BY <1>1, RankTyped
    <2>7. QED
      BY <2>4, <2>5, <2>6
  <1>4. Nat \subseteq T
    <2> HIDE DEF T
    <2>1. QED
      BY <1>2, <1>3, Induct
  <1>5. ASSUME NEW n \in Steps, NEW x \in Below(p)[n] PROVE d[x] = d[p] + n
    <2>1. n - 1 \in Nat /\ (n - 1) + 1 = n
      BY HeightIsNat
    <2>2. n - 1 \in T
      BY <1>4, <2>1
    <2>3. QED
      BY <1>5, <2>1, <2>2
  <1>6. QED
    BY <1>5

\* What is below a page of its subtree is in its subtree, to the last level.
LEMMA SubtreeClosed ==
  ASSUME NEW d, Ranked(d), NEW p \in Live, NEW x \in Live, page[x].parent \in Subtree(p)
  PROVE  x \in Subtree(p)
  <1>1. p \in Pages /\ None \notin Live
    BY WikiAssumption DEF Live
  <1>2. Height \in Nat /\ Steps = 1..Height
    BY HeightIsNat
  <1>3. d[x] \in 1..Height /\ d[p] \in 1..Height
    BY RankBound
  <1>4. CASE page[x].parent = p
    <2>1. 1 \in Steps
      BY <1>2, <1>3
    <2>2. Below(p)[1] = ChildrenOf({p})
      BY <1>1, <2>1, BelowIs
    <2>3. x \in Below(p)[1]
      BY <1>4, <2>2 DEF ChildrenOf
    <2>4. QED
      BY <2>1, <2>3 DEF Subtree
  <1>5. CASE page[x].parent # p
    <2>1. PICK n \in Steps : page[x].parent \in Below(p)[n]
      BY <1>5 DEF Subtree
    <2>2. page[x].parent \in Live /\ d[page[x].parent] = d[p] + n
      BY <1>1, <2>1, BelowRank, BelowParent
    <2>3. d[x] = (d[p] + n) + 1
      BY <1>1, <2>2 DEF Ranked
    <2>4. n + 1 \in Steps /\ n + 1 # 1 /\ (n + 1) - 1 = n
      BY <1>2, <1>3, <2>3
    <2>5. Below(p)[n + 1] = ChildrenOf(Below(p)[n] \ {p})
      BY <1>1, <2>4, BelowIs
    <2>6. x \in Below(p)[n + 1]
      BY <1>5, <2>1, <2>5 DEF ChildrenOf
    <2>7. QED
      BY <2>4, <2>6 DEF Subtree
  <1>6. QED
    BY <1>4, <1>5

LEMMA SubtreeParents ==
  ASSUME NEW p \in Pages, NEW x \in Subtree(p), x # p
  PROVE  x \in Live /\ page[x].parent \in Subtree(p)
  <1>1. PICK n \in Steps : x \in Below(p)[n]
    BY DEF Subtree
  <1>2. CASE n = 1
    BY <1>1, <1>2, BelowParent DEF Subtree
  <1>3. CASE n # 1
    <2>1. n - 1 \in Steps
      BY <1>3, HeightIsNat
    <2>2. x \in Live /\ page[x].parent \in Below(p)[n - 1]
      BY <1>1, <1>3, BelowParent
    <2>3. QED
      BY <2>1, <2>2 DEF Subtree
  <1>4. QED
    BY <1>2, <1>3

\* Where a level below a page has pages, so has every level before it.
LEMMA LevelsBelow ==
  ASSUME NEW p \in Pages, NEW n \in Steps, Below(p)[n] # {}
  PROVE  \A k \in 1..n : k \in Steps /\ Below(p)[k] # {}
  <1> DEFINE T == {j \in Nat : j < n => Below(p)[n - j] # {}}
  <1>1. n \in Nat /\ n >= 1 /\ Height \in Nat /\ Steps = 1..Height /\ n <= Height
    BY HeightIsNat
  <1>2. 0 \in T
    <2>1. n - 0 = n
      BY <1>1
    <2>2. QED
      BY <2>1
  <1>3. ASSUME NEW j \in Nat, j \in T PROVE j + 1 \in T
    <2>1. SUFFICES ASSUME j + 1 < n PROVE Below(p)[n - (j + 1)] # {}
      OBVIOUS
    <2>2. j < n /\ n - j \in Steps /\ n - j # 1 /\ (n - j) - 1 = n - (j + 1)
      BY <1>1, <2>1
    <2>3. PICK x : x \in Below(p)[n - j]
      BY <1>3, <2>2
    <2>4. PICK i \in Steps : i = n - j
      BY <2>2
    <2>5. page[x].parent \in Below(p)[i - 1]
      <3>1. x \in Below(p)[i] /\ i # 1
        BY <2>2, <2>3, <2>4
      <3>2. QED
        BY <3>1, BelowParent
    <2>6. QED
      BY <2>2, <2>4, <2>5
  <1>4. Nat \subseteq T
    <2> HIDE DEF T
    <2>1. QED
      BY <1>2, <1>3, Induct
  <1>5. ASSUME NEW k \in 1..n PROVE k \in Steps /\ Below(p)[k] # {}
    <2>1. n - k \in Nat /\ n - k < n /\ n - (n - k) = k /\ k \in Steps
      BY <1>1
    <2>2. n - k \in T
      BY <1>4, <2>1
    <2>3. QED
      BY <2>1, <2>2
  <1>6. QED
    BY <1>5

LEMMA DepthIsNat ==
  ASSUME NEW p \in Pages
  PROVE  SubtreeDepth(p) \in Nat
  <1>1. IsFiniteSet(Steps)
    BY HeightIsNat, FS_Interval
  <1>2. IsFiniteSet({n \in Steps : Below(p)[n] # {}})
    BY <1>1, FS_Subset
  <1>3. QED
    BY <1>2, FS_CardinalityType DEF SubtreeDepth

\* SubtreeDepth says how far the subtree goes down.
LEMMA SubtreeDeep ==
  ASSUME NEW d, Ranked(d), NEW p \in Live, NEW x \in Subtree(p)
  PROVE  d[x] <= d[p] + SubtreeDepth(p) /\ d[x] >= d[p]
  <1>1. p \in Pages
    BY DEF Live
  <1>2. d[p] \in Nat /\ SubtreeDepth(p) \in Nat
    BY <1>1, RankTyped, DepthIsNat
  <1>3. CASE x = p
    BY <1>2, <1>3
  <1>4. CASE x # p
    <2>1. PICK n \in Steps : x \in Below(p)[n]
      BY <1>4 DEF Subtree
    <2>2. d[x] = d[p] + n
      BY <2>1, BelowRank
    <2> DEFINE L == {k \in Steps : Below(p)[k] # {}}
    <2>3. 1..n \subseteq L
      BY <1>1, <2>1, LevelsBelow
    <2>4. n \in Nat /\ IsFiniteSet(Steps)
      BY HeightIsNat, FS_Interval
    <2>5. IsFiniteSet(L)
      BY <2>4, FS_Subset
    <2>6. Cardinality(1..n) <= Cardinality(L)
      BY <2>3, <2>5, FS_Subset
    <2>7. Cardinality(1..n) = n
      BY <2>4, FS_Interval
    <2>8. n <= SubtreeDepth(p)
      BY <2>6, <2>7 DEF SubtreeDepth
    <2>9. QED
      BY <1>2, <2>2, <2>4, <2>8
  <1>5. QED
    BY <1>3, <1>4

LEMMA AboveTyped ==
  ASSUME PagesTyped, NEW q \in Live
  PROVE  /\ \A n \in Steps : Above(q)[n] \in Live \cup {None}
         /\ Ancestors(q) \in SUBSET Pages
  <1> DEFINE T == {j \in Nat : j <= Height => Above(q)[j] \in Live \cup {None}}
  <1>1. Height \in Nat /\ Steps = 1..Height
    BY HeightIsNat
  <1>2. 0 \in T
    BY AboveIs
  <1>3. ASSUME NEW j \in Nat, j \in T PROVE j + 1 \in T
    <2>1. SUFFICES ASSUME j + 1 <= Height PROVE Above(q)[j + 1] \in Live \cup {None}
      OBVIOUS
    <2>2. j + 1 \in Steps /\ (j + 1) - 1 = j /\ j <= Height
      BY <1>1, <2>1
    <2>3. PICK i \in Steps : i = j + 1
      BY <2>2
    <2>4. Above(q)[i] = ParentOf(Above(q)[i - 1])
      BY AboveIs
    <2>5. Above(q)[j] \in Live \cup {None}
      BY <1>3, <2>2
    <2>6. ParentOf(Above(q)[j]) \in Live \cup {None}
      BY <2>5, ParentTyped
    <2>7. QED
      BY <2>2, <2>3, <2>4, <2>6
  <1>4. Nat \subseteq T
    <2> HIDE DEF T
    <2>1. QED
      BY <1>2, <1>3, Induct
  <1>5. ASSUME NEW n \in Steps PROVE Above(q)[n] \in Live \cup {None}
    <2>1. n \in Nat /\ n <= Height
      BY <1>1
    <2>2. n \in T
      BY <1>4, <2>1
    <2>3. QED
      BY <2>1, <2>2
  <1>6. QED
    BY <1>5 DEF Ancestors, Live

\* A page that is not among the pages above q, and is not q, has not q below it.
LEMMA NotBelow ==
  ASSUME PagesTyped, NEW p \in Live, NEW q \in Live, p # q, p \notin Ancestors(q)
  PROVE  q \notin Subtree(p)
  <1>1. SUFFICES ASSUME NEW n \in Steps, q \in Below(p)[n] PROVE FALSE
    BY DEF Subtree
  <1>2. n \in Nat /\ n >= 1 /\ Height \in Nat /\ Steps = 1..Height /\ n <= Height
    BY HeightIsNat
  <1>3. p \in Pages /\ None \notin Live
    BY WikiAssumption DEF Live
  <1> DEFINE T == {j \in Nat : j < n => Above(q)[j] \in Below(p)[n - j]}
  <1>4. 0 \in T
    <2>1. n - 0 = n /\ Above(q)[0] = q
      BY <1>2, AboveIs
    <2>2. QED
      BY <1>1, <2>1
  <1>5. ASSUME NEW j \in Nat, j \in T PROVE j + 1 \in T
    <2>1. SUFFICES ASSUME j + 1 < n PROVE Above(q)[j + 1] \in Below(p)[n - (j + 1)]
      OBVIOUS
    <2>2. /\ j < n /\ n - j \in Steps /\ n - j # 1 /\ (n - j) - 1 = n - (j + 1)
          /\ j + 1 \in Steps /\ (j + 1) - 1 = j /\ n - (j + 1) \in Steps
      BY <1>2, <2>1
    <2>3. PICK i \in Steps : i = n - j
      BY <2>2
    <2>4. PICK y \in Below(p)[i] : y = Above(q)[j]
      BY <1>5, <2>2, <2>3
    <2>5. y \in Live /\ page[y].parent \in Below(p)[i - 1]
      BY <1>3, <2>2, <2>3, <2>4, BelowParent
    <2>6. page[y].parent \in Live
      <3>1. PICK k \in Steps : k = i - 1
        BY <2>2, <2>3
      <3>2. QED
        BY <1>3, <2>5, <3>1, BelowParent
    <2>7. ParentOf(y) = page[y].parent
      BY <1>3, <2>5, <2>6 DEF ParentOf, Live
    <2>8. PICK m \in Steps : m = j + 1
      BY <2>2
    <2>9. Above(q)[m] = ParentOf(Above(q)[m - 1])
      BY AboveIs
    <2>10. QED
      BY <2>2, <2>3, <2>4, <2>5, <2>7, <2>8, <2>9
  <1>6. Nat \subseteq T
    <2> HIDE DEF T
    <2>1. QED
      BY <1>4, <1>5, Induct
  <1>7. n - 1 \in T
    BY <1>2, <1>6
  <1>8. Above(q)[n - 1] \in Below(p)[1] /\ 1 \in Steps
    <2>1. n - 1 < n /\ n - (n - 1) = 1 /\ 1 \in Steps
      BY <1>2
    <2>2. QED
      BY <1>7, <2>1
  <1>9. PICK y \in Below(p)[1] : y = Above(q)[n - 1]
    BY <1>8
  <1>10. y \in Live /\ page[y].parent = p
    BY <1>3, <1>8, BelowParent
  <1>11. ParentOf(y) = p
    BY <1>3, <1>10 DEF ParentOf, Live
  <1>12. Above(q)[n] = p
    BY <1>9, <1>11, AboveIs
  <1>13. QED
    BY <1>3, <1>12 DEF Ancestors

\* Depth is no less than the level of the page.
LEMMA DepthRank ==
  ASSUME PagesTyped, NEW d, Ranked(d), NEW q \in Live
  PROVE  Depth(q) \in Nat /\ d[q] <= Depth(q)
  <1>1. \A y \in Live : y \in Pages /\ d[y] \in Nat /\ d[y] >= 1
    BY RankTyped DEF Live
  <1>2. Height \in Nat /\ Steps = 1..Height /\ d[q] <= Height
    BY HeightIsNat, RankBound
  <1>3. None \notin Live
    BY WikiAssumption DEF Live
  <1> DEFINE T == {j \in Nat : j < d[q] => Above(q)[j] \in Live /\ d[Above(q)[j]] = d[q] - j}
  <1>4. 0 \in T
    <2>1. d[q] - 0 = d[q] /\ Above(q)[0] = q
      BY <1>1, AboveIs
    <2>2. QED
      BY <2>1
  <1>5. ASSUME NEW j \in Nat, j \in T PROVE j + 1 \in T
    <2>1. SUFFICES ASSUME j + 1 < d[q]
                   PROVE  Above(q)[j + 1] \in Live /\ d[Above(q)[j + 1]] = d[q] - (j + 1)
      OBVIOUS
    <2>2. j < d[q] /\ j + 1 \in Steps /\ (j + 1) - 1 = j
      BY <1>1, <1>2, <2>1
    <2>3. PICK y \in Live : y = Above(q)[j]
      BY <1>5, <2>2
    <2>4. d[y] = d[q] - j
      BY <1>5, <2>2, <2>3
    <2>5. d[y] # 1
      BY <1>1, <2>1, <2>4
    <2>6. page[y].parent \in Live /\ d[y] = d[page[y].parent] + 1
      BY <2>5 DEF Ranked
    <2>7. ParentOf(y) = page[y].parent
      BY <1>3, <2>6 DEF ParentOf, Live
    <2>8. PICK m \in Steps : m = j + 1
      BY <2>2
    <2>9. Above(q)[m] = ParentOf(Above(q)[m - 1])
      BY AboveIs
    <2>10. Above(q)[j + 1] = page[y].parent
      BY <2>2, <2>3, <2>7, <2>8, <2>9
    <2>11. d[page[y].parent] = d[q] - (j + 1)
      BY <1>1, <2>4, <2>6
    <2>12. QED
      BY <2>6, <2>10, <2>11
  <1>6. Nat \subseteq T
    <2> HIDE DEF T
    <2>1. QED
      BY <1>4, <1>5, Induct
  <1>7. ASSUME NEW i \in 1..(d[q] - 1) PROVE \E y \in Ancestors(q) : d[y] = i
    <2>1. d[q] - i \in Nat /\ d[q] - i < d[q] /\ d[q] - (d[q] - i) = i /\ d[q] - i \in Steps
      BY <1>1, <1>2
    <2>2. d[q] - i \in T
      BY <1>6, <2>1
    <2>3. Above(q)[d[q] - i] \in Live /\ d[Above(q)[d[q] - i]] = i
      BY <2>1, <2>2
    <2>4. Above(q)[d[q] - i] \in Ancestors(q)
      BY <1>3, <2>1, <2>3 DEF Ancestors
    <2>5. QED
      BY <2>3, <2>4
  <1>8. d[q] - 1 \in Nat
    BY <1>1
  <1>9. Cardinality(Ancestors(q)) \in Nat /\ d[q] - 1 <= Cardinality(Ancestors(q))
    <2>1. PICK k \in Nat : k = d[q] - 1
      BY <1>8
    <2>2. \A i \in 1..k : \E y \in Ancestors(q) : d[y] = i
      BY <1>7, <2>1
    <2>3. QED
      BY <2>1, <2>2, AboveTyped, Counted
  <1>10. QED
    BY <1>1, <1>9 DEF Depth

-----------------------------------------------------------------------------
(* The inductive invariant.                                                *)

\* The updates of p in progress.
Pending(p) == {r \in Requests : req[r].op = "update" /\ req[r].page = p}

Form(q) ==
    /\ DOMAIN q = {"pc", "op", "page", "from", "parent", "write", "fresh", "text", "number",
                   "rows"}
    /\ q.op \in {"create", "move", "delete", "update"}
    /\ q.pc = "checked" \/ (q.pc = "loaded" /\ q.op = "update")
    /\ q.page \in Pages /\ q.rows \in SUBSET Pages
    /\ q.parent \in Pages \cup {None, Same}
    /\ q.op = "create" => q.parent \in Pages \cup {None}
    /\ q.op = "update" => /\ q.fresh \in 1..MaxUpdates /\ q.text \in Text
                          /\ q.number \in 1..(MaxUpdates + 1)

\* A request names one page, which is there unless it is being created, under an id of its
\* own; but for an update that has only been loaded, the parent it names is another page.
Named(q) ==
    /\ \A p \in q.rows : page[p] # None
    /\ (page[q.page] = None) <=> q.op = "create"
    /\ q.pc = "checked" /\ q.op # "delete" => q.parent # q.page

WikiRequested ==
    /\ DOMAIN req = Requests
    /\ \A r \in Requests : req[r] = Idle \/ (Form(req[r]) /\ Named(req[r]))
    /\ \A r, s \in Requests :
         req[r].pc = "checked" /\ req[r].op = "create" /\ req[s].page = req[r].page => r = s

\* Every update that was begun will increment a number, or has, or has been refused.
Numbered ==
    /\ updates \in 0..MaxUpdates
    /\ saved \in [Pages -> Seq(Revision)]
    /\ \A p \in Pages :
         IF page[p] = None THEN saved[p] = <<>>
         ELSE /\ IsFiniteSet(Pending(p))
              /\ page[p].number + Cardinality(Pending(p)) <= updates + 1

\* A request that is alone finds what it has read as it was when it commits.
Settled(q) ==
    LET parent == IF q.op = "delete" \/ q.pc # "checked" THEN None ELSE q.parent IN
    /\ q.op # "create" => Exists(q.page)
    /\ q.op \in {"move", "update"} => q.from = page[q.page].parent
    /\ q.op = "update" => q.text = page[q.page].text
    /\ q.op = "delete" => q.rows = Subtree(q.page)
    /\ parent \in Pages => ValidParent(q.page, parent)

Whole == alone =>
    /\ \A r, s \in Requests : req[r].pc # "idle" /\ req[s].pc # "idle" => r = s
    /\ \A r \in Requests : req[r].pc # "idle" => Settled(req[r])
    /\ \E d \in [Pages -> 1..MaxDepth] : Ranked(d)

WikiInv == /\ PagesTyped /\ WikiRequested
           /\ Numbered /\ UpdatesCounted
           /\ alone \in BOOLEAN /\ Whole

\* The operators depend on the pages only.
LEMMA SamePages ==
  ASSUME page' = page
  PROVE  /\ Live' = Live
         /\ \A p : Subtree(p)' = Subtree(p)
         /\ \A p, q : ValidParent(p, q)' = ValidParent(p, q)
  <1>1. Live' = Live
    BY DEF Live, Exists
  <1>2. \A ps : ChildrenOf(ps)' = ChildrenOf(ps)
    BY <1>1 DEF ChildrenOf
  <1>3. \A p : Below(p)' = Below(p)
    BY <1>2, Zenon DEF Below
  <1>4. \A p : ParentOf(p)' = ParentOf(p)
    BY DEF ParentOf, Exists
  <1>5. \A p : Above(p)' = Above(p)
    BY <1>4, Zenon DEF Above
  <1>6. \A p : Ancestors(p)' = Ancestors(p)
    BY <1>5 DEF Ancestors
  <1>7. \A p : Subtree(p)' = Subtree(p)
    BY <1>3 DEF Subtree
  <1>8. \A p : SubtreeDepth(p)' = SubtreeDepth(p)
    BY <1>3 DEF SubtreeDepth
  <1>9. \A p, q : ValidParent(p, q)' = ValidParent(p, q)
    BY <1>5, <1>6, <1>8 DEF ValidParent, Circular, Depth, Exists
  <1>10. QED
    BY <1>1, <1>7, <1>9

-----------------------------------------------------------------------------
(* What keeps the tree.                                                    *)

LEMMA ValidRoom ==
  ASSUME PagesTyped, NEW d, Ranked(d), NEW p \in Pages, NEW q \in Pages, ValidParent(p, q)
  PROVE  /\ q \in Live /\ q # p /\ p \notin Ancestors(q)
         /\ d[q] \in Nat /\ SubtreeDepth(p) \in Nat
         /\ d[q] + 1 + SubtreeDepth(p) <= MaxDepth
  <1>1. q \in Live /\ q # p /\ p \notin Ancestors(q)
    BY DEF ValidParent, Circular, Live
  <1>2. d[q] \in Nat /\ SubtreeDepth(p) \in Nat /\ MaxDepth \in Nat
    BY RankTyped, DepthIsNat, WikiAssumption
  <1>3. Depth(q) \in Nat /\ d[q] <= Depth(q)
    BY <1>1, DepthRank
  <1>4. Depth(q) + 1 + SubtreeDepth(p) <= MaxDepth
    BY DEF ValidParent
  <1>5. QED
    BY <1>1, <1>2, <1>3, <1>4

LEMMA RankedIn ==
  ASSUME NEW d, Ranked(d)' PROVE \E e \in [Pages -> 1..MaxDepth] : Ranked(e)'
  BY DEF Ranked

\* What get_wiki_tree reads of the pages is unchanged.
LEMMA TreeUnchanged ==
  ASSUME NEW d, Ranked(d),
         \A x \in Pages : IF page[x] = None THEN page'[x] = None
                          ELSE /\ page'[x] # None /\ page'[x].live = page[x].live
                               /\ page'[x].parent = page[x].parent
  PROVE  Ranked(d)'
  <1>1. Live' = Live
    BY DEF Live, Exists
  <1>2. \A x \in Live : page'[x].parent = page[x].parent
    BY DEF Live, Exists
  <1>3. QED
    BY <1>1, <1>2 DEF Ranked

LEMMA TreeCreate ==
  ASSUME PagesTyped, NEW d, Ranked(d), NEW p \in Pages, page[p] = None,
         NEW q \in Pages \cup {None}, q \in Pages => ValidParent(p, q),
         \A x \in Pages : x # p => page'[x] = page[x],
         page'[p] # None, page'[p].live, page'[p].parent = q
  PROVE  \E e : Ranked(e)'
  <1>1. p \notin Live /\ None \notin Live /\ None \notin Pages
    BY WikiAssumption DEF Live, Exists
  <1>2. Live' = Live \cup {p}
    BY DEF Live, Exists
  <1>3. \A y \in Live : y \in Pages /\ y # p /\ page'[y].parent = page[y].parent
    BY <1>1 DEF Live
  <1>4. PICK k \in 1..MaxDepth : IF q = None THEN k = 1 ELSE q \in Live /\ k = d[q] + 1
    <2>1. CASE q = None
      BY <2>1, WikiAssumption
    <2>2. CASE q # None
      <3>1. q \in Live /\ d[q] \in Nat /\ d[q] + 1 <= MaxDepth /\ MaxDepth \in Nat
        BY <2>2, ValidRoom, WikiAssumption
      <3>2. QED
        BY <2>2, <3>1
    <2>3. QED
      BY <2>1, <2>2
  <1> DEFINE e == [d EXCEPT ![p] = k]
  <1>5. e \in [Pages -> 1..MaxDepth] /\ e[p] = k /\ \A y \in Live : e[y] = d[y]
    BY <1>1, <1>3 DEF Ranked
  <1> HIDE DEF e
  <1>6. ASSUME NEW y \in Live
        PROVE  IF page'[y].parent = None THEN e[y] = 1
               ELSE page'[y].parent \in Live' /\ e[y] = e[page'[y].parent] + 1
    BY <1>2, <1>3, <1>5 DEF Ranked
  <1>7. IF page'[p].parent = None THEN e[p] = 1
        ELSE page'[p].parent \in Live' /\ e[p] = e[page'[p].parent] + 1
    BY <1>2, <1>4, <1>5
  <1>8. Ranked(e)'
    BY <1>2, <1>5, <1>6, <1>7 DEF Ranked
  <1>9. QED
    BY <1>8

\* The subtree goes with the page.
LEMMA TreeMove ==
  ASSUME PagesTyped, NEW d, Ranked(d), NEW p \in Live,
         NEW q \in Pages \cup {None}, q \in Pages => ValidParent(p, q),
         \A x \in Pages : x # p => page'[x] = page[x],
         page'[p] # None, page'[p].live, page'[p].parent = q
  PROVE  \E e : Ranked(e)'
  <1>1. p \in Pages /\ None \notin Live /\ None \notin Pages /\ MaxDepth \in Nat
    BY WikiAssumption DEF Live
  <1>2. Live' = Live
    BY DEF Live, Exists
  <1>3. \A y \in Live : /\ y \in Pages /\ d[y] \in Nat /\ d[y] >= 1 /\ d[y] <= MaxDepth
                        /\ y # p => page'[y].parent = page[y].parent
    BY <1>1, RankTyped DEF Live
  <1>4. PICK k \in Nat : /\ IF q = None THEN k = 1
                            ELSE q \in Live /\ q \notin Subtree(p) /\ k = d[q] + 1
                         /\ k >= 1
                         /\ \A x \in Subtree(p) : (d[x] - d[p]) + k <= MaxDepth
    <2>1. CASE q = None
      <3>1. \A x \in Subtree(p) : (d[x] - d[p]) + 1 <= MaxDepth
        <4>1. \A x \in Subtree(p) : x \in Live
          BY <1>1, SubtreeParents
        <4>2. QED
          BY <1>1, <1>3, <4>1
      <3>2. QED
        BY <2>1, <3>1
    <2>2. CASE q # None
      <3>1. /\ q \in Live /\ q # p /\ p \notin Ancestors(q) /\ d[q] \in Nat
            /\ SubtreeDepth(p) \in Nat /\ d[q] + 1 + SubtreeDepth(p) <= MaxDepth
        BY <1>1, <2>2, ValidRoom
      <3>2. q \notin Subtree(p)
        BY <3>1, NotBelow
      <3>3. \A x \in Subtree(p) : x \in Live /\ d[x] <= d[p] + SubtreeDepth(p)
        BY <1>1, SubtreeParents, SubtreeDeep
      <3>4. \A x \in Subtree(p) : (d[x] - d[p]) + (d[q] + 1) <= MaxDepth
        BY <1>1, <1>3, <3>1, <3>3
      <3>5. d[q] + 1 \in Nat /\ d[q] + 1 >= 1
        BY <3>1
      <3>6. QED
        BY <2>2, <3>1, <3>2, <3>4, <3>5
    <2>3. QED
      BY <2>1, <2>2
  <1>5. \A x \in Subtree(p) : x \in Live /\ d[x] >= d[p]
    BY <1>1, SubtreeParents, SubtreeDeep
  <1> PICK e : e = [x \in Pages |-> IF x \in Subtree(p) THEN (d[x] - d[p]) + k ELSE d[x]]
    OBVIOUS
  <1>6. e \in [Pages -> 1..MaxDepth]
    <2>1. \A x \in Pages : d[x] \in 1..MaxDepth
      BY DEF Ranked
    <2>2. \A x \in Subtree(p) : (d[x] - d[p]) + k \in 1..MaxDepth
      BY <1>1, <1>3, <1>4, <1>5
    <2>3. QED
      BY <2>1, <2>2
  <1>7. ASSUME NEW y \in Live
        PROVE  IF page'[y].parent = None THEN e[y] = 1
               ELSE page'[y].parent \in Live /\ e[y] = e[page'[y].parent] + 1
    <2>1. CASE y = p
      <3>1. p \in Subtree(p)
        BY DEF Subtree
      <3>2. e[p] = k
        BY <1>1, <1>3, <1>4, <3>1
      <3>3. q # None => e[q] = d[q] /\ q \in Live
        BY <1>3, <1>4
      <3>4. QED
        BY <1>4, <2>1, <3>2, <3>3
    <2>2. CASE y # p /\ y \in Subtree(p)
      <3>1. page[y].parent \in Subtree(p)
        BY <1>1, <2>2, SubtreeParents
      <3>2. PICK z \in Live : z = page[y].parent
        BY <1>5, <3>1
      <3>3. z # None /\ d[y] = d[z] + 1 /\ page'[y].parent = z
        BY <1>1, <1>3, <2>2, <3>2 DEF Ranked
      <3>4. e[y] = (d[y] - d[p]) + k /\ e[z] = (d[z] - d[p]) + k
        BY <1>3, <2>2, <3>1, <3>2
      <3>5. d[z] \in Nat /\ d[p] \in Nat
        BY <1>3
      <3>6. e[y] = e[z] + 1
        BY <1>4, <3>3, <3>4, <3>5
      <3>7. QED
        BY <3>3, <3>6
    <2>3. CASE y \notin Subtree(p)
      <3>1. y # p
        BY <2>3 DEF Subtree
      <3>2. page'[y].parent = page[y].parent /\ e[y] = d[y]
        BY <1>3, <2>3, <3>1
      <3>3. CASE page[y].parent = None
        <4>1. d[y] = 1
          BY <3>3 DEF Ranked
        <4>2. QED
          BY <3>2, <3>3, <4>1
      <3>4. CASE page[y].parent # None
        <4>1. page[y].parent \in Live /\ d[y] = d[page[y].parent] + 1
          BY <3>4 DEF Ranked
        <4>2. page[y].parent \notin Subtree(p)
          BY <2>3, SubtreeClosed
        <4>3. e[page[y].parent] = d[page[y].parent]
          BY <1>3, <4>1, <4>2
        <4>4. QED
          BY <3>2, <3>4, <4>1, <4>3
      <3>5. QED
        BY <3>3, <3>4
    <2>4. QED
      BY <2>1, <2>2, <2>3
  <1>8. Ranked(e)'
    <2>1. \A y \in Live' : IF page'[y].parent = None THEN e[y] = 1
                           ELSE page'[y].parent \in Live' /\ e[y] = e[page'[y].parent] + 1
      BY <1>2, <1>7
    <2>2. QED
      BY <1>6, <2>1, Zenon DEF Ranked
  <1>9. QED
    BY <1>8

\* The subtree goes with the page.
LEMMA TreeDelete ==
  ASSUME PagesTyped, NEW d, Ranked(d), NEW p \in Live,
         \A x \in Pages : IF x \in Subtree(p) THEN ~ page'[x].live ELSE page'[x] = page[x]
  PROVE  Ranked(d)'
  <1>1. Live' = Live \ Subtree(p)
    BY DEF Live, Exists
  <1>2. ASSUME NEW y \in Live, y \notin Subtree(p)
        PROVE  /\ page'[y].parent = page[y].parent
               /\ page[y].parent # None => page[y].parent \in Live \ Subtree(p)
    <2>1. page'[y].parent = page[y].parent
      BY <1>2 DEF Live
    <2>2. page[y].parent \notin Subtree(p)
      BY <1>2, SubtreeClosed
    <2>3. QED
      BY <2>1, <2>2 DEF Ranked
  <1>3. QED
    BY <1>1, <1>2 DEF Ranked

-----------------------------------------------------------------------------
(* The requests.                                                           *)

LEMMA IdleNames == /\ Idle.pc = "idle" /\ Idle.page = None /\ Idle.rows = {}
                   /\ Idle.parent = Same /\ None \notin Pages
  BY WikiAssumption DEF Idle

\* A request that is in progress.
LEMMA InProgress ==
  ASSUME WikiRequested, NEW r \in Requests, req[r].pc # "idle"
  PROVE  Form(req[r]) /\ Named(req[r])
  BY IdleNames DEF WikiRequested

LEMMA NoPending ==
  ASSUME WikiRequested, NEW r \in Requests, req[r].pc = "idle"
  PROVE  req[r] = Idle /\ \A p \in Pages : r \notin Pending(p)
  <1>1. req[r] = Idle
    BY DEF WikiRequested, Form
  <1>2. QED
    BY <1>1, IdleNames DEF Pending

LEMMA BeginReq ==
  ASSUME WikiRequested, NEW r \in Requests, NEW q, Begin(r, q)
  PROVE  /\ DOMAIN req' = Requests /\ req'[r] = q /\ req[r] = Idle
         /\ \A s \in Requests : s # r => req'[s] = req[s]
  <1>1. req[r] = Idle
    BY NoPending DEF Begin
  <1>2. QED
    BY <1>1 DEF Begin, WikiRequested

LEMMA EndReq ==
  ASSUME WikiRequested, NEW r \in Requests, End(r)
  PROVE  /\ DOMAIN req' = Requests /\ req'[r] = Idle
         /\ \A s \in Requests : s # r => req'[s] = req[s]
  BY DEF End, WikiRequested

LEMMA BeginRequested ==
  ASSUME WikiRequested, NEW r \in Requests, NEW q, Begin(r, q), page' = page,
         Form(q), Named(q),
         q.op = "create" => \A s \in Requests : req[s].page # q.page
  PROVE  WikiRequested'
  <1>1. /\ DOMAIN req' = Requests /\ req'[r] = q /\ req[r] = Idle
        /\ \A s \in Requests : s # r => req'[s] = req[s]
    BY BeginReq
  <1>2. \A s \in Requests : req'[s] = Idle \/ (Form(req[s])' /\ Named(req[s])')
    <2>1. SUFFICES ASSUME NEW s \in Requests
                   PROVE  req'[s] = Idle \/ (Form(req[s])' /\ Named(req[s])')
      OBVIOUS
    <2>2. CASE s = r
      BY <1>1, <2>2 DEF Named
    <2>3. CASE s # r
      BY <1>1, <2>3 DEF WikiRequested, Named
    <2>4. QED
      BY <2>2, <2>3
  <1>3. ASSUME NEW s \in Requests, NEW t \in Requests,
               req'[s].pc = "checked", req'[s].op = "create", req'[t].page = req'[s].page,
               s # t
        PROVE  FALSE
    <2>1. CASE s = r
      BY <1>1, <1>3, <2>1
    <2>2. CASE s # r /\ t = r
      <3>1. req[s].pc = "checked" /\ req[s].op = "create" /\ q.page = req[s].page
        BY <1>1, <1>3, <2>2
      <3>2. page[q.page] = None
        BY <3>1, InProgress DEF Named
      <3>3. q.op = "create"
        BY <3>2 DEF Named
      <3>4. QED
        BY <3>1, <3>3
    <2>3. CASE s # r /\ t # r
      BY <1>1, <1>3, <2>3 DEF WikiRequested
    <2>4. QED
      BY <2>1, <2>2, <2>3
  <1>4. QED
    BY <1>1, <1>2, <1>3 DEF WikiRequested, Form, Named

\* A page that a step creates is the one the request names.
LEMMA EndRequested ==
  ASSUME WikiRequested, NEW r \in Requests, End(r),
         \A p \in Pages : page[p] # None => page'[p] # None,
         \A p \in Pages : page[p] = None /\ page'[p] # None =>
            req[r].pc = "checked" /\ req[r].op = "create" /\ p = req[r].page
  PROVE  WikiRequested'
  <1>1. /\ DOMAIN req' = Requests /\ req'[r] = Idle
        /\ \A s \in Requests : s # r => req'[s] = req[s]
    BY EndReq
  <1>2. \A s \in Requests : req'[s] = Idle \/ (Form(req[s])' /\ Named(req[s])')
    <2>1. SUFFICES ASSUME NEW s \in Requests, req'[s] # Idle
                   PROVE  Form(req[s])' /\ Named(req[s])'
      OBVIOUS
    <2>2. s # r /\ req'[s] = req[s] /\ Form(req[s]) /\ Named(req[s])
      BY <1>1, <2>1 DEF WikiRequested
    <2>3. req[s].page \in Pages /\ req[s].rows \in SUBSET Pages
      BY <2>2 DEF Form
    <2>4. page[req[s].page] = None => page'[req[s].page] = None
      <3>1. SUFFICES ASSUME page[req[s].page] = None, page'[req[s].page] # None PROVE FALSE
        OBVIOUS
      <3>2. /\ req[r].pc = "checked" /\ req[r].op = "create" /\ req[s].page = req[r].page
        BY <2>3, <3>1
      <3>3. QED
        BY <2>2, <3>2 DEF WikiRequested
    <2>5. QED
      BY <2>2, <2>3, <2>4 DEF Named
  <1>3. \A s, t \in Requests :
           /\ req'[s].pc = "checked" /\ req'[s].op = "create" /\ req'[t].page = req'[s].page
           => s = t
    <2>1. SUFFICES ASSUME NEW s \in Requests, NEW t \in Requests, req'[s].pc = "checked",
                          req'[s].op = "create", req'[t].page = req'[s].page
                   PROVE  s = t
      OBVIOUS
    <2>2. s # r /\ req'[s] = req[s]
      BY <1>1, <2>1, IdleNames
    <2>3. req[s].page \in Pages
      BY <2>1, <2>2, InProgress DEF Form
    <2>4. t # r /\ req'[t] = req[t]
      BY <1>1, <2>1, <2>2, <2>3, IdleNames
    <2>5. QED
      BY <2>1, <2>2, <2>4 DEF WikiRequested
  <1>4. QED
    BY <1>1, <1>2, <1>3 DEF WikiRequested, Form, Named

LEMMA BeginWhole ==
  ASSUME WikiRequested, Whole, NEW r \in Requests, NEW q, Begin(r, q), page' = page,
         alone' = alone, q.pc # "idle", Settled(q)
  PROVE  Whole'
  <1>1. SUFFICES ASSUME alone
                 PROVE  /\ \A s, t \in Requests : req'[s].pc # "idle" /\ req'[t].pc # "idle"
                                                    => s = t
                        /\ \A s \in Requests : req'[s].pc # "idle" => Settled(req[s])'
                        /\ (\E d \in [Pages -> 1..MaxDepth] : Ranked(d))'
    BY Zenon DEF Whole
  <1>2. req'[r] = q /\ \A s \in Requests : s # r => req'[s] = req[s] /\ req[s].pc = "idle"
    BY <1>1, BeginReq DEF Begin
  <1>3. Settled(q)'
    BY SamePages DEF Settled, Exists
  <1>4. (\E d \in [Pages -> 1..MaxDepth] : Ranked(d))'
    BY <1>1, SamePages DEF Whole, Ranked
  <1>5. ASSUME NEW s \in Requests, req'[s].pc # "idle" PROVE s = r /\ Settled(req[s])'
    <2>1. s = r
      BY <1>2, <1>5
    <2>2. Settled(req[s])' <=> Settled(q)'
      BY <1>2, <2>1 DEF Settled
    <2>3. QED
      BY <1>3, <2>1, <2>2
  <1>6. QED
    BY <1>4, <1>5

LEMMA EndWhole ==
  ASSUME WikiRequested, Whole, NEW r \in Requests, End(r), req[r].pc # "idle",
         alone' = alone, alone => \E d : Ranked(d)'
  PROVE  Whole'
  <1>1. SUFFICES ASSUME alone
                 PROVE  /\ \A s \in Requests : req'[s].pc = "idle"
                        /\ (\E d \in [Pages -> 1..MaxDepth] : Ranked(d))'
    BY DEF Whole
  <1>2. \A s \in Requests : req'[s].pc = "idle"
    BY <1>1, EndReq, IdleNames DEF Whole
  <1>3. QED
    BY <1>1, <1>2, RankedIn

\* What a request that begins leaves as it is.
LEMMA BeginNumbered ==
  ASSUME WikiRequested, Numbered, UpdatesCounted, NEW r \in Requests, NEW q, Begin(r, q),
         q.op # "update", UNCHANGED <<page, saved, updates>>
  PROVE  Numbered' /\ UpdatesCounted'
  <1>1. \A s \in Requests : IF s = r THEN req'[s] = q ELSE req'[s] = req[s]
    BY BeginReq
  <1>2. \A p \in Pages : Pending(p)' = Pending(p)
    <2>1. \A p \in Pages : r \notin Pending(p)
      BY NoPending DEF Begin
    <2>2. QED
      BY <1>1, <2>1 DEF Pending
  <1>3. QED
    BY <1>2 DEF Numbered, UpdatesCounted

LEMMA EndNumbered ==
  ASSUME WikiRequested, Numbered, UpdatesCounted, PagesTyped, NEW r \in Requests, End(r),
         UNCHANGED <<saved, updates>>,
         \A p \in Pages : IF page[p] # None
                            THEN page'[p] # None /\ page'[p].number = page[p].number
                            ELSE page'[p] # None => page'[p].number = 1
  PROVE  Numbered' /\ UpdatesCounted'
  <1>1. \A s \in Requests : IF s = r THEN req'[s] = Idle ELSE req'[s] = req[s]
    BY EndReq
  <1>2. \A p \in Pages : Pending(p)' \subseteq Pending(p)
    BY <1>1, IdleNames DEF Pending
  <1>3. ASSUME NEW p \in Pages, page'[p] # None
        PROVE  /\ IsFiniteSet(Pending(p)')
               /\ page'[p].number + Cardinality(Pending(p)') <= updates + 1
               /\ page'[p].number = 1 + Len(saved[p])
    <2>1. CASE page[p] # None
      <3>1. IsFiniteSet(Pending(p)) /\ page[p].number + Cardinality(Pending(p)) <= updates + 1
        BY <2>1 DEF Numbered
      <3>2. /\ IsFiniteSet(Pending(p)') /\ Cardinality(Pending(p)') <= Cardinality(Pending(p))
            /\ Cardinality(Pending(p)') \in Nat /\ Cardinality(Pending(p)) \in Nat
        BY <1>2, <3>1, FS_Subset, FS_CardinalityType
      <3>3. page'[p].number = page[p].number /\ page[p].number \in Nat
        BY <2>1 DEF PagesTyped, WikiPage
      <3>4. updates \in Nat
        BY WikiAssumption DEF Numbered
      <3>5. page[p].number = 1 + Len(saved[p])
        BY <2>1 DEF UpdatesCounted
      <3>6. QED
        BY <3>1, <3>2, <3>3, <3>4, <3>5
    <2>2. CASE page[p] = None
      <3>1. Pending(p) = {}
        <4>1. SUFFICES ASSUME NEW s \in Requests, req[s].op = "update", req[s].page = p
                       PROVE  FALSE
          BY DEF Pending
        <4>2. Form(req[s]) /\ Named(req[s])
          BY <4>1, IdleNames DEF WikiRequested
        <4>3. QED
          BY <2>2, <4>1, <4>2 DEF Named
      <3>2. Pending(p)' = {}
        BY <1>2, <3>1
      <3>3. IsFiniteSet(Pending(p)') /\ Cardinality(Pending(p)') = 0
        BY <3>2, FS_EmptySet
      <3>4. page'[p].number = 1 /\ Len(saved[p]) = 0 /\ updates \in Nat
        BY <1>3, <2>2, WikiAssumption DEF Numbered
      <3>5. QED
        BY <3>3, <3>4
    <2>3. QED
      BY <2>1, <2>2
  <1>4. \A p \in Pages : page'[p] = None => page[p] = None
    OBVIOUS
  <1>5. Numbered'
    <2>1. \A p \in Pages : page'[p] = None => saved[p] = <<>>
      BY <1>4 DEF Numbered
    <2>2. QED
      BY <1>3, <2>1 DEF Numbered
  <1>6. UpdatesCounted'
    BY <1>3 DEF UpdatesCounted
  <1>7. QED
    BY <1>5, <1>6

LEMMA ExistsIn ==
  ASSUME NEW p \in Pages, Exists(p)
  PROVE  page[p] # None /\ p \in Live
  BY DEF Exists, Live

LEMMA CheckCreateKeeps ==
  ASSUME WikiInv, NEW r \in Requests, NEW p \in Pages, NEW parent \in Parent,
         CheckCreate(r, p, parent)
  PROVE  WikiInv'
  <1> DEFINE q == [Idle EXCEPT !.pc = "checked", !.op = "create", !.page = p,
                               !.parent = parent]
  <1>1. /\ Begin(r, q) /\ UNCHANGED <<page, saved, updates, alone>>
        /\ page[p] = None /\ \A s \in Requests : req[s].page # p
        /\ parent # None => ValidParent(p, parent)
    BY DEF CheckCreate
  <1>2. Form(q) /\ q.pc = "checked" /\ q.op = "create" /\ q.page = p /\ q.parent = parent
                /\ q.rows = {}
    BY DEF Form, Idle, Parent
  <1> HIDE DEF q
  <1>3. parent # p
    BY <1>1, WikiAssumption DEF ValidParent
  <1>4. Named(q)
    BY <1>1, <1>2, <1>3 DEF Named
  <1>5. Settled(q)
    BY <1>1, <1>2, WikiAssumption DEF Settled
  <1>6. PICK u : u = q
    OBVIOUS
  <1>7. WikiRequested'
    BY <1>1, <1>2, <1>4, <1>6, BeginRequested DEF WikiInv
  <1>8. Numbered' /\ UpdatesCounted'
    <2>1. u.op # "update"
      BY <1>2, <1>6
    <2>2. QED
      BY <1>1, <1>6, <2>1, BeginNumbered DEF WikiInv
  <1>9. Whole'
    <2>1. u.pc # "idle"
      BY <1>2, <1>6
    <2>2. QED
      BY <1>1, <1>5, <1>6, <2>1, BeginWhole DEF WikiInv
  <1>10. QED
    BY <1>1, <1>7, <1>8, <1>9 DEF WikiInv, PagesTyped

LEMMA CheckMoveKeeps ==
  ASSUME WikiInv, NEW r \in Requests, NEW p \in Pages, NEW parent \in Parent,
         CheckMove(r, p, parent)
  PROVE  WikiInv'
  <1> DEFINE q == [Idle EXCEPT !.pc = "checked", !.op = "move", !.page = p,
                               !.from = page[p].parent, !.parent = parent]
  <1>1. /\ Begin(r, q) /\ UNCHANGED <<page, saved, updates, alone>>
        /\ Exists(p) /\ page[p] # None
        /\ parent # None => ValidParent(p, parent)
    BY DEF CheckMove, Exists
  <1>2. /\ Form(q) /\ q.pc = "checked" /\ q.op = "move" /\ q.page = p /\ q.parent = parent
        /\ q.rows = {} /\ q.from = page[p].parent
    BY DEF Form, Idle, Parent
  <1> HIDE DEF q
  <1>3. parent # p
    BY <1>1, WikiAssumption DEF ValidParent
  <1>4. Named(q)
    BY <1>1, <1>2, <1>3 DEF Named
  <1>5. Settled(q)
    BY <1>1, <1>2, WikiAssumption DEF Settled
  <1>6. PICK u : u = q
    OBVIOUS
  <1>7. WikiRequested'
    <2>1. u.op # "create"
      BY <1>2, <1>6
    <2>2. QED
      BY <1>1, <1>2, <1>4, <1>6, <2>1, BeginRequested DEF WikiInv
  <1>8. Numbered' /\ UpdatesCounted'
    <2>1. u.op # "update"
      BY <1>2, <1>6
    <2>2. QED
      BY <1>1, <1>6, <2>1, BeginNumbered DEF WikiInv
  <1>9. Whole'
    <2>1. u.pc # "idle"
      BY <1>2, <1>6
    <2>2. QED
      BY <1>1, <1>5, <1>6, <2>1, BeginWhole DEF WikiInv
  <1>10. QED
    BY <1>1, <1>7, <1>8, <1>9 DEF WikiInv, PagesTyped

LEMMA CheckDeleteKeeps ==
  ASSUME WikiInv, NEW r \in Requests, NEW p \in Pages, CheckDelete(r, p)
  PROVE  WikiInv'
  <1> DEFINE q == [Idle EXCEPT !.pc = "checked", !.op = "delete", !.page = p,
                               !.rows = Subtree(p)]
  <1>1. /\ Begin(r, q) /\ UNCHANGED <<page, saved, updates, alone>>
        /\ Exists(p) /\ page[p] # None
    BY DEF CheckDelete, Exists
  <1>2. \A x \in Subtree(p) : x \in Pages /\ page[x] # None
    BY <1>1, SubtreeParents DEF Live, Exists
  <1>3. /\ Form(q) /\ q.pc = "checked" /\ q.op = "delete" /\ q.page = p /\ q.parent = Same
        /\ q.rows = Subtree(p)
    <2>1. Subtree(p) \in SUBSET Pages
      BY <1>2
    <2>2. QED
      BY <2>1 DEF Form, Idle
  <1> HIDE DEF q
  <1>4. Named(q)
    BY <1>1, <1>2, <1>3 DEF Named
  <1>5. Settled(q)
    BY <1>1, <1>3, WikiAssumption DEF Settled
  <1>6. PICK u : u = q
    OBVIOUS
  <1>7. WikiRequested'
    <2>1. u.op # "create"
      BY <1>3, <1>6
    <2>2. QED
      BY <1>1, <1>3, <1>4, <1>6, <2>1, BeginRequested DEF WikiInv
  <1>8. Numbered' /\ UpdatesCounted'
    <2>1. u.op # "update"
      BY <1>3, <1>6
    <2>2. QED
      BY <1>1, <1>6, <2>1, BeginNumbered DEF WikiInv
  <1>9. Whole'
    <2>1. u.pc # "idle"
      BY <1>3, <1>6
    <2>2. QED
      BY <1>1, <1>5, <1>6, <2>1, BeginWhole DEF WikiInv
  <1>10. QED
    BY <1>1, <1>7, <1>8, <1>9 DEF WikiInv, PagesTyped

\* The number of a page is within its bound.
LEMMA NumberBound ==
  ASSUME WikiInv, NEW p \in Pages, page[p] # None
  PROVE  /\ page[p].number \in 1..(MaxUpdates + 1)
         /\ updates < MaxUpdates => page[p].number <= MaxUpdates
  <1>1. IsFiniteSet(Pending(p)) /\ page[p].number + Cardinality(Pending(p)) <= updates + 1
    BY DEF WikiInv, Numbered
  <1>2. page[p].number \in Nat /\ page[p].number = 1 + Len(saved[p]) /\ Len(saved[p]) \in Nat
    BY DEF WikiInv, PagesTyped, WikiPage, UpdatesCounted, Numbered
  <1>3. Cardinality(Pending(p)) \in Nat
    BY <1>1, FS_CardinalityType
  <1>4. updates \in 0..MaxUpdates /\ MaxUpdates \in Nat
    BY WikiAssumption DEF WikiInv, Numbered
  <1>5. QED
    BY <1>1, <1>2, <1>3, <1>4

LEMMA LoadKeeps ==
  ASSUME WikiInv, NEW r \in Requests, NEW p \in Pages, NEW write \in Write,
         NEW parent \in Parent \cup {Same}, Load(r, p, write, parent)
  PROVE  WikiInv'
  <1> DEFINE q == [pc |-> "loaded", op |-> "update", page |-> p, from |-> page[p].parent,
                   parent |-> parent, write |-> write, fresh |-> updates + 1,
                   text |-> page[p].text, number |-> page[p].number, rows |-> {}]
  <1>1. /\ Begin(r, q) /\ UNCHANGED <<page, saved, alone>>
        /\ Exists(p) /\ page[p] # None
        /\ updates < MaxUpdates /\ updates' = updates + 1
    BY DEF Load, Exists
  <1>2. updates \in 0..MaxUpdates /\ MaxUpdates \in Nat
    BY WikiAssumption DEF WikiInv, Numbered
  <1>3. /\ Form(q) /\ q.pc = "loaded" /\ q.op = "update" /\ q.page = p
        /\ q.rows = {} /\ q.from = page[p].parent /\ q.text = page[p].text
    <2>1. updates + 1 \in 1..MaxUpdates
      BY <1>1, <1>2
    <2>2. page[p].text \in Text /\ page[p].number \in 1..(MaxUpdates + 1)
      BY <1>1, NumberBound DEF WikiInv, PagesTyped, WikiPage
    <2>3. QED
      BY <2>1, <2>2 DEF Form, Parent
  <1> HIDE DEF q
  <1>4. Named(q)
    BY <1>1, <1>3 DEF Named
  <1>5. Settled(q)
    BY <1>1, <1>3, WikiAssumption DEF Settled
  <1>6. PICK u : u = q
    OBVIOUS
  <1>7. WikiRequested'
    <2>1. u.op # "create"
      BY <1>3, <1>6
    <2>2. QED
      BY <1>1, <1>3, <1>4, <1>6, <2>1, BeginRequested DEF WikiInv
  <1>8. Numbered' /\ UpdatesCounted'
    <2>1. \A s \in Requests : IF s = r THEN req'[s] = q ELSE req'[s] = req[s]
      BY <1>1, <1>6, BeginReq DEF WikiInv
    <2>2. \A x \in Pages : r \notin Pending(x)
      BY <1>1, NoPending DEF Begin, WikiInv
    <2>3. \A x \in Pages : Pending(x)' = IF x = p THEN Pending(x) \cup {r} ELSE Pending(x)
      BY <1>3, <2>1, <2>2 DEF Pending
    <2>4. ASSUME NEW x \in Pages, page[x] # None
          PROVE  /\ IsFiniteSet(Pending(x)')
                 /\ page[x].number + Cardinality(Pending(x)') <= updates' + 1
      <3>1. /\ IsFiniteSet(Pending(x))
            /\ page[x].number + Cardinality(Pending(x)) <= updates + 1
        BY <2>4 DEF WikiInv, Numbered
      <3>2. Cardinality(Pending(x)) \in Nat /\ page[x].number \in Nat
        BY <2>4, <3>1, FS_CardinalityType DEF WikiInv, PagesTyped, WikiPage
      <3>3. /\ IsFiniteSet(Pending(x) \cup {r})
            /\ Cardinality(Pending(x) \cup {r}) = Cardinality(Pending(x)) + 1
        BY <2>2, <3>1, FS_AddElement
      <3>4. CASE x = p
        <4>1. Pending(x)' = Pending(x) \cup {r}
          BY <2>3, <3>4
        <4>2. /\ IsFiniteSet(Pending(x)')
              /\ Cardinality(Pending(x)') = Cardinality(Pending(x)) + 1
          BY <3>3, <4>1
        <4>3. updates' = updates + 1 /\ updates \in Nat
          BY <1>1, <1>2
        <4>4. QED
          BY <3>1, <3>2, <4>2, <4>3
      <3>5. CASE x # p
        <4>1. Pending(x)' = Pending(x)
          BY <2>3, <3>5
        <4>2. updates' = updates + 1 /\ updates \in Nat
          BY <1>1, <1>2
        <4>3. QED
          BY <3>1, <3>2, <4>1, <4>2
      <3>6. QED
        BY <3>4, <3>5
    <2>5. updates' \in 0..MaxUpdates
      BY <1>1, <1>2
    <2>6. Numbered'
      BY <1>1, <2>4, <2>5 DEF WikiInv, Numbered
    <2>7. QED
      BY <1>1, <2>6 DEF WikiInv, UpdatesCounted
  <1>9. Whole'
    <2>1. u.pc # "idle"
      BY <1>3, <1>6
    <2>2. QED
      BY <1>1, <1>5, <1>6, <2>1, BeginWhole DEF WikiInv
  <1>10. QED
    BY <1>1, <1>7, <1>8, <1>9 DEF WikiInv, PagesTyped

LEMMA NewParentIs ==
  ASSUME WikiInv, NEW r \in Requests, req[r].pc = "checked", req[r].op \in {"move", "update"}
  PROVE  /\ NewParent(r) \in Pages \cup {None} /\ NewParent(r) # req[r].page
         /\ NewParent(r) \in {page[req[r].page].parent, req[r].parent}
  <1>1. Form(req[r]) /\ Named(req[r])
    BY InProgress DEF WikiInv
  <1>2. req[r].page \in Pages /\ page[req[r].page] # None
    BY <1>1 DEF Form, Named
  <1>3. /\ page[req[r].page].parent \in Pages \cup {None}
        /\ page[req[r].page].parent # req[r].page
    BY <1>2 DEF WikiInv, PagesTyped, WikiPage
  <1>4. req[r].parent # req[r].page /\ req[r].parent \in Pages \cup {None, Same}
    BY <1>1 DEF Form, Named
  <1>5. QED
    BY <1>3, <1>4 DEF NewParent

\* A request that is alone and that writes its parent keeps the tree.
LEMMA ParentTree ==
  ASSUME WikiInv, alone, NEW r \in Requests, req[r].pc = "checked",
         req[r].op \in {"move", "update"}, NEW p \in Pages, p = req[r].page,
         \A x \in Pages : x # p => page'[x] = page[x],
         page'[p] # None, page'[p].live = page[p].live, page'[p].parent = NewParent(r)
  PROVE  \E d : Ranked(d)'
  <1>1. PICK d : Ranked(d)
    BY DEF WikiInv, Whole
  <1>2. Settled(req[r])
    BY DEF WikiInv, Whole
  <1>3. p \in Live /\ page[p] # None /\ page[p].live
    BY <1>2 DEF Settled, Exists, Live
  <1>4. CASE NewParent(r) = page[p].parent
    <2>1. \A x \in Pages : IF page[x] = None THEN page'[x] = None
                           ELSE /\ page'[x] # None /\ page'[x].live = page[x].live
                                /\ page'[x].parent = page[x].parent
      BY <1>3, <1>4
    <2>2. Ranked(d)'
      BY <1>1, <2>1, TreeUnchanged
    <2>3. QED
      BY <2>2
  <1>5. CASE NewParent(r) # page[p].parent
    <2>1. PICK q \in Pages \cup {None} : q = NewParent(r) /\ q = req[r].parent
      BY <1>5, NewParentIs
    <2>2. q \in Pages => ValidParent(p, q)
      BY <1>2, <2>1 DEF Settled
    <2>3. page'[p].live /\ page'[p].parent = q
      BY <1>3, <2>1
    <2>4. QED
      BY <1>1, <1>3, <2>2, <2>3, TreeMove DEF WikiInv
  <1>6. QED
    BY <1>4, <1>5

LEMMA CreateKeeps ==
  ASSUME WikiInv, NEW r \in Requests, Create(r)
  PROVE  WikiInv'
  <1>1. /\ req[r].pc = "checked" /\ req[r].op = "create" /\ End(r)
        /\ UNCHANGED <<saved, updates, alone>>
    BY DEF Create, At
  <1>2. Form(req[r]) /\ Named(req[r])
    BY <1>1, InProgress DEF WikiInv
  <1>3. PICK p \in Pages : p = req[r].page
    BY <1>2 DEF Form
  <1>4. PICK q \in Pages \cup {None} : q = req[r].parent
    BY <1>1, <1>2 DEF Form
  <1>5. page[p] = None /\ q # p
    BY <1>1, <1>2, <1>3, <1>4 DEF Named
  <1> DEFINE w == [parent |-> q, live |-> TRUE, text |-> {}, number |-> 1]
  <1>6. page' = [page EXCEPT ![p] = w]
    BY <1>3, <1>4 DEF Create
  <1>7. w \in WikiPage /\ w # None
    <2>1. w \in WikiPage
      BY DEF WikiPage, Text
    <2>2. QED
      BY <2>1, WikiAssumption
  <1>8. \A x \in Pages : page'[x] = IF x = p THEN w ELSE page[x]
    BY <1>6 DEF WikiInv, PagesTyped
  <1>9. PagesTyped'
    <2>1. page' \in [Pages -> WikiPage \cup {None}]
      BY <1>6, <1>7 DEF WikiInv, PagesTyped
    <2>2. \A x \in Pages : page'[x] # None => page'[x].parent # x
      BY <1>5, <1>8 DEF WikiInv, PagesTyped
    <2>3. QED
      BY <2>1, <2>2 DEF PagesTyped
  <1>10. WikiRequested'
    BY <1>1, <1>3, <1>7, <1>8, EndRequested DEF WikiInv
  <1>11. Numbered' /\ UpdatesCounted'
    <2>1. \A x \in Pages : IF page[x] # None
                            THEN page'[x] # None /\ page'[x].number = page[x].number
                            ELSE page'[x] # None => page'[x].number = 1
      BY <1>5, <1>8
    <2>2. QED
      BY <1>1, <2>1, EndNumbered DEF WikiInv
  <1>12. ASSUME alone PROVE \E d : Ranked(d)'
    <2>1. PICK d : Ranked(d)
      BY <1>12 DEF WikiInv, Whole
    <2>2. Settled(req[r])
      BY <1>1, <1>12 DEF WikiInv, Whole
    <2>3. q \in Pages => ValidParent(p, q)
      BY <1>1, <1>3, <1>4, <2>2 DEF Settled
    <2>4. /\ \A x \in Pages : x # p => page'[x] = page[x]
          /\ page'[p] # None /\ page'[p].live /\ page'[p].parent = q
      BY <1>7, <1>8
    <2>5. QED
      BY <1>5, <2>1, <2>3, <2>4, TreeCreate DEF WikiInv
  <1>13. Whole'
    BY <1>1, <1>12, EndWhole DEF WikiInv
  <1>14. QED
    BY <1>1, <1>9, <1>10, <1>11, <1>13 DEF WikiInv

LEMMA MoveKeeps ==
  ASSUME WikiInv, NEW r \in Requests, Move(r)
  PROVE  WikiInv'
  <1>1. /\ req[r].pc = "checked" /\ req[r].op = "move" /\ End(r)
        /\ UNCHANGED <<saved, updates, alone>>
    BY DEF Move, At
  <1>2. Form(req[r]) /\ Named(req[r])
    BY <1>1, InProgress DEF WikiInv
  <1>3. PICK p \in Pages : p = req[r].page
    BY <1>2 DEF Form
  <1>4. page[p] # None /\ page[p] \in WikiPage
    BY <1>1, <1>2, <1>3 DEF Named, WikiInv, PagesTyped
  <1>5. PICK q \in Pages \cup {None} : q = NewParent(r)
    BY <1>1, NewParentIs
  <1>6. q # p
    BY <1>1, <1>3, <1>5, NewParentIs
  <1> DEFINE w == [page[p] EXCEPT !.parent = q]
  <1>7. page' = [page EXCEPT ![p] = w]
    BY <1>3, <1>5 DEF Move
  <1>8. /\ w \in WikiPage /\ w # None
        /\ w.parent = q /\ w.live = page[p].live /\ w.number = page[p].number
    <2>1. /\ w \in WikiPage
          /\ w.parent = q /\ w.live = page[p].live /\ w.number = page[p].number
      BY <1>4 DEF WikiPage
    <2> HIDE DEF w
    <2>2. QED
      BY <2>1, WikiAssumption
  <1> HIDE DEF w
  <1>9. \A x \in Pages : page'[x] = IF x = p THEN w ELSE page[x]
    BY <1>7 DEF WikiInv, PagesTyped
  <1>10. PagesTyped'
    <2>1. page' \in [Pages -> WikiPage \cup {None}]
      BY <1>7, <1>8 DEF WikiInv, PagesTyped
    <2>2. \A x \in Pages : page'[x] # None => page'[x].parent # x
      BY <1>6, <1>8, <1>9 DEF WikiInv, PagesTyped
    <2>3. QED
      BY <2>1, <2>2 DEF PagesTyped
  <1>11. WikiRequested'
    BY <1>1, <1>4, <1>8, <1>9, EndRequested DEF WikiInv
  <1>12. Numbered' /\ UpdatesCounted'
    <2>1. \A x \in Pages : IF page[x] # None
                            THEN page'[x] # None /\ page'[x].number = page[x].number
                            ELSE page'[x] # None => page'[x].number = 1
      BY <1>4, <1>8, <1>9
    <2>2. QED
      BY <1>1, <2>1, EndNumbered DEF WikiInv
  <1>13. ASSUME alone PROVE \E d : Ranked(d)'
    BY <1>1, <1>3, <1>5, <1>8, <1>9, <1>13, ParentTree
  <1>14. Whole'
    BY <1>1, <1>13, EndWhole DEF WikiInv
  <1>15. QED
    BY <1>1, <1>10, <1>11, <1>12, <1>14 DEF WikiInv

LEMMA DeleteKeeps ==
  ASSUME WikiInv, NEW r \in Requests, Delete(r)
  PROVE  WikiInv'
  <1>1. /\ req[r].pc = "checked" /\ req[r].op = "delete" /\ End(r)
        /\ UNCHANGED <<saved, updates, alone>>
    BY DEF Delete, At
  <1>2. Form(req[r]) /\ Named(req[r])
    BY <1>1, InProgress DEF WikiInv
  <1>3. PICK p \in Pages : p = req[r].page
    BY <1>2 DEF Form
  <1>4. \A x \in Pages : page'[x] = IF x \in req[r].rows THEN [page[x] EXCEPT !.live = FALSE]
                                    ELSE page[x]
    BY DEF Delete
  <1>5. ASSUME NEW x \in Pages, x \in req[r].rows
        PROVE  /\ page[x] \in WikiPage /\ page'[x] \in WikiPage /\ page'[x] # None
               /\ page[x] # None /\ ~ page'[x].live
               /\ page'[x].parent = page[x].parent /\ page'[x].number = page[x].number
    <2>1. page[x] # None /\ page[x] \in WikiPage
      BY <1>2, <1>5 DEF Named, WikiInv, PagesTyped
    <2>2. page'[x] = [page[x] EXCEPT !.live = FALSE]
      BY <1>4, <1>5
    <2>3. /\ page'[x] \in WikiPage /\ ~ page'[x].live
          /\ page'[x].parent = page[x].parent /\ page'[x].number = page[x].number
      BY <2>1, <2>2 DEF WikiPage
    <2>4. QED
      BY <2>1, <2>3, WikiAssumption
  <1>6. ASSUME NEW x \in Pages, x \notin req[r].rows PROVE page'[x] = page[x]
    BY <1>4, <1>6
  <1>7. PagesTyped'
    <2>1. \A x \in Pages : page'[x] \in WikiPage \cup {None}
      BY <1>5, <1>6 DEF WikiInv, PagesTyped
    <2>2. page' \in [Pages -> WikiPage \cup {None}]
      BY <2>1 DEF Delete
    <2>3. \A x \in Pages : page'[x] # None => page'[x].parent # x
      BY <1>5, <1>6 DEF WikiInv, PagesTyped
    <2>4. QED
      BY <2>2, <2>3 DEF PagesTyped
  <1>8. WikiRequested'
    BY <1>1, <1>5, <1>6, EndRequested DEF WikiInv
  <1>9. Numbered' /\ UpdatesCounted'
    <2>1. \A x \in Pages : IF page[x] # None
                            THEN page'[x] # None /\ page'[x].number = page[x].number
                            ELSE page'[x] # None => page'[x].number = 1
      BY <1>5, <1>6
    <2>2. QED
      BY <1>1, <2>1, EndNumbered DEF WikiInv
  <1>10. ASSUME alone PROVE \E d : Ranked(d)'
    <2>1. PICK d : Ranked(d)
      BY <1>10 DEF WikiInv, Whole
    <2>2. Settled(req[r])
      BY <1>1, <1>10 DEF WikiInv, Whole
    <2>3. p \in Live /\ req[r].rows = Subtree(p)
      BY <1>1, <1>3, <2>2 DEF Settled, Exists, Live
    <2>4. \A x \in Pages : IF x \in Subtree(p) THEN ~ page'[x].live ELSE page'[x] = page[x]
      BY <1>5, <1>6, <2>3
    <2>5. Ranked(d)'
      BY <2>1, <2>3, <2>4, TreeDelete DEF WikiInv
    <2>6. QED
      BY <2>5
  <1>11. Whole'
    BY <1>1, <1>10, EndWhole DEF WikiInv
  <1>12. QED
    BY <1>1, <1>7, <1>8, <1>9, <1>11 DEF WikiInv

LEMMA RefusedKeeps ==
  ASSUME WikiInv, NEW r \in Requests, Refused(r)
  PROVE  WikiInv'
  <1>1. /\ req[r].pc # "idle" /\ End(r) /\ UNCHANGED <<page, saved, updates, alone>>
    BY DEF Refused
  <1>2. PagesTyped'
    BY <1>1 DEF WikiInv, PagesTyped
  <1>3. WikiRequested'
    BY <1>1, EndRequested DEF WikiInv
  <1>4. Numbered' /\ UpdatesCounted'
    BY <1>1, EndNumbered DEF WikiInv
  <1>5. ASSUME alone PROVE \E d : Ranked(d)'
    <2>1. PICK d : Ranked(d)
      BY <1>5 DEF WikiInv, Whole
    <2>2. Ranked(d)'
      BY <1>1, <2>1, SamePages DEF Ranked
    <2>3. QED
      BY <2>2
  <1>6. Whole'
    BY <1>1, <1>5, EndWhole DEF WikiInv
  <1>7. QED
    BY <1>1, <1>2, <1>3, <1>4, <1>6 DEF WikiInv

LEMMA IncrementKeeps ==
  ASSUME WikiInv, NEW r \in Requests, Increment(r)
  PROVE  WikiInv'
  <1>1. /\ req[r].pc = "loaded" /\ req[r].op = "update"
        /\ req[r].parent \in Pages => ValidParent(req[r].page, req[r].parent)
        /\ UNCHANGED <<page, saved, updates, alone>>
    BY DEF Increment, At
  <1>2. Form(req[r]) /\ Named(req[r])
    BY <1>1, InProgress DEF WikiInv
  <1>3. PICK u : u = [req[r] EXCEPT !.pc = "checked", !.rows = {req[r].page}]
    OBVIOUS
  <1>4. /\ DOMAIN req' = Requests /\ req'[r] = u
        /\ \A s \in Requests : s # r => req'[s] = req[s]
    BY <1>3 DEF Increment, WikiInv, WikiRequested
  <1>5. /\ DOMAIN u = DOMAIN req[r] /\ u.pc = "checked" /\ u.rows = {req[r].page}
        /\ u.op = req[r].op /\ u.page = req[r].page /\ u.from = req[r].from
        /\ u.parent = req[r].parent /\ u.fresh = req[r].fresh /\ u.text = req[r].text
        /\ u.number = req[r].number
    BY <1>2, <1>3 DEF Form
  <1>6. Form(u)
    BY <1>1, <1>2, <1>5 DEF Form
  <1>7. Named(u)
    <2>1. u.page \in Pages
      BY <1>2, <1>5 DEF Form
    <2>2. u.parent # u.page
      BY <1>1, <1>5, <2>1 DEF ValidParent
    <2>3. QED
      BY <1>1, <1>2, <1>5, <2>2 DEF Named
  <1>8. WikiRequested'
    <2>1. \A s \in Requests : req'[s] = Idle \/ (Form(req[s])' /\ Named(req[s])')
      <3>1. SUFFICES ASSUME NEW s \in Requests
                     PROVE  req'[s] = Idle \/ (Form(req[s])' /\ Named(req[s])')
        OBVIOUS
      <3>2. CASE s = r
        BY <1>1, <1>4, <1>6, <1>7, <3>2 DEF Form, Named
      <3>3. CASE s # r
        BY <1>1, <1>4, <3>3 DEF WikiInv, WikiRequested, Form, Named
      <3>4. QED
        BY <3>2, <3>3
    <2>2. \A s, t \in Requests :
             /\ req'[s].pc = "checked" /\ req'[s].op = "create" /\ req'[t].page = req'[s].page
             => s = t
      <3>1. SUFFICES ASSUME NEW s \in Requests, NEW t \in Requests, req'[s].pc = "checked",
                            req'[s].op = "create", req'[t].page = req'[s].page
                     PROVE  s = t
        OBVIOUS
      <3>2. s # r /\ req'[s] = req[s]
        BY <1>1, <1>4, <1>5, <3>1
      <3>3. req'[t].page = req[t].page
        BY <1>4, <1>5
      <3>4. QED
        BY <3>1, <3>2, <3>3 DEF WikiInv, WikiRequested
    <2>3. QED
      BY <1>4, <2>1, <2>2, Zenon DEF WikiRequested
  <1>9. Numbered' /\ UpdatesCounted'
    <2>1. \A x \in Pages : Pending(x)' = Pending(x)
      BY <1>4, <1>5 DEF Pending
    <2>2. QED
      BY <1>1, <2>1 DEF WikiInv, Numbered, UpdatesCounted
  <1>10. Whole'
    <2>1. SUFFICES ASSUME alone
                   PROVE  /\ \A s, t \in Requests : req'[s].pc # "idle" /\ req'[t].pc # "idle"
                                                    => s = t
                          /\ \A s \in Requests : req'[s].pc # "idle" => Settled(req[s])'
                          /\ (\E d \in [Pages -> 1..MaxDepth] : Ranked(d))'
      BY <1>1, Zenon DEF Whole
    <2>2. \A s \in Requests : req'[s].pc # "idle" => s = r
      BY <1>1, <1>4, <2>1 DEF WikiInv, Whole
    <2>3. Settled(u)
      BY <1>1, <1>5, <2>1 DEF Settled, WikiInv, Whole
    <2>4. Settled(u)'
      BY <1>1, <2>3, SamePages DEF Settled, Exists
    <2>5. Settled(req[r])'
      BY <1>4, <2>4 DEF Settled
    <2>6. (\E d \in [Pages -> 1..MaxDepth] : Ranked(d))'
      BY <1>1, <2>1, SamePages DEF WikiInv, Whole, Ranked
    <2>7. QED
      BY <2>2, <2>5, <2>6
  <1>11. QED
    BY <1>1, <1>8, <1>9, <1>10 DEF WikiInv, PagesTyped

\* An update that commits: its page, whose number is counted and whose loaded text is saved.
LEMMA UpdateIs ==
  ASSUME WikiInv, NEW r \in Requests, Update(r)
  PROVE  /\ req[r].pc = "checked" /\ req[r].op = "update" /\ End(r)
         /\ UNCHANGED <<updates, alone>>
         /\ \E p \in Pages, w \in WikiPage :
              /\ p = req[r].page /\ page[p] # None /\ page[p] \in WikiPage
              /\ w # None /\ w.parent = NewParent(r) /\ w.live = page[p].live
              /\ w.number = page[p].number + 1
              /\ page' = [page EXCEPT ![p] = w]
              /\ RevisionOf(r) \in Revision /\ RevisionOf(r).text = req[r].text
              /\ saved' = [saved EXCEPT ![p] = Append(saved[p], RevisionOf(r))]
  <1>1. /\ req[r].pc = "checked" /\ req[r].op = "update" /\ End(r)
        /\ UNCHANGED <<updates, alone>>
    BY DEF Update, At
  <1>2. Form(req[r]) /\ Named(req[r])
    BY <1>1, InProgress DEF WikiInv
  <1>3. PICK p \in Pages : p = req[r].page
    BY <1>2 DEF Form
  <1>4. page[p] # None /\ page[p] \in WikiPage
    BY <1>1, <1>2, <1>3 DEF Named, WikiInv, PagesTyped
  <1>5. NewParent(r) \in Pages \cup {None}
    BY <1>1, NewParentIs
  <1>6. NewText(r) \in Text
    <2>1. page[p].text \in Text
      BY <1>4 DEF WikiPage
    <2>2. req[r].fresh \in 1..MaxUpdates /\ req[r].text \in Text
      BY <1>1, <1>2 DEF Form
    <2>3. QED
      BY <1>3, <2>1, <2>2 DEF NewText, Text
  <1>7. PICK w : w = [page[p] EXCEPT !.parent = NewParent(r), !.text = NewText(r),
                                     !.number = NewNumber(r)]
    OBVIOUS
  <1>8. /\ w \in WikiPage /\ w.parent = NewParent(r) /\ w.live = page[p].live
        /\ w.number = page[p].number + 1
    <2>1. NewNumber(r) = page[p].number + 1 /\ NewNumber(r) \in Nat
      BY <1>3, <1>4 DEF NewNumber, WikiPage
    <2>2. w \in WikiPage
      BY <1>4, <1>5, <1>6, <1>7, <2>1 DEF WikiPage
    <2>3. DOMAIN page[p] = {"parent", "live", "text", "number"}
      BY <1>4 DEF WikiPage
    <2>4. w.parent = NewParent(r) /\ w.live = page[p].live /\ w.number = NewNumber(r)
      BY <1>7, <2>3
    <2>5. QED
      BY <2>1, <2>2, <2>4
  <1>9. page' = [page EXCEPT ![p] = w]
    BY <1>3, <1>7 DEF Update
  <1>10. RevisionOf(r) \in Revision /\ RevisionOf(r).text = req[r].text
    BY <1>1, <1>2 DEF Form, RevisionOf, Revision
  <1>11. saved' = [saved EXCEPT ![p] = Append(saved[p], RevisionOf(r))]
    BY <1>3 DEF Update
  <1>12. w # None
    BY <1>8, WikiAssumption
  <1>13. QED
    BY <1>1, <1>3, <1>4, <1>8, <1>9, <1>10, <1>11, <1>12

LEMMA UpdateKeeps ==
  ASSUME WikiInv, NEW r \in Requests, Update(r)
  PROVE  WikiInv'
  <1>1. /\ req[r].pc = "checked" /\ req[r].op = "update" /\ End(r)
        /\ UNCHANGED <<updates, alone>>
    BY UpdateIs
  <1>2. PICK p \in Pages, w \in WikiPage :
              /\ p = req[r].page /\ page[p] # None /\ page[p] \in WikiPage
              /\ w # None /\ w.parent = NewParent(r) /\ w.live = page[p].live
              /\ w.number = page[p].number + 1
              /\ page' = [page EXCEPT ![p] = w]
              /\ RevisionOf(r) \in Revision /\ RevisionOf(r).text = req[r].text
              /\ saved' = [saved EXCEPT ![p] = Append(saved[p], RevisionOf(r))]
    BY UpdateIs
  <1>3. \A x \in Pages : page'[x] = IF x = p THEN w ELSE page[x]
    BY <1>2 DEF WikiInv, PagesTyped
  <1>4. NewParent(r) # p
    BY <1>1, <1>2, NewParentIs
  <1>5. PagesTyped'
    <2>1. page' \in [Pages -> WikiPage \cup {None}]
      BY <1>2 DEF WikiInv, PagesTyped
    <2>2. \A x \in Pages : page'[x] # None => page'[x].parent # x
      BY <1>2, <1>3, <1>4 DEF WikiInv, PagesTyped
    <2>3. QED
      BY <2>1, <2>2 DEF PagesTyped
  <1>6. WikiRequested'
    BY <1>1, <1>2, <1>3, EndRequested DEF WikiInv
  <1>7. saved' \in [Pages -> Seq(Revision)]
    <2>1. saved[p] \in Seq(Revision) /\ saved \in [Pages -> Seq(Revision)]
      BY DEF WikiInv, Numbered
    <2>2. Append(saved[p], RevisionOf(r)) \in Seq(Revision)
      BY <1>2, <2>1
    <2>3. QED
      BY <1>2, <2>1, <2>2
  <1>8. \A x \in Pages : saved'[x] = IF x = p THEN Append(saved[p], RevisionOf(r))
                                    ELSE saved[x]
    BY <1>2 DEF WikiInv, Numbered
  <1>9. UpdatesCounted'
    <2>1. ASSUME NEW x \in Pages, page'[x] # None PROVE page'[x].number = 1 + Len(saved'[x])
      <3>1. CASE x # p
        BY <1>3, <1>8, <2>1, <3>1 DEF WikiInv, UpdatesCounted
      <3>2. CASE x = p
        <4>1. page[p].number = 1 + Len(saved[p])
          BY <1>2 DEF WikiInv, UpdatesCounted
        <4>2. saved[p] \in Seq(Revision)
          BY DEF WikiInv, Numbered
        <4>3. Len(Append(saved[p], RevisionOf(r))) = Len(saved[p]) + 1 /\ Len(saved[p]) \in Nat
          BY <4>2
        <4>4. page'[x].number = page[p].number + 1
          BY <1>2, <1>3, <3>2
        <4>5. saved'[x] = Append(saved[p], RevisionOf(r))
          BY <1>8, <3>2
        <4>6. QED
          BY <4>1, <4>3, <4>4, <4>5
      <3>3. QED
        BY <3>1, <3>2
    <2>2. QED
      BY <2>1 DEF UpdatesCounted
  <1>10. Numbered'
    <2>1. \A s \in Requests : IF s = r THEN req'[s] = Idle ELSE req'[s] = req[s]
      BY <1>1, EndReq DEF WikiInv
    <2>2. \A x \in Pages : Pending(x)' = IF x = p THEN Pending(x) \ {r} ELSE Pending(x)
      BY <1>1, <1>2, <2>1, IdleNames DEF Pending
    <2>3. ASSUME NEW x \in Pages, page'[x] # None
          PROVE  /\ IsFiniteSet(Pending(x)')
                 /\ page'[x].number + Cardinality(Pending(x)') <= updates + 1
      <3>1. page[x] # None /\ IsFiniteSet(Pending(x))
            /\ page[x].number + Cardinality(Pending(x)) <= updates + 1
        BY <1>2, <1>3, <2>3 DEF WikiInv, Numbered
      <3>2. CASE x # p
        <4>1. Pending(x)' = Pending(x) /\ page'[x] = page[x]
          BY <1>3, <2>2, <3>2
        <4>2. QED
          BY <3>1, <4>1
      <3>3. CASE x = p
        <4>1. r \in Pending(p)
          BY <1>1, <1>2 DEF Pending
        <4>2. IsFiniteSet(Pending(p) \ {r})
              /\ Cardinality(Pending(p) \ {r}) = Cardinality(Pending(p)) - 1
          BY <3>1, <3>3, <4>1, FS_RemoveElement
        <4>3. Cardinality(Pending(p)) \in Nat /\ page[p].number \in Nat /\ updates \in Nat
          BY <1>2, <3>1, <3>3, FS_CardinalityType, WikiAssumption
             DEF WikiPage, WikiInv, Numbered
        <4>4. Pending(x)' = Pending(p) \ {r} /\ page'[x].number = page[p].number + 1
          BY <1>2, <1>3, <2>2, <3>3
        <4>5. page[p].number + Cardinality(Pending(p)) <= updates + 1
          BY <3>1, <3>3
        <4>6. QED
          BY <4>2, <4>3, <4>4, <4>5
      <3>4. QED
        BY <3>2, <3>3
    <2>4. \A x \in Pages : page'[x] = None => saved'[x] = <<>>
      BY <1>2, <1>3, <1>8 DEF WikiInv, Numbered
    <2>5. updates' \in 0..MaxUpdates
      BY <1>1 DEF WikiInv, Numbered
    <2>6. QED
      BY <1>1, <1>7, <2>3, <2>4, <2>5 DEF Numbered
  <1>11. ASSUME alone PROVE \E d : Ranked(d)'
    BY <1>1, <1>2, <1>3, <1>11, ParentTree
  <1>12. Whole'
    BY <1>1, <1>11, EndWhole DEF WikiInv
  <1>13. QED
    BY <1>1, <1>5, <1>6, <1>9, <1>10, <1>12 DEF WikiInv

LEMMA WikiStarts == Init => WikiInv
  <1>1. SUFFICES ASSUME Init PROVE WikiInv
    OBVIOUS
  <1>2. PagesTyped
    BY <1>1 DEF Init, PagesTyped
  <1>3. WikiRequested
    BY <1>1, IdleNames DEF Init, WikiRequested
  <1>4. Numbered /\ UpdatesCounted
    <2>1. saved \in [Pages -> Seq(Revision)]
      BY <1>1 DEF Init
    <2>2. updates \in 0..MaxUpdates
      BY <1>1, WikiAssumption DEF Init
    <2>3. QED
      BY <1>1, <2>1, <2>2 DEF Init, Numbered, UpdatesCounted
  <1>5. Whole
    <2>1. \A s \in Requests : req[s].pc = "idle"
      BY <1>1, IdleNames DEF Init
    <2>2. PICK d : d = [p \in Pages |-> 1]
      OBVIOUS
    <2>3. Live = {}
      BY <1>1 DEF Init, Live, Exists
    <2>4. d \in [Pages -> 1..MaxDepth]
      BY <2>2, WikiAssumption
    <2>5. Ranked(d)
      BY <2>3, <2>4 DEF Ranked
    <2>6. QED
      BY <2>1, <2>4, <2>5 DEF Whole
  <1>6. QED
    BY <1>1, <1>2, <1>3, <1>4, <1>5 DEF Init, WikiInv

LEMMA WikiSteps == WikiInv /\ [Next]_vars => WikiInv'
  <1>1. SUFFICES ASSUME WikiInv, [Next]_vars PROVE WikiInv'
    OBVIOUS
  <1>2. CASE UNCHANGED vars
    <2>1. UNCHANGED <<page, saved, updates, req, alone>>
      BY <1>2 DEF vars
    <2>2. PagesTyped' /\ WikiRequested' /\ Numbered' /\ UpdatesCounted'
      BY <1>1, <2>1 DEF WikiInv, PagesTyped, WikiRequested, Named, Numbered, Pending,
                        UpdatesCounted
    <2>3. ASSUME alone PROVE (\E d \in [Pages -> 1..MaxDepth] : Ranked(d))'
      BY <1>1, <2>1, <2>3, SamePages DEF WikiInv, Whole, Ranked
    <2>4. ASSUME alone, NEW r \in Requests, req[r].pc # "idle" PROVE Settled(req[r])'
      <3>1. PICK u : u = req[r]
        OBVIOUS
      <3>2. Settled(u)
        BY <1>1, <2>4, <3>1 DEF WikiInv, Whole, Settled
      <3>3. Settled(u)'
        BY <2>1, <3>2, SamePages DEF Settled, Exists
      <3>4. QED
        BY <2>1, <3>1, <3>3 DEF Settled
    <2>5. Whole'
      BY <1>1, <2>1, <2>3, <2>4 DEF WikiInv, Whole
    <2>6. QED
      BY <1>1, <2>1, <2>2, <2>5 DEF WikiInv
  <1>3. CASE Next
    <2>1. PICK r \in Requests :
       \/ \E p \in Pages :
            \/ \E parent \in Parent : CheckCreate(r, p, parent) \/ CheckMove(r, p, parent)
            \/ CheckDelete(r, p)
            \/ \E write \in Write, parent \in Parent \cup {Same} : Load(r, p, write, parent)
       \/ Create(r) \/ Move(r) \/ Delete(r) \/ Increment(r) \/ Update(r) \/ Refused(r)
      BY <1>3 DEF Next
    <2>2. QED
      BY <1>1, <2>1, CheckCreateKeeps, CheckMoveKeeps, CheckDeleteKeeps, LoadKeeps,
         CreateKeeps, MoveKeeps, DeleteKeeps, IncrementKeeps, UpdateKeeps, RefusedKeeps
  <1>4. QED
    BY <1>1, <1>2, <1>3

\* The invariant of the wiki is one of every behaviour.
THEOREM WikiKept == Spec => []WikiInv
  <1>1. QED
    BY WikiStarts, WikiSteps, PTL DEF Spec

\* Every state of every behaviour is well typed; no page is its own parent, and the numbers
\* of pages and revisions stay within the updates that were begun.
THEOREM WikiTypes == Spec => []TypeOK
  <1>1. WikiInv => TypeOK
    <2>1. SUFFICES ASSUME WikiInv PROVE TypeOK
      OBVIOUS
    <2>2. \A p \in Pages : page[p] # None => /\ page[p].parent \in (Pages \ {p}) \cup {None}
                                             /\ page[p].text \in Text
                                             /\ page[p].number \in 1..(MaxUpdates + 1)
      BY <2>1, NumberBound DEF WikiInv, PagesTyped, WikiPage
    <2>3. \A p \in Pages : \A i \in DOMAIN saved[p] : saved[p][i] \in Revision
      <3>1. \A p \in Pages : saved[p] \in Seq(Revision)
        BY <2>1 DEF WikiInv, Numbered
      <3>2. QED
        BY <3>1
    <2>4. updates \in 0..MaxUpdates
      BY <2>1 DEF WikiInv, Numbered
    <2>5. \A r \in Requests : /\ req[r].pc \in {"idle", "loaded", "checked"}
                              /\ req[r].page \in Pages \cup {None}
                              /\ req[r].parent \in Pages \cup {None, Same}
      BY <2>1, IdleNames DEF WikiInv, WikiRequested, Form
    <2>6. QED
      BY <2>2, <2>3, <2>4, <2>5 DEF TypeOK
  <1>2. QED
    BY <1>1, WikiKept, PTL

\* Every update that was committed is counted once and saved once, overlapping ones too.
THEOREM UpdatesAreCounted == Spec => []UpdatesCounted
  <1>1. WikiInv => UpdatesCounted
    BY DEF WikiInv
  <1>2. QED
    BY <1>1, WikiKept, PTL

\* Requests that do not overlap keep the tree: the levels that get_wiki_tree shows hold every
\* live page.
THEOREM TreeIsWhole == Spec => []EveryPageInTree
  <1>1. WikiInv => EveryPageInTree
    <2>1. SUFFICES ASSUME WikiInv, alone
                   PROVE  Live = UNION {Level[n] : n \in 1..MaxDepth}
      BY DEF EveryPageInTree
    <2>2. PICK d : Ranked(d)
      BY <2>1 DEF WikiInv, Whole
    <2>3. QED
      BY <2>2, EveryPage
  <1>2. QED
    BY <1>1, WikiKept, PTL

\* Requests that do not overlap lose no text: what a commit replaces has been saved.
THEOREM TextIsKept == Spec => TextKeptAlone
  <1>1. WikiInv /\ [Next]_vars => [alone => Kept]_vars
    <2>1. SUFFICES ASSUME WikiInv, Next, alone, NEW p \in Pages, page[p] # None,
                          page'[p].text # page[p].text
                   PROVE  \E i \in DOMAIN saved'[p] : saved'[p][i].text = page[p].text
      BY DEF Kept
    <2>2. PICK r \in Requests : Create(r) \/ Move(r) \/ Delete(r) \/ Update(r)
      BY <2>1 DEF Next, CheckCreate, CheckMove, CheckDelete, Load, Increment, Refused
    <2>3. req[r].pc # "idle"
      BY <2>2 DEF Create, Move, Delete, Update, At
    <2>4. Form(req[r]) /\ Named(req[r]) /\ Settled(req[r])
      BY <2>1, <2>3, InProgress DEF WikiInv, Whole
    <2>5. page[p] \in WikiPage
      BY <2>1 DEF WikiInv, PagesTyped
    <2>6. ~ Create(r)
      BY <2>1, <2>4 DEF Create, At, Form, Named, WikiInv, PagesTyped
    <2>7. ~ Move(r)
      <3>1. ASSUME Move(r) PROVE page'[p].text = page[p].text
        <4>1. DOMAIN page[p] = {"parent", "live", "text", "number"}
          BY <2>5 DEF WikiPage
        <4>2. page'[p] = page[p] \/ page'[p] = [page[p] EXCEPT !.parent = NewParent(r)]
          BY <2>1, <3>1 DEF Move, WikiInv, PagesTyped
        <4>3. QED
          BY <4>1, <4>2
      <3>2. QED
        BY <2>1, <3>1
    <2>8. ~ Delete(r)
      <3>1. ASSUME Delete(r) PROVE page'[p].text = page[p].text
        <4>1. page'[p] = IF p \in req[r].rows THEN [page[p] EXCEPT !.live = FALSE] ELSE page[p]
          BY <3>1 DEF Delete
        <4>2. QED
          BY <2>5, <4>1 DEF WikiPage
      <3>2. QED
        BY <2>1, <3>1
    <2>9. PICK x \in Pages, w \in WikiPage :
              /\ x = req[r].page /\ page' = [page EXCEPT ![x] = w]
              /\ RevisionOf(r) \in Revision /\ RevisionOf(r).text = req[r].text
              /\ saved' = [saved EXCEPT ![x] = Append(saved[x], RevisionOf(r))]
      BY <2>1, <2>2, <2>6, <2>7, <2>8, UpdateIs
    <2>10. x = p
      BY <2>1, <2>9 DEF WikiInv, PagesTyped
    <2>11. req[r].text = page[p].text
      <3>1. req[r].op = "update"
        BY <2>1, <2>2, <2>6, <2>7, <2>8, UpdateIs
      <3>2. QED
        BY <2>4, <2>9, <2>10, <3>1 DEF Settled
    <2>12. saved[p] \in Seq(Revision) /\ saved'[p] = Append(saved[p], RevisionOf(r))
      BY <2>1, <2>9, <2>10 DEF WikiInv, Numbered
    <2>13. PICK i : i = Len(saved[p]) + 1
      OBVIOUS
    <2>14. i \in DOMAIN saved'[p] /\ saved'[p][i] = RevisionOf(r)
      BY <2>9, <2>12, <2>13
    <2>15. QED
      BY <2>9, <2>11, <2>14
  <1>2. QED
    BY <1>1, WikiKept, PTL DEF Spec, TextKeptAlone
=============================================================================

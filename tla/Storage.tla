------------------------------ MODULE Storage ------------------------------
(***************************************************************************)
(* The database file and what lies beside it: the SQLite file (the default  *)
(* of app/config.py), its backups and restores (app/routers/backups.py),    *)
(* report files (app/routers/reports.py), and the requests of the settings, *)
(* alert and notification routers, which insert or change a row.            *)
(*                                                                         *)
(* Threads of the request pool serve requests on pooled connections; a step *)
(* is a SELECT, a commit or a file operation.  A connection keeps the pages *)
(* it has read, and throws them away when the change counter in the file's  *)
(* header is not the one it knows, which is all that SQLite checks.  The    *)
(* rows of all tables stand on one page.                                    *)
(***************************************************************************)
EXTENDS Integers, FiniteSets

CONSTANTS Conn,        \* connections of the pool, each for one request at a time
          Name,        \* names of report and backup files, made from the second
          None,
          MaxCommits,  \* bound: commits ever
          MaxStarts    \* bound: starts after a crash

ASSUME StorageAssumption ==
  /\ None \notin Name
  /\ MaxCommits \in Nat /\ MaxStarts \in Nat

VARIABLES up, starts,
          file,        \* the database file
          cache,       \* per connection, the file as it knows it
          backups,     \* per name, the backup
          reports,     \* per name, the report file: "part" while it is being written, then
                       \* "whole", or "broken" if its writing broke off (ghost); "mixed":
                       \* two handles on it were open for writing at once
          again,       \* names that more than one report has taken (ghost)
          request,     \* per connection, where the request it serves is
          commits,     \* commits so far (ghost)
          restored     \* this process has begun to restore a backup (ghost)

disk == <<backups, reports, again>>
ghosts == <<commits, restored>>
vars == <<up, starts, file, cache, disk, request, ghosts>>

\* key: the row is the setting with the key everyone uses; done: the alert is resolved, the
\* notification read, the setting changed.
Row == [id : 1 .. MaxCommits, file : Name \cup {None}, key : BOOLEAN, done : BOOLEAN]

Rows(n, r) == [state |-> "rows", change |-> n, rows |-> r]
Hollow(state) == [state |-> state, change |-> 0, rows |-> {}]
\* A file of length 0, or a connection that knows nothing
Empty == Hollow("empty")
\* A file copied in part, or while pages were written; no file
Broken == Hollow("broken")
Absent == Hollow("absent")

Idle == [pc |-> "idle", name |-> None, id |-> 0]

At(c, pc) == up /\ request[c].pc = pc
Go(c, pc) == request' = [request EXCEPT ![c].pc = pc]
\* The request is over, with an answer or an exception; its connection goes back to the pool.
End(c) == request' = [request EXCEPT ![c] = Idle]

Serving == {c \in Conn : request[c].pc # "idle"}
Writing(s) == \E c \in Conn : request[c].pc = "write" /\ request[c].name = s
\* What is left of the file s when a writer of it breaks off
BrokenOff(s) == IF reports[s] = "part" THEN "broken" ELSE reports[s]
\* A commit by another thread may be writing pages just now.
Committing(c) ==
  \E x \in Conn \ {c} : request[x].pc \in {"insert", "save", "mark", "audit"}

-----------------------------------------------------------------------------
(* Connections                                                              *)

Knows(c) == cache[c].state = "rows" /\ cache[c].change = file.change
View(c) == IF Knows(c) THEN cache[c].rows ELSE file.rows

\* c reads rows.
Query(c) ==
  /\ file.state = "rows"
  /\ cache' = [cache EXCEPT ![c] = Rows(file.change, View(c))]

\* c commits: the pages it knows, changed, replace those in the file.
Commit(c, r) ==
  /\ file.state = "rows"
  /\ commits < MaxCommits /\ commits' = commits + 1
  /\ file' = Rows(file.change + 1, r)
  /\ cache' = [cache EXCEPT ![c] = file']

\* c commits a new row.
InsertRow(c, f, key) ==
  Commit(c, View(c) \cup {[id |-> commits + 1, file |-> f, key |-> key, done |-> FALSE]})

-----------------------------------------------------------------------------
(* Every request                                                            *)

\* get_db, get_current_user and require_permission read users and roles, no row modelled here.
Authenticate(c, pc) ==
  /\ At(c, "idle") /\ file.state = "rows"
  /\ Go(c, pc)
  /\ cache' = IF Knows(c) THEN cache ELSE [cache EXCEPT ![c] = Empty]
  /\ UNCHANGED <<up, starts, file, disk, ghosts>>

\* check_phishing_url stores its prediction, and everyone the row they have prepared.
Insert(c) ==
  /\ At(c, "insert")
  /\ InsertRow(c, request[c].name, FALSE) /\ Go(c, "audit")
  /\ UNCHANGED <<up, starts, disk, restored>>

Audit(c) ==
  /\ At(c, "audit")
  /\ InsertRow(c, None, FALSE) /\ End(c)
  /\ UNCHANGED <<up, starts, disk, restored>>

\* A statement raises, a row to refresh is gone, the disk is full: the session rolls back.
\* A file that is being written stays as it is.
Fail(c) ==
  /\ up /\ c \in Serving
  /\ End(c)
  /\ reports' = [n \in Name |-> IF At(c, "write") /\ request[c].name = n
                                THEN BrokenOff(n) ELSE reports[n]]
  /\ UNCHANGED <<up, starts, file, cache, backups, again, ghosts>>

-----------------------------------------------------------------------------
(* generate_report: _generate_csv queries, opens the file it names after    *)
(* the second, which empties it, and writes it; the row follows.  Two that  *)
(* write one file have a handle each: either may empty or overwrite what    *)
(* the other has written.                                                   *)

\* Mutant: the row is committed before the file is opened
ReportOpenLast(c, n) ==
  /\ At(c, "query")
  /\ Query(c)
  /\ request' = [request EXCEPT ![c].pc = "insert", ![c].name = n]
  /\ UNCHANGED <<up, starts, file, disk, ghosts>>

ReportOpen(c, n) ==
  /\ At(c, "query")
  /\ Query(c)
  /\ reports' = [reports EXCEPT ![n] = IF Writing(n) THEN "mixed" ELSE "part"]
  /\ again' = IF reports[n] = "none" THEN again ELSE again \cup {n}
  /\ request' = [request EXCEPT ![c].pc = "write", ![c].name = n]
  /\ UNCHANGED <<up, starts, file, backups, ghosts>>

ReportWrite(c) ==
  /\ At(c, "write")
  /\ reports' = [reports EXCEPT ![request[c].name] = IF @ = "part" THEN "whole" ELSE @]
  /\ Go(c, "insert")
  /\ UNCHANGED <<up, starts, file, cache, backups, again, ghosts>>

-----------------------------------------------------------------------------
(* create_backup and restore_backup: copy2 opens the target, which empties  *)
(* it, and then copies, heedless of locks.                                  *)

BackupOpen(c, n) ==
  /\ At(c, "copy")
  /\ backups' = [backups EXCEPT ![n] = Empty]
  /\ request' = [request EXCEPT ![c].pc = "fill", ![c].name = n]
  /\ UNCHANGED <<up, starts, file, cache, reports, again, ghosts>>

BackupFill(c) ==
  /\ At(c, "fill")
  /\ \/ Go(c, "audit") /\ backups' = [backups EXCEPT ![request[c].name] = file]
     \/ Committing(c) /\ Go(c, "audit") /\ backups' = [backups EXCEPT ![request[c].name] = Broken]
     \/ End(c) /\ backups' = [backups EXCEPT ![request[c].name] = Broken]
  /\ UNCHANGED <<up, starts, file, cache, reports, again, ghosts>>

\* Mutant: whether there is such a backup is not asked
RestoreOpenAny(c, n) ==
  /\ At(c, "find")
  /\ file' = Empty /\ restored' = TRUE
  /\ request' = [request EXCEPT ![c].pc = "refill", ![c].name = n]
  /\ UNCHANGED <<up, starts, cache, disk, commits>>

RestoreOpen(c, n) ==
  /\ At(c, "find") /\ backups[n] # Absent
  /\ file' = Empty /\ restored' = TRUE
  /\ request' = [request EXCEPT ![c].pc = "refill", ![c].name = n]
  /\ UNCHANGED <<up, starts, cache, disk, commits>>

RestoreFill(c) ==
  /\ At(c, "refill")
  /\ \/ Go(c, "audit") /\ file' = backups[request[c].name]
     \/ Committing(c) /\ Go(c, "audit") /\ file' = Broken
     \/ End(c) /\ file' = Broken
  /\ UNCHANGED <<up, starts, cache, disk, ghosts>>

-----------------------------------------------------------------------------
(* create_setting; update_setting, resolve_alert and mark_read;             *)
(* mark_all_read                                                            *)

CheckKey(c) ==
  /\ At(c, "key") /\ Query(c)
  /\ IF \E r \in View(c) : r.key THEN End(c) ELSE Go(c, "create")
  /\ UNCHANGED <<up, starts, file, disk, ghosts>>

\* The key is UNIQUE.
CreateSetting(c) ==
  /\ At(c, "create") /\ ~\E r \in View(c) : r.key
  /\ InsertRow(c, None, TRUE) /\ Go(c, "audit")
  /\ UNCHANGED <<up, starts, disk, restored>>

Load(c, r) ==
  /\ At(c, "load") /\ Query(c) /\ r \in View(c) /\ r.file = None
  /\ request' = [request EXCEPT ![c].pc = "save", ![c].id = r.id]
  /\ UNCHANGED <<up, starts, file, disk, ghosts>>

Done(r, ids) == {[q EXCEPT !.done = @ \/ q.id \in ids] : q \in r}

\* An UPDATE that finds its row; if a restore has taken it, StaleDataError (Fail).
\* mark_read and mark_all_read write no audit row.
Save(c) ==
  /\ At(c, "save")
  /\ \E r \in View(c) : r.id = request[c].id
  /\ Commit(c, Done(View(c), {request[c].id}))
  /\ Go(c, "audit") \/ End(c)
  /\ UNCHANGED <<up, starts, disk, restored>>

MarkAll(c) ==
  /\ At(c, "mark") /\ \E r \in View(c) : ~r.done
  /\ Commit(c, Done(View(c), 1 .. MaxCommits))
  /\ End(c)
  /\ UNCHANGED <<up, starts, disk, restored>>

-----------------------------------------------------------------------------
(* The process                                                              *)

Crash ==
  /\ up /\ up' = FALSE
  /\ request' = [c \in Conn |-> Idle]
  /\ cache' = [c \in Conn |-> Empty]
  /\ restored' = FALSE
  /\ reports' = [n \in Name |-> IF Writing(n) THEN BrokenOff(n) ELSE reports[n]]
  /\ UNCHANGED <<starts, file, backups, again, commits>>

\* Mutant: the tables are dropped and created anew
StartFresh ==
  /\ ~up /\ starts < MaxStarts /\ file.state \in {"rows", "empty"}
  /\ up' = TRUE /\ starts' = starts + 1
  /\ file' = Rows(file.change + 1, {})
  /\ UNCHANGED <<cache, disk, request, ghosts>>

\* init_db creates the tables that are missing, in an empty file all of them.
Start ==
  /\ ~up /\ starts < MaxStarts /\ file.state \in {"rows", "empty"}
  /\ up' = TRUE /\ starts' = starts + 1
  /\ file' = IF file = Empty THEN Rows(1, {}) ELSE file
  /\ UNCHANGED <<cache, disk, request, ghosts>>

-----------------------------------------------------------------------------
Init ==
  /\ up = TRUE /\ starts = 0
  /\ file = Rows(0, {}) /\ cache = [c \in Conn |-> Empty]
  /\ backups = [s \in Name |-> Absent]
  /\ reports = [s \in Name |-> "none"] /\ again = {}
  /\ request = [c \in Conn |-> Idle]
  /\ commits = 0 /\ restored = FALSE

Routes == {"insert", "query", "copy", "find", "key", "load", "mark"}

Step(c) ==
  \/ \E pc \in Routes : Authenticate(c, pc)
  \/ Insert(c) \/ Audit(c) \/ Fail(c)
  \/ ReportWrite(c) \/ BackupFill(c) \/ RestoreFill(c)
  \/ \E n \in Name : ReportOpen(c, n) \/ BackupOpen(c, n) \/ RestoreOpen(c, n)
  \/ CheckKey(c) \/ CreateSetting(c) \/ Save(c) \/ MarkAll(c)
  \/ \E r \in file.rows \cup UNION {cache[x].rows : x \in Conn} : Load(c, r)

Next == Crash \/ Start \/ \E c \in Conn : Step(c)

Spec == Init /\ [][Next]_vars

-----------------------------------------------------------------------------
(* Properties                                                               *)

Content == [state : {"empty", "broken", "absent", "rows"}, change : Nat,
            rows : SUBSET Row]

TypeOK ==
  /\ up \in BOOLEAN /\ starts \in 0 .. MaxStarts
  /\ file \in Content /\ file.state \in {"empty", "broken", "rows"}
  /\ cache \in [Conn -> Content] /\ backups \in [Name -> Content]
  /\ reports \in [Name -> {"none", "part", "whole", "broken", "mixed"}] /\ again \subseteq Name
  /\ request \in [Conn -> [pc : {"idle", "audit", "write", "fill", "refill", "create", "save"}
                                  \cup Routes,
                            name : Name \cup {None}, id : 0 .. MaxCommits]]
  /\ commits \in 0 .. MaxCommits /\ restored \in BOOLEAN

\* A report that the database lists, now or after any restore, has its whole file, unless
\* another report has taken its name: then the file may be a mixture or broken off, and is
\* incomplete only while it is being written (reports.py:45-77, 91-101; backups.py:94).
ReportHasFile ==
  \A r \in file.rows \cup (UNION {backups[s].rows : s \in Name})
           \cup (UNION {cache[c].rows : c \in Conn}) :
    r.file # None =>
      \/ reports[r.file] = "whole"
      \/ r.file \in again /\ (reports[r.file] = "part" => Writing(r.file))

\* Until a process has begun to restore, no request and no crash takes back a row or what
\* was done to it (settings.py:44-70, alerts.py:54-59, notifications.py:77-94).
OnlyRestoreTakesBack ==
  [][~restored' => \A r \in file.rows : \E q \in file'.rows :
        q.id = r.id /\ q.file = r.file /\ q.key = r.key /\ (r.done => q.done)]_vars

\* What a connection would read is what the file holds: a restore finds no connection open
\* that knows the file from before (backups.py:93-94).
ReadsAreCurrent ==
  \A c \in Conn : file.state = "rows" => View(c) = file.rows
=============================================================================

----------------------------- MODULE GitReview ------------------------------
(***************************************************************************)
(* Reviewing a Git working tree while an agent or an editor writes to it   *)
(* (src-tauri/src/git_review.rs): the manifest of a scope and its snapshot *)
(* id, one file's patch under that id, and the two captures of a turn's    *)
(* workspace.  Each of them reads the repository in several commands and   *)
(* file reads, between which anything may be written.                      *)
(*                                                                         *)
(* A file is what it contains and when it was written; a commit is its     *)
(* place in the history and its tree.  Renames, copies and conflicts are   *)
(* left out: they change what an entry says, not when it is read.          *)
(***************************************************************************)
EXTENDS Naturals, Sequences, SequencesExt, FiniteSets, FiniteSetsExt

CONSTANTS
    Paths,      \* the files of the repository, numbered in their order
    Tasks,      \* reviews and captures
    Worlds,     \* what each task does, and the repository it finds
    MaxWrites   \* how often the repository is written to

Absent == "absent"
Texts == {"a", "b"}
Contents == Texts \cup {"big", "link", Absent}

VARIABLES
    log,        \* the states the repository has been in, the last one its present
    task,       \* the tasks
    registered, \* TURN_CAPTURE_LOCKS: the lock of this repository, 0 for none
    failures    \* commands may fail in this world

vars == <<log, task, registered, failures>>

Repo == Last(log)
-----------------------------------------------------------------------------
(* The repository, as Git reports it.                                      *)

NoTree == [p \in Paths |-> Absent]
NoCommit == [at |-> 0, tree |-> NoTree]
Commit(repo, n) == IF n \notin DOMAIN repo.history THEN NoCommit ELSE [at |-> n, tree |-> repo.history[n]]
HeadOf(repo) == Commit(repo, Len(repo.history))
Parent(repo, commit) == Commit(repo, commit.at - 1)

\* resolve_scope: the commits a scope stands for now
CanResolve(scope, repo) == scope \in {"branch", "commit"} => repo.history # <<>>
Resolved(scope, repo) ==
    [scope |-> scope, head |-> HeadOf(repo),
     base |-> CASE scope = "branch" -> Commit(repo, repo.base)
                [] scope = "commit" -> Parent(repo, HeadOf(repo))
                [] OTHER -> NoCommit]

IsCommitted(scope) == scope \in {"branch", "commit"}

\* git status --porcelain=v2: a tracked path with what HEAD and the index have, and
\* an untracked one, which may be the same path
Entry(p, repo, untracked) ==
    [path |-> p, untracked |-> untracked,
     head |-> IF untracked THEN Absent ELSE HeadOf(repo).tree[p],
     index |-> IF untracked THEN Absent ELSE repo.index[p],
     indexChanged |-> ~untracked /\ repo.index[p] # HeadOf(repo).tree[p],
     worktreeChanged |-> ~untracked /\ repo.index[p] # Absent /\ repo.work[p].content # repo.index[p],
     gone |-> repo.work[p].content = Absent]

\* parse_porcelain
Status(repo) ==
    {e \in {Entry(p, repo, FALSE) : p \in Paths} : e.indexChanged \/ e.worktreeChanged}
        \cup {Entry(p, repo, TRUE) :
                p \in {q \in Paths : repo.index[q] = Absent /\ repo.work[q].content # Absent}}

\* change_status: the working tree's letter before the index's
ChangeStatus(e) ==
    IF e.untracked THEN "added"
    ELSE IF e.worktreeChanged THEN IF e.gone THEN "deleted" ELSE "modified"
    ELSE IF e.head = Absent THEN "added" ELSE IF e.index = Absent THEN "deleted" ELSE "modified"

\* entry_areas
Areas(e, scope) ==
    CASE scope = "workingTree" ->
           {a \in {"staged", "unstaged", "untracked"} :
              \/ a = "staged" /\ e.indexChanged
              \/ a = "unstaged" /\ e.worktreeChanged
              \/ a = "untracked" /\ e.untracked}
      [] scope = "staged" -> IF e.indexChanged THEN {"staged"} ELSE {}
      [] scope = "unstaged" -> IF e.untracked THEN {"untracked"}
                               ELSE IF e.worktreeChanged THEN {"unstaged"} ELSE {}

Precedes(e, f) ==
    \/ e.path < f.path
    \/ e.path = f.path /\ ~e.untracked /\ f.untracked

\* worktree_files: the entries of the scope in the order of their paths
WorktreeFiles(scope, status) ==
    LET shown == {e \in status : Areas(e, scope) # {}}
        file(e) == [path |-> e.path, status |-> ChangeStatus(e), areas |-> Areas(e, scope)]
    IN  [i \in 1 .. Cardinality(shown) |->
           file(CHOOSE e \in shown : Cardinality({f \in shown : Precedes(f, e)}) = i - 1)]

\* committed_files
CommittedFiles(resolved) ==
    LET changed == {p \in Paths : resolved.base.tree[p] # resolved.head.tree[p]}
        letter(p) == IF resolved.base.tree[p] = Absent THEN "added"
                     ELSE IF resolved.head.tree[p] = Absent THEN "deleted" ELSE "modified"
        nth(i) == CHOOSE p \in changed : Cardinality({q \in changed : q < p}) = i - 1
    IN  [i \in 1 .. Cardinality(changed) |->
           [path |-> nth(i), status |-> letter(nth(i)), areas |-> {"committed"}]]

\* What git diff takes a path of the working tree to hold: only what the index has is
\* looked at.
TrackedWork(p, repo) == IF repo.index[p] = Absent THEN Absent ELSE repo.work[p].content

\* What the two sides of the scope hold of a path, HEAD resolved before: the commands
\* name a commit where the scope does, and read the index or a file as it is now.
Sides(resolved, p, repo) ==
    CASE resolved.scope = "workingTree" -> <<resolved.head.tree[p], TrackedWork(p, repo)>>
      [] resolved.scope = "staged" -> <<HeadOf(repo).tree[p], repo.index[p]>>
      [] resolved.scope = "unstaged" -> <<repo.index[p], TrackedWork(p, repo)>>
      [] OTHER -> <<resolved.base.tree[p], resolved.head.tree[p]>>

\* worktree_numstats: what git diff --numstat prints, which says of a path that
\* something differs and no more; without a commit, of the index and of the working
\* tree apart.
IsUnborn(resolved) == resolved.scope = "workingTree" /\ resolved.head = NoCommit
Numstat(resolved, repo) ==
    IF IsUnborn(resolved)
    THEN <<{p \in Paths : repo.index[p] # Absent}, {p \in Paths : repo.index[p] # TrackedWork(p, repo)}>>
    ELSE <<{p \in Paths : Sides(resolved, p, repo)[1] # Sides(resolved, p, repo)[2]}>>

\* untracked_numstat: the files that are no text when their lines are counted, and
\* are listed as binary
Binaries(resolved, files, repo) ==
    {i \in DOMAIN files : /\ IsUnborn(resolved) \/ "untracked" \in files[i].areas
                          /\ repo.work[files[i].path].content \notin Texts}

\* append_worktree_fingerprints: length, time and hash of what is in the working tree;
\* a link is not followed, and a file over the cap is not hashed
Fingerprint(file) ==
    IF file.content = Absent THEN file
    ELSE IF file.content = "link" THEN [content |-> "link", stamp |-> 0] ELSE file

IsFingerprinted(f) == f.areas \cap {"unstaged", "untracked"} # {}
Fingerprints(scope, files, repo) ==
    IF scope \notin {"workingTree", "unstaged"} THEN <<>>
    ELSE [i \in {j \in DOMAIN files : IsFingerprinted(files[j])} |-> Fingerprint(repo.work[files[i].path])]

\* Mutant: the snapshot id without the commits the scope resolved to.
AnyIdentity(resolved) == [resolved EXCEPT !.base = NoCommit]

\* append_snapshot_identity
Identity(resolved) == resolved

\* The material of the snapshot id: what it digests is what tells two ids apart.
\* The lines counted of a file Git does not diff, and that it is binary, are not in it.
SnapshotId(m) == <<Identity(m.resolved), m.status, m.files, m.numstat, m.prints>>

NoManifest ==
    [resolved |-> <<>>, status |-> {}, files |-> <<>>, numstat |-> <<>>, binary |-> {}, prints |-> <<>>]

\* The manifest that would be read if nothing were written meanwhile
ManifestAt(scope, repo) ==
    LET resolved == Resolved(scope, repo)
        status == IF IsCommitted(scope) THEN {} ELSE Status(repo)
        files == IF IsCommitted(scope) THEN CommittedFiles(resolved) ELSE WorktreeFiles(scope, status)
    IN  [resolved |-> resolved, status |-> status, files |-> files,
         numstat |-> Numstat(resolved, repo), binary |-> Binaries(resolved, files, repo),
         prints |-> Fingerprints(scope, files, repo)]
-----------------------------------------------------------------------------
(* One file's patch.                                                       *)

FileOf(m, p) == SelectSeq(m.files, LAMBDA f : f.path = p)[1]

\* untracked_patch: nothing but text of a bounded length has one
CanPatch(f, repo) == "untracked" \in f.areas => repo.work[f.path].content \in Texts

\* patch_for_file; without a commit, of the index and of the working tree apart
FirstPatch(m, f, repo) ==
    IF "untracked" \in f.areas THEN <<Absent, repo.work[f.path].content>>
    ELSE IF IsUnborn(m.resolved) THEN <<Absent, repo.index[f.path]>>
    ELSE Sides(m.resolved, f.path, repo)
SecondPatch(f, repo) == <<repo.index[f.path], TrackedWork(f.path, repo)>>
HasSecond(m, f) == IsUnborn(m.resolved) /\ "untracked" \notin f.areas

PatchAt(m, p, repo) ==
    LET f == FileOf(m, p)
    IN  <<FirstPatch(m, f, repo)>> \o (IF HasSecond(m, f) THEN <<SecondPatch(f, repo)>> ELSE <<>>)
-----------------------------------------------------------------------------
(* What the tasks do, step by step.                                        *)

Manifest == <<"resolve", "status", "numstat", "count", "prints">>
Program(kind) ==
    CASE kind = "review" -> Manifest \o <<"show">> \o Manifest \o <<"first", "again", "patch", "second">>
                                \o Manifest \o <<"deliver">>
      [] kind = "workspace" -> <<"name", "lock">> \o Manifest \o <<"index", "read", "exact">>
                                \o Manifest \o <<"compare">>
      [] kind = "paths" -> <<"name", "lock", "scoped", "read", "keep", "scoped", "read", "match">>
      [] kind = "idle" -> <<"done">>

NewTask(w) ==
    [kind |-> w.kind, scope |-> w.scope, pc |-> 1, m |-> NoManifest,
     asked |-> <<>>, shown |-> NoManifest, path |-> 0, patch |-> <<>>, outcome |-> "running",
     lock |-> 0, todo |-> <<>>, index |-> NoTree, entries |-> <<>>, exact |-> <<>>, before |-> <<>>,
     truncated |-> FALSE]

At(t, step) == task[t].outcome = "running" /\ Program(task[t].kind)[task[t].pc] = step

\* A capture that has returned has let go of its lock.
Ending(t, outcome) == [t EXCEPT !.outcome = outcome, !.lock = 0]
Becomes(t, x) == task' = [task EXCEPT ![t] = [x EXCEPT !.pc = task[t].pc + 1]] /\ UNCHANGED <<log, registered, failures>>
Stays(t, x) == task' = [task EXCEPT ![t] = x] /\ UNCHANGED <<log, registered, failures>>
Ends(t, x, outcome) == Stays(t, Ending(x, outcome))

\* A command fails, times out or is not found; the last manifest of a capture that
\* fails is one that differs.
CommandSteps == {"resolve", "status", "numstat", "again", "patch", "second", "scoped", "index"}
InLastManifest(t) == task[t].kind = "workspace" /\ task[t].pc > 10
CommandFails(t) ==
    /\ failures /\ \E s \in CommandSteps : At(t, s)
    /\ ~InLastManifest(t)
    /\ IF At(t, "index") THEN Becomes(t, [task[t] EXCEPT !.truncated = TRUE, !.todo = task[t].m.files,
                                                         !.before = SnapshotId(task[t].m)])
       ELSE Ends(t, task[t], "failed")

LastManifestFails(t) ==
    /\ failures /\ \E s \in CommandSteps : At(t, s)
    /\ InLastManifest(t)
    /\ Ends(t, [task[t] EXCEPT !.truncated = TRUE], "captured")

ResolveScope(t) ==
    /\ At(t, "resolve")
    /\ IF CanResolve(task[t].scope, Repo)
       THEN Becomes(t, [task[t] EXCEPT !.m = [NoManifest EXCEPT !.resolved = Resolved(task[t].scope, Repo)]])
       ELSE Ends(t, task[t], "failed")

ReadStatus(t) ==
    /\ At(t, "status")
    /\ LET m == task[t].m
           status == IF IsCommitted(task[t].scope) THEN {} ELSE Status(Repo)
           files == IF IsCommitted(task[t].scope) THEN CommittedFiles(m.resolved)
                    ELSE WorktreeFiles(task[t].scope, status)
       IN  Becomes(t, [task[t] EXCEPT !.m = [m EXCEPT !.status = status, !.files = files]])

ReadNumstat(t) ==
    /\ At(t, "numstat")
    /\ Becomes(t, [task[t] EXCEPT !.m.numstat = Numstat(task[t].m.resolved, Repo)])

CountLines(t) ==
    /\ At(t, "count")
    /\ Becomes(t, [task[t] EXCEPT !.m.binary = Binaries(task[t].m.resolved, task[t].m.files, Repo)])

ReadFingerprints(t) ==
    /\ At(t, "prints")
    /\ LET m == task[t].m
           prints == Fingerprints(task[t].scope, m.files, Repo)
           over == \E i \in DOMAIN prints : prints[i].content = "big"
       IN  Becomes(t, [task[t] EXCEPT !.m = [m EXCEPT !.prints = prints], !.truncated = @ \/ over])
-----------------------------------------------------------------------------
(* get_git_review_manifest, then get_git_review_file of one of its files.  *)

Ask(t) ==
    /\ At(t, "show")
    /\ IF task[t].m.files = <<>> THEN Ends(t, task[t], "empty")
       ELSE \E f \in Range(task[t].m.files) :
              Becomes(t, [task[t] EXCEPT !.asked = SnapshotId(task[t].m), !.shown = task[t].m,
                                              !.path = f.path])

\* ensure_snapshot_current before the patch
EnsureCurrent(t) ==
    /\ At(t, "first")
    /\ IF SnapshotId(task[t].m) = task[t].asked THEN Becomes(t, task[t]) ELSE Ends(t, task[t], "stale")

ResolveAgain(t) ==
    /\ At(t, "again")
    /\ IF CanResolve(task[t].scope, Repo)
       THEN Becomes(t, [task[t] EXCEPT !.m.resolved = Resolved(task[t].scope, Repo)])
       ELSE Ends(t, task[t], "failed")

\* What the manifest calls binary has no patch.
IsBinary(m, p) == \E i \in m.binary : m.files[i] = FileOf(m, p)

ReadPatch(t) ==
    /\ At(t, "patch")
    /\ LET m == task[t].m
           f == FileOf(m, task[t].path)
       IN  IF IsBinary(m, task[t].path) THEN Becomes(t, [task[t] EXCEPT !.patch = <<>>])
           ELSE IF ~CanPatch(f, Repo) THEN Ends(t, task[t], "failed")
           ELSE Becomes(t, [task[t] EXCEPT !.patch = <<FirstPatch(m, f, Repo)>>])

ReadSecondPatch(t) ==
    /\ At(t, "second")
    /\ LET m == task[t].m
           f == FileOf(m, task[t].path)
       IN  Becomes(t, IF HasSecond(m, f) /\ ~IsBinary(m, task[t].path) THEN [task[t] EXCEPT !.patch = Append(@, SecondPatch(f, Repo))]
                      ELSE task[t])

\* ensure_snapshot_current after the patch, on a manifest read again
StillCurrent(asked, m) == SnapshotId(m) = asked

Deliver(t) ==
    /\ At(t, "deliver")
    /\ Ends(t, task[t], IF StillCurrent(task[t].asked, task[t].m) THEN "delivered" ELSE "stale")
-----------------------------------------------------------------------------
(* The captures, one at a time per repository.                             *)

InUse(lock) == \E u \in Tasks : task[u].lock = lock

\* Weak::upgrade: someone still holds the lock that is registered
IsAlive(lock) == lock # 0 /\ InUse(lock)

\* turn_capture_lock
NameLock(t) ==
    /\ At(t, "name")
    /\ LET lock == IF IsAlive(registered) THEN registered ELSE registered + 1
       IN  /\ registered' = lock
           /\ task' = [task EXCEPT ![t] = [@ EXCEPT !.lock = lock, !.pc = @ + 1]]
    /\ UNCHANGED <<log, failures>>

IsCapturing(u) == task[u].outcome = "running" /\ task[u].kind \in {"workspace", "paths"} /\ task[u].pc > 2
TakeLock(t) ==
    /\ At(t, "lock")
    /\ \A u \in Tasks : task[u].lock = task[t].lock => ~IsCapturing(u)
    /\ Becomes(t, task[t])

\* turn_index_identities
ReadIndex(t) ==
    /\ At(t, "index")
    /\ Becomes(t, [task[t] EXCEPT !.index = Repo.index, !.todo = task[t].m.files,
                                  !.before = SnapshotId(task[t].m)])

\* turn_entry_identity: the status, the index and the content of a file; no time, and
\* nothing of the content over the cap
EntryIdentity(file, index, work) ==
    [file |-> file, index |-> index, content |-> work.content]

\* scoped_turn_entries and the loop of capture_turn_workspace_inner: one file at a time
ReadEntry(t) ==
    /\ At(t, "read")
    /\ IF task[t].todo = <<>> THEN Becomes(t, [task[t] EXCEPT !.todo = [i \in 1 .. Cardinality(Paths) |-> i]])
       ELSE LET f == Head(task[t].todo)
                index == IF task[t].kind = "paths" THEN task[t].m.status ELSE task[t].index[f.path]
                entry == EntryIdentity(f, index, Repo.work[f.path])
            IN  Stays(t, [task[t] EXCEPT !.entries = Append(@, entry), !.todo = Tail(@),
                                         !.truncated = @ \/ entry.content = "big"])

\* capture_exact_path_states, of all paths: a link or a large file is not read
ReadExact(t) ==
    /\ At(t, "exact")
    /\ IF task[t].todo = <<>> THEN Becomes(t, task[t])
       ELSE LET content == Repo.work[Head(task[t].todo)].content
            IN  Stays(t, [task[t] EXCEPT !.exact = Append(@, content), !.todo = Tail(@),
                                         !.truncated = @ \/ content \in {"big", "link"}])

\* What was read before an image and after it is not the same.
Raced(before, after) == before # after

CompareManifests(t) ==
    /\ At(t, "compare")
    /\ Ends(t, [task[t] EXCEPT !.truncated = @ \/ Raced(task[t].before, SnapshotId(task[t].m))], "captured")

\* One of capture_turn_paths' two scoped status reads
ReadScopedStatus(t) ==
    /\ At(t, "scoped")
    /\ LET files == WorktreeFiles("workingTree", Status(Repo))
       IN  Becomes(t, [task[t] EXCEPT !.m = [@ EXCEPT !.status = Status(Repo), !.files = files],
                                      !.todo = files, !.entries = <<>>])

KeepFirstPass(t) ==
    /\ At(t, "keep")
    /\ Becomes(t, [task[t] EXCEPT !.before = <<task[t].m.status, task[t].entries>>])

MatchPasses(t) ==
    /\ At(t, "match")
    /\ LET raced == Raced(task[t].before, <<task[t].m.status, task[t].entries>>)
       IN  Ends(t, [task[t] EXCEPT !.truncated = @ \/ raced], "captured")
-----------------------------------------------------------------------------
(* Agents and editors, and the whole.                                      *)

Written(repo) == log' = Append(log, repo) /\ UNCHANGED <<task, registered, failures>>
CanWrite == Len(log) <= MaxWrites /\ \E t \in Tasks : task[t].outcome = "running"

WriteFile ==
    /\ CanWrite
    /\ \E p \in Paths, c \in Contents \ {"big"} :
         Written([Repo EXCEPT !.work[p] = [content |-> c, stamp |-> Len(log)]])

StageFile ==
    /\ CanWrite
    /\ \E p \in Paths : Repo.work[p].content # Repo.index[p]
                        /\ Written([Repo EXCEPT !.index[p] = Repo.work[p].content])

CommitIndex ==
    /\ CanWrite
    /\ Repo.index # HeadOf(Repo).tree
    /\ Written([Repo EXCEPT !.history = Append(@, Repo.index), !.base = IF @ = 0 THEN 1 ELSE @])

MoveBase ==
    /\ CanWrite
    /\ \E n \in DOMAIN Repo.history : n # Repo.base /\ Written([Repo EXCEPT !.base = n])

Init ==
    \E w \in Worlds :
        /\ log = <<w.repo>> /\ failures = w.failures /\ registered = 0
        /\ task = [t \in Tasks |-> NewTask(w.tasks[t])]

Step(t) ==
    \/ ResolveScope(t) \/ ReadStatus(t) \/ ReadNumstat(t) \/ CountLines(t) \/ ReadFingerprints(t)
    \/ Ask(t) \/ EnsureCurrent(t) \/ ResolveAgain(t) \/ ReadPatch(t) \/ ReadSecondPatch(t) \/ Deliver(t)
    \/ NameLock(t) \/ TakeLock(t) \/ ReadIndex(t) \/ ReadEntry(t) \/ ReadExact(t) \/ CompareManifests(t)
    \/ ReadScopedStatus(t) \/ KeepFirstPass(t) \/ MatchPasses(t)
    \/ CommandFails(t) \/ LastManifestFails(t)

Next ==
    \/ \E t \in Tasks : Step(t)
    \/ WriteFile \/ StageFile \/ CommitIndex \/ MoveBase
Spec == Init /\ [][Next]_vars
-----------------------------------------------------------------------------
Recurs(View(_)) ==
    \E i, j, k \in DOMAIN log : i < j /\ j < k /\ View(log[i]) = View(log[k]) /\ View(log[i]) # View(log[j])

\* Something was put back as it was, and no comparison of before and after can tell:
\* what is staged, a file that nothing takes the time of, the base.
PutBack(timed) ==
    LET Place(p, repo) ==
            <<repo.index[p],
              IF timed /\ \E e \in Status(repo) : e.path = p /\ (e.worktreeChanged \/ e.untracked)
              THEN Fingerprint(repo.work[p]) ELSE [repo.work[p] EXCEPT !.stamp = 0]>>
    IN  \/ \E p \in Paths : Recurs(LAMBDA repo : Place(p, repo))
        \/ Recurs(LAMBDA repo : repo.base)

\* The manifest but for what is counted of the files Git does not diff
Listed(m) == <<m.resolved, m.status, m.files, m.numstat, m.prints>>

\* A patch is delivered only with the manifest it belongs to: there was a moment at
\* which the scope had the manifest that was shown and the file that patch, whatever
\* was written while the manifests and the patch were read; a file without a patch was
\* no text at some moment.  What is counted of a file Git does not diff may be of an
\* earlier moment (get_git_review_file, untracked_numstat).
PatchIsOfSnapshot ==
    \A t \in Tasks :
        LET x == task[t]
        IN  x.outcome = "delivered" /\ ~PutBack(x.scope \in {"workingTree", "unstaged"}) =>
              \E i \in DOMAIN log :
                 LET now == ManifestAt(x.scope, log[i])
                 IN  /\ Listed(now) = Listed(x.shown)
                     /\ \/ x.patch = PatchAt(now, x.path, log[i])
                        \/ x.patch = <<>> /\ \E j \in DOMAIN log : log[j].work[x.path].content \notin Texts

ImageAt(kind, repo) ==
    LET files == WorktreeFiles("workingTree", Status(repo))
        index(f) == IF kind = "paths" THEN Status(repo) ELSE repo.index[f.path]
    IN  [i \in DOMAIN files |-> EntryIdentity(files[i], index(files[i]), repo.work[files[i].path])]

\* A capture of a turn's workspace that calls itself complete is the image of one
\* moment, and captures of a repository do not run at the same time
\* (capture_turn_workspace_inner, capture_turn_paths_inner, turn_capture_lock).
CapturesAreSound ==
    /\ \A t, u \in Tasks : t # u => ~(IsCapturing(t) /\ IsCapturing(u))
    /\ \A t \in Tasks :
        LET x == task[t]
        IN  x.outcome = "captured" /\ ~x.truncated /\ ~PutBack(x.kind = "workspace") =>
              \E i \in DOMAIN log :
                 /\ x.entries = ImageAt(x.kind, log[i])
                 /\ x.kind = "workspace" => x.exact = [p \in Paths |-> log[i].work[p].content]
=============================================================================

----------------------------- MODULE FileStorage -----------------------------
(***************************************************************************)
(* The files of OSF storage: the tree of folders and files of each project *)
(* or preprint, the versions of the files, the blobs that hold them in the *)
(* bucket, who has checked a file out, and what removes all of these       *)
(* (addons/osfstorage, osf/models/files.py, scripts/purge_trashed_files).  *)
(*                                                                         *)
(* WaterButler asks for leave (get_auth), stores the content of an upload  *)
(* and then calls the hook that records it.  The hook loads the row of the *)
(* file, counts versions and saves the whole row later; in between, other  *)
(* requests may commit.  A PATCH of a file locks its row, and it, the      *)
(* moves, copies, deletions, scripts and tasks are taken to be one step.   *)
(* Names, sizes, hashes and regions are left out: a request whose name is  *)
(* taken changes nothing.                                                  *)
(***************************************************************************)
EXTENDS Naturals, Sequences, FiniteSets

CONSTANTS
  Threads,     \* the requests, scripts and tasks that run at a time
  Projects,    \* the targets that are nodes
  Preprints,   \* the targets that are preprints
  Folders,     \* the folders that may be created
  Files,       \* the files that may be created
  Root,        \* Root[p]: the root folder of target p
  Users,       \* the users that write to the targets
  Admin,       \* the user who administers all the targets
  Objects,     \* the contents, named in the bucket by their hashes
  None,        \* no row, no user
  MaxVersions  \* bound on the uploads that make a version

Targets == Projects \cup Preprints
Roots   == {Root[p] : p \in Targets}
Created == Folders \cup Files
Items   == Roots \cup Created

ASSUME TargetsAssumption ==
  /\ Projects \cap Preprints = {} /\ Folders \cap Files = {}
  /\ Roots \cap Created = {} /\ DOMAIN Root = Targets
  /\ \A p, q \in Targets : Root[p] = Root[q] => p = q
ASSUME UsersAssumption ==
  /\ Admin \in Users /\ None \notin Users \cup Items \cup Targets
ASSUME BoundsAssumption ==
  /\ MaxVersions \in Nat /\ IsFiniteSet(Threads) /\ IsFiniteSet(Items)

VARIABLES
  row,       \* row[i]: the row of file or folder i
  attached,  \* attached[f]: the versions of f, by their place in version
  version,   \* the versions in the order of their creation
  stored,    \* the contents that are in the bucket
  members,   \* members[p]: the contributors of p, who may all write
  gone,      \* the projects that are deleted
  primary,   \* primary[p]: the primary file of preprint p
  tasks,     \* the tasks that wait for a worker
  thread     \* thread[t]: the upload it serves and the row it has loaded

files == <<row, attached, version, stored>>
vars  == <<files, members, gone, primary, tasks, thread>>

-----------------------------------------------------------------------------
Row == [type : {"new", "active", "trashed"},
        parent : (Items \ Files) \cup {None}, target : Targets \cup {None},
        checkout : Users \cup {None}, purged : BOOLEAN]

Unused == [type |-> "new", parent |-> None, target |-> None,
           checkout |-> None, purged |-> FALSE]

Fresh(parent, target) ==
  [Unused EXCEPT !.type = "active", !.parent = parent, !.target = target]

Task == [fn : {"checkin"}, target : Targets, user : Users]
          \cup [fn : {"delete"}, target : Projects]

Idle == [op |-> "none"]

Upload == [op : {"upload"}, user : Users, file : Files, row : Row,
           seen : SUBSET (1..MaxVersions), object : Objects]

Live == {i \in Items : row[i].type = "active"}

\* Any longer way down passes through a folder twice.
Depth == Cardinality(Folders) + 1

Reach(rows, i, S) ==
  LET reach[n \in 0..Depth] ==
        IF n = 0 THEN {i}
        ELSE LET r == reach[n - 1]
             IN r \cup {j \in S : rows[j].parent \in r}
  IN reach

\* i and what is below it through rows of S.
Below(rows, i, S) == Reach(rows, i, S)[Depth]

LiveBelow(i) == Below(row, i, Live)

\* Mutated form: a folder is looked at, and not what is in it.
CheckedOutItself(i) == row[i].checkout # None

\* is_checked_out; of a folder, with all below it, trashed rows too.
CheckedOut(i) ==
  \E j \in {c \in Created : row[c].checkout # None} : j \in Below(row, i, Created)

\* Mutated form: what is in a folder is not looked at.
PrimaryItself(i) == row[i].target \in Preprints /\ primary[row[i].target] = i

\* is_preprint_primary; of a folder, whether the primary file is in it.
IsPrimary(i) ==
  /\ row[i].target \in Preprints /\ primary[row[i].target] # None
  /\ \E f \in LiveBelow(i) \cap Files :
       row[f].target \in Preprints /\ primary[row[f].target] = f

CanWrite(u, p) == p \notin gone /\ u \in members[p]

Newest(vs) == CHOOSE v \in vs : \A w \in vs : w <= v

\* Mutated form: versions are counted over all files.
NumberOfAll(vs) == Len(version) + 1

NextIdentifier(vs) == Cardinality(vs) + 1

-----------------------------------------------------------------------------
Init ==
  /\ row = [i \in Items |->
              IF i \in Roots
              THEN Fresh(None, CHOOSE p \in Targets : Root[p] = i)
              ELSE Unused]
  /\ attached = [f \in Files |-> {}] /\ version = <<>> /\ stored = {}
  /\ members = [p \in Targets |-> Users] /\ gone = {}
  /\ primary = [p \in Preprints |-> None]
  /\ tasks = {} /\ thread = [t \in Threads |-> Idle]

\* osfstorage_create_child of a folder.
CreateFolder(t, u, i, parent) ==
  /\ thread[t] = Idle
  /\ i \in Folders /\ row[i].type = "new"
  /\ parent \in Live \ Files /\ CanWrite(u, row[parent].target)
  /\ row' = [row EXCEPT ![i] = Fresh(parent, row[parent].target)]
  /\ UNCHANGED <<attached, version, stored, members, gone, primary, tasks,
                 thread>>

Uploading == {t \in Threads : thread[t].op = "upload"}

\* osfstorage_create_child of a file, new or of a name that is there: its row
\* is loaded, nobody else has it checked out, and its versions are counted.
LoadUpload(t, u, f, parent, object) ==
  /\ thread[t] = Idle
  /\ parent \in Live \ Files /\ CanWrite(u, row[parent].target)
  /\ \/ /\ row[f].type = "new"
        /\ \A s \in Uploading : thread[s].file # f
     \/ row[f].type = "active" /\ row[f].parent = parent
  /\ row[f].checkout \in {None, u}
  /\ Len(version) + Cardinality(Uploading) < MaxVersions
  /\ stored' = stored \cup {object}
  /\ thread' = [thread EXCEPT ![t] =
       [op |-> "upload", user |-> u, file |-> f, seen |-> attached[f],
        object |-> object,
        row |-> IF row[f].type = "new"
                THEN Fresh(parent, row[parent].target) ELSE row[f]]]
  /\ UNCHANGED <<row, attached, version, members, gone, primary, tasks>>

IsDuplicate(r) ==
  r.seen # {} /\ version[Newest(r.seen)].object = r.object

\* create_version; of what the newest version has, it returns that one.
SaveUpload(t) ==
  LET r == thread[t] IN
  /\ r.op = "upload"
  /\ IF IsDuplicate(r) THEN UNCHANGED <<row, attached, version>>
     ELSE /\ version' = Append(version, [object |-> r.object,
                                  identifier |-> NextIdentifier(r.seen)])
          /\ attached' = [attached EXCEPT ![r.file] = @ \cup {Len(version) + 1}]
          /\ row' = [row EXCEPT ![r.file] = r.row]
  /\ thread' = [thread EXCEPT ![t] = Idle]
  /\ UNCHANGED <<stored, members, gone, primary, tasks>>

\* PATCH of checkout, to the user or to nobody: CheckedOutOrAdmin, then
\* check_in_or_out, which only toggles.
CheckInOrOut(t, u, i) ==
  /\ thread[t] = Idle /\ i \in Live \cap Created
  /\ CanWrite(u, row[i].target)
  /\ CheckedOut(i) => u \in {Admin, row[i].checkout}
  /\ row' = [row EXCEPT ![i].checkout = IF CheckedOut(i) THEN None ELSE u]
  /\ UNCHANGED <<attached, version, stored, members, gone, primary, tasks,
                 thread>>

\* Mutated form: what is in a folder keeps its target.
MovedItself(i, d) ==
  [row EXCEPT ![i].parent = d, ![i].target = row[d].target]

\* move_under, and _update_node of what is below.
Moved(i, d) ==
  LET below == LiveBelow(i) IN
  [j \in Items |->
     IF j = i THEN [row[j] EXCEPT !.parent = d, !.target = row[d].target]
     ELSE IF j \in below THEN [row[j] EXCEPT !.target = row[d].target]
     ELSE row[j]]

\* osfstorage_move_hook.  Into itself a folder is not moved: _update_node
\* never returns, and the request is rolled back.
MoveUnder(t, u, i, d) ==
  /\ thread[t] = Idle
  /\ i \in Live \cap Created /\ d \in Live \ Files
  /\ CanWrite(u, row[i].target) /\ CanWrite(u, row[d].target)
  /\ IsPrimary(i) => row[d].target = row[i].target
  /\ ~CheckedOut(i) /\ d \notin LiveBelow(i)
  /\ row' = Moved(i, d)
  /\ UNCHANGED <<attached, version, stored, members, gone, primary, tasks,
                 thread>>

\* The rows that can hold the copies of i and of what is below it.
Clones(i) ==
  LET below == LiveBelow(i) IN
  {clone \in [below -> {j \in Created : row[j].type = "new"}] :
     \A j, k \in below :
       /\ j \in Files <=> clone[j] \in Files
       /\ clone[j] = clone[k] => j = k}

Copies(clone) == {clone[j] : j \in DOMAIN clone}

Original(clone, c) == CHOOSE j \in DOMAIN clone : clone[j] = c

\* copy_files.  A clone loses the foreign keys, the checkout among them, and
\* keeps the rest.
Copied(i, d, clone) ==
  [c \in Items |->
     IF c \notin Copies(clone) THEN row[c]
     ELSE LET j == Original(clone, c) IN
          [row[j] EXCEPT !.parent = IF j = i THEN d ELSE clone[@],
                         !.target = row[d].target, !.checkout = None]]

\* osfstorage_copy_hook.  Who may write at the destination need only read at the
\* source, which may be public.  The versions of a clone are its original's.
CopyUnder(t, u, i, d, clone) ==
  /\ thread[t] = Idle
  /\ i \in Live \cap Created /\ d \in Live \ Files
  /\ row[i].target \notin gone /\ CanWrite(u, row[d].target)
  /\ d \notin LiveBelow(i)
  /\ \A s \in Uploading : thread[s].file \notin Copies(clone)
  /\ row' = Copied(i, d, clone)
  /\ attached' = [c \in Files |-> IF c \in Copies(clone)
                                  THEN attached[Original(clone, c)]
                                  ELSE attached[c]]
  /\ UNCHANGED <<version, stored, members, gone, primary, tasks, thread>>

-----------------------------------------------------------------------------
(* Deletion *)

\* BaseFileNode.delete of each.
Trashed(below) ==
  [j \in Items |-> IF j \in below
                   THEN [row[j] EXCEPT !.type = "trashed"]
                   ELSE row[j]]

\* osfstorage_delete
Delete(t, u, i) ==
  /\ thread[t] = Idle
  /\ i \in Live \cap Created /\ CanWrite(u, row[i].target)
  /\ ~IsPrimary(i) /\ ~CheckedOut(i)
  /\ row' = Trashed(LiveBelow(i))
  /\ UNCHANGED <<attached, version, stored, members, gone, primary, tasks,
                 thread>>

\* Mutated form: other versions with the same content are not looked for.
KeptByOwnFiles(v) == \E f \in Live \cap Files : v \in attached[f]

\* FileVersion._purge keeps what a file that is not deleted has, in this
\* version or in one with the same content.
Kept(v) ==
  \E f \in Live \cap Files : \E w \in attached[f] :
    version[w].object = version[v].object

\* purge_trash, a month after the deletion.
PurgeTrash(t, f) ==
  /\ thread[t] = Idle
  /\ row[f].type = "trashed" /\ ~row[f].purged
  /\ stored' = stored \ {version[v].object : v \in {w \in attached[f] : ~Kept(w)}}
  /\ row' = [row EXCEPT ![f].purged = TRUE]
  /\ UNCHANGED <<attached, version, members, gone, primary, tasks, thread>>

-----------------------------------------------------------------------------
(* What happens to the targets *)

AddContributor(t, p, u) ==
  /\ thread[t] = Idle /\ p \notin gone /\ u \notin members[p]
  /\ members' = [members EXCEPT ![p] = @ \cup {u}]
  /\ UNCHANGED <<files, gone, primary, tasks, thread>>

\* remove_contributor, and the task its signal leaves for after the commit.
RemoveContributor(t, p, u) ==
  /\ thread[t] = Idle /\ p \notin gone /\ u \in members[p] \ {Admin}
  /\ members' = [members EXCEPT ![p] = @ \ {u}]
  /\ tasks' = tasks \cup {[fn |-> "checkin", target |-> p, user |-> u]}
  /\ UNCHANGED <<files, gone, primary, thread>>

\* remove_node, and the task its signal leaves for after the commit.
RemoveNode(t, p) ==
  /\ thread[t] = Idle /\ p \in Projects \ gone
  /\ gone' = gone \cup {p}
  /\ tasks' = tasks \cup {[fn |-> "delete", target |-> p]}
  /\ UNCHANGED <<files, members, primary, thread>>

\* set_primary_file, which moves the file to the root.
SetPrimaryFile(t, u, p, f) ==
  /\ thread[t] = Idle /\ CanWrite(u, p)
  /\ f \in Live /\ row[f].target = p /\ ~CheckedOut(f)
  /\ primary' = [primary EXCEPT ![p] = f]
  /\ row' = Moved(f, Root[p])
  /\ UNCHANGED <<attached, version, stored, members, gone, tasks, thread>>

\* Mutated form: only what lies in the root folder is checked in.
CheckedInAtRoot(p, u) ==
  {f \in Live \cap Files : row[f].parent = Root[p] /\ row[f].checkout = u}

CheckedIn(p, u) ==
  {f \in Live \cap Files : row[f].target = p /\ row[f].checkout = u}

CheckinFilesTask(t, p, u) ==
  LET task == [fn |-> "checkin", target |-> p, user |-> u] IN
  /\ thread[t] = Idle /\ task \in tasks
  /\ row' = IF u \in members[p] THEN row
            ELSE [f \in Items |-> IF f \in CheckedIn(p, u)
                                  THEN [row[f] EXCEPT !.checkout = None]
                                  ELSE row[f]]
  /\ tasks' = tasks \ {task}
  /\ UNCHANGED <<attached, version, stored, members, gone, primary, thread>>

\* delete_files_task: everything below the root becomes trash; or nothing,
\* for good, when anything is checked out.
DeleteFilesTask(t, p) ==
  LET task == [fn |-> "delete", target |-> p] IN
  /\ thread[t] = Idle /\ task \in tasks
  /\ row' = IF CheckedOut(Root[p]) THEN row
            ELSE Trashed(LiveBelow(Root[p]) \ Roots)
  /\ tasks' = tasks \ {task}
  /\ UNCHANGED <<attached, version, stored, members, gone, primary, thread>>

-----------------------------------------------------------------------------
Next ==
  \E t \in Threads :
    \/ \E u \in Users :
         \/ \E parent \in Live \ Files :
              \/ \E i \in Folders : CreateFolder(t, u, i, parent)
              \/ \E f \in Files, object \in Objects :
                   LoadUpload(t, u, f, parent, object)
         \/ \E i \in Created : CheckInOrOut(t, u, i) \/ Delete(t, u, i)
         \/ \E i \in Live \cap Created, d \in Live \ Files :
              \/ MoveUnder(t, u, i, d)
              \/ \E clone \in Clones(i) : CopyUnder(t, u, i, d, clone)
         \/ \E p \in Preprints, f \in Files : SetPrimaryFile(t, u, p, f)
         \/ \E p \in Targets :
              \/ AddContributor(t, p, u) \/ RemoveContributor(t, p, u)
              \/ CheckinFilesTask(t, p, u)
    \/ SaveUpload(t)
    \/ \E f \in Files : PurgeTrash(t, f)
    \/ \E p \in Projects : RemoveNode(t, p) \/ DeleteFilesTask(t, p)

Spec == Init /\ [][Next]_vars

-----------------------------------------------------------------------------
TypeOK ==
  /\ row \in [Items -> Row]
  /\ attached \in [Files -> SUBSET (1..Len(version))]
  /\ version \in Seq([object : Objects, identifier : 1..MaxVersions])
  /\ stored \subseteq Objects
  /\ members \in [Targets -> SUBSET Users] /\ gone \subseteq Projects
  /\ primary \in [Preprints -> Files \cup {None}]
  /\ tasks \subseteq Task
  /\ thread \in [Threads -> {Idle} \cup Upload]

\* The n versions of a file are numbered from 1 to n, its copies included: a
\* download without a version asks for the one numbered n and there must be
\* just that one (get_auth, get_version).
VersionsAreNumbered ==
  \A f \in Files :
    \A n \in 1..Cardinality(attached[f]) :
      Cardinality({v \in attached[f] : version[v].identifier = n}) = 1

\* While a file stays checked out, it is not moved, trashed or overwritten,
\* by itself or with a folder it is in, except that who has checked it out
\* uploads to it: hooks, tasks and scripts all ask.
CheckedOutIsKept ==
  [][\A f \in Files :
       LET u == row[f].checkout IN
       u # None /\ row'[f].checkout = u =>
         /\ row'[f] = row[f]
         /\ attached'[f] # attached[f] =>
              \E t \in Uploading : thread[t].user = u /\ thread[t].file = f]_vars

\* Who has checked out a file is a contributor, or a task is about to check it
\* in: wherever the file lies, and whatever it was copied from.
CheckedOutByMembers ==
  \A f \in Live \cap Files :
    row[f].checkout # None =>
      \/ row[f].checkout \in members[row[f].target]
      \/ [fn |-> "checkin", target |-> row[f].target,
          user |-> row[f].checkout] \in tasks

\* What is live can be reached: the folders above it are live and lead to the
\* root of its own target, after any moves, copies and deletions of folders.
LiveIsReached ==
  /\ Live \subseteq UNION {LiveBelow(r) : r \in Roots}
  /\ \A i \in Live \cap Created : row[i].target = row[row[i].parent].target

\* The purge of other files, which share versions with it or have the same
\* content, leaves a live file its content.
LiveIsStored ==
  \A f \in Live \cap Files :
    \A v \in attached[f] : version[v].object \in stored

\* The primary file of a preprint stays a live file of the preprint, whatever
\* becomes of the folders it was in.
PrimaryFileStays ==
  \A p \in Preprints :
    primary[p] # None => primary[p] \in Live /\ row[primary[p]].target = p

=============================================================================

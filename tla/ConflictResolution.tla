------------------------- MODULE ConflictResolution -------------------------
(***************************************************************************)
(* Resolving a conflicted path (crates/rgitui_git/src/project/local_ops.rs)*)
(* changes two things that cannot be changed together: the file in the     *)
(* working tree and the path's entry in the index.  The file goes first,   *)
(* by renames and links that never overwrite what another program saved;   *)
(* the index follows under git's own lock; if that fails the file is put   *)
(* back.  Every system call that another program can come between is one   *)
(* action.                                                                 *)
(*                                                                         *)
(* The parent directory of the path is a map from names to inodes, an      *)
(* inode has a content, and contents are told apart, not spelled out.  The *)
(* content a resolver puts in the file is named by the resolver.           *)
(***************************************************************************)
EXTENDS Naturals, Sequences

CONSTANTS
    Resolver,             \* resolutions, in this window or in another
    Save,                 \* the contents other programs save
    Original,             \* the conflicted file git left behind
    Empty, Missing,       \* a file just created; no file
    Symlinks,             \* the contents that are the target of a symbolic link
    Marked,               \* the contents with conflict markers in them
    File,                 \* the name of the path in its directory
    Conflict, Elsewhere,  \* stages of the path: unmerged; changed by another git
    Free, Git,            \* nobody holds index.lock; another git process does
    Plans,                \* what a resolver may be asked for
    EditKinds,            \* how other programs change the file
    Faults,               \* the steps at which a system call may fail
    Budget                \* how often each event of the environment may happen

Content == {Original, Empty} \cup Resolver \cup Save
Plan == {"regular", "symlink", "delete", "gitlink", "working"}
BudgetKind == {"edit", "git", "fault", "total"}

ASSUME ConflictAssumption ==
    /\ {Original, Empty} \cap (Resolver \cup Save) = {} /\ Resolver \cap Save = {}
    /\ Original # Empty /\ Missing \notin Content
    /\ Symlinks \subseteq Content /\ Marked \subseteq Content
    /\ Conflict # Elsewhere /\ {Conflict, Elsewhere, Free, Git} \cap Resolver = {}
    /\ Free # Git
    /\ File \notin Resolver \X {"temp", "backup", "applied", "failed"}
    /\ Plans \in [Resolver -> SUBSET Plan]
    /\ \A r \in Resolver : "symlink" \in Plans[r] => r \in Symlinks
    /\ EditKinds \subseteq {"rename", "inplace", "delete"}
    /\ Budget \in [BudgetKind -> Nat]

VARIABLES
    inodes,    \* the content of every inode there was
    dir,       \* the inode of every name, or NoInode
    index,     \* the index on disk
    lock,      \* who holds index.lock
    resolver,  \* the resolutions
    unsaved,   \* the contents of Save not saved yet
    budget     \* what is left of Budget

disk == <<inodes, dir>>
git  == <<index, lock>>
env  == <<unsaved, budget>>
vars == <<disk, git, resolver, env>>

-----------------------------------------------------------------------------
(* The directory *)

NoInode == 0

\* The names a resolver makes up beside the file: its result, the entry it moved
\* aside, what a rollback moved aside, a half-written file it takes back.
Name == {File} \cup (Resolver \X {"temp", "backup", "applied", "failed"})
Temp(r)    == <<r, "temp">>
Backup(r)  == <<r, "backup">>
Applied(r) == <<r, "applied">>
Failed(r)  == <<r, "failed">>

Entry(n) == IF dir[n] = NoInode THEN Missing ELSE inodes[dir[n]]
Exists(n) == dir[n] # NoInode

\* A new file of the given content under a name.
Make(n, content) ==
    /\ inodes' = Append(inodes, content)
    /\ dir' = [dir EXCEPT ![n] = Len(inodes')]

Remove(names) ==
    /\ dir' = [n \in Name |-> IF n \in names THEN NoInode ELSE dir[n]]
    /\ UNCHANGED inodes

Move(from, to) ==
    /\ dir' = [dir EXCEPT ![to] = dir[from], ![from] = NoInode]
    /\ UNCHANGED inodes

-----------------------------------------------------------------------------
(* Other programs *)

Spend(kind) ==
    /\ budget[kind] > 0 /\ budget["total"] > 0
    /\ budget' = [budget EXCEPT ![kind] = @ - 1, !["total"] = @ - 1]

\* An editor saves: by renaming a new file over the path, or into the file there.
SaveFile(kind, content) ==
    /\ Spend("edit")
    /\ unsaved' = unsaved \ {content}
    /\ IF kind = "inplace" /\ Exists(File)
       THEN inodes' = [inodes EXCEPT ![dir[File]] = content] /\ UNCHANGED dir
       ELSE Make(File, content)
    /\ UNCHANGED <<git, resolver>>

DeleteFile ==
    /\ Exists(File)
    /\ Spend("edit")
    /\ Remove({File})
    /\ UNCHANGED <<git, resolver, unsaved>>

GitLocks ==
    /\ lock = Free
    /\ Spend("git")
    /\ lock' = Git
    /\ UNCHANGED <<disk, index, resolver, unsaved>>

\* It changes the path, or other entries.
GitCommits ==
    /\ lock = Git
    /\ lock' = Free
    /\ index' \in {[index EXCEPT !.stage = Elsewhere], [index EXCEPT !.rest = @ + 1]}
    /\ UNCHANGED <<disk, resolver, env>>

-----------------------------------------------------------------------------
(* A resolution, up to the first write *)

NoCopy == [stage |-> Elsewhere, rest |-> 0]

NewResolver ==
    [pc |-> "idle", plan |-> "working", seen |-> Missing, original |-> Missing,
     applied |-> Missing, task |-> "publish", inode |-> NoInode, current |-> Missing,
     from |-> "backup", copy |-> NoCopy]

Goto(r, pc) == resolver' = [resolver EXCEPT ![r].pc = pc]
At(r, pc) == resolver[r].pc = pc
IfElse(condition, pc, other) == IF condition THEN pc ELSE other

\* The resolver is opened: ConflictSnapshot.
Load(r) ==
    /\ At(r, "idle")
    /\ index.stage = Conflict
    /\ resolver' = [resolver EXCEPT ![r].pc = "open", ![r].seen = Entry(File)]
    /\ UNCHANGED <<disk, git, env>>

\* reload_conflict_index, the first of four times.
Start(r, plan) ==
    /\ At(r, "open")
    /\ resolver' = [resolver EXCEPT ![r].plan = plan,
           ![r].pc = IfElse(index.stage = Conflict, "capture", "refused")]
    /\ UNCHANGED <<disk, git, env>>

\* Staging the working copy takes the regular file that is there, unless it holds
\* markers; every other plan wants what was there when the resolver was opened.
Acceptable(plan, entry, seen) ==
    IF plan = "working" THEN entry \notin Symlinks \cup Marked \cup {Missing} ELSE entry = seen

Capture(r) ==
    /\ At(r, "capture")
    /\ resolver' = [resolver EXCEPT ![r].original = Entry(File),
           ![r].pc = IfElse(Acceptable(resolver[r].plan, Entry(File), resolver[r].seen),
                            "recheck", "refused")]
    /\ UNCHANGED <<disk, git, env>>

\* Filters ran in between.
Recheck(r) ==
    /\ At(r, "recheck")
    /\ Goto(r, IfElse(Entry(File) = resolver[r].original, "reload", "refused"))
    /\ UNCHANGED <<disk, git, env>>

FirstStep(plan) ==
    CASE plan = "regular" -> "stage"
      [] plan \in {"symlink", "delete"} -> "displace"
      [] plan \in {"gitlink", "working"} -> "lock"

Reload(r) ==
    /\ At(r, "reload")
    /\ Goto(r, IfElse(index.stage = Conflict, FirstStep(resolver[r].plan), "refused"))
    /\ UNCHANGED <<disk, git, env>>

-----------------------------------------------------------------------------
(* write_regular_worktree_file *)

WriteTemp(r) ==
    /\ At(r, "stage")
    /\ Make(Temp(r), r)
    /\ Goto(r, "compare")
    /\ UNCHANGED <<git, env>>

Compare(r) ==
    /\ At(r, "compare")
    /\ IF Entry(File) = resolver[r].original
       THEN Goto(r, "aside") /\ UNCHANGED disk
       ELSE Goto(r, "refused") /\ Remove({Temp(r)})
    /\ UNCHANGED <<git, env>>

\* "Reserve the current pathname by moving it aside".
MoveAside(r) ==
    /\ At(r, "aside")
    /\ \/ Exists(File) /\ Move(File, Backup(r)) /\ Goto(r, "inspect")
       \/ /\ ~Exists(File) /\ resolver[r].original = Missing
          /\ Goto(r, "publish") /\ UNCHANGED disk
       \/ /\ ~Exists(File) /\ resolver[r].original # Missing
          /\ Goto(r, "refused") /\ Remove({Temp(r)})
    /\ UNCHANGED <<git, env>>

\* Mutant of Inspect: trust the comparison made before the rename.
SkipInspection(r) ==
    /\ At(r, "inspect")
    /\ Goto(r, "publish")
    /\ UNCHANGED <<disk, git, env>>

\* "then compare the exact displaced entry with the caller's snapshot".
Inspect(r) ==
    /\ At(r, "inspect")
    /\ IF Entry(Backup(r)) = resolver[r].original
       THEN Goto(r, "publish") /\ UNCHANGED disk
       ELSE /\ resolver' = [resolver EXCEPT ![r].pc = "putback", ![r].from = "backup"]
            /\ Remove({Temp(r)})
    /\ UNCHANGED <<git, env>>

\* The displaced entry could not be read and nothing was at the path a moment
\* ago: it is renamed back.
MoveBack(r) ==
    /\ At(r, "unmove")
    /\ Move(Backup(r), File)
    /\ Goto(r, "refused")
    /\ UNCHANGED <<git, env>>

\* What follows a publication that failed.
PublishFailed(r) ==
    /\ Remove({Temp(r)})
    /\ resolver' = [resolver EXCEPT ![r].from = "backup",
           ![r].pc = IfElse(Exists(Backup(r)), "putback", "refused")]

\* A hard link, which fails if the path exists, or where there are none.
Publish(r) ==
    /\ At(r, "publish")
    /\ \/ /\ ~Exists(File)
          /\ dir' = [dir EXCEPT ![File] = dir[Temp(r)]] /\ UNCHANGED inodes
          /\ Goto(r, "tidy")
       \/ Goto(r, "fallback") /\ UNCHANGED disk
    /\ UNCHANGED <<git, env>>

Fallback(r) ==
    /\ At(r, "fallback")
    /\ \/ Exists(File) /\ PublishFailed(r)
       \/ /\ ~Exists(File)
          /\ resolver' = [resolver EXCEPT ![r].pc = "create", ![r].task = "publish"]
          /\ UNCHANGED disk
    /\ UNCHANGED <<git, env>>

Tidy(r) ==
    /\ At(r, "tidy")
    /\ Remove({Temp(r), Backup(r)})
    /\ resolver' = [resolver EXCEPT ![r].pc = "revalidate", ![r].applied = r]
    /\ UNCHANGED <<git, env>>

-----------------------------------------------------------------------------
(* create_regular_file_noclobber: for a publication, to put an entry back where
   there are no hard links, and to restore the original in a rollback *)

From(r) == <<r, resolver[r].from>>

Wanted(r) ==
    CASE resolver[r].task = "publish"  -> r
      [] resolver[r].task = "restore"  -> Entry(From(r))
      [] resolver[r].task = "rollback" -> resolver[r].original

CreateFailed(r) ==
    IF resolver[r].task = "publish" THEN PublishFailed(r)
    ELSE Goto(r, "refused") /\ UNCHANGED disk

CreateFile(r) ==
    /\ At(r, "create")
    /\ \/ Exists(File) /\ CreateFailed(r)
       \/ /\ ~Exists(File)
          /\ Make(File, Empty)
          /\ resolver' = [resolver EXCEPT ![r].pc = "fill", ![r].inode = dir'[File]]
    /\ UNCHANGED <<git, env>>

\* Through the handle, whatever is at the path by now.
FillFile(r) ==
    /\ At(r, "fill")
    /\ inodes' = [inodes EXCEPT ![resolver[r].inode] = Wanted(r)]
    /\ Goto(r, "confirm")
    /\ UNCHANGED <<dir, git, env>>

\* ensure_created_file_matches.
IsWritten(r) ==
    dir[File] = resolver[r].inode /\ Entry(File) = Wanted(r)

ConfirmFile(r) ==
    /\ At(r, "confirm")
    /\ \/ /\ IsWritten(r)
          /\ IF resolver[r].task = "publish" THEN Goto(r, "tidy") /\ UNCHANGED disk
             ELSE Goto(r, "refused") /\ Remove({From(r)})
       \/ ~IsWritten(r) /\ Goto(r, "identify") /\ UNCHANGED disk
    /\ UNCHANGED <<git, env>>

\* remove_created_file_if_same: only the very file that was created.
Identify(r) ==
    /\ At(r, "identify")
    /\ \/ dir[File] # resolver[r].inode /\ CreateFailed(r)
       \/ /\ dir[File] = resolver[r].inode
          /\ resolver' = [resolver EXCEPT ![r].pc = "discard", ![r].current = Entry(File)]
          /\ UNCHANGED disk
    /\ UNCHANGED <<git, env>>

Discard(r) ==
    /\ At(r, "discard")
    /\ \/ Exists(File) /\ Move(File, Failed(r)) /\ Goto(r, "examine")
       \/ ~Exists(File) /\ CreateFailed(r)
    /\ UNCHANGED <<git, env>>

\* It is removed if it is that file, as it was; otherwise it goes back, unless
\* something is at the path again.
Examine(r) ==
    /\ At(r, "examine")
    /\ \/ /\ dir[Failed(r)] = resolver[r].inode
          /\ Entry(Failed(r)) = resolver[r].current
          /\ Remove({Failed(r)})
       \/ /\ \/ dir[Failed(r)] # resolver[r].inode
             \/ Entry(Failed(r)) # resolver[r].current
          /\ IF Exists(File) THEN UNCHANGED disk ELSE Move(Failed(r), File)
    /\ Goto(r, "cleaned")
    /\ UNCHANGED <<git, env>>

Cleaned(r) ==
    /\ At(r, "cleaned")
    /\ CreateFailed(r)
    /\ UNCHANGED <<git, env>>

-----------------------------------------------------------------------------
(* displace_worktree_entry_if_matches, for a symbolic link or a deletion *)

\* Where publication goes on once the path is free.
Freed(plan) == IF plan = "symlink" THEN "symlink" ELSE "recapture"

Displace(r) ==
    /\ At(r, "displace")
    /\ IF resolver[r].original = Missing
       THEN /\ Goto(r, IfElse(Exists(File), "refused", Freed(resolver[r].plan)))
            /\ UNCHANGED disk
       ELSE \/ Exists(File) /\ Move(File, Backup(r)) /\ Goto(r, "examineOld")
            \/ ~Exists(File) /\ Goto(r, "refused") /\ UNCHANGED disk
    /\ UNCHANGED <<git, env>>

ExamineOld(r) ==
    /\ At(r, "examineOld")
    /\ resolver' =
         IF Entry(Backup(r)) = resolver[r].original
         THEN [resolver EXCEPT ![r].pc =
                  IfElse(resolver[r].plan = "delete", "delete", "symlink")]
         ELSE [resolver EXCEPT ![r].pc = "putback", ![r].from = "backup"]
    /\ UNCHANGED <<disk, git, env>>

DeleteBackup(r) ==
    /\ At(r, "delete")
    /\ Remove({Backup(r)})
    /\ Goto(r, "recapture")
    /\ UNCHANGED <<git, env>>

MakeSymlink(r) ==
    /\ At(r, "symlink")
    /\ \/ ~Exists(File) /\ Make(File, r) /\ Goto(r, "recapture")
       \/ /\ Exists(File)
          /\ resolver' = [resolver EXCEPT ![r].from = "backup",
                 ![r].pc = IfElse(Exists(Backup(r)), "putback", "refused")]
          /\ UNCHANGED disk
    /\ UNCHANGED <<git, env>>

\* What the path holds by now is taken for what was applied.
Recapture(r) ==
    /\ At(r, "recapture")
    /\ resolver' = [resolver EXCEPT ![r].pc = "revalidate", ![r].applied = Entry(File)]
    /\ Remove({Backup(r)})
    /\ UNCHANGED <<git, env>>

\* restore_displaced_entry: never over an entry that appeared meanwhile.
PutBack(r) ==
    /\ At(r, "putback")
    /\ Goto(r, IfElse(Exists(File), "refused", "relink"))
    /\ UNCHANGED <<disk, git, env>>

Relink(r) ==
    /\ At(r, "relink")
    /\ \/ ~Exists(File) /\ Move(From(r), File) /\ Goto(r, "refused")
       \/ /\ Exists(File) /\ Entry(From(r)) \in Symlinks
          /\ Goto(r, "refused") /\ UNCHANGED disk
       \/ /\ Entry(From(r)) \notin Symlinks
          /\ resolver' = [resolver EXCEPT ![r].pc = "create", ![r].task = "restore"]
          /\ UNCHANGED disk
    /\ UNCHANGED <<git, env>>

-----------------------------------------------------------------------------
(* write_conflict_index_resolution *)

\* A plan that wrote nothing in the working tree has nothing to roll back.
Undo(r) == IF resolver[r].plan \in {"gitlink", "working"} THEN "refused" ELSE "rollback"

\* Mutant of Revalidate: report the error and leave the file.
RevalidateOrFail(r) ==
    /\ At(r, "revalidate")
    /\ Goto(r, IfElse(index.stage = Conflict, "lock", "refused"))
    /\ UNCHANGED <<disk, git, env>>

Revalidate(r) ==
    /\ At(r, "revalidate")
    /\ Goto(r, IfElse(index.stage = Conflict, "lock", "rollback"))
    /\ UNCHANGED <<disk, git, env>>

\* Mutant of LockIndex: open the lock file whether it exists or not.
TakeLock(r) ==
    /\ At(r, "lock")
    /\ lock' = r /\ Goto(r, "copy")
    /\ UNCHANGED <<disk, index, env>>

LockIndex(r) ==
    /\ At(r, "lock")
    /\ \/ lock = Free /\ lock' = r /\ Goto(r, "copy")
       \/ lock # Free /\ Goto(r, Undo(r)) /\ UNCHANGED lock
    /\ UNCHANGED <<disk, index, env>>

\* Mutant of Unlock: the lock file stays.
LeaveLocked(r) == UNCHANGED lock

\* GitIndexLock is dropped: the lock file goes.
Unlock(r) == lock' = Free

\* Mutant of CopyIndex: no validation under the lock.
CopyUnchecked(r) ==
    /\ At(r, "copy")
    /\ resolver' = [resolver EXCEPT ![r].pc = "commit", ![r].copy = index]
    /\ UNCHANGED <<disk, git, env>>

\* The private copy, validated under the lock.
CopyIndex(r) ==
    /\ At(r, "copy")
    /\ \/ /\ index.stage = Conflict
          /\ resolver' = [resolver EXCEPT ![r].pc = "commit", ![r].copy = index]
          /\ UNCHANGED lock
       \/ index.stage # Conflict /\ Goto(r, Undo(r)) /\ Unlock(r)
    /\ UNCHANGED <<disk, index, env>>

\* The copy, with the path resolved, replaces the index; the lock file is gone
\* with the rename.
CommitIndex(r) ==
    /\ At(r, "commit")
    /\ index' = [resolver[r].copy EXCEPT !.stage = r]
    /\ lock' = Free
    /\ resolver' = [resolver EXCEPT ![r].pc = "resolved", ![r].copy = NoCopy]
    /\ UNCHANGED <<disk, env>>

-----------------------------------------------------------------------------
(* rollback_worktree_after_error *)

Rollback(r) ==
    /\ At(r, "rollback")
    /\ IF resolver[r].applied = Missing
       THEN Goto(r, IfElse(Exists(File), "refused", "recreate")) /\ UNCHANGED disk
       ELSE \/ Exists(File) /\ Move(File, Applied(r)) /\ Goto(r, "examineNew")
            \/ ~Exists(File) /\ Goto(r, "refused") /\ UNCHANGED disk
    /\ UNCHANGED <<git, env>>

ExamineNew(r) ==
    /\ At(r, "examineNew")
    /\ resolver' =
         IF Entry(Applied(r)) = resolver[r].applied
         THEN [resolver EXCEPT ![r].pc = "recreate"]
         ELSE [resolver EXCEPT ![r].pc = "putback", ![r].from = "applied"]
    /\ UNCHANGED <<disk, git, env>>

Recreate(r) ==
    /\ At(r, "recreate")
    /\ \/ /\ resolver[r].original = Missing
          /\ Remove({Applied(r)}) /\ Goto(r, "refused")
       \/ /\ resolver[r].original \in Symlinks
          /\ IF Exists(File) THEN UNCHANGED disk
             ELSE /\ inodes' = Append(inodes, resolver[r].original)
                  /\ dir' = [dir EXCEPT ![File] = Len(inodes'), ![Applied(r)] = NoInode]
          /\ Goto(r, "refused")
       \/ /\ resolver[r].original \notin Symlinks \cup {Missing}
          /\ resolver' = [resolver EXCEPT ![r].pc = "create", ![r].task = "rollback",
                                          ![r].from = "applied"]
          /\ UNCHANGED disk
    /\ UNCHANGED <<git, env>>

-----------------------------------------------------------------------------
(* What a failing system call leads to, by the step it fails at.  Cleaning up is
   best effort. *)

FaultPoint == {"capture", "recheck", "reload", "stage", "compare", "aside", "inspect",
               "tidy", "create", "fill", "confirm", "identify", "discard",
               "displace", "examineOld", "delete", "symlink", "recapture", "revalidate",
               "lock", "copy", "commit", "rollback", "examineNew", "recreate"}

FailStep(r) ==
    LET pc == resolver[r].pc
        To(next) == Goto(r, next) /\ UNCHANGED <<disk, lock>>
    IN  /\ pc \in Faults
        /\ Spend("fault")
        /\ \/ /\ pc \in {"capture", "recheck", "reload", "stage", "displace", "rollback",
                         "examineNew", "recreate", "examineOld"}
              /\ To("refused")
           \/ /\ pc \in {"compare", "aside"}
              /\ Goto(r, "refused") /\ Remove({Temp(r)}) /\ UNCHANGED lock
           \/ /\ pc = "inspect"
              /\ Goto(r, IfElse(Exists(File), "refused", "unmove"))
              /\ Remove({Temp(r)}) /\ UNCHANGED lock
           \/ /\ pc = "tidy"  \* a backup that stays is only logged
              /\ resolver' = [resolver EXCEPT ![r].pc = "revalidate", ![r].applied = r]
              /\ Remove({Temp(r)}) /\ UNCHANGED lock
           \/ /\ pc \in {"create", "identify", "discard"}
              /\ CreateFailed(r) /\ UNCHANGED lock
           \/ pc \in {"fill", "confirm"} /\ To("identify")
           \/ /\ pc \in {"delete", "symlink"}
                    \/ (pc = "recapture" /\ resolver[r].plan = "symlink")
              /\ Exists(Backup(r))
              /\ resolver' = [resolver EXCEPT ![r].pc = "putback", ![r].from = "backup"]
              /\ UNCHANGED <<disk, lock>>
           \/ pc \in {"symlink", "recapture"} /\ ~Exists(Backup(r)) /\ To("refused")
           \/ pc = "revalidate" /\ To("rollback")
           \/ pc = "lock" /\ To(Undo(r))
           \/ /\ pc \in {"copy", "commit"}
              /\ resolver' = [resolver EXCEPT ![r].pc = Undo(r), ![r].copy = NoCopy]
              /\ Unlock(r) /\ UNCHANGED disk
        /\ UNCHANGED <<index, unsaved>>

-----------------------------------------------------------------------------
Init ==
    /\ \/ inodes = <<Original>> /\ dir = [n \in Name |-> IF n = File THEN 1 ELSE NoInode]
       \/ inodes = <<>> /\ dir = [n \in Name |-> NoInode]
    /\ index = [stage |-> Conflict, rest |-> 0]
    /\ lock = Free
    /\ resolver = [r \in Resolver |-> NewResolver]
    /\ unsaved = Save
    /\ budget = Budget

\* What a resolver does by itself.
Step(r) ==
    \/ Load(r) \/ (\E plan \in Plans[r] : Start(r, plan))
    \/ Capture(r) \/ Recheck(r) \/ Reload(r)
    \/ WriteTemp(r) \/ Compare(r) \/ MoveAside(r) \/ Inspect(r) \/ MoveBack(r)
    \/ Publish(r) \/ Fallback(r) \/ Tidy(r)
    \/ CreateFile(r) \/ FillFile(r) \/ ConfirmFile(r)
    \/ Identify(r) \/ Discard(r) \/ Examine(r) \/ Cleaned(r)
    \/ Displace(r) \/ ExamineOld(r) \/ DeleteBackup(r) \/ MakeSymlink(r) \/ Recapture(r)
    \/ PutBack(r) \/ Relink(r)
    \/ Revalidate(r) \/ LockIndex(r) \/ CopyIndex(r) \/ CommitIndex(r)
    \/ Rollback(r) \/ ExamineNew(r) \/ Recreate(r)
    \/ FailStep(r)

Next ==
    \/ \E kind \in EditKinds \ {"delete"}, content \in unsaved : SaveFile(kind, content)
    \/ "delete" \in EditKinds /\ DeleteFile
    \/ GitLocks \/ GitCommits
    \/ \E r \in Resolver : Step(r)

Spec == Init /\ [][Next]_vars

-----------------------------------------------------------------------------
(* Properties *)

ControlPoint == FaultPoint \cup {"idle", "open", "unmove", "publish", "fallback", "examine",
                                 "cleaned", "putback", "relink", "resolved", "refused"}

\* The values of the model.  A private copy of the index exists only while its
\* owner holds the lock.
TypeOK ==
    /\ inodes \in Seq(Content)
    /\ dir \in [Name -> 0..Len(inodes)]
    /\ index \in [stage : {Conflict, Elsewhere} \cup Resolver, rest : Nat]
    /\ lock \in {Free, Git} \cup Resolver
    /\ resolver \in [Resolver ->
          [pc : ControlPoint, plan : Plan, seen : Content \cup {Missing},
           original : Content \cup {Missing}, applied : Content \cup {Missing},
           task : {"publish", "restore", "rollback"}, inode : 0..Len(inodes),
           current : Content \cup {Missing}, from : {"backup", "applied"},
           copy : [stage : {Conflict, Elsewhere} \cup Resolver, rest : Nat]]]
    /\ \A r \in Resolver : resolver[r].copy # NoCopy => lock = r
    /\ unsaved \subseteq Save
    /\ budget \in [BudgetKind -> Nat]

Outcomes ==
    [r \in Resolver |-> CASE At(r, "resolved") -> "resolved"
                          [] At(r, "refused") -> "failed"
                          [] OTHER -> "working"]

Outcome == INSTANCE ConflictOutcome
    WITH stage <- index.stage, rest <- index.rest, outcome <- Outcomes

\* The index sees a resolution happen at once or not at all: it replaces the
\* conflict it was made for, two cannot both succeed, and no update of another
\* git process made between the first look at the index and its replacement is
\* lost.
AtomicResolution == Outcome!Spec

\* Whatever happens on the way, the lock file does not outlive the resolution.
LockGivenBack ==
    \A r \in Resolver : resolver[r].pc \in {"resolved", "refused"} => lock # r

\* The saves of other programs that can be read under some name.
Kept == Save \cap {Entry(n) : n \in Name}

\* The saves a resolver may make disappear: one a resolution was asked to
\* replace, and one made into the very file it created, of which it may have another link.
Replaced(r) ==
    {resolver[s].original : s \in Resolver} \cup {Entry(Temp(r))}
        \cup (IF resolver[r].inode = NoInode THEN {} ELSE {inodes[resolver[r].inode]})

\* "so an old resolver cannot overwrite an external edit": no step of a resolver
\* makes the last copy of somebody else's save disappear, whatever they save,
\* delete or resolve between any two of its system calls; but for a save that
\* Recapture took for the resolver's own result and for a save that comes in the way
\* of MoveBack.
NoEditLostOtherwise ==
    [][\A r \in Resolver :
         resolver'[r] # resolver[r] /\ ~At(r, "unmove")
         => Kept \ Kept' \subseteq Replaced(r) \cup {resolver[r].applied}]_vars

\* A resolution that was refused because of the index, or lost the race for it,
\* leaves the conflict as it was: the entry it was opened for at the path, and
\* nothing beside it.  (No other program touched the file, no system call failed.)
RefusalRestores ==
    \A r \in Resolver :
        /\ At(r, "refused")
        /\ \A s \in Resolver \ {r} : At(s, "idle")
        /\ budget["edit"] = Budget["edit"] /\ budget["fault"] = Budget["fault"]
        => /\ Entry(File) = resolver[r].seen
           /\ \A n \in Name \ {File} : ~Exists(n)
=============================================================================

---------------------- MODULE ConflictResolutionProofs ----------------------
(***************************************************************************)
(* Proofs about ConflictResolution, for any resolutions, any saves and any *)
(* budget of events: its types, that the lock is given back, that it       *)
(* implements ConflictOutcome, and that a refusal restores the conflict.   *)
(***************************************************************************)
EXTENDS ConflictResolution, TLAPS

-----------------------------------------------------------------------------
(* The inductive invariant *)

Stored == Content \cup {Missing}
Kind == {"temp", "backup", "applied", "failed"}
Index == [stage : {Conflict, Elsewhere} \cup Resolver, rest : Nat]

ResolverType ==
    [pc : ControlPoint, plan : Plan, seen : Stored, original : Stored,
     applied : Stored, task : {"publish", "restore", "rollback"}, inode : Nat,
     current : Stored, from : {"backup", "applied"}, copy : Index]

DiskOK == inodes \in Seq(Content) /\ dir \in [Name -> 0..Len(inodes)]

ResolverOK == resolver \in [Resolver -> ResolverType]

GitOK ==
    /\ index \in Index
    /\ lock \in {Free, Git} \cup Resolver

EnvOK ==
    /\ unsaved \subseteq Save
    /\ budget \in [BudgetKind -> Nat]

\* The steps between taking the lock and giving it back.
Locked == {"copy", "commit"}
Ended == {"resolved", "refused"}

\* What a resolution in state h knows of the directory d, when there are n inodes:
\* the entries it has moved aside are still under the names it gave them, and
\* what it writes exists.
Handle(r, h, d, n) ==
    /\ h.inode <= n
    /\ h.pc = "fill" => h.inode # NoInode
    /\ h.pc \in {"inspect", "examineOld"} => d[Backup(r)] # NoInode
    /\ h.pc = "examineNew" => d[Applied(r)] # NoInode
    /\ \/ h.pc \in {"putback", "relink"}
       \/ h.pc \in {"create", "fill"} /\ h.task = "restore"
       => d[<<r, h.from>>] # NoInode
    /\ h.pc \in {"create", "fill"} /\ h.task = "rollback" => h.original # Missing

HandleOK(r) == Handle(r, resolver[r], dir, Len(inodes))

\* It holds the lock in those two steps only, and its private copy is then the
\* index on disk.
LockOK(r) ==
    /\ lock = r <=> resolver[r].pc \in Locked
    /\ At(r, "commit") => resolver[r].copy = index /\ index.stage = Conflict
    /\ ~At(r, "commit") => resolver[r].copy = NoCopy

Inv ==
    /\ DiskOK /\ ResolverOK /\ GitOK /\ EnvOK
    /\ \A r \in Resolver : HandleOK(r) /\ LockOK(r)

-----------------------------------------------------------------------------
(* The directory *)

\* An entry has a content if it exists.
LEMMA EntryType ==
    ASSUME DiskOK, NEW n \in Name
    PROVE  /\ Entry(n) \in Stored
           /\ dir[n] # NoInode => Entry(n) \in Content
BY DEF DiskOK, Entry, NoInode, Stored

\* Making a file keeps the directory well formed and gives the new inode.
LEMMA MakeType ==
    ASSUME DiskOK, NEW n \in Name, NEW content \in Content, Make(n, content)
    PROVE  /\ DiskOK'
           /\ Len(inodes') = Len(inodes) + 1
           /\ dir'[n] = Len(inodes') /\ dir'[n] # NoInode
           /\ \A m \in Name \ {n} : dir'[m] = dir[m]
BY DEF DiskOK, Make, NoInode

\* Removing names keeps it well formed and leaves the other names.
LEMMA RemoveType ==
    ASSUME DiskOK, NEW names, Remove(names)
    PROVE  /\ DiskOK' /\ inodes' = inodes
           /\ \A m \in Name : m \notin names => dir'[m] = dir[m]
BY DEF DiskOK, Remove, NoInode

\* So does a rename.
LEMMA MoveType ==
    ASSUME DiskOK, NEW from \in Name, NEW to \in Name, from # to, Move(from, to)
    PROVE  /\ DiskOK' /\ inodes' = inodes
           /\ dir'[to] = dir[from]
           /\ \A m \in Name \ {from, to} : dir'[m] = dir[m]
BY DEF DiskOK, Move, NoInode

\* The names of a resolver are its own.
LEMMA Names ==
    ASSUME NEW r \in Resolver
    PROVE  /\ File \in Name
           /\ {Temp(r), Backup(r), Applied(r), Failed(r)} \subseteq Name \ {File}
           /\ Temp(r) # Backup(r) /\ Temp(r) # Applied(r) /\ Temp(r) # Failed(r)
           /\ Backup(r) # Applied(r) /\ Backup(r) # Failed(r) /\ Applied(r) # Failed(r)
           /\ \A k \in Kind : <<r, k>> \in Name \ {File}
           /\ \A s \in Resolver \ {r}, k \in Kind :
                 <<s, k>> \notin {File, Temp(r), Backup(r), Applied(r), Failed(r)}
BY ConflictAssumption DEF Name, Temp, Backup, Applied, Failed, Kind

-----------------------------------------------------------------------------
(* Steps that do not touch the index or its lock *)

\* What a step of r may do to the directory.
DiskStep(r) ==
    /\ DiskOK'
    /\ Len(inodes') >= Len(inodes)
    /\ \A s \in Resolver \ {r}, k \in Kind : dir'[<<s, k>>] = dir[<<s, k>>]

\* And to the resolutions.
ResolverStep(r) ==
    /\ ResolverOK'
    /\ \A s \in Resolver \ {r} : resolver'[s] = resolver[s]

Quiet(r) ==
    /\ UNCHANGED git
    /\ resolver[r].pc \notin Locked \cup Ended
    /\ resolver'[r].pc \notin Locked \cup {"resolved", "idle"}
    /\ resolver'[r].copy = resolver[r].copy

Sound(r) == DiskStep(r) /\ ResolverStep(r) /\ HandleOK(r)'

\* The steps after which a resolver has nothing in hand.
Plain == {"open", "capture", "recheck", "reload", "stage", "compare", "aside", "unmove",
          "publish", "fallback", "tidy", "confirm", "identify", "discard", "examine",
          "cleaned", "displace", "delete", "symlink", "recapture", "revalidate", "lock",
          "rollback", "recreate", "refused"}

\* A resolver moves on to state h, having done to the directory what it may.
LEMMA Update ==
    ASSUME ResolverOK, NEW r \in Resolver, NEW h \in ResolverType,
           resolver' = [resolver EXCEPT ![r] = h],
           DiskStep(r), Handle(r, h, dir', Len(inodes')),
           UNCHANGED git, resolver[r].pc \notin Locked \cup Ended,
           h.pc \notin Locked \cup {"resolved", "idle"}, h.copy = resolver[r].copy
    PROVE  Sound(r) /\ Quiet(r)
<1>1. resolver'[r] = h /\ ResolverStep(r)
  BY DEF ResolverOK, ResolverStep
<1>2. HandleOK(r)'
  BY <1>1 DEF HandleOK
<1> QED
  BY <1>1, <1>2 DEF Sound, Quiet

\* As most steps do, to a step that needs nothing in hand.
LEMMA GotoPlain ==
    ASSUME ResolverOK, NEW r \in Resolver, HandleOK(r), NEW pc \in Plain, Goto(r, pc),
           DiskStep(r), UNCHANGED git, resolver[r].pc \notin Locked \cup Ended
    PROVE  Sound(r) /\ Quiet(r)
<1> DEFINE h == [resolver[r] EXCEPT !.pc = pc]
<1>1. resolver[r] \in ResolverType
  BY DEF ResolverOK
<1>2. h \in ResolverType /\ h.pc = pc /\ h.inode = resolver[r].inode
        /\ h.copy = resolver[r].copy
  BY <1>1 DEF ResolverType, Plain, ControlPoint, FaultPoint
<1>3. resolver' = [resolver EXCEPT ![r] = h]
  BY DEF Goto
<1>4. h.inode <= Len(inodes')
  BY <1>1, <1>2 DEF HandleOK, Handle, DiskStep, DiskOK, ResolverType
<1>5. Handle(r, h, dir', Len(inodes'))
  BY <1>2, <1>4 DEF Handle, Plain
<1>6. h.pc \notin Locked \cup {"resolved", "idle"}
  BY <1>2 DEF Plain, Locked
<1> HIDE DEF h
<1> QED
  BY <1>2, <1>3, <1>5, <1>6, Update

\* The effects on the directory: none, a new file, entries removed, an entry moved.
LEMMA KeepDisk ==
    ASSUME DiskOK, NEW r \in Resolver, UNCHANGED disk
    PROVE  DiskStep(r)
BY DEF DiskOK, DiskStep, disk

\* A new file, under the path or the temporary name.
LEMMA MakeStep ==
    ASSUME DiskOK, NEW r \in Resolver, NEW n \in {File, Temp(r)}, NEW content \in Content,
           Make(n, content)
    PROVE  /\ DiskStep(r)
           /\ Len(inodes') = Len(inodes) + 1
           /\ dir'[n] = Len(inodes') /\ dir'[n] # NoInode
           /\ \A m \in Name \ {n} : dir'[m] = dir[m]
<1>1. n \in Name
  BY Names
<1>2. Len(inodes) \in Nat
  BY DEF DiskOK
<1> QED
  BY <1>1, <1>2, MakeType, Names DEF DiskStep

Own(r) == {Temp(r), Backup(r), Applied(r), Failed(r)}

\* A resolver removes names of its own only.
LEMMA RemoveStep ==
    ASSUME DiskOK, NEW r \in Resolver, NEW names \in SUBSET Own(r), Remove(names)
    PROVE  /\ DiskStep(r) /\ inodes' = inodes
           /\ \A m \in Name : m \notin names => dir'[m] = dir[m]
<1>1. Len(inodes) \in Nat
  BY DEF DiskOK
<1> QED
  BY <1>1, RemoveType, Names DEF DiskStep, Own

\* And moves entries between those and the path.
LEMMA MoveStep ==
    ASSUME DiskOK, NEW r \in Resolver, NEW from \in Own(r) \cup {File},
           NEW to \in Own(r) \cup {File}, from # to, Move(from, to)
    PROVE  /\ DiskStep(r) /\ inodes' = inodes
           /\ dir'[to] = dir[from]
           /\ \A m \in Name \ {from, to} : dir'[m] = dir[m]
<1>1. Len(inodes) \in Nat
  BY DEF DiskOK
<1>2. from \in Name /\ to \in Name
  BY Names DEF Own
<1>3. \A s \in Resolver \ {r}, k \in Kind : <<s, k>> \in Name \ {from, to}
  BY Names DEF Own
<1> QED
  BY <1>1, <1>2, <1>3, MoveType DEF DiskStep

\* The number of inodes only grows.
LEMMA InodeKept ==
    ASSUME Inv, NEW r \in Resolver, DiskStep(r)
    PROVE  resolver[r].inode <= Len(inodes')
<1>1. resolver[r].inode \in Nat /\ resolver[r].inode <= Len(inodes)
  BY DEF Inv, ResolverOK, ResolverType, HandleOK, Handle
<1>2. Len(inodes) \in Nat /\ Len(inodes') \in Nat /\ Len(inodes') >= Len(inodes)
  BY DEF Inv, DiskOK, DiskStep
<1> QED
  BY <1>1, <1>2

\* What the invariant says of one resolution.
LEMMA OfOne ==
    ASSUME Inv, NEW r \in Resolver
    PROVE  /\ DiskOK /\ ResolverOK /\ HandleOK(r) /\ LockOK(r)
           /\ resolver[r] \in ResolverType
           /\ Len(inodes) \in Nat
BY DEF Inv, ResolverOK, DiskOK

-----------------------------------------------------------------------------
(* The steps of a resolver, but those that touch the index or its lock *)

\* The steps before the first write change nothing but the resolver.
LEMMA Looking ==
    ASSUME Inv, NEW r \in Resolver,
           \/ Load(r) \/ (\E plan \in Plans[r] : Start(r, plan))
           \/ Capture(r) \/ Recheck(r) \/ Reload(r)
    PROVE  Sound(r) /\ Quiet(r)
<1>a. Entry(File) \in Stored
  BY OfOne, EntryType, Names
<1>1. CASE Load(r)
  <2> DEFINE h == [resolver[r] EXCEPT !.pc = "open", !.seen = Entry(File)]
  <2>1. h \in ResolverType /\ h.pc = "open" /\ h.seen = Entry(File)
          /\ h.original = resolver[r].original /\ h.task = resolver[r].task
          /\ h.inode = resolver[r].inode /\ h.from = resolver[r].from
          /\ h.copy = resolver[r].copy
    BY ZenonT(60), OfOne, EntryType, Names, <1>a DEF ResolverType, ControlPoint, FaultPoint, Stored
  <2>2. resolver' = [resolver EXCEPT ![r] = h]
    BY OfOne, <1>1 DEF Load, ResolverOK, ResolverType, IfElse
  <2>3. DiskStep(r)
    BY <1>1, OfOne, KeepDisk DEF Load
  <2>4. Handle(r, h, dir', Len(inodes'))
    BY <2>1, <2>3, InodeKept, <1>1 DEF Load, Handle
  <2>5. /\ UNCHANGED git
        /\ resolver[r].pc \notin Locked \cup Ended
        /\ h.pc \notin Locked \cup {"resolved", "idle"}
    BY <2>1, <1>1 DEF Load, At, IfElse, Locked, Ended
  <2> HIDE DEF h
  <2> QED
    BY <2>1, <2>2, <2>3, <2>4, <2>5, OfOne, Update
<1>2. ASSUME NEW plan \in Plans[r], Start(r, plan) PROVE Sound(r) /\ Quiet(r)
  <2>a. PICK pc \in {"capture", "refused"} :
           resolver' = [resolver EXCEPT ![r].plan = plan, ![r].pc = pc]
    BY <1>2 DEF Start, IfElse
  <2>b. plan \in Plan
    BY ConflictAssumption
  <2> DEFINE h == [resolver[r] EXCEPT !.plan = plan, !.pc = pc]
  <2>1. h \in ResolverType /\ h.plan = plan /\ h.pc = pc
          /\ h.original = resolver[r].original /\ h.task = resolver[r].task
          /\ h.inode = resolver[r].inode /\ h.from = resolver[r].from
          /\ h.copy = resolver[r].copy
    BY ZenonT(60), OfOne, EntryType, Names, <2>a, <2>b
      DEF ResolverType, ControlPoint, FaultPoint, Stored
  <2>2. resolver' = [resolver EXCEPT ![r] = h]
    BY OfOne, <1>2, <2>a DEF Start, ResolverOK, ResolverType, IfElse
  <2>3. DiskStep(r)
    BY <1>2, OfOne, KeepDisk DEF Start
  <2>4. Handle(r, h, dir', Len(inodes'))
    BY <2>1, <2>3, InodeKept, <1>2 DEF Start, Handle
  <2>5. /\ UNCHANGED git
        /\ resolver[r].pc \notin Locked \cup Ended
        /\ h.pc \notin Locked \cup {"resolved", "idle"}
    BY <2>1, <1>2, <2>a DEF Start, At, IfElse, Locked, Ended
  <2> HIDE DEF h
  <2> QED
    BY <2>1, <2>2, <2>3, <2>4, <2>5, OfOne, Update
<1>3. CASE Capture(r)
  <2>a. PICK pc \in {"recheck", "refused"} :
           resolver' = [resolver EXCEPT ![r].original = Entry(File), ![r].pc = pc]
    BY <1>3 DEF Capture, IfElse
  <2> DEFINE h == [resolver[r] EXCEPT !.original = Entry(File), !.pc = pc]
  <2>1. h \in ResolverType /\ h.original = Entry(File) /\ h.pc = pc
          /\ h.task = resolver[r].task /\ h.inode = resolver[r].inode
          /\ h.from = resolver[r].from /\ h.copy = resolver[r].copy
    BY ZenonT(60), OfOne, EntryType, Names, <1>a, <2>a
      DEF ResolverType, ControlPoint, FaultPoint, Stored
  <2>2. resolver' = [resolver EXCEPT ![r] = h]
    BY OfOne, <1>3, <2>a DEF Capture, ResolverOK, ResolverType, IfElse
  <2>3. DiskStep(r)
    BY <1>3, OfOne, KeepDisk DEF Capture
  <2>4. Handle(r, h, dir', Len(inodes'))
    BY <2>1, <2>3, InodeKept, <1>3 DEF Capture, Handle
  <2>5. /\ UNCHANGED git
        /\ resolver[r].pc \notin Locked \cup Ended
        /\ h.pc \notin Locked \cup {"resolved", "idle"}
    BY <2>1, <1>3, <2>a DEF Capture, At, IfElse, Locked, Ended
  <2> HIDE DEF h
  <2> QED
    BY <2>1, <2>2, <2>3, <2>4, <2>5, OfOne, Update
<1>4. CASE Recheck(r)
  BY <1>4, OfOne, GotoPlain, KeepDisk DEF Recheck, At, IfElse, Plain, Locked, Ended
<1>5. CASE Reload(r)
  <2>1. FirstStep(resolver[r].plan) \in Plain
    BY OfOne DEF ResolverType, Plan, FirstStep, Plain
  <2> QED
    BY <1>5, <2>1, OfOne, GotoPlain, KeepDisk DEF Reload, At, IfElse, Plain, Locked, Ended
<1> QED
  BY <1>1, <1>2, <1>3, <1>4, <1>5

\* Writing the result beside the file and moving the file aside.
LEMMA Writing ==
    ASSUME Inv, NEW r \in Resolver,
           \/ WriteTemp(r) \/ Compare(r) \/ MoveAside(r) \/ Inspect(r) \/ MoveBack(r)
    PROVE  Sound(r) /\ Quiet(r)
<1>a. r \in Content /\ File # Backup(r) /\ Temp(r) # Backup(r) /\ Backup(r) \in Name
  BY Names DEF Content
<1>1. CASE WriteTemp(r)
  BY <1>1, <1>a, OfOne, GotoPlain, MakeStep DEF WriteTemp, At, IfElse, Plain, Locked, Ended
<1>2. CASE Compare(r)
  <2>1. CASE Entry(File) = resolver[r].original
    BY <1>2, <2>1, OfOne, GotoPlain, KeepDisk DEF Compare, At, IfElse, Plain, Locked, Ended
  <2>2. CASE Entry(File) # resolver[r].original
    BY <1>2, <2>2, OfOne, GotoPlain, RemoveStep DEF Compare, Own, At, IfElse, Plain, Locked, Ended
  <2> QED BY <2>1, <2>2
<1>3. CASE MoveAside(r)
  <2>1. CASE ~Exists(File) /\ resolver[r].original = Missing
    BY <1>3, <2>1, OfOne, GotoPlain, KeepDisk DEF MoveAside, At, IfElse, Plain, Locked, Ended
  <2>2. CASE ~Exists(File) /\ resolver[r].original # Missing
    BY <1>3, <2>2, OfOne, GotoPlain, RemoveStep DEF MoveAside, Own, At, IfElse, Plain, Locked, Ended
  <2>3. CASE Exists(File)
    <3>a. Move(File, Backup(r)) /\ Goto(r, "inspect")
      BY <1>3, <2>3 DEF MoveAside
    <3> DEFINE h == [resolver[r] EXCEPT !.pc = "inspect"]
    <3>1. h \in ResolverType /\ h.pc = "inspect"
            /\ h.original = resolver[r].original /\ h.task = resolver[r].task
            /\ h.inode = resolver[r].inode /\ h.from = resolver[r].from
            /\ h.copy = resolver[r].copy
      BY OfOne, EntryType, Names DEF ResolverType, ControlPoint, FaultPoint, Stored
    <3>2. resolver' = [resolver EXCEPT ![r] = h]
      BY OfOne, <3>a, <1>3 DEF MoveAside, Goto, ResolverOK, ResolverType, IfElse
    <3>3. DiskStep(r)
      BY <3>a, <1>a, OfOne, MoveStep DEF Own
    <3>4. Handle(r, h, dir', Len(inodes'))
      BY <3>1, <3>3, InodeKept, <3>a, <1>a, <2>3, OfOne, MoveStep DEF Own, Exists, Handle
    <3>5. /\ UNCHANGED git
          /\ resolver[r].pc \notin Locked \cup Ended
          /\ h.pc \notin Locked \cup {"resolved", "idle"}
      BY <3>1, <3>a, <1>3 DEF MoveAside, Goto, At, IfElse, Locked, Ended
    <3> HIDE DEF h
    <3> QED
      BY <3>1, <3>2, <3>3, <3>4, <3>5, OfOne, Update
  <2> QED BY <1>3, <2>1, <2>2, <2>3 DEF MoveAside
<1>4. CASE Inspect(r)
  <2>1. CASE Entry(Backup(r)) = resolver[r].original
    BY <1>4, <2>1, OfOne, GotoPlain, KeepDisk DEF Inspect, At, IfElse, Plain, Locked, Ended
  <2>2. CASE Entry(Backup(r)) # resolver[r].original
    <3>a. Remove({Temp(r)})
      BY <1>4, <2>2 DEF Inspect
    <3>b. dir[Backup(r)] # NoInode /\ dir'[Backup(r)] = dir[Backup(r)]
      <4>1. dir[Backup(r)] # NoInode
        BY <1>4, OfOne DEF Inspect, At, HandleOK, Handle
      <4>2. dir'[Backup(r)] = dir[Backup(r)]
        BY <3>a, <1>a, OfOne, RemoveStep DEF Own
      <4> QED BY <4>1, <4>2
    <3> DEFINE h == [resolver[r] EXCEPT !.pc = "putback", !.from = "backup"]
    <3>1. h \in ResolverType /\ h.pc = "putback" /\ h.from = "backup"
            /\ h.original = resolver[r].original /\ h.task = resolver[r].task
            /\ h.inode = resolver[r].inode /\ h.copy = resolver[r].copy
      BY ZenonT(60), OfOne, EntryType, Names DEF ResolverType, ControlPoint, FaultPoint, Stored
    <3>2. resolver' = [resolver EXCEPT ![r] = h]
      BY OfOne, <1>4, <2>2 DEF Inspect, ResolverOK, ResolverType, IfElse
    <3>3. DiskStep(r)
      BY <3>a, OfOne, RemoveStep DEF Own
    <3>4. Handle(r, h, dir', Len(inodes'))
      BY <3>1, <3>3, InodeKept, <3>b DEF Backup, Handle
    <3>5. /\ UNCHANGED git
          /\ resolver[r].pc \notin Locked \cup Ended
          /\ h.pc \notin Locked \cup {"resolved", "idle"}
      BY <3>1, <1>4, <2>2 DEF Inspect, At, IfElse, Locked, Ended
    <3> HIDE DEF h
    <3> QED
      BY <3>1, <3>2, <3>3, <3>4, <3>5, OfOne, Update
  <2> QED BY <2>1, <2>2
<1>5. CASE MoveBack(r)
  BY <1>5, <1>a, OfOne, GotoPlain, MoveStep DEF MoveBack, Own, At, IfElse, Plain, Locked, Ended
<1> QED
  BY <1>1, <1>2, <1>3, <1>4, <1>5

\* What a publication that failed does is sound.
LEMMA PublishFailedSound ==
    ASSUME Inv, NEW r \in Resolver, PublishFailed(r), UNCHANGED git,
           resolver[r].pc \notin Locked \cup Ended
    PROVE  Sound(r) /\ Quiet(r)
<1>a. Backup(r) \in Name /\ Backup(r) # Temp(r)
  BY Names
<1>1. PICK pc \in {"putback", "refused"} :
         /\ resolver' = [resolver EXCEPT ![r].from = "backup", ![r].pc = pc]
         /\ pc = "putback" => dir[Backup(r)] # NoInode
  BY DEF PublishFailed, IfElse, Exists
<1>2. Remove({Temp(r)})
  BY DEF PublishFailed
<1>3. dir'[Backup(r)] = dir[Backup(r)]
  BY <1>a, <1>2, OfOne, RemoveStep DEF Own
<1> QED
  <2> DEFINE h == [resolver[r] EXCEPT !.from = "backup", !.pc = pc]
  <2>1. h \in ResolverType /\ h.from = "backup" /\ h.pc = pc
          /\ h.original = resolver[r].original /\ h.task = resolver[r].task
          /\ h.inode = resolver[r].inode /\ h.copy = resolver[r].copy
    BY ZenonT(60), OfOne, EntryType, Names DEF ResolverType, ControlPoint, FaultPoint, Stored
  <2>2. resolver' = [resolver EXCEPT ![r] = h]
    BY OfOne, <1>1 DEF ResolverOK, ResolverType, IfElse
  <2>3. DiskStep(r)
    BY <1>2, OfOne, RemoveStep DEF Own
  <2>4. Handle(r, h, dir', Len(inodes'))
    BY <2>1, <2>3, InodeKept, <1>1, <1>3 DEF Backup, Handle
  <2>5. /\ UNCHANGED git
        /\ resolver[r].pc \notin Locked \cup Ended
        /\ h.pc \notin Locked \cup {"resolved", "idle"}
    BY <2>1, <1>1 DEF At, IfElse, Locked, Ended
  <2> HIDE DEF h
  <2> QED
    BY <2>1, <2>2, <2>3, <2>4, <2>5, OfOne, Update

\* Publishing the result.
LEMMA Publishing ==
    ASSUME Inv, NEW r \in Resolver, Publish(r) \/ Fallback(r) \/ Tidy(r)
    PROVE  Sound(r) /\ Quiet(r)
<1>1. CASE Publish(r)
  <2>1. CASE Goto(r, "fallback") /\ UNCHANGED disk
    BY <1>1, <2>1, OfOne, GotoPlain, KeepDisk DEF Publish, At, IfElse, Plain, Locked, Ended
  <2>2. CASE /\ dir' = [dir EXCEPT ![File] = dir[Temp(r)]] /\ UNCHANGED inodes
             /\ Goto(r, "tidy")
    <3>1. DiskStep(r)
      BY <2>2, OfOne, Names DEF DiskOK, DiskStep
    <3> QED
      BY <1>1, <2>2, <3>1, OfOne, GotoPlain DEF Publish, At, Plain, Locked, Ended
  <2> QED BY <1>1, <2>1, <2>2 DEF Publish
<1>2. CASE Fallback(r)
  <2>1. CASE PublishFailed(r)
    BY <1>2, <2>1, PublishFailedSound DEF Fallback, At, Locked, Ended
  <2>2. CASE ~Exists(File)
    <3> DEFINE h == [resolver[r] EXCEPT !.pc = "create", !.task = "publish"]
    <3>1. h \in ResolverType /\ h.pc = "create" /\ h.task = "publish"
            /\ h.original = resolver[r].original /\ h.inode = resolver[r].inode
            /\ h.from = resolver[r].from /\ h.copy = resolver[r].copy
      BY ZenonT(60), OfOne, EntryType, Names DEF ResolverType, ControlPoint, FaultPoint, Stored
    <3>2. resolver' = [resolver EXCEPT ![r] = h]
      BY OfOne, <1>2, <2>2 DEF Fallback, ResolverOK, ResolverType, IfElse
    <3>3. DiskStep(r)
      BY <1>2, <2>2, OfOne, KeepDisk DEF Fallback
    <3>4. Handle(r, h, dir', Len(inodes'))
      BY <3>1, <3>3, InodeKept, <1>2, <2>2 DEF Fallback, Handle
    <3>5. /\ UNCHANGED git
          /\ resolver[r].pc \notin Locked \cup Ended
          /\ h.pc \notin Locked \cup {"resolved", "idle"}
      BY <3>1, <1>2, <2>2 DEF Fallback, At, IfElse, Locked, Ended
    <3> HIDE DEF h
    <3> QED
      BY <3>1, <3>2, <3>3, <3>4, <3>5, OfOne, Update
  <2> QED BY <1>2, <2>1, <2>2 DEF Fallback
<1>3. CASE Tidy(r)
  <2>a. Remove({Temp(r), Backup(r)}) /\ r \in Content
    BY <1>3 DEF Tidy, Content
  <2> DEFINE h == [resolver[r] EXCEPT !.pc = "revalidate", !.applied = r]
  <2>1. h \in ResolverType /\ h.pc = "revalidate" /\ h.applied = r
          /\ h.original = resolver[r].original /\ h.task = resolver[r].task
          /\ h.inode = resolver[r].inode /\ h.from = resolver[r].from
          /\ h.copy = resolver[r].copy
    BY ZenonT(60), OfOne, EntryType, Names, <2>a DEF ResolverType, ControlPoint, FaultPoint, Stored
  <2>2. resolver' = [resolver EXCEPT ![r] = h]
    BY OfOne, <1>3 DEF Tidy, ResolverOK, ResolverType, IfElse
  <2>3. DiskStep(r)
    BY <2>a, OfOne, RemoveStep DEF Own
  <2>4. Handle(r, h, dir', Len(inodes'))
    BY <2>1, <2>3, InodeKept, <2>a, <1>3 DEF Handle
  <2>5. /\ UNCHANGED git
        /\ resolver[r].pc \notin Locked \cup Ended
        /\ h.pc \notin Locked \cup {"resolved", "idle"}
    BY <2>1, <1>3 DEF Tidy, At, IfElse, Locked, Ended
  <2> HIDE DEF h
  <2> QED
    BY <2>1, <2>2, <2>3, <2>4, <2>5, OfOne, Update
<1> QED
  BY <1>1, <1>2, <1>3

\* What follows a file that could not be created is sound.
LEMMA CreateFailedSound ==
    ASSUME Inv, NEW r \in Resolver, CreateFailed(r), UNCHANGED git,
           resolver[r].pc \notin Locked \cup Ended
    PROVE  Sound(r) /\ Quiet(r)
<1>1. CASE resolver[r].task = "publish"
  BY <1>1, PublishFailedSound DEF CreateFailed
<1>2. CASE resolver[r].task # "publish"
  BY <1>2, OfOne, GotoPlain, KeepDisk DEF CreateFailed, Plain
<1> QED BY <1>1, <1>2

\* The entry a resolver would put back is under one of its own names.
LEMMA FromOwn ==
    ASSUME Inv, NEW r \in Resolver
    PROVE  /\ From(r) \in Own(r) /\ From(r) \in Name \ {File}
           /\ From(r) = <<r, resolver[r].from>>
<1>1. resolver[r].from \in {"backup", "applied"}
  BY OfOne DEF ResolverType
<1> QED
  BY <1>1, Names DEF From, Own, Backup, Applied, Kind

\* What is written into a created file has a content.
LEMMA WantedType ==
    ASSUME Inv, NEW r \in Resolver, At(r, "fill")
    PROVE  Wanted(r) \in Content
<1>1. CASE resolver[r].task = "publish"
  BY <1>1 DEF Wanted, Content
<1>2. CASE resolver[r].task = "restore"
  <2>1. dir[From(r)] # NoInode
    BY <1>2, OfOne, FromOwn DEF At, HandleOK, Handle
  <2> QED
    BY <1>2, <2>1, OfOne, FromOwn, EntryType DEF Wanted
<1>3. CASE resolver[r].task = "rollback"
  <2>1. resolver[r].original # Missing
    BY <1>3, OfOne DEF At, HandleOK, Handle
  <2>2. resolver[r].original \in Stored
    BY OfOne DEF ResolverType
  <2> QED
    BY <1>3, <2>1, <2>2 DEF Wanted, Stored
<1> QED
  BY <1>1, <1>2, <1>3, OfOne DEF ResolverType

\* Writing through a new file, and taking it back.
LEMMA Creating ==
    ASSUME Inv, NEW r \in Resolver,
           \/ CreateFile(r) \/ FillFile(r) \/ ConfirmFile(r) \/ Identify(r)
           \/ Discard(r) \/ Examine(r) \/ Cleaned(r)
    PROVE  Sound(r) /\ Quiet(r)
<1>a. /\ File \in Name /\ File # Failed(r) /\ Failed(r) \in Own(r)
      /\ Entry(File) \in Stored /\ Empty \in Content
  BY OfOne, EntryType, Names DEF Own, Content
<1>1. CASE CreateFile(r)
  <2>1. CASE CreateFailed(r)
    BY <1>1, <2>1, CreateFailedSound DEF CreateFile, At, Locked, Ended
  <2>2. CASE Make(File, Empty) /\ resolver' = [resolver EXCEPT
                                    ![r].pc = "fill", ![r].inode = dir'[File]]
    <3>a. /\ DiskStep(r)
          /\ dir'[File] = Len(inodes') /\ dir'[File] # NoInode
          /\ dir'[File] \in Nat
          /\ dir'[From(r)] = dir[From(r)]
      <4>1. /\ DiskStep(r)
            /\ dir'[File] = Len(inodes') /\ dir'[File] # NoInode
            /\ dir'[From(r)] = dir[From(r)]
        BY <1>a, <2>2, OfOne, FromOwn, MakeStep
      <4> QED
        BY <4>1 DEF DiskStep, DiskOK
    <3>b. /\ resolver[r].task = "restore" => dir[<<r, resolver[r].from>>] # NoInode
          /\ resolver[r].task = "rollback" => resolver[r].original # Missing
      BY <1>1, OfOne DEF CreateFile, At, HandleOK, Handle
    <3> DEFINE h == [resolver[r] EXCEPT !.pc = "fill", !.inode = dir'[File]]
    <3>1. h \in ResolverType /\ h.pc = "fill" /\ h.inode = dir'[File]
            /\ h.original = resolver[r].original /\ h.task = resolver[r].task
            /\ h.from = resolver[r].from /\ h.copy = resolver[r].copy
      BY ZenonT(60), OfOne, EntryType, Names, <3>a
        DEF ResolverType, ControlPoint, FaultPoint, Stored
    <3>2. resolver' = [resolver EXCEPT ![r] = h]
      BY OfOne, <1>1, <2>2 DEF CreateFile, ResolverOK, ResolverType, IfElse
    <3>3. DiskStep(r)
      BY <3>a
    <3>4. Handle(r, h, dir', Len(inodes'))
      <4>1. h.inode <= Len(inodes') /\ h.inode # NoInode
        BY <3>1, <3>a
      <4>2. h.task = "restore" => dir'[<<r, h.from>>] # NoInode
        BY <3>1, <3>a, <3>b, FromOwn
      <4>3. h.task = "rollback" => h.original # Missing
        BY <3>1, <3>b
      <4> HIDE DEF h
      <4> QED
        BY <3>1, <4>1, <4>2, <4>3 DEF Handle
    <3>5. /\ UNCHANGED git
          /\ resolver[r].pc \notin Locked \cup Ended
          /\ h.pc \notin Locked \cup {"resolved", "idle"}
      BY <3>1, <1>1, <2>2 DEF CreateFile, At, IfElse, Locked, Ended
    <3> HIDE DEF h
    <3> QED
      BY <3>1, <3>2, <3>3, <3>4, <3>5, OfOne, Update
  <2> QED BY <1>1, <2>1, <2>2 DEF CreateFile
<1>2. CASE FillFile(r)
  <2>1. Wanted(r) \in Content
    BY <1>2, WantedType DEF FillFile
  <2>2. resolver[r].inode \in 1..Len(inodes)
    <3>1. resolver[r].inode \in Nat /\ resolver[r].inode # NoInode
            /\ resolver[r].inode <= Len(inodes)
      BY <1>2, OfOne DEF FillFile, At, HandleOK, Handle, ResolverType
    <3> QED
      BY <3>1, OfOne DEF NoInode
  <2>3. DiskStep(r)
    BY <1>2, <2>1, <2>2, OfOne DEF FillFile, DiskOK, DiskStep
  <2> QED
    BY <1>2, <2>3, OfOne, GotoPlain DEF FillFile, At, Plain, Locked, Ended
<1>3. CASE ConfirmFile(r)
  <2>1. CASE UNCHANGED disk /\ (Goto(r, "tidy") \/ Goto(r, "identify"))
    BY <1>3, <2>1, OfOne, GotoPlain, KeepDisk DEF ConfirmFile, At, IfElse, Plain, Locked, Ended
  <2>2. CASE Remove({From(r)}) /\ Goto(r, "refused")
    <3>1. DiskStep(r)
      BY <2>2, OfOne, FromOwn, RemoveStep
    <3> QED
      BY <1>3, <2>2, <3>1, OfOne, GotoPlain DEF ConfirmFile, At, Plain, Locked, Ended
  <2> QED BY <1>3, <2>1, <2>2 DEF ConfirmFile
<1>4. CASE Identify(r)
  <2>1. CASE CreateFailed(r)
    BY <1>4, <2>1, CreateFailedSound DEF Identify, At, Locked, Ended
  <2>2. CASE UNCHANGED disk /\ resolver' = [resolver EXCEPT
                                   ![r].pc = "discard", ![r].current = Entry(File)]
    <3> DEFINE h == [resolver[r] EXCEPT !.pc = "discard", !.current = Entry(File)]
    <3>1. h \in ResolverType /\ h.pc = "discard" /\ h.current = Entry(File)
            /\ h.original = resolver[r].original /\ h.task = resolver[r].task
            /\ h.inode = resolver[r].inode /\ h.from = resolver[r].from
            /\ h.copy = resolver[r].copy
      BY ZenonT(60), OfOne, EntryType, Names, <1>a
        DEF ResolverType, ControlPoint, FaultPoint, Stored
    <3>2. resolver' = [resolver EXCEPT ![r] = h]
      BY OfOne, <1>4, <2>2 DEF Identify, ResolverOK, ResolverType, IfElse
    <3>3. DiskStep(r)
      BY <2>2, OfOne, KeepDisk
    <3>4. Handle(r, h, dir', Len(inodes'))
      BY <3>1, <3>3, InodeKept, InodeKept DEF Handle
    <3>5. /\ UNCHANGED git
          /\ resolver[r].pc \notin Locked \cup Ended
          /\ h.pc \notin Locked \cup {"resolved", "idle"}
      BY <3>1, <1>4, <2>2 DEF Identify, At, IfElse, Locked, Ended
    <3> HIDE DEF h
    <3> QED
      BY <3>1, <3>2, <3>3, <3>4, <3>5, OfOne, Update
  <2> QED BY <1>4, <2>1, <2>2 DEF Identify
<1>5. CASE Discard(r)
  <2>1. CASE CreateFailed(r)
    BY <1>5, <2>1, CreateFailedSound DEF Discard, At, Locked, Ended
  <2>2. CASE Move(File, Failed(r)) /\ Goto(r, "examine")
    <3>1. DiskStep(r)
      BY <1>a, <2>2, OfOne, MoveStep
    <3> QED
      BY <1>5, <2>2, <3>1, OfOne, GotoPlain DEF Discard, At, Plain, Locked, Ended
  <2> QED BY <1>5, <2>1, <2>2 DEF Discard
<1>6. CASE Examine(r)
  <2>1. Remove({Failed(r)}) \/ Move(Failed(r), File) \/ UNCHANGED disk
    BY <1>6 DEF Examine
  <2>2. DiskStep(r)
    BY <1>a, <2>1, OfOne, RemoveStep, MoveStep, KeepDisk
  <2> QED
    BY <1>6, <2>2, OfOne, GotoPlain DEF Examine, At, Plain, Locked, Ended
<1>7. CASE Cleaned(r)
  BY <1>7, CreateFailedSound DEF Cleaned, At, Locked, Ended
<1> QED
  BY <1>1, <1>2, <1>3, <1>4, <1>5, <1>6, <1>7

\* Moving the entry aside for a symbolic link or a deletion, and putting it back.
LEMMA Displacing ==
    ASSUME Inv, NEW r \in Resolver,
           \/ Displace(r) \/ ExamineOld(r) \/ DeleteBackup(r) \/ MakeSymlink(r)
           \/ Recapture(r) \/ PutBack(r) \/ Relink(r)
    PROVE  Sound(r) /\ Quiet(r)
<1>a. /\ File \in Name /\ Backup(r) \in Name /\ File # Backup(r) /\ Backup(r) \in Own(r)
      /\ Entry(File) \in Stored /\ r \in Content
  BY OfOne, EntryType, Names DEF Own, Content
<1>1. CASE Displace(r)
  <2>1. CASE UNCHANGED disk /\ \E pc \in {"refused", "symlink", "recapture"} : Goto(r, pc)
    BY <1>1, <2>1, OfOne, GotoPlain, KeepDisk DEF Displace, At, Plain, Locked, Ended
  <2>2. CASE Exists(File) /\ Move(File, Backup(r)) /\ Goto(r, "examineOld")
    <3>a. DiskStep(r) /\ dir'[Backup(r)] # NoInode
      BY <1>a, <2>2, OfOne, MoveStep DEF Exists
    <3> DEFINE h == [resolver[r] EXCEPT !.pc = "examineOld"]
    <3>1. h \in ResolverType /\ h.pc = "examineOld"
            /\ h.original = resolver[r].original /\ h.task = resolver[r].task
            /\ h.inode = resolver[r].inode /\ h.from = resolver[r].from
            /\ h.copy = resolver[r].copy
      BY OfOne, EntryType, Names DEF ResolverType, ControlPoint, FaultPoint, Stored
    <3>2. resolver' = [resolver EXCEPT ![r] = h]
      BY OfOne, <1>1, <2>2 DEF Displace, Goto, ResolverOK, ResolverType, IfElse
    <3>3. DiskStep(r)
      BY <3>a
    <3>4. Handle(r, h, dir', Len(inodes'))
      BY <3>1, <3>3, InodeKept, <3>a DEF Handle
    <3>5. /\ UNCHANGED git
          /\ resolver[r].pc \notin Locked \cup Ended
          /\ h.pc \notin Locked \cup {"resolved", "idle"}
      BY <3>1, <1>1, <2>2 DEF Displace, Goto, At, IfElse, Locked, Ended
    <3> HIDE DEF h
    <3> QED
      BY <3>1, <3>2, <3>3, <3>4, <3>5, OfOne, Update
  <2> QED BY <1>1, <2>1, <2>2 DEF Displace, IfElse, Freed
<1>2. CASE ExamineOld(r)
  <2>1. CASE Entry(Backup(r)) = resolver[r].original
    <3>1. PICK pc \in {"delete", "symlink"} : Goto(r, pc)
      BY <1>2, <2>1 DEF ExamineOld, IfElse, Goto
    <3> QED
      BY <1>2, <3>1, OfOne, GotoPlain, KeepDisk DEF ExamineOld, At, Plain, Locked, Ended
  <2>2. CASE Entry(Backup(r)) # resolver[r].original
    <3>a. dir'[Backup(r)] # NoInode
      BY <1>2, OfOne DEF ExamineOld, disk, At, HandleOK, Handle
    <3> DEFINE h == [resolver[r] EXCEPT !.pc = "putback", !.from = "backup"]
    <3>1. h \in ResolverType /\ h.pc = "putback" /\ h.from = "backup"
            /\ h.original = resolver[r].original /\ h.task = resolver[r].task
            /\ h.inode = resolver[r].inode /\ h.copy = resolver[r].copy
      BY ZenonT(60), OfOne, EntryType, Names DEF ResolverType, ControlPoint, FaultPoint, Stored
    <3>2. resolver' = [resolver EXCEPT ![r] = h]
      BY OfOne, <1>2, <2>2 DEF ExamineOld, ResolverOK, ResolverType, IfElse
    <3>3. DiskStep(r)
      BY <1>2, OfOne, KeepDisk DEF ExamineOld
    <3>4. Handle(r, h, dir', Len(inodes'))
      BY <3>1, <3>3, InodeKept, <3>a DEF Backup, Handle
    <3>5. /\ UNCHANGED git
          /\ resolver[r].pc \notin Locked \cup Ended
          /\ h.pc \notin Locked \cup {"resolved", "idle"}
      BY <3>1, <1>2, <2>2 DEF ExamineOld, At, IfElse, Locked, Ended
    <3> HIDE DEF h
    <3> QED
      BY <3>1, <3>2, <3>3, <3>4, <3>5, OfOne, Update
  <2> QED BY <2>1, <2>2
<1>3. CASE DeleteBackup(r)
  <2>1. DiskStep(r)
    BY <1>a, <1>3, OfOne, RemoveStep DEF DeleteBackup
  <2> QED
    BY <1>3, <2>1, OfOne, GotoPlain DEF DeleteBackup, At, Plain, Locked, Ended
<1>4. CASE MakeSymlink(r)
  <2>1. CASE Make(File, r) /\ Goto(r, "recapture")
    <3>1. DiskStep(r)
      BY <1>a, <2>1, OfOne, MakeStep
    <3> QED
      BY <1>4, <2>1, <3>1, OfOne, GotoPlain DEF MakeSymlink, At, Plain, Locked, Ended
  <2>2. CASE Exists(File)
    <3>a. PICK pc \in {"putback", "refused"} :
             /\ resolver' = [resolver EXCEPT ![r].from = "backup", ![r].pc = pc]
             /\ pc = "putback" => dir[Backup(r)] # NoInode
      BY <1>4, <2>2 DEF MakeSymlink, IfElse, Exists
    <3>b. UNCHANGED disk
      BY <1>4, <2>2 DEF MakeSymlink
    <3> DEFINE h == [resolver[r] EXCEPT !.from = "backup", !.pc = pc]
    <3>1. h \in ResolverType /\ h.from = "backup" /\ h.pc = pc
            /\ h.original = resolver[r].original /\ h.task = resolver[r].task
            /\ h.inode = resolver[r].inode /\ h.copy = resolver[r].copy
      BY ZenonT(60), OfOne, EntryType, Names DEF ResolverType, ControlPoint, FaultPoint, Stored
    <3>2. resolver' = [resolver EXCEPT ![r] = h]
      BY OfOne, <1>4, <3>a DEF MakeSymlink, ResolverOK, ResolverType, IfElse
    <3>3. DiskStep(r)
      BY <3>b, OfOne, KeepDisk
    <3>4. Handle(r, h, dir', Len(inodes'))
      BY <3>1, <3>3, InodeKept, <3>a, <3>b DEF Backup, Handle, disk
    <3>5. /\ UNCHANGED git
          /\ resolver[r].pc \notin Locked \cup Ended
          /\ h.pc \notin Locked \cup {"resolved", "idle"}
      BY <3>1, <1>4, <3>a DEF MakeSymlink, At, IfElse, Locked, Ended
    <3> HIDE DEF h
    <3> QED
      BY <3>1, <3>2, <3>3, <3>4, <3>5, OfOne, Update
  <2> QED BY <1>4, <2>1, <2>2 DEF MakeSymlink
<1>5. CASE Recapture(r)
  <2> DEFINE h == [resolver[r] EXCEPT !.pc = "revalidate", !.applied = Entry(File)]
  <2>1. h \in ResolverType /\ h.pc = "revalidate" /\ h.applied = Entry(File)
          /\ h.original = resolver[r].original /\ h.task = resolver[r].task
          /\ h.inode = resolver[r].inode /\ h.from = resolver[r].from
          /\ h.copy = resolver[r].copy
    BY ZenonT(60), OfOne, EntryType, Names, <1>a DEF ResolverType, ControlPoint, FaultPoint, Stored
  <2>2. resolver' = [resolver EXCEPT ![r] = h]
    BY OfOne, <1>5 DEF Recapture, ResolverOK, ResolverType, IfElse
  <2>3. DiskStep(r)
    BY <1>a, <1>5, OfOne, RemoveStep DEF Recapture
  <2>4. Handle(r, h, dir', Len(inodes'))
    BY <2>1, <2>3, InodeKept, InodeKept DEF Handle
  <2>5. /\ UNCHANGED git
        /\ resolver[r].pc \notin Locked \cup Ended
        /\ h.pc \notin Locked \cup {"resolved", "idle"}
    BY <2>1, <1>5 DEF Recapture, At, IfElse, Locked, Ended
  <2> HIDE DEF h
  <2> QED
    BY <2>1, <2>2, <2>3, <2>4, <2>5, OfOne, Update
<1>6. CASE PutBack(r)
  <2>1. CASE Goto(r, "refused")
    BY <1>6, <2>1, OfOne, GotoPlain, KeepDisk DEF PutBack, At, IfElse, Plain, Locked, Ended
  <2>2. CASE Goto(r, "relink")
    <3>a. dir'[From(r)] # NoInode
      BY <1>6, OfOne, FromOwn DEF PutBack, disk, At, HandleOK, Handle
    <3> DEFINE h == [resolver[r] EXCEPT !.pc = "relink"]
    <3>1. h \in ResolverType /\ h.pc = "relink"
            /\ h.original = resolver[r].original /\ h.task = resolver[r].task
            /\ h.inode = resolver[r].inode /\ h.from = resolver[r].from
            /\ h.copy = resolver[r].copy
      BY OfOne, EntryType, Names DEF ResolverType, ControlPoint, FaultPoint, Stored
    <3>2. resolver' = [resolver EXCEPT ![r] = h]
      BY OfOne, <1>6, <2>2 DEF PutBack, Goto, ResolverOK, ResolverType, IfElse
    <3>3. DiskStep(r)
      BY <1>6, OfOne, KeepDisk DEF PutBack
    <3>4. Handle(r, h, dir', Len(inodes'))
      BY <3>1, <3>3, InodeKept, <3>a, FromOwn DEF Handle
    <3>5. /\ UNCHANGED git
          /\ resolver[r].pc \notin Locked \cup Ended
          /\ h.pc \notin Locked \cup {"resolved", "idle"}
      BY <3>1, <1>6, <2>2 DEF PutBack, Goto, At, IfElse, Locked, Ended
    <3> HIDE DEF h
    <3> QED
      BY <3>1, <3>2, <3>3, <3>4, <3>5, OfOne, Update
  <2> QED BY <1>6, <2>1, <2>2 DEF PutBack, IfElse
<1>7. CASE Relink(r)
  <2>1. CASE Goto(r, "refused")
    <3>1. Move(From(r), File) \/ UNCHANGED disk
      BY <1>7 DEF Relink
    <3>2. DiskStep(r)
      BY <3>1, OfOne, FromOwn, MoveStep, KeepDisk
    <3> QED
      BY <1>7, <2>1, <3>2, OfOne, GotoPlain DEF Relink, At, Plain, Locked, Ended
  <2>2. CASE UNCHANGED disk /\ resolver' = [resolver EXCEPT
                                   ![r].pc = "create", ![r].task = "restore"]
    <3>a. dir'[From(r)] # NoInode
      BY <1>7, <2>2, OfOne, FromOwn DEF Relink, disk, At, HandleOK, Handle
    <3> DEFINE h == [resolver[r] EXCEPT !.pc = "create", !.task = "restore"]
    <3>1. h \in ResolverType /\ h.pc = "create" /\ h.task = "restore"
            /\ h.original = resolver[r].original /\ h.inode = resolver[r].inode
            /\ h.from = resolver[r].from /\ h.copy = resolver[r].copy
      BY ZenonT(60), OfOne, EntryType, Names DEF ResolverType, ControlPoint, FaultPoint, Stored
    <3>2. resolver' = [resolver EXCEPT ![r] = h]
      BY OfOne, <1>7, <2>2 DEF Relink, ResolverOK, ResolverType, IfElse
    <3>3. DiskStep(r)
      BY <2>2, OfOne, KeepDisk
    <3>4. Handle(r, h, dir', Len(inodes'))
      BY <3>1, <3>3, InodeKept, <3>a, FromOwn DEF Handle
    <3>5. /\ UNCHANGED git
          /\ resolver[r].pc \notin Locked \cup Ended
          /\ h.pc \notin Locked \cup {"resolved", "idle"}
      BY <3>1, <1>7, <2>2 DEF Relink, At, IfElse, Locked, Ended
    <3> HIDE DEF h
    <3> QED
      BY <3>1, <3>2, <3>3, <3>4, <3>5, OfOne, Update
  <2> QED BY <1>7, <2>1, <2>2 DEF Relink
<1> QED
  BY <1>1, <1>2, <1>3, <1>4, <1>5, <1>6, <1>7

\* Rolling the file back.
LEMMA RollingBack ==
    ASSUME Inv, NEW r \in Resolver, Rollback(r) \/ ExamineNew(r) \/ Recreate(r)
    PROVE  Sound(r) /\ Quiet(r)
<1>a. /\ File \in Name /\ Applied(r) \in Name /\ File # Applied(r)
      /\ Applied(r) \in Own(r)
  BY Names DEF Own
<1>1. CASE Rollback(r)
  <2>1. CASE UNCHANGED disk /\ (Goto(r, "refused") \/ Goto(r, "recreate"))
    BY <1>1, <2>1, OfOne, GotoPlain, KeepDisk DEF Rollback, At, IfElse, Plain, Locked, Ended
  <2>2. CASE Exists(File) /\ Move(File, Applied(r)) /\ Goto(r, "examineNew")
    <3>a. DiskStep(r) /\ dir'[Applied(r)] # NoInode
      BY <1>a, <2>2, OfOne, MoveStep DEF Exists
    <3> DEFINE h == [resolver[r] EXCEPT !.pc = "examineNew"]
    <3>1. h \in ResolverType /\ h.pc = "examineNew"
            /\ h.original = resolver[r].original /\ h.task = resolver[r].task
            /\ h.inode = resolver[r].inode /\ h.from = resolver[r].from
            /\ h.copy = resolver[r].copy
      BY OfOne, EntryType, Names DEF ResolverType, ControlPoint, FaultPoint, Stored
    <3>2. resolver' = [resolver EXCEPT ![r] = h]
      BY OfOne, <1>1, <2>2 DEF Rollback, Goto, ResolverOK, ResolverType, IfElse
    <3>3. DiskStep(r)
      BY <3>a
    <3>4. Handle(r, h, dir', Len(inodes'))
      BY <3>1, <3>3, InodeKept, <3>a DEF Handle
    <3>5. /\ UNCHANGED git
          /\ resolver[r].pc \notin Locked \cup Ended
          /\ h.pc \notin Locked \cup {"resolved", "idle"}
      BY <3>1, <1>1, <2>2 DEF Rollback, Goto, At, IfElse, Locked, Ended
    <3> HIDE DEF h
    <3> QED
      BY <3>1, <3>2, <3>3, <3>4, <3>5, OfOne, Update
  <2> QED BY <1>1, <2>1, <2>2 DEF Rollback, IfElse
<1>2. CASE ExamineNew(r)
  <2>1. CASE Goto(r, "recreate")
    BY <1>2, <2>1, OfOne, GotoPlain, KeepDisk DEF ExamineNew, At, IfElse, Plain, Locked, Ended
  <2>2. CASE resolver' = [resolver EXCEPT ![r].pc = "putback", ![r].from = "applied"]
    <3>a. dir'[Applied(r)] # NoInode
      BY <1>2, OfOne DEF ExamineNew, disk, At, HandleOK, Handle
    <3> DEFINE h == [resolver[r] EXCEPT !.pc = "putback", !.from = "applied"]
    <3>1. h \in ResolverType /\ h.pc = "putback" /\ h.from = "applied"
            /\ h.original = resolver[r].original /\ h.task = resolver[r].task
            /\ h.inode = resolver[r].inode /\ h.copy = resolver[r].copy
      BY ZenonT(60), OfOne, EntryType, Names DEF ResolverType, ControlPoint, FaultPoint, Stored
    <3>2. resolver' = [resolver EXCEPT ![r] = h]
      BY OfOne, <1>2, <2>2 DEF ExamineNew, ResolverOK, ResolverType, IfElse
    <3>3. DiskStep(r)
      BY <1>2, OfOne, KeepDisk DEF ExamineNew
    <3>4. Handle(r, h, dir', Len(inodes'))
      BY <3>1, <3>3, InodeKept, <3>a DEF Applied, Handle
    <3>5. /\ UNCHANGED git
          /\ resolver[r].pc \notin Locked \cup Ended
          /\ h.pc \notin Locked \cup {"resolved", "idle"}
      BY <3>1, <1>2, <2>2 DEF ExamineNew, At, IfElse, Locked, Ended
    <3> HIDE DEF h
    <3> QED
      BY <3>1, <3>2, <3>3, <3>4, <3>5, OfOne, Update
  <2> QED BY <1>2, <2>1, <2>2 DEF ExamineNew, Goto
<1>3. CASE Recreate(r)
  <2>a. resolver[r].original \in Stored
    BY OfOne DEF ResolverType
  <2>1. CASE Remove({Applied(r)}) /\ Goto(r, "refused")
    <3>1. DiskStep(r)
      BY <1>a, <2>1, OfOne, RemoveStep
    <3> QED
      BY <1>3, <2>1, <3>1, OfOne, GotoPlain DEF Recreate, At, Plain, Locked, Ended
  <2>2. CASE resolver[r].original \in Symlinks /\ Goto(r, "refused")
    <3>1. CASE UNCHANGED disk
      BY <1>3, <2>2, <3>1, OfOne, GotoPlain, KeepDisk DEF Recreate, At, IfElse, Plain, Locked, Ended
    <3>2. CASE /\ inodes' = Append(inodes, resolver[r].original)
               /\ dir' = [dir EXCEPT ![File] = Len(inodes'), ![Applied(r)] = NoInode]
      <4>1. resolver[r].original \in Content
        BY <2>2, ConflictAssumption
      <4>2. DiskOK' /\ Len(inodes') >= Len(inodes)
        BY <1>a, <3>2, <4>1, OfOne DEF DiskOK, NoInode
      <4>3. \A s \in Resolver \ {r}, k \in Kind : dir'[<<s, k>>] = dir[<<s, k>>]
        BY <3>2, Names, OfOne DEF DiskOK
      <4>4. DiskStep(r)
        BY <4>2, <4>3 DEF DiskStep
      <4> QED
        BY <1>3, <2>2, <4>4, OfOne, GotoPlain DEF Recreate, At, Plain, Locked, Ended
    <3> QED
      BY <1>3, <2>2, <3>1, <3>2, ConflictAssumption DEF Recreate
  <2>3. CASE /\ resolver[r].original # Missing
             /\ resolver' = [resolver EXCEPT ![r].pc = "create", ![r].task = "rollback",
                                             ![r].from = "applied"]
             /\ UNCHANGED disk
    <3> DEFINE h == [resolver[r] EXCEPT !.pc = "create", !.task = "rollback", !.from = "applied"]
    <3>1. h \in ResolverType /\ h.pc = "create" /\ h.task = "rollback" /\ h.from = "applied"
            /\ h.original = resolver[r].original /\ h.inode = resolver[r].inode
            /\ h.copy = resolver[r].copy
      BY ZenonT(60), OfOne, EntryType, Names DEF ResolverType, ControlPoint, FaultPoint, Stored
    <3>2. resolver' = [resolver EXCEPT ![r] = h]
      BY OfOne, <1>3, <2>3 DEF Recreate, ResolverOK, ResolverType, IfElse
    <3>3. DiskStep(r)
      BY <2>3, OfOne, KeepDisk
    <3>4. Handle(r, h, dir', Len(inodes'))
      BY <3>1, <3>3, InodeKept, <2>3 DEF Handle
    <3>5. /\ UNCHANGED git
          /\ resolver[r].pc \notin Locked \cup Ended
          /\ h.pc \notin Locked \cup {"resolved", "idle"}
      BY <3>1, <1>3, <2>3 DEF Recreate, At, IfElse, Locked, Ended
    <3> HIDE DEF h
    <3> QED
      BY <3>1, <3>2, <3>3, <3>4, <3>5, OfOne, Update
  <2> QED BY <1>3, <2>a, <2>1, <2>2, <2>3 DEF Recreate
<1> QED
  BY <1>1, <1>2, <1>3

-----------------------------------------------------------------------------
(* The index, its lock and failing calls *)

\* A step with which r does not resolve the path.
Tame(r) ==
    /\ ResolverStep(r) /\ UNCHANGED index
    /\ resolver[r].pc \notin Ended
    /\ resolver'[r].pc \notin {"resolved", "idle"}

\* The other resolutions still find their entries.
LEMMA OthersHandle ==
    ASSUME Inv, NEW r \in Resolver, DiskStep(r), ResolverStep(r), NEW s \in Resolver \ {r}
    PROVE  HandleOK(s)'
<1>1. HandleOK(s) /\ resolver'[s] = resolver[s] /\ resolver[s] \in ResolverType
  BY OfOne DEF ResolverStep
<1>2. resolver[s].inode <= Len(inodes')
  <2>1. resolver[s].inode \in Nat /\ resolver[s].inode <= Len(inodes)
    BY <1>1 DEF HandleOK, Handle, ResolverType
  <2>2. Len(inodes) \in Nat /\ Len(inodes') \in Nat /\ Len(inodes') >= Len(inodes)
    BY DEF Inv, DiskOK, DiskStep
  <2> QED BY <2>1, <2>2
<1>3. /\ dir'[Backup(s)] = dir[Backup(s)] /\ dir'[Applied(s)] = dir[Applied(s)]
      /\ dir'[<<s, resolver[s].from>>] = dir[<<s, resolver[s].from>>]
  BY <1>1 DEF DiskStep, ResolverType, Backup, Applied, Kind
<1> QED
  BY <1>1, <1>2, <1>3 DEF HandleOK, Handle

\* A quiet step preserves the invariant.
LEMMA QuietInv ==
    ASSUME Inv, NEW r \in Resolver, Sound(r), Quiet(r), EnvOK'
    PROVE  Inv' /\ Tame(r)
<1>1. \A s \in Resolver : HandleOK(s)'
  BY OthersHandle DEF Sound
<1>2. LockOK(r)'
  BY OfOne DEF Quiet, git, LockOK, Locked, At
<1>3. ASSUME NEW s \in Resolver \ {r} PROVE LockOK(s)'
  BY OfOne DEF Sound, ResolverStep, Quiet, git, LockOK, Locked, At
<1>4. GitOK'
  BY DEF Inv, GitOK, Quiet, git, Index
<1>5. Tame(r)
  BY DEF Sound, Quiet, Tame, git
<1> QED
  BY <1>1, <1>2, <1>3, <1>4, <1>5 DEF Inv, Sound, DiskStep, ResolverStep

\* Taking the lock, and any step under it.
LEMMA UpdateLocked ==
    ASSUME Inv, NEW r \in Resolver, NEW h \in ResolverType,
           resolver' = [resolver EXCEPT ![r] = h], UNCHANGED disk, EnvOK',
           h.inode = resolver[r].inode,
           h.pc \in Locked \cup Ended \cup {"rollback"},
           lock \in {Free, r}, lock' \in {Free, r}, index' \in Index,
           lock' = r <=> h.pc \in Locked,
           h.pc = "commit" => h.copy = index' /\ index'.stage = Conflict,
           h.pc # "commit" => h.copy = NoCopy
    PROVE  Inv' /\ ResolverStep(r) /\ resolver'[r] = h
<1>1. resolver'[r] = h /\ ResolverStep(r)
  BY OfOne DEF ResolverOK, ResolverStep
<1>2. DiskStep(r)
  BY OfOne, KeepDisk
<1>3. HandleOK(r)'
  BY <1>1, <1>2, InodeKept DEF HandleOK, Handle, Locked, Ended
<1>4. \A s \in Resolver : HandleOK(s)'
  BY <1>1, <1>2, <1>3, OthersHandle
<1>5. LockOK(r)'
  BY <1>1 DEF LockOK, At
<1>6. ASSUME NEW s \in Resolver \ {r} PROVE LockOK(s)'
  BY <1>1, <1>6, OfOne, ConflictAssumption DEF ResolverStep, LockOK, Locked, At
<1>7. GitOK'
  BY ConflictAssumption DEF GitOK
<1> QED
  BY <1>1, <1>2, <1>4, <1>5, <1>6, <1>7 DEF Inv, DiskStep, ResolverStep

\* The values that are set under the lock.
LEMMA CopyType ==
    ASSUME Inv
    PROVE  NoCopy \in Index /\ index \in Index
BY DEF Inv, GitOK, NoCopy, Index

\* A resolver that does not hold the lock has no copy, and gives up where there
\* is nothing to roll back.
LEMMA UndoType ==
    ASSUME Inv, NEW r \in Resolver
    PROVE  Undo(r) \in {"refused", "rollback"}
BY DEF Undo

\* LockIndex, CopyIndex and CommitIndex.
LEMMA Locking ==
    ASSUME Inv, NEW r \in Resolver, LockIndex(r) \/ CopyIndex(r) \/ CommitIndex(r)
    PROVE  Inv' /\ (Tame(r) \/ (CommitIndex(r) /\ index.stage = Conflict
                                 /\ index' = [index EXCEPT !.stage = r]
                                 /\ ResolverStep(r) /\ resolver'[r].pc = "resolved"))
<1>a. EnvOK' /\ r # Free
  BY ConflictAssumption DEF Inv, EnvOK, env, LockIndex, CopyIndex, CommitIndex
<1>1. CASE LockIndex(r)
  <2>1. CASE lock = Free /\ lock' = r /\ Goto(r, "copy")
    <3> DEFINE h == [resolver[r] EXCEPT !.pc = "copy"]
    <3>1. h \in ResolverType /\ h.pc = "copy"
            /\ h.plan = resolver[r].plan /\ h.inode = resolver[r].inode
            /\ h.copy = resolver[r].copy
      BY OfOne DEF ResolverType, ControlPoint, FaultPoint
    <3>2. resolver' = [resolver EXCEPT ![r] = h]
      BY OfOne, <2>1 DEF ResolverOK, ResolverType, Goto
    <3> HIDE DEF h
    <3>3. /\ UNCHANGED disk /\ index' = index /\ resolver[r].pc = "lock"
          /\ resolver[r].copy = NoCopy
      BY <1>1, OfOne DEF LockIndex, LockOK, At
    <3>4. Inv' /\ ResolverStep(r) /\ resolver'[r] = h
      BY <1>a, <2>1, <3>1, <3>2, <3>3, CopyType, UpdateLocked DEF Locked
    <3> QED
      BY <3>1, <3>3, <3>4 DEF Tame, Ended
  <2>2. CASE lock # Free /\ Goto(r, Undo(r)) /\ UNCHANGED lock
    <3>1. Sound(r) /\ Quiet(r)
      BY <1>1, <2>2, UndoType, OfOne, GotoPlain, KeepDisk
         DEF LockIndex, git, At, Plain, Locked, Ended
    <3> QED
      BY <1>a, <3>1, QuietInv
  <2> QED BY <1>1, <2>1, <2>2 DEF LockIndex
<1>2. CASE CopyIndex(r)
  <2>a. /\ UNCHANGED disk /\ index' = index /\ resolver[r].pc = "copy"
        /\ resolver[r].copy = NoCopy /\ lock = r
    BY <1>2, OfOne DEF CopyIndex, LockOK, At, Locked
  <2>1. CASE /\ index.stage = Conflict /\ UNCHANGED lock
             /\ resolver' = [resolver EXCEPT ![r].pc = "commit", ![r].copy = index]
    <3> DEFINE h == [resolver[r] EXCEPT !.pc = "commit", !.copy = index]
    <3>1. h \in ResolverType /\ h.pc = "commit" /\ h.copy = index
            /\ h.plan = resolver[r].plan /\ h.inode = resolver[r].inode
      BY OfOne, CopyType DEF ResolverType, ControlPoint, FaultPoint
    <3>2. resolver' = [resolver EXCEPT ![r] = h]
      BY OfOne, <2>1 DEF ResolverOK, ResolverType, Goto
    <3> HIDE DEF h
    <3>4. Inv' /\ ResolverStep(r) /\ resolver'[r] = h
      BY <1>a, <2>a, <2>1, <3>1, <3>2, CopyType, UpdateLocked DEF Locked
    <3> QED
      BY <2>a, <3>1, <3>4 DEF Tame, Ended
  <2>2. CASE Goto(r, Undo(r)) /\ lock' = Free
    <3> DEFINE h == [resolver[r] EXCEPT !.pc = Undo(r)]
    <3>1. h \in ResolverType /\ h.pc = Undo(r)
            /\ h.plan = resolver[r].plan /\ h.inode = resolver[r].inode
            /\ h.copy = resolver[r].copy
      BY OfOne, UndoType DEF ResolverType, ControlPoint, FaultPoint
    <3>2. resolver' = [resolver EXCEPT ![r] = h]
      BY OfOne, <2>2 DEF ResolverOK, ResolverType, Goto
    <3> HIDE DEF h
    <3>4. Inv' /\ ResolverStep(r) /\ resolver'[r] = h
      BY <1>a, <2>a, <2>2, <3>1, <3>2, UndoType, CopyType, UpdateLocked DEF Locked, Ended
    <3> QED
      BY <2>a, <3>1, <3>4, UndoType DEF Tame, Ended
  <2> QED BY <1>2, <2>1, <2>2 DEF CopyIndex, Unlock
<1>3. CASE CommitIndex(r)
  <2>a. /\ UNCHANGED disk /\ lock' = Free /\ lock = r
        /\ resolver[r].copy = index /\ index.stage = Conflict
        /\ index' = [index EXCEPT !.stage = r]
        /\ resolver' = [resolver EXCEPT ![r].pc = "resolved", ![r].copy = NoCopy]
    BY <1>3, OfOne DEF CommitIndex, LockOK, At, Locked
  <2>b. index' \in Index
    BY <2>a, CopyType DEF Index
  <2> DEFINE h == [resolver[r] EXCEPT !.pc = "resolved", !.copy = NoCopy]
  <2>1. h \in ResolverType /\ h.pc = "resolved" /\ h.copy = NoCopy
          /\ h.plan = resolver[r].plan /\ h.inode = resolver[r].inode
    BY OfOne, CopyType DEF ResolverType, ControlPoint, FaultPoint
  <2>2. resolver' = [resolver EXCEPT ![r] = h]
    BY OfOne, <2>a DEF ResolverOK, ResolverType, Goto
  <2> HIDE DEF h
  <2>4. Inv' /\ ResolverStep(r) /\ resolver'[r] = h
    BY <1>a, <2>a, <2>b, <2>1, <2>2, UpdateLocked DEF Locked, Ended
  <2> QED
    BY <1>3, <2>a, <2>1, <2>4
<1> QED
  BY <1>1, <1>2, <1>3

\* A failing call leads to a step that is as sound as those of the code itself.
LEMMA Failing ==
    ASSUME Inv, NEW r \in Resolver, FailStep(r)
    PROVE  Inv' /\ Tame(r)
<1> DEFINE pc == resolver[r].pc
           To(next) == Goto(r, next) /\ UNCHANGED <<disk, lock>>
<1>a. EnvOK' /\ index' = index
  BY DEF Inv, EnvOK, FailStep, Spend, BudgetKind
<1>b. /\ File \in Name /\ Temp(r) \in Own(r) /\ Temp(r) # Backup(r)
      /\ Backup(r) \in Name /\ r \in Content
  BY Names DEF Own, Content
<1>1. ASSUME NEW next \in {"refused", "identify", "rollback"}, To(next),
             pc \notin Locked \cup Ended
      PROVE  Inv' /\ Tame(r)
  <2>1. Sound(r) /\ Quiet(r)
    BY <1>a, <1>1, OfOne, GotoPlain, KeepDisk DEF git, Plain
  <2> QED
    BY <1>a, <2>1, QuietInv
<1>2. ASSUME NEW next \in {"refused", "unmove"}, Goto(r, next), Remove({Temp(r)}),
             UNCHANGED lock, pc \notin Locked \cup Ended
      PROVE  Inv' /\ Tame(r)
  <2>1. DiskStep(r)
    BY <1>b, <1>2, OfOne, RemoveStep
  <2>2. Sound(r) /\ Quiet(r)
    BY <1>a, <1>2, <2>1, OfOne, GotoPlain DEF git, Plain
  <2> QED
    BY <1>a, <2>2, QuietInv
<1>3. ASSUME pc = "tidy", Remove({Temp(r)}), UNCHANGED lock,
             resolver' = [resolver EXCEPT ![r].pc = "revalidate", ![r].applied = r]
      PROVE  Inv' /\ Tame(r)
  <2>a. Sound(r) /\ Quiet(r)
    <3> DEFINE h == [resolver[r] EXCEPT !.pc = "revalidate", !.applied = r]
    <3>1. h \in ResolverType /\ h.pc = "revalidate" /\ h.applied = r
            /\ h.original = resolver[r].original /\ h.task = resolver[r].task
            /\ h.inode = resolver[r].inode /\ h.from = resolver[r].from
            /\ h.copy = resolver[r].copy
      BY ZenonT(60), OfOne, EntryType, Names, <1>b
        DEF ResolverType, ControlPoint, FaultPoint, Stored
    <3>2. resolver' = [resolver EXCEPT ![r] = h]
      BY OfOne, <1>a, <1>3 DEF git, ResolverOK, ResolverType, IfElse
    <3>3. DiskStep(r)
      BY <1>b, <1>3, OfOne, RemoveStep
    <3>4. Handle(r, h, dir', Len(inodes'))
      BY <3>1, <3>3, InodeKept, InodeKept DEF Handle
    <3>5. /\ UNCHANGED git
          /\ resolver[r].pc \notin Locked \cup Ended
          /\ h.pc \notin Locked \cup {"resolved", "idle"}
      BY <3>1, <1>a, <1>3 DEF git, At, IfElse, Locked, Ended
    <3> HIDE DEF h
    <3> QED
      BY <3>1, <3>2, <3>3, <3>4, <3>5, OfOne, Update
  <2> QED
    BY <1>a, <2>a, QuietInv
<1>4. ASSUME pc \in {"create", "identify", "discard"}, CreateFailed(r), UNCHANGED lock
      PROVE  Inv' /\ Tame(r)
  <2>1. Sound(r) /\ Quiet(r)
    BY <1>a, <1>4, CreateFailedSound DEF git, Locked, Ended
  <2> QED
    BY <1>a, <2>1, QuietInv
<1>5. ASSUME pc \in {"delete", "symlink", "recapture"}, Exists(Backup(r)),
             resolver' = [resolver EXCEPT ![r].pc = "putback", ![r].from = "backup"],
             UNCHANGED <<disk, lock>>
      PROVE  Inv' /\ Tame(r)
  <2>a. Sound(r) /\ Quiet(r)
    <3>a. dir'[Backup(r)] # NoInode
      BY <1>5 DEF Exists, disk
    <3> DEFINE h == [resolver[r] EXCEPT !.pc = "putback", !.from = "backup"]
    <3>1. h \in ResolverType /\ h.pc = "putback" /\ h.from = "backup"
            /\ h.original = resolver[r].original /\ h.task = resolver[r].task
            /\ h.inode = resolver[r].inode /\ h.copy = resolver[r].copy
      BY ZenonT(60), OfOne, EntryType, Names DEF ResolverType, ControlPoint, FaultPoint, Stored
    <3>2. resolver' = [resolver EXCEPT ![r] = h]
      BY OfOne, <1>a, <1>5 DEF git, ResolverOK, ResolverType, IfElse
    <3>3. DiskStep(r)
      BY <1>5, OfOne, KeepDisk
    <3>4. Handle(r, h, dir', Len(inodes'))
      BY <3>1, <3>3, InodeKept, <3>a DEF Backup, Handle
    <3>5. /\ UNCHANGED git
          /\ resolver[r].pc \notin Locked \cup Ended
          /\ h.pc \notin Locked \cup {"resolved", "idle"}
      BY <3>1, <1>a, <1>5 DEF git, At, IfElse, Locked, Ended
    <3> HIDE DEF h
    <3> QED
      BY <3>1, <3>2, <3>3, <3>4, <3>5, OfOne, Update
  <2> QED
    BY <1>a, <2>a, QuietInv
<1>6. ASSUME pc \in Locked, lock' = Free, UNCHANGED disk,
             resolver' = [resolver EXCEPT ![r].pc = Undo(r), ![r].copy = NoCopy]
      PROVE  Inv' /\ Tame(r)
  <2>a. lock = r /\ r # Free
    BY <1>6, OfOne, ConflictAssumption DEF LockOK
  <2> DEFINE h == [resolver[r] EXCEPT !.pc = Undo(r), !.copy = NoCopy]
  <2>1. h \in ResolverType /\ h.pc = Undo(r) /\ h.copy = NoCopy
          /\ h.plan = resolver[r].plan /\ h.inode = resolver[r].inode
    BY OfOne, UndoType, CopyType DEF ResolverType, ControlPoint, FaultPoint
  <2>2. resolver' = [resolver EXCEPT ![r] = h]
    BY OfOne, <1>6 DEF ResolverOK, ResolverType, Goto
  <2> HIDE DEF h
  <2>4. Inv' /\ ResolverStep(r) /\ resolver'[r] = h
    BY <1>a, <1>6, <2>a, <2>1, <2>2, UndoType, CopyType, UpdateLocked DEF Locked, Ended
  <2> QED
    BY <1>a, <1>6, <2>1, <2>4, UndoType DEF Tame, Locked, Ended
<1> QED
  <2>1. CASE pc \in {"capture", "recheck", "reload", "stage", "displace", "rollback",
                    "examineNew", "recreate", "examineOld"} /\ To("refused")
    BY <1>1, <2>1 DEF Locked, Ended
  <2>2. CASE /\ pc \in {"compare", "aside"}
             /\ Goto(r, "refused") /\ Remove({Temp(r)}) /\ UNCHANGED lock
    BY <1>2, <2>2 DEF Locked, Ended
  <2>3. CASE /\ pc = "inspect" /\ Goto(r, IfElse(Exists(File), "refused", "unmove"))
             /\ Remove({Temp(r)}) /\ UNCHANGED lock
    BY <1>2, <2>3 DEF IfElse, Locked, Ended
  <2>4. CASE pc \in {"fill", "confirm"} /\ To("identify")
    BY <1>1, <2>4 DEF Locked, Ended
  <2>5. CASE pc \in {"symlink", "recapture"} /\ To("refused")
    BY <1>1, <2>5 DEF Locked, Ended
  <2>6. CASE pc = "revalidate" /\ To("rollback")
    BY <1>1, <2>6 DEF Locked, Ended
  <2>7. CASE pc = "lock" /\ To(Undo(r))
    BY <1>1, <2>7, UndoType DEF Locked, Ended
  <2>8. CASE /\ pc \in {"copy", "commit"} /\ Unlock(r) /\ UNCHANGED disk
             /\ resolver' = [resolver EXCEPT ![r].pc = Undo(r), ![r].copy = NoCopy]
    BY <1>6, <2>8 DEF Unlock, Locked
  <2> QED
    BY <1>3, <1>4, <1>5, <2>1, <2>2, <2>3, <2>4, <2>5, <2>6, <2>7, <2>8 DEF FailStep

-----------------------------------------------------------------------------
(* Other programs *)

\* What other programs do preserves the invariant, since they know neither the
\* names of the resolvers nor index.lock while a resolver holds it.
LEMMA ForeignInv ==
    ASSUME Inv, DiskOK', EnvOK', GitOK', UNCHANGED resolver,
           Len(inodes') >= Len(inodes),
           \A r \in Resolver, k \in Kind : dir'[<<r, k>>] = dir[<<r, k>>],
           \A r \in Resolver : lock' = r <=> lock = r,
           UNCHANGED index \/ lock \notin Resolver
    PROVE  Inv'
<1>1. ASSUME NEW r \in Resolver PROVE HandleOK(r)'
  <2>1. DiskStep(r) /\ resolver[r] \in ResolverType /\ HandleOK(r)
    BY OfOne DEF DiskStep
  <2>2. resolver[r].inode <= Len(inodes')
    BY <2>1, InodeKept
  <2>3. /\ dir'[Backup(r)] = dir[Backup(r)] /\ dir'[Applied(r)] = dir[Applied(r)]
        /\ dir'[<<r, resolver[r].from>>] = dir[<<r, resolver[r].from>>]
    BY <2>1 DEF ResolverType, Backup, Applied, Kind
  <2> QED
    BY <2>1, <2>2, <2>3 DEF HandleOK, Handle
<1>2. ASSUME NEW r \in Resolver PROVE LockOK(r)'
  BY <1>2, OfOne DEF LockOK, Locked, At
<1>3. ResolverOK'
  BY DEF Inv, ResolverOK
<1> QED
  BY <1>1, <1>2, <1>3 DEF Inv

\* Saves and deletions.
LEMMA Editing ==
    ASSUME Inv,
           \/ \E kind \in EditKinds \ {"delete"}, content \in unsaved : SaveFile(kind, content)
           \/ DeleteFile
    PROVE  Inv' /\ UNCHANGED <<index, resolver>>
<1>a. /\ File \in Name /\ Len(inodes) \in Nat
      /\ \A r \in Resolver, k \in Kind : <<r, k>> \in Name \ {File}
  BY Names, ConflictAssumption DEF Inv, DiskOK, Name, Kind
<1>1. ASSUME NEW kind \in EditKinds, NEW content \in unsaved, SaveFile(kind, content)
      PROVE  Inv' /\ UNCHANGED <<index, resolver>>
  <2>1. content \in Content
    BY DEF Inv, EnvOK, Content
  <2>2. EnvOK' /\ GitOK' /\ UNCHANGED <<git, resolver>>
    BY <1>1 DEF Inv, EnvOK, GitOK, SaveFile, Spend, BudgetKind, git, Index
  <2>3. CASE Make(File, content)
    <3>1. /\ DiskOK' /\ Len(inodes') >= Len(inodes)
          /\ \A r \in Resolver, k \in Kind : dir'[<<r, k>>] = dir[<<r, k>>]
      BY <1>a, <2>1, <2>3, MakeType DEF Inv
    <3> QED
      BY <2>2, <3>1, ForeignInv DEF git
  <2>4. CASE /\ Exists(File) /\ inodes' = [inodes EXCEPT ![dir[File]] = content]
             /\ UNCHANGED dir
    <3>1. DiskOK' /\ Len(inodes') = Len(inodes)
      BY <1>a, <2>1, <2>4 DEF Inv, DiskOK, Exists, NoInode
    <3> QED
      BY <1>a, <2>2, <2>4, <3>1, ForeignInv DEF git
  <2> QED
    BY <1>1, <2>3, <2>4 DEF SaveFile
<1>2. CASE DeleteFile
  <2>1. EnvOK' /\ GitOK' /\ UNCHANGED <<git, resolver>>
    BY <1>2 DEF Inv, EnvOK, GitOK, DeleteFile, Spend, BudgetKind, git, Index
  <2>2. /\ DiskOK' /\ inodes' = inodes
        /\ \A r \in Resolver, k \in Kind : dir'[<<r, k>>] = dir[<<r, k>>]
    BY <1>a, <1>2, RemoveType DEF Inv, DeleteFile
  <2> QED
    BY <1>a, <2>1, <2>2, ForeignInv DEF git
<1> QED
  BY <1>1, <1>2

\* Another git process.
LEMMA GitProcess ==
    ASSUME Inv, GitLocks \/ GitCommits
    PROVE  /\ Inv' /\ UNCHANGED resolver
           /\ \/ UNCHANGED index
              \/ index'.stage = Elsewhere /\ index'.rest = index.rest
              \/ index'.stage = index.stage /\ index'.rest = index.rest + 1
<1>a. Free \notin Resolver /\ Git \notin Resolver /\ Len(inodes) \in Nat /\ index \in Index
  BY ConflictAssumption, CopyType DEF Inv, DiskOK
<1>1. UNCHANGED <<disk, resolver>> /\ DiskOK'
  BY DEF GitLocks, GitCommits, disk, Inv, DiskOK
<1>2. EnvOK'
  BY DEF GitLocks, GitCommits, Inv, EnvOK, Spend, BudgetKind, env
<1>3. /\ lock \notin Resolver /\ lock' \in {Free, Git}
      /\ \/ UNCHANGED index
         \/ index' = [index EXCEPT !.stage = Elsewhere]
         \/ index' = [index EXCEPT !.rest = @ + 1]
  BY <1>a DEF GitLocks, GitCommits
<1>4. GitOK'
  BY <1>a, <1>3 DEF GitOK, Index
<1>5. Inv'
  BY <1>a, <1>1, <1>2, <1>3, <1>4, ForeignInv DEF disk
<1> QED
  BY <1>a, <1>1, <1>3, <1>5 DEF Index

-----------------------------------------------------------------------------
(* The theorems *)

\* The three facts that make the invariant inductive.
LEMMA InitInv == Init => Inv
<1> SUFFICES ASSUME Init PROVE Inv
  OBVIOUS
<1>1. DiskOK
  <2>1. inodes \in Seq(Content) /\ Len(inodes) \in Nat
    <3>1. Original \in Content
      BY DEF Content
    <3>2. <<Original>> \in Seq(Content) /\ Len(<<Original>>) = 1
      BY <3>1
    <3>3. CASE inodes = <<>>
      BY <3>3
    <3> QED
      BY <3>2, <3>3 DEF Init
  <2>2. CASE inodes = <<Original>> /\ dir = [n \in Name |-> IF n = File THEN 1 ELSE NoInode]
    BY <2>1, <2>2 DEF DiskOK, NoInode
  <2>3. CASE inodes = <<>> /\ dir = [n \in Name |-> NoInode]
    BY <2>1, <2>3 DEF DiskOK, NoInode
  <2> QED
    BY <2>2, <2>3 DEF Init
<1>2. NewResolver \in ResolverType /\ NoCopy \in Index
  BY DEF NewResolver, ResolverType, ControlPoint, FaultPoint, Plan, Stored, NoInode, NoCopy, Index
<1>3. ResolverOK
  BY <1>2 DEF Init, ResolverOK
<1>4. GitOK
  BY DEF Init, GitOK, Index
<1>5. EnvOK
  BY ConflictAssumption DEF Init, EnvOK
<1>6. ASSUME NEW r \in Resolver PROVE HandleOK(r) /\ LockOK(r)
  <2>1. resolver[r] = NewResolver /\ lock = Free /\ Free \notin Resolver /\ Len(inodes) \in Nat
    BY <1>1, ConflictAssumption DEF Init, DiskOK
  <2> QED
    BY <2>1 DEF HandleOK, Handle, LockOK, Locked, NewResolver, At, NoInode
<1> QED
  BY <1>1, <1>3, <1>4, <1>5, <1>6 DEF Inv

\* A step of a resolver either resolves the path, under the lock, or leaves the
\* index as it is.
LEMMA StepInv ==
    ASSUME Inv, NEW r \in Resolver, Step(r)
    PROVE  Inv' /\ (Tame(r) \/ (/\ index.stage = Conflict
                                 /\ index' = [index EXCEPT !.stage = r]
                                 /\ resolver[r].pc = "commit"
                                 /\ ResolverStep(r) /\ resolver'[r].pc = "resolved"))
<1>1. CASE LockIndex(r) \/ CopyIndex(r) \/ CommitIndex(r)
  BY <1>1, Locking DEF CommitIndex, At
<1>2. CASE FailStep(r)
  BY <1>2, Failing
<1>3. ASSUME Sound(r) /\ Quiet(r), UNCHANGED env PROVE Inv' /\ Tame(r)
  <2>1. EnvOK'
    BY <1>3 DEF Inv, EnvOK, env
  <2> QED
    BY <1>3, <2>1, QuietInv
<1>4. CASE \/ Load(r) \/ (\E plan \in Plans[r] : Start(r, plan))
           \/ Capture(r) \/ Recheck(r) \/ Reload(r)
  BY <1>3, <1>4, Looking DEF Load, Start, Capture, Recheck, Reload
<1>5. CASE WriteTemp(r) \/ Compare(r) \/ MoveAside(r) \/ Inspect(r) \/ MoveBack(r)
  BY <1>3, <1>5, Writing DEF WriteTemp, Compare, MoveAside, Inspect, MoveBack
<1>6. CASE Publish(r) \/ Fallback(r) \/ Tidy(r)
  BY <1>3, <1>6, Publishing DEF Publish, Fallback, Tidy
<1>7. CASE \/ CreateFile(r) \/ FillFile(r) \/ ConfirmFile(r) \/ Identify(r)
           \/ Discard(r) \/ Examine(r) \/ Cleaned(r)
  BY <1>3, <1>7, Creating
     DEF CreateFile, FillFile, ConfirmFile, Identify, Discard, Examine, Cleaned
<1>8. CASE \/ Displace(r) \/ ExamineOld(r) \/ DeleteBackup(r) \/ MakeSymlink(r)
           \/ Recapture(r) \/ PutBack(r) \/ Relink(r)
  BY <1>3, <1>8, Displacing
     DEF Displace, ExamineOld, DeleteBackup, MakeSymlink, Recapture, PutBack, Relink
<1>9. CASE Rollback(r) \/ ExamineNew(r) \/ Recreate(r)
  BY <1>3, <1>9, RollingBack DEF Rollback, ExamineNew, Recreate
<1>10. CASE Revalidate(r)
  <2>1. Sound(r) /\ Quiet(r)
    BY <1>10, OfOne, GotoPlain, KeepDisk DEF Revalidate, At, IfElse, Plain, Locked, Ended
  <2> QED
    BY <1>3, <1>10, <2>1 DEF Revalidate
<1> QED
  BY <1>1, <1>2, <1>4, <1>5, <1>6, <1>7, <1>8, <1>9, <1>10 DEF Step

\* Every step preserves it.
LEMMA NextInv == Inv /\ [Next]_vars => Inv'
<1> SUFFICES ASSUME Inv, [Next]_vars PROVE Inv'
  OBVIOUS
<1>1. CASE UNCHANGED vars
  BY <1>1 DEF Inv, DiskOK, ResolverOK, GitOK, EnvOK, HandleOK, Handle, LockOK, At, vars,
              disk, git, env
<1>2. CASE Next
  BY <1>2, Editing, GitProcess, StepInv DEF Next
<1> QED
  BY <1>1, <1>2

\* Hence it always holds.
LEMMA AlwaysInv == Spec => []Inv
BY InitInv, NextInv, PTL DEF Spec

\* The types: local_ops.rs never writes a content that is none, loses sight of an
\* inode it created, or keeps a private copy of the index without the lock.
THEOREM TypeCorrect == Spec => []TypeOK
<1>1. Inv => TypeOK
  <2> SUFFICES ASSUME Inv PROVE TypeOK
    OBVIOUS
  <2>1. inodes \in Seq(Content) /\ dir \in [Name -> 0..Len(inodes)]
    BY DEF Inv, DiskOK
  <2>2. ASSUME NEW r \in Resolver
        PROVE  /\ resolver[r] \in
                    [pc : ControlPoint, plan : Plan, seen : Content \cup {Missing},
                     original : Content \cup {Missing}, applied : Content \cup {Missing},
                     task : {"publish", "restore", "rollback"}, inode : 0..Len(inodes),
                     current : Content \cup {Missing}, from : {"backup", "applied"},
                     copy : [stage : {Conflict, Elsewhere} \cup Resolver, rest : Nat]]
               /\ resolver[r].copy # NoCopy => lock = r
    <3>1. resolver[r] \in ResolverType /\ resolver[r].inode \in 0..Len(inodes)
      <4>1. resolver[r].inode \in Nat /\ resolver[r].inode <= Len(inodes)
        BY OfOne DEF HandleOK, Handle, ResolverType
      <4> QED
        BY <4>1, OfOne
    <3>2. resolver[r].copy # NoCopy => lock = r
      BY OfOne DEF LockOK, Locked, At
    <3> QED
      BY <3>1, <3>2 DEF ResolverType, Stored, Index
  <2> QED
    BY <2>1, <2>2 DEF Inv, ResolverOK, GitOK, EnvOK, TypeOK, Index
<1> QED
  BY <1>1, AlwaysInv, PTL

\* GitIndexLock: a resolution that has ended does not hold index.lock, whichever
\* call failed.
THEOREM LockCorrect == Spec => []LockGivenBack
<1>1. Inv => LockGivenBack
  BY OfOne DEF LockGivenBack, LockOK, Locked
<1> QED
  BY <1>1, AlwaysInv, PTL

\* resolve_conflict_at and accept_conflict_side change the index in one step that
\* replaces the conflict they were made for, or not at all.
THEOREM AtomicCorrect == Spec => AtomicResolution
<1>1. Init => Outcome!Init
  <2> SUFFICES ASSUME Init PROVE Outcome!Init
    OBVIOUS
  <2>1. \A r \in Resolver : Outcomes[r] = "working"
    BY DEF Init, Outcomes, NewResolver, At
  <2>2. Outcomes = [r \in Resolver |-> "working"]
    BY <2>1 DEF Outcomes
  <2> QED
    BY <2>2 DEF Init, Outcome!Init
<1>2. Inv /\ [Next]_vars => [Outcome!Next]_<<index.stage, index.rest, Outcomes>>
  <2> SUFFICES ASSUME Inv, [Next]_vars
               PROVE  Outcome!Next \/ UNCHANGED <<index.stage, index.rest, Outcomes>>
    OBVIOUS
  <2>a. UNCHANGED resolver => Outcomes' = Outcomes
    BY DEF Outcomes, At
  <2>1. CASE UNCHANGED vars
    BY <2>a, <2>1 DEF vars, git
  <2>2. CASE \/ \E kind \in EditKinds \ {"delete"}, content \in unsaved :
                   SaveFile(kind, content)
             \/ DeleteFile
    BY <2>a, <2>2, Editing
  <2>3. CASE GitLocks \/ GitCommits
    BY <2>a, <2>3, GitProcess DEF Outcome!Next, Outcome!ForeignUpdate
  <2>4. ASSUME NEW r \in Resolver, Step(r)
        PROVE  Outcome!Next \/ UNCHANGED <<index.stage, index.rest, Outcomes>>
    <3>1. ASSUME ResolverStep(r), NEW result, Outcomes'[r] = result
          PROVE  Outcomes' = [Outcomes EXCEPT ![r] = result]
      BY <3>1 DEF ResolverStep, Outcomes, At
    <3>2. CASE Tame(r)
      <4>1. Outcomes[r] = "working" /\ Outcomes'[r] \in {"working", "failed"}
        BY <3>2 DEF Tame, Outcomes, At, Ended
      <4>2. Outcomes' = [Outcomes EXCEPT ![r] = Outcomes'[r]]
        BY <3>1, <3>2 DEF Tame
      <4>3. CASE Outcomes'[r] = "working"
        BY <3>2, <4>1, <4>2, <4>3 DEF Tame, Outcomes
      <4>4. CASE Outcomes'[r] = "failed"
        BY <3>2, <4>1, <4>2, <4>4 DEF Tame, Outcome!Next, Outcome!Refuse
      <4> QED
        BY <4>1, <4>3, <4>4
    <3>3. CASE /\ index.stage = Conflict
               /\ index' = [index EXCEPT !.stage = r]
               /\ resolver[r].pc = "commit"
               /\ ResolverStep(r) /\ resolver'[r].pc = "resolved"
      <4>1. Outcomes[r] = "working" /\ Outcomes'[r] = "resolved"
        BY <3>3 DEF Outcomes, At
      <4>2. Outcomes' = [Outcomes EXCEPT ![r] = "resolved"]
        BY <3>1, <3>3, <4>1
      <4>3. index'.stage = r /\ index'.rest = index.rest
        BY <3>3, CopyType DEF Index
      <4> QED
        BY <3>3, <4>1, <4>2, <4>3 DEF Outcome!Next, Outcome!Resolve
    <3> QED
      BY <2>4, <3>2, <3>3, StepInv
  <2> QED
    BY <2>1, <2>2, <2>3, <2>4 DEF Next
<1> QED
  BY <1>1, <1>2, AlwaysInv, PTL DEF Spec, AtomicResolution, Outcome!Spec

-----------------------------------------------------------------------------
(* A resolution nobody disturbs                                            *)

\* No other resolution was opened, no file saved or deleted, and no call failed.
Undisturbed(r) ==
    /\ \A s \in Resolver \ {r} : At(s, "idle")
    /\ budget["edit"] = Budget["edit"] /\ budget["fault"] = Budget["fault"]

BudgetLeft == budget["edit"] <= Budget["edit"] /\ budget["fault"] <= Budget["fault"]

\* Beside the path there are at most these names.
Only(own) == \A n \in Name \ ({File} \cup own) : ~Exists(n)

\* The steps of the plans that write in the working tree, from the first write to the last.
Writes == {"stage", "compare", "aside", "inspect", "publish", "fallback", "tidy", "create", "fill",
           "confirm", "displace", "examineOld", "delete", "symlink", "recapture", "revalidate",
           "rollback", "examineNew", "recreate"}

Indexes == {"lock", "copy", "commit"}

\* What such a resolution never comes to, as everything it compares is as it was.
Detours == {"unmove", "putback", "relink", "identify", "discard", "examine", "cleaned"}

Quietly(plan) == plan \in {"gitlink", "working"}

\* What is in the directory at every step.
Shape(r) ==
    LET h  == resolver[r]
        pc == resolver[r].pc
    IN  /\ pc \notin Detours
        /\ pc \in Writes => ~Quietly(h.plan)
        /\ pc \in Writes \cup Indexes \cup {"recheck", "reload"} => h.original = h.seen
        /\ pc = "idle" => Only({})
        /\ pc \in {"open", "capture", "recheck", "reload", "stage", "displace", "refused"}
              => Entry(File) = h.seen /\ Only({})
        /\ pc \in {"compare", "aside"}
              => Entry(File) = h.seen /\ Entry(Temp(r)) = r /\ Only({Temp(r)})
        /\ pc \in {"inspect", "publish", "fallback"}
              => ~Exists(File) /\ Entry(Temp(r)) = r /\ Only({Temp(r), Backup(r)})
        /\ pc = "inspect" => Entry(Backup(r)) = h.seen
        /\ pc = "tidy" => Entry(File) = r /\ Only({Temp(r), Backup(r)})
        /\ pc \in {"create", "fill", "confirm"} =>
              /\ h.task \in {"publish", "rollback"}
              /\ h.task = "publish" => Only({Temp(r), Backup(r)})
              /\ h.task = "rollback" => Only({Applied(r)}) /\ h.from = "applied"
        /\ pc = "create" => ~Exists(File)
        /\ pc \in {"fill", "confirm"} => dir[File] = h.inode /\ h.inode # NoInode
        /\ pc = "confirm" => Entry(File) = IF h.task = "publish" THEN r ELSE h.seen
        /\ pc = "examineOld" => ~Exists(File) /\ Entry(Backup(r)) = h.seen /\ Only({Backup(r)})
        /\ pc \in {"delete", "symlink"} => ~Exists(File) /\ Only({Backup(r)})
        /\ pc = "recapture" => Only({Backup(r)})
        /\ pc \in {"revalidate", "rollback"} \cup Indexes => Only({})
        /\ pc \in {"revalidate", "rollback"} => Entry(File) = h.applied
        /\ pc \in Indexes => Entry(File) = IF Quietly(h.plan) THEN h.seen ELSE h.applied
        /\ pc = "examineNew"
              => ~Exists(File) /\ Entry(Applied(r)) = h.applied /\ Only({Applied(r)})
        /\ pc = "recreate" => ~Exists(File) /\ Only({Applied(r)})

RestoreInv ==
    /\ Inv
    /\ BudgetLeft
    /\ \A r \in Resolver : Undisturbed(r) => Shape(r)

-----------------------------------------------------------------------------
(* What the effects do to the entries *)

\* The other names are as they were.
Apart(names) == \A m \in Name \ names : dir'[m] = dir[m] /\ Entry(m)' = Entry(m)

\* Nothing changed.
LEMMA NothingDone ==
    ASSUME UNCHANGED disk
    PROVE  Apart({})
BY DEF disk, Apart, Entry

LEMMA MakeEntry ==
    ASSUME DiskOK, NEW n \in Name, NEW content \in Content, Make(n, content)
    PROVE  Apart({n}) /\ Entry(n)' = content /\ Exists(n)' /\ dir'[n] = Len(inodes')
<1>1. /\ Len(inodes) \in Nat /\ inodes' = Append(inodes, content)
      /\ Len(inodes') = Len(inodes) + 1 /\ inodes \in Seq(Content)
      /\ dir'[n] = Len(inodes') /\ dir'[n] # NoInode
      /\ \A m \in Name \ {n} : dir'[m] = dir[m]
  <2>1. Len(inodes) \in Nat /\ inodes \in Seq(Content)
    BY DEF DiskOK
  <2>2. inodes' = Append(inodes, content)
    BY DEF Make
  <2> QED
    BY <2>1, <2>2, MakeType
<1>2. Entry(n)' = content
  BY <1>1 DEF Entry
<1>3. ASSUME NEW m \in Name \ {n} PROVE Entry(m)' = Entry(m)
  <2>1. dir[m] \in 0..Len(inodes) /\ dir'[m] = dir[m]
    BY <1>1 DEF DiskOK
  <2>2. dir[m] # NoInode => inodes'[dir[m]] = inodes[dir[m]]
    BY <1>1, <2>1 DEF NoInode
  <2> QED
    BY <2>1, <2>2 DEF Entry
<1> QED
  BY <1>1, <1>2, <1>3 DEF Apart, Exists

LEMMA RemoveEntry ==
    ASSUME DiskOK, NEW names \in SUBSET Name, Remove(names)
    PROVE  Apart(names) /\ \A m \in names : ~Exists(m)'
<1>1. inodes' = inodes /\ \A m \in Name : m \notin names => dir'[m] = dir[m]
  BY RemoveType
<1>2. \A m \in names : dir'[m] = NoInode
  BY DEF Remove
<1> QED
  BY <1>1, <1>2 DEF Apart, Exists, Entry

LEMMA MoveEntry ==
    ASSUME DiskOK, NEW from \in Name, NEW to \in Name, from # to, Move(from, to)
    PROVE  /\ Apart({from, to})
           /\ Entry(to)' = Entry(from) /\ Exists(to)' = Exists(from) /\ ~Exists(from)'
<1>1. /\ inodes' = inodes /\ dir'[to] = dir[from] /\ dir'[from] = NoInode
      /\ \A m \in Name \ {from, to} : dir'[m] = dir[m]
  BY MoveType DEF Move, DiskOK
<1> QED
  BY <1>1 DEF Apart, Exists, Entry

\* An entry is missing where there is none.
LEMMA MissingIsNone ==
    ASSUME DiskOK, NEW n \in Name
    PROVE  Exists(n) <=> Entry(n) # Missing
BY EntryType, ConflictAssumption DEF Exists, Entry

\* The names of a resolver are four of the directory's.
LEMMA OwnNames ==
    ASSUME NEW r \in Resolver
    PROVE  /\ File \in Name /\ r \in Content /\ r # Missing
           /\ {Temp(r), Backup(r), Applied(r)} \subseteq Name \ {File}
           /\ Temp(r) # Backup(r) /\ Temp(r) # Applied(r) /\ Backup(r) # Applied(r)
BY Names, ConflictAssumption DEF Content

\* A resolver that goes on to another step keeps what it knows.
Knows(r) ==
    /\ resolver'[r].plan = resolver[r].plan /\ resolver'[r].seen = resolver[r].seen
    /\ resolver'[r].original = resolver[r].original
    /\ resolver'[r].applied = resolver[r].applied
    /\ resolver'[r].task = resolver[r].task /\ resolver'[r].inode = resolver[r].inode
    /\ resolver'[r].from = resolver[r].from

LEMMA GoesOn ==
    ASSUME ResolverOK, NEW r \in Resolver, NEW pc, Goto(r, pc)
    PROVE  resolver'[r].pc = pc /\ Knows(r)
BY DEF ResolverOK, ResolverType, Goto, Knows

-----------------------------------------------------------------------------
(* The steps keep the shape *)

\* Up to the first write.
LEMMA ShapeLooking ==
    ASSUME Inv, NEW r \in Resolver, Shape(r),
           \/ Load(r) \/ (\E plan \in Plans[r] : Start(r, plan))
           \/ Capture(r) \/ Recheck(r) \/ Reload(r)
    PROVE  Shape(r)'
<1>a. Apart({}) /\ File \in Name
  BY OwnNames, NothingDone DEF Load, Start, Capture, Recheck, Reload
<1>b. Entry(File)' = Entry(File) /\ \A n \in Name : Exists(n)' = Exists(n)
  BY <1>a DEF Apart, Exists
<1>c. Only({})' = Only({})
  BY <1>b DEF Only
<1>d. resolver[r] \in ResolverType /\ ResolverOK
  BY OfOne
<1>1. CASE Load(r)
  <2>1. resolver'[r].pc = "open" /\ resolver'[r].seen = Entry(File)
    BY <1>d, <1>1 DEF Load, ResolverOK, ResolverType
  <2>2. Only({})
    BY <1>1 DEF Shape, Load, At
  <2> QED
    BY <1>b, <1>c, <2>1, <2>2 DEF Shape, Detours, Writes, Indexes
<1>2. ASSUME NEW plan \in Plans[r], Start(r, plan) PROVE Shape(r)'
  <2>1. /\ resolver'[r].pc \in {"capture", "refused"}
        /\ resolver'[r].seen = resolver[r].seen
    BY <1>d, <1>2 DEF Start, ResolverOK, ResolverType, IfElse
  <2>2. Entry(File) = resolver[r].seen /\ Only({})
    BY <1>2 DEF Shape, Start, At
  <2> QED
    BY <1>b, <1>c, <2>1, <2>2 DEF Shape, Detours, Writes, Indexes
<1>3. CASE Capture(r)
  <2>1. /\ resolver'[r].pc \in {"recheck", "refused"}
        /\ resolver'[r].seen = resolver[r].seen /\ resolver'[r].original = Entry(File)
    BY <1>d, <1>3 DEF Capture, ResolverOK, ResolverType, IfElse
  <2>2. Entry(File) = resolver[r].seen /\ Only({})
    BY <1>3 DEF Shape, Capture, At
  <2> QED
    BY <1>b, <1>c, <2>1, <2>2 DEF Shape, Detours, Writes, Indexes
<1>4. CASE Recheck(r)
  <2>1. resolver'[r].pc \in {"reload", "refused"} /\ Knows(r)
    BY <1>d, <1>4, GoesOn DEF Recheck, IfElse
  <2>2. Entry(File) = resolver[r].seen /\ Only({}) /\ resolver[r].original = resolver[r].seen
    BY <1>4 DEF Shape, Recheck, At
  <2> QED
    BY <1>b, <1>c, <2>1, <2>2 DEF Shape, Detours, Writes, Indexes, Knows
<1>5. CASE Reload(r)
  <2>1. /\ Knows(r)
        /\ \/ resolver'[r].pc = "refused"
           \/ resolver'[r].pc \in {"stage", "displace"} /\ ~Quietly(resolver[r].plan)
           \/ resolver'[r].pc = "lock" /\ Quietly(resolver[r].plan)
    <3>1. resolver'[r].pc \in {FirstStep(resolver[r].plan), "refused"} /\ Knows(r)
      BY <1>d, <1>5, GoesOn DEF Reload, IfElse
    <3> QED
      BY <3>1, <1>d DEF FirstStep, Quietly, ResolverType, Plan
  <2>2. Entry(File) = resolver[r].seen /\ Only({}) /\ resolver[r].original = resolver[r].seen
    BY <1>5 DEF Shape, Reload, At
  <2> QED
    BY <1>b, <1>c, <2>1, <2>2 DEF Shape, Detours, Writes, Indexes, Knows
<1> QED
  BY <1>1, <1>2, <1>3, <1>4, <1>5

\* write_regular_worktree_file up to the publication.
LEMMA ShapeWriting ==
    ASSUME Inv, NEW r \in Resolver, Shape(r),
           WriteTemp(r) \/ Compare(r) \/ MoveAside(r) \/ Inspect(r)
    PROVE  Shape(r)'
<1>d. resolver[r] \in ResolverType /\ ResolverOK /\ DiskOK
  BY OfOne
<1>n. /\ File \in Name /\ r \in Content /\ r # Missing
      /\ {Temp(r), Backup(r), Applied(r)} \subseteq Name \ {File}
      /\ Temp(r) # Backup(r) /\ Temp(r) # Applied(r) /\ Backup(r) # Applied(r)
  BY OwnNames
<1>m. \A n \in Name : Exists(n) <=> Entry(n) # Missing
  BY <1>d, MissingIsNone
<1>1. CASE WriteTemp(r)
  <2>1. resolver'[r].pc = "compare" /\ Knows(r)
    BY <1>d, <1>1, GoesOn DEF WriteTemp
  <2>2. Apart({Temp(r)}) /\ Entry(Temp(r))' = r
    BY <1>d, <1>n, <1>1, MakeEntry DEF WriteTemp
  <2>3. /\ Entry(File) = resolver[r].seen /\ Only({}) /\ ~Quietly(resolver[r].plan)
        /\ resolver[r].original = resolver[r].seen
    BY <1>1 DEF Shape, WriteTemp, At, Writes
  <2>4. Entry(File)' = resolver'[r].seen /\ Only({Temp(r)})'
    BY <1>n, <2>1, <2>2, <2>3 DEF Apart, Knows, Only, Exists
  <2> QED
    BY <2>1, <2>2, <2>3, <2>4 DEF Shape, Detours, Writes, Indexes, Knows
<1>2. CASE Compare(r)
  <2>1. resolver'[r].pc = "aside" /\ Knows(r) /\ Apart({})
    BY <1>d, <1>2, GoesOn, NothingDone DEF Compare, Shape, At, Writes
  <2>3. /\ Entry(File) = resolver[r].seen /\ Only({Temp(r)}) /\ ~Quietly(resolver[r].plan)
        /\ resolver[r].original = resolver[r].seen /\ Entry(Temp(r)) = r
    BY <1>2 DEF Shape, Compare, At, Writes
  <2>4. Entry(File)' = resolver'[r].seen /\ Only({Temp(r)})' /\ Entry(Temp(r))' = r
    BY <1>n, <2>1, <2>3 DEF Apart, Knows, Only, Exists
  <2> QED
    BY <2>1, <2>3, <2>4 DEF Shape, Detours, Writes, Indexes, Knows
<1>3. CASE MoveAside(r)
  <2>3. /\ Entry(File) = resolver[r].seen /\ Only({Temp(r)}) /\ ~Quietly(resolver[r].plan)
        /\ resolver[r].original = resolver[r].seen /\ Entry(Temp(r)) = r
    BY <1>3 DEF Shape, MoveAside, At, Writes
  <2>1. CASE Exists(File) /\ Move(File, Backup(r)) /\ Goto(r, "inspect")
    <3>1. resolver'[r].pc = "inspect" /\ Knows(r)
      BY <1>d, <2>1, GoesOn
    <3>2. /\ Apart({File, Backup(r)}) /\ Entry(Backup(r))' = Entry(File) /\ ~Exists(File)'
      BY <1>d, <1>n, <2>1, MoveEntry
    <3>3. /\ Only({Temp(r), Backup(r)})' /\ Entry(Temp(r))' = r
      BY <1>n, <2>3, <3>2 DEF Apart, Only, Exists
    <3> QED
      BY <2>3, <3>1, <3>2, <3>3 DEF Shape, Detours, Writes, Indexes, Knows
  <2>2. CASE /\ ~Exists(File) /\ Goto(r, "publish") /\ UNCHANGED disk
    <3>1. resolver'[r].pc = "publish" /\ Knows(r) /\ Apart({})
      BY <1>d, <2>2, GoesOn, NothingDone
    <3>3. /\ Only({Temp(r), Backup(r)})' /\ Entry(Temp(r))' = r /\ ~Exists(File)'
      BY <1>n, <2>2, <2>3, <3>1 DEF Apart, Only, Exists
    <3> QED
      BY <2>3, <3>1, <3>3 DEF Shape, Detours, Writes, Indexes, Knows
  <2> QED
    BY <1>3, <1>n, <1>m, <2>1, <2>2, <2>3 DEF MoveAside
<1>4. CASE Inspect(r)
  <2>3. /\ ~Exists(File) /\ Only({Temp(r), Backup(r)}) /\ ~Quietly(resolver[r].plan)
        /\ resolver[r].original = resolver[r].seen /\ Entry(Temp(r)) = r
        /\ Entry(Backup(r)) = resolver[r].seen
    BY <1>4 DEF Shape, Inspect, At, Writes
  <2>1. resolver'[r].pc = "publish" /\ Knows(r) /\ Apart({})
    BY <1>d, <1>4, <2>3, GoesOn, NothingDone DEF Inspect
  <2>4. ~Exists(File)' /\ Only({Temp(r), Backup(r)})' /\ Entry(Temp(r))' = r
    BY <1>n, <2>1, <2>3 DEF Apart, Only, Exists
  <2> QED
    BY <2>1, <2>3, <2>4 DEF Shape, Detours, Writes, Indexes, Knows
<1> QED
  BY <1>1, <1>2, <1>3, <1>4

\* The publication, with and without hard links.
LEMMA ShapePublishing ==
    ASSUME Inv, NEW r \in Resolver, Shape(r), Publish(r) \/ Fallback(r) \/ Tidy(r)
    PROVE  Shape(r)'
<1>d. resolver[r] \in ResolverType /\ ResolverOK /\ DiskOK
  BY OfOne
<1>n. /\ File \in Name /\ r \in Content /\ r # Missing
      /\ {Temp(r), Backup(r), Applied(r)} \subseteq Name \ {File}
      /\ Temp(r) # Backup(r) /\ Temp(r) # Applied(r) /\ Backup(r) # Applied(r)
  BY OwnNames
<1>1. CASE Publish(r)
  <2>3. /\ ~Exists(File) /\ Only({Temp(r), Backup(r)}) /\ ~Quietly(resolver[r].plan)
        /\ resolver[r].original = resolver[r].seen /\ Entry(Temp(r)) = r
    BY <1>1 DEF Shape, Publish, At, Writes
  <2>1. CASE /\ dir' = [dir EXCEPT ![File] = dir[Temp(r)]] /\ UNCHANGED inodes
             /\ Goto(r, "tidy")
    <3>1. resolver'[r].pc = "tidy" /\ Knows(r)
      BY <1>d, <2>1, GoesOn
    <3>2. dir'[File] = dir[Temp(r)] /\ \A m \in Name \ {File} : dir'[m] = dir[m]
      BY <1>d, <1>n, <2>1 DEF DiskOK
    <3>3. Entry(File)' = r /\ Only({Temp(r), Backup(r)})'
      BY <1>n, <2>1, <2>3, <3>2 DEF Entry, Only, Exists
    <3> QED
      BY <2>3, <3>1, <3>3 DEF Shape, Detours, Writes, Indexes, Knows
  <2>2. CASE Goto(r, "fallback") /\ UNCHANGED disk
    <3>1. resolver'[r].pc = "fallback" /\ Knows(r) /\ Apart({})
      BY <1>d, <2>2, GoesOn, NothingDone
    <3>3. /\ Only({Temp(r), Backup(r)})' /\ Entry(Temp(r))' = r /\ ~Exists(File)'
      BY <1>n, <2>2, <2>3, <3>1 DEF Apart, Only, Exists
    <3> QED
      BY <2>3, <3>1, <3>3 DEF Shape, Detours, Writes, Indexes, Knows
  <2> QED
    BY <1>1, <2>1, <2>2 DEF Publish
<1>2. CASE Fallback(r)
  <2>3. /\ ~Exists(File) /\ Only({Temp(r), Backup(r)}) /\ ~Quietly(resolver[r].plan)
        /\ resolver[r].original = resolver[r].seen
    BY <1>2 DEF Shape, Fallback, At, Writes
  <2>1. /\ resolver' = [resolver EXCEPT ![r].pc = "create", ![r].task = "publish"]
        /\ UNCHANGED disk
    BY <1>2, <2>3 DEF Fallback
  <2>2. /\ resolver'[r].pc = "create" /\ resolver'[r].task = "publish"
        /\ resolver'[r].plan = resolver[r].plan /\ resolver'[r].seen = resolver[r].seen
        /\ resolver'[r].original = resolver[r].original /\ Apart({})
    BY <1>d, <2>1, NothingDone DEF ResolverOK, ResolverType
  <2>4. Only({Temp(r), Backup(r)})' /\ ~Exists(File)'
    BY <1>n, <2>2, <2>3 DEF Apart, Only, Exists
  <2> QED
    BY <2>2, <2>3, <2>4 DEF Shape, Detours, Writes, Indexes
<1>3. CASE Tidy(r)
  <2>3. /\ Entry(File) = r /\ Only({Temp(r), Backup(r)}) /\ ~Quietly(resolver[r].plan)
        /\ resolver[r].original = resolver[r].seen
    BY <1>3 DEF Shape, Tidy, At, Writes
  <2>2. /\ resolver'[r].pc = "revalidate" /\ resolver'[r].applied = r
        /\ resolver'[r].plan = resolver[r].plan /\ resolver'[r].seen = resolver[r].seen
        /\ resolver'[r].original = resolver[r].original
    BY <1>d, <1>3 DEF Tidy, ResolverOK, ResolverType
  <2>4. Apart({Temp(r), Backup(r)}) /\ ~Exists(Temp(r))' /\ ~Exists(Backup(r))'
    BY <1>d, <1>n, <1>3, RemoveEntry DEF Tidy
  <2>5. Entry(File)' = r /\ Only({})'
    BY <1>n, <2>3, <2>4 DEF Apart, Only, Exists
  <2> QED
    BY <2>2, <2>3, <2>5 DEF Shape, Detours, Writes, Indexes
<1> QED
  BY <1>1, <1>2, <1>3

\* create_regular_file_noclobber, for a publication or in a rollback.
LEMMA ShapeCreating ==
    ASSUME Inv, NEW r \in Resolver, Shape(r), CreateFile(r) \/ FillFile(r) \/ ConfirmFile(r)
    PROVE  Shape(r)'
<1>d. resolver[r] \in ResolverType /\ ResolverOK /\ DiskOK /\ HandleOK(r)
  BY OfOne
<1>n. /\ File \in Name /\ r \in Content /\ r # Missing
      /\ {Temp(r), Backup(r), Applied(r)} \subseteq Name \ {File}
      /\ Temp(r) # Backup(r) /\ Temp(r) # Applied(r) /\ Backup(r) # Applied(r)
      /\ Empty \in Content
  BY OwnNames DEF Content
<1>w. \/ resolver[r].task = "publish" /\ Wanted(r) = r
      \/ resolver[r].task = "rollback" /\ Wanted(r) = resolver[r].original
  BY DEF Wanted, Shape, At, CreateFile, FillFile, ConfirmFile
<1>s. /\ resolver[r].pc \in {"create", "fill", "confirm"}
      /\ ~Quietly(resolver[r].plan) /\ resolver[r].original = resolver[r].seen
      /\ resolver[r].task = "publish" => Only({Temp(r), Backup(r)})
      /\ resolver[r].task = "rollback" => Only({Applied(r)}) /\ resolver[r].from = "applied"
  BY DEF Shape, At, CreateFile, FillFile, ConfirmFile, Writes
<1>1. CASE CreateFile(r)
  <2>1. /\ Make(File, Empty)
        /\ resolver' = [resolver EXCEPT ![r].pc = "fill", ![r].inode = dir'[File]]
    BY <1>1 DEF Shape, CreateFile, At
  <2>2. /\ resolver'[r].pc = "fill" /\ resolver'[r].inode = dir'[File]
        /\ resolver'[r].plan = resolver[r].plan /\ resolver'[r].seen = resolver[r].seen
        /\ resolver'[r].original = resolver[r].original
        /\ resolver'[r].task = resolver[r].task /\ resolver'[r].from = resolver[r].from
    BY <1>d, <2>1 DEF ResolverOK, ResolverType
  <2>3. Apart({File}) /\ Exists(File)'
    BY <1>d, <1>n, <2>1, MakeEntry
  <2>4. /\ resolver[r].task = "publish" => Only({Temp(r), Backup(r)})'
        /\ resolver[r].task = "rollback" => Only({Applied(r)})'
        /\ dir'[File] # NoInode
    BY <1>s, <1>n, <2>3 DEF Apart, Only, Exists
  <2> QED
    BY <1>w, <1>s, <2>2, <2>4 DEF Shape, Detours, Writes, Indexes
<1>2. CASE FillFile(r)
  <2>1. /\ resolver'[r].pc = "confirm" /\ Knows(r) /\ UNCHANGED dir
        /\ inodes' = [inodes EXCEPT ![resolver[r].inode] = Wanted(r)]
    BY <1>d, <1>2, GoesOn DEF FillFile
  <2>2. dir[File] = resolver[r].inode /\ resolver[r].inode # NoInode
    BY <1>2 DEF Shape, FillFile, At
  <2>3. Entry(File)' = Wanted(r)
    BY <1>d, <1>n, <2>1, <2>2 DEF DiskOK, Entry, NoInode
  <2>4. /\ resolver[r].task = "publish" => Only({Temp(r), Backup(r)})'
        /\ resolver[r].task = "rollback" => Only({Applied(r)})'
    BY <1>s, <2>1 DEF Only, Exists
  <2> QED
    BY <1>w, <1>s, <2>1, <2>2, <2>3, <2>4 DEF Shape, Detours, Writes, Indexes, Knows
<1>3. CASE ConfirmFile(r)
  <2>1. /\ dir[File] = resolver[r].inode /\ Entry(File) = Wanted(r)
    BY <1>w, <1>s, <1>3 DEF Shape, ConfirmFile, At
  <2>2. CASE resolver[r].task = "publish"
    <3>1. resolver'[r].pc = "tidy" /\ Knows(r) /\ Apart({})
      BY <1>d, <1>3, <2>1, <2>2, GoesOn, NothingDone DEF ConfirmFile, IsWritten
    <3>2. Entry(File)' = r /\ Only({Temp(r), Backup(r)})'
      BY <1>n, <1>w, <1>s, <2>1, <2>2, <3>1 DEF Apart, Only, Exists
    <3> QED
      BY <1>s, <3>1, <3>2 DEF Shape, Detours, Writes, Indexes, Knows
  <2>3. CASE resolver[r].task = "rollback"
    <3>1. resolver'[r].pc = "refused" /\ Knows(r) /\ Remove({Applied(r)})
      BY <1>d, <1>s, <1>3, <2>1, <2>3, GoesOn DEF ConfirmFile, IsWritten, From, Applied
    <3>2. Apart({Applied(r)}) /\ ~Exists(Applied(r))'
      BY <1>d, <1>n, <3>1, RemoveEntry
    <3>3. Entry(File)' = resolver[r].seen /\ Only({})'
      BY <1>n, <1>w, <1>s, <2>1, <2>3, <3>2 DEF Apart, Only, Exists
    <3> QED
      BY <1>s, <3>1, <3>3 DEF Shape, Detours, Writes, Indexes, Knows
  <2> QED
    BY <1>w, <2>2, <2>3
<1> QED
  BY <1>1, <1>2, <1>3

\* displace_worktree_entry_if_matches and what follows it.
LEMMA ShapeDisplacing ==
    ASSUME Inv, NEW r \in Resolver, Shape(r),
           \/ Displace(r) \/ ExamineOld(r) \/ DeleteBackup(r) \/ MakeSymlink(r)
           \/ Recapture(r)
    PROVE  Shape(r)'
<1>d. resolver[r] \in ResolverType /\ ResolverOK /\ DiskOK /\ HandleOK(r)
  BY OfOne
<1>n. /\ File \in Name /\ r \in Content /\ r # Missing
      /\ {Temp(r), Backup(r), Applied(r)} \subseteq Name \ {File}
      /\ Temp(r) # Backup(r) /\ Temp(r) # Applied(r) /\ Backup(r) # Applied(r)
  BY OwnNames
<1>m. \A n \in Name : Exists(n) <=> Entry(n) # Missing
  BY <1>d, MissingIsNone
<1>s. ~Quietly(resolver[r].plan) /\ resolver[r].original = resolver[r].seen
  BY DEF Shape, Displace, ExamineOld, DeleteBackup, MakeSymlink, Recapture, At, Writes
<1>1. CASE Displace(r)
  <2>3. Entry(File) = resolver[r].seen /\ Only({})
    BY <1>1 DEF Shape, Displace, At
  <2>1. CASE ~Exists(File) /\ Goto(r, Freed(resolver[r].plan)) /\ UNCHANGED disk
    <3>1. resolver'[r].pc \in {"symlink", "recapture"} /\ Knows(r) /\ Apart({})
      BY <1>d, <2>1, GoesOn, NothingDone DEF Freed
    <3>2. ~Exists(File)' /\ Only({Backup(r)})'
      BY <1>n, <2>1, <2>3, <3>1 DEF Apart, Only, Exists
    <3> QED
      BY <1>s, <3>1, <3>2 DEF Shape, Detours, Writes, Indexes, Knows
  <2>2. CASE Exists(File) /\ Move(File, Backup(r)) /\ Goto(r, "examineOld")
    <3>1. resolver'[r].pc = "examineOld" /\ Knows(r)
      BY <1>d, <2>2, GoesOn
    <3>2. /\ Apart({File, Backup(r)}) /\ Entry(Backup(r))' = Entry(File) /\ ~Exists(File)'
      BY <1>d, <1>n, <2>2, MoveEntry
    <3>3. Only({Backup(r)})'
      BY <1>n, <2>3, <3>2 DEF Apart, Only, Exists
    <3> QED
      BY <1>s, <2>3, <3>1, <3>2, <3>3 DEF Shape, Detours, Writes, Indexes, Knows
  <2> QED
    BY <1>1, <1>s, <1>n, <1>m, <2>1, <2>2, <2>3 DEF Displace, IfElse
<1>2. CASE ExamineOld(r)
  <2>3. ~Exists(File) /\ Entry(Backup(r)) = resolver[r].seen /\ Only({Backup(r)})
    BY <1>2 DEF Shape, ExamineOld, At
  <2>1. resolver'[r].pc \in {"delete", "symlink"} /\ Knows(r) /\ Apart({})
    BY <1>d, <1>s, <1>2, <2>3, NothingDone
       DEF ExamineOld, IfElse, ResolverOK, ResolverType, Knows
  <2>2. ~Exists(File)' /\ Only({Backup(r)})'
    BY <1>n, <2>1, <2>3 DEF Apart, Only, Exists
  <2> QED
    BY <1>s, <2>1, <2>2 DEF Shape, Detours, Writes, Indexes, Knows
<1>3. CASE DeleteBackup(r)
  <2>3. Only({Backup(r)})
    BY <1>3 DEF Shape, DeleteBackup, At
  <2>1. resolver'[r].pc = "recapture" /\ Knows(r)
    BY <1>d, <1>3, GoesOn DEF DeleteBackup
  <2>2. Apart({Backup(r)}) /\ ~Exists(Backup(r))'
    BY <1>d, <1>n, <1>3, RemoveEntry DEF DeleteBackup
  <2>4. Only({Backup(r)})'
    BY <1>n, <2>3, <2>2 DEF Apart, Only, Exists
  <2> QED
    BY <1>s, <2>1, <2>4 DEF Shape, Detours, Writes, Indexes, Knows
<1>4. CASE MakeSymlink(r)
  <2>3. ~Exists(File) /\ Only({Backup(r)})
    BY <1>4 DEF Shape, MakeSymlink, At
  <2>1. resolver'[r].pc = "recapture" /\ Knows(r)
    BY <1>d, <1>4, <2>3, GoesOn DEF MakeSymlink
  <2>2. Apart({File})
    BY <1>d, <1>n, <1>4, <2>3, MakeEntry DEF MakeSymlink
  <2>4. Only({Backup(r)})'
    BY <1>n, <2>3, <2>2 DEF Apart, Only, Exists
  <2> QED
    BY <1>s, <2>1, <2>4 DEF Shape, Detours, Writes, Indexes, Knows
<1>5. CASE Recapture(r)
  <2>3. Only({Backup(r)})
    BY <1>5 DEF Shape, Recapture, At
  <2>1. /\ resolver'[r].pc = "revalidate" /\ resolver'[r].applied = Entry(File)
        /\ resolver'[r].plan = resolver[r].plan /\ resolver'[r].seen = resolver[r].seen
        /\ resolver'[r].original = resolver[r].original
    BY <1>d, <1>5 DEF Recapture, ResolverOK, ResolverType
  <2>2. Apart({Backup(r)}) /\ ~Exists(Backup(r))'
    BY <1>d, <1>n, <1>5, RemoveEntry DEF Recapture
  <2>4. Only({})' /\ Entry(File)' = Entry(File)
    BY <1>n, <2>3, <2>2 DEF Apart, Only, Exists
  <2> QED
    BY <1>s, <2>1, <2>4 DEF Shape, Detours, Writes, Indexes
<1> QED
  BY <1>1, <1>2, <1>3, <1>4, <1>5

\* write_conflict_index_resolution.
LEMMA ShapeIndexing ==
    ASSUME Inv, NEW r \in Resolver, Shape(r),
           Revalidate(r) \/ LockIndex(r) \/ CopyIndex(r) \/ CommitIndex(r)
    PROVE  Shape(r)'
<1>d. resolver[r] \in ResolverType /\ ResolverOK /\ DiskOK /\ HandleOK(r)
  BY OfOne
<1>n. /\ File \in Name /\ r \in Content /\ r # Missing
      /\ {Temp(r), Backup(r), Applied(r)} \subseteq Name \ {File}
      /\ Temp(r) # Backup(r) /\ Temp(r) # Applied(r) /\ Backup(r) # Applied(r)
  BY OwnNames
<1>m. \A n \in Name : Exists(n) <=> Entry(n) # Missing
  BY <1>d, MissingIsNone
<1>a. /\ Apart({}) /\ Only({})
      /\ resolver[r].pc \in {"revalidate"} \cup Indexes
      /\ resolver[r].original = resolver[r].seen
      /\ resolver[r].pc = "revalidate" => ~Quietly(resolver[r].plan)
      /\ Entry(File) = IF Quietly(resolver[r].plan) THEN resolver[r].seen
                       ELSE resolver[r].applied
  <2>1. Apart({})
    BY NothingDone DEF Revalidate, LockIndex, CopyIndex, CommitIndex
  <2>2. resolver[r].pc \in {"revalidate"} \cup Indexes
    BY DEF Revalidate, LockIndex, CopyIndex, CommitIndex, At, Indexes
  <2> QED
    BY <2>1, <2>2 DEF Shape, Writes
<1>b. Entry(File)' = Entry(File) /\ Only({})'
  BY <1>n, <1>a DEF Apart, Only, Exists
<1>c. /\ Knows(r)
      /\ \/ resolver'[r].pc = "rollback" /\ ~Quietly(resolver[r].plan)
         \/ resolver'[r].pc = "refused" /\ Quietly(resolver[r].plan)
         \/ resolver'[r].pc \in Indexes \cup {"resolved"}
  <2>1. CASE Revalidate(r)
    BY <1>d, <1>a, <2>1, GoesOn DEF Revalidate, IfElse, Indexes, At
  <2>2. CASE LockIndex(r)
    BY <1>d, <2>2, GoesOn DEF LockIndex, Indexes, Undo, Quietly
  <2>3. CASE CopyIndex(r)
    <3>1. CASE resolver' = [resolver EXCEPT ![r].pc = "commit", ![r].copy = index]
      BY <1>d, <3>1 DEF ResolverOK, ResolverType, Knows, Indexes
    <3>2. CASE Goto(r, Undo(r))
      BY <1>d, <3>2, GoesOn DEF Undo, Quietly
    <3> QED
      BY <2>3, <3>1, <3>2 DEF CopyIndex
  <2>4. CASE CommitIndex(r)
    BY <1>d, <2>4 DEF CommitIndex, ResolverOK, ResolverType, Knows
  <2> QED
    BY <2>1, <2>2, <2>3, <2>4
<1> QED
  BY <1>a, <1>b, <1>c DEF Shape, Detours, Writes, Indexes, Knows

\* rollback_worktree_after_error.
LEMMA ShapeRollingBack ==
    ASSUME Inv, NEW r \in Resolver, Shape(r), Rollback(r) \/ ExamineNew(r) \/ Recreate(r)
    PROVE  Shape(r)'
<1>d. resolver[r] \in ResolverType /\ ResolverOK /\ DiskOK /\ HandleOK(r)
  BY OfOne
<1>n. /\ File \in Name /\ r \in Content /\ r # Missing
      /\ {Temp(r), Backup(r), Applied(r)} \subseteq Name \ {File}
      /\ Temp(r) # Backup(r) /\ Temp(r) # Applied(r) /\ Backup(r) # Applied(r)
  BY OwnNames
<1>m. \A n \in Name : Exists(n) <=> Entry(n) # Missing
  BY <1>d, MissingIsNone
<1>s. ~Quietly(resolver[r].plan) /\ resolver[r].original = resolver[r].seen
  BY DEF Shape, Rollback, ExamineNew, Recreate, At, Writes
<1>1. CASE Rollback(r)
  <2>3. Entry(File) = resolver[r].applied /\ Only({})
    BY <1>1 DEF Shape, Rollback, At
  <2>1. CASE ~Exists(File) /\ Goto(r, "recreate") /\ UNCHANGED disk
    <3>1. resolver'[r].pc = "recreate" /\ Knows(r) /\ Apart({})
      BY <1>d, <2>1, GoesOn, NothingDone
    <3>2. ~Exists(File)' /\ Only({Applied(r)})'
      BY <1>n, <2>1, <2>3, <3>1 DEF Apart, Only, Exists
    <3> QED
      BY <1>s, <3>1, <3>2 DEF Shape, Detours, Writes, Indexes, Knows
  <2>2. CASE Exists(File) /\ Move(File, Applied(r)) /\ Goto(r, "examineNew")
    <3>1. resolver'[r].pc = "examineNew" /\ Knows(r)
      BY <1>d, <2>2, GoesOn
    <3>2. /\ Apart({File, Applied(r)}) /\ Entry(Applied(r))' = Entry(File) /\ ~Exists(File)'
      BY <1>d, <1>n, <2>2, MoveEntry
    <3>3. Only({Applied(r)})'
      BY <1>n, <2>3, <3>2 DEF Apart, Only, Exists
    <3> QED
      BY <1>s, <2>3, <3>1, <3>2, <3>3 DEF Shape, Detours, Writes, Indexes, Knows
  <2> QED
    BY <1>1, <1>n, <1>m, <2>1, <2>2, <2>3 DEF Rollback, IfElse
<1>2. CASE ExamineNew(r)
  <2>3. ~Exists(File) /\ Entry(Applied(r)) = resolver[r].applied /\ Only({Applied(r)})
    BY <1>2 DEF Shape, ExamineNew, At
  <2>1. resolver'[r].pc = "recreate" /\ Knows(r) /\ Apart({})
    BY <1>d, <1>2, <2>3, NothingDone DEF ExamineNew, ResolverOK, ResolverType, Knows
  <2>2. ~Exists(File)' /\ Only({Applied(r)})'
    BY <1>n, <2>1, <2>3 DEF Apart, Only, Exists
  <2> QED
    BY <1>s, <2>1, <2>2 DEF Shape, Detours, Writes, Indexes, Knows
<1>3. CASE Recreate(r)
  <2>3. ~Exists(File) /\ Only({Applied(r)})
    BY <1>3 DEF Shape, Recreate, At
  <2>1. CASE resolver[r].original = Missing /\ Remove({Applied(r)}) /\ Goto(r, "refused")
    <3>1. resolver'[r].pc = "refused" /\ Knows(r)
      BY <1>d, <2>1, GoesOn
    <3>2. Apart({Applied(r)}) /\ ~Exists(Applied(r))'
      BY <1>d, <1>n, <2>1, RemoveEntry
    <3>3. Entry(File)' = resolver[r].seen /\ Only({})'
      BY <1>n, <1>m, <1>s, <2>1, <2>3, <3>2 DEF Apart, Only, Exists
    <3> QED
      BY <1>s, <3>1, <3>3 DEF Shape, Detours, Writes, Indexes, Knows
  <2>2. CASE /\ resolver[r].original \in Symlinks
             /\ inodes' = Append(inodes, resolver[r].original)
             /\ dir' = [dir EXCEPT ![File] = Len(inodes'), ![Applied(r)] = NoInode]
             /\ Goto(r, "refused")
    <3>1. resolver'[r].pc = "refused" /\ Knows(r)
      BY <1>d, <2>2, GoesOn
    <3>2. resolver[r].original \in Content
      BY <2>2, ConflictAssumption
    <3>3. /\ Len(inodes') = Len(inodes) + 1 /\ inodes'[Len(inodes')] = resolver[r].original
          /\ Len(inodes) \in Nat
      <4>1. inodes \in Seq(Content)
        BY <1>d DEF DiskOK
      <4> QED
        BY <2>2, <3>2, <4>1
    <3>4. /\ dir'[File] = Len(inodes') /\ dir'[Applied(r)] = NoInode
          /\ \A m \in Name \ {File, Applied(r)} : dir'[m] = dir[m]
      BY <1>d, <1>n, <2>2 DEF DiskOK
    <3>5. Entry(File)' = resolver[r].seen
      BY <1>s, <3>3, <3>4 DEF Entry, NoInode
    <3>6. Only({})'
      BY <1>n, <2>3, <3>4 DEF Only, Exists
    <3> QED
      BY <1>s, <3>1, <3>5, <3>6 DEF Shape, Detours, Writes, Indexes, Knows
  <2>4. CASE /\ resolver' = [resolver EXCEPT ![r].pc = "create", ![r].task = "rollback",
                                             ![r].from = "applied"]
             /\ UNCHANGED disk
    <3>1. /\ resolver'[r].pc = "create" /\ resolver'[r].task = "rollback"
          /\ resolver'[r].from = "applied"
          /\ resolver'[r].plan = resolver[r].plan /\ resolver'[r].seen = resolver[r].seen
          /\ resolver'[r].original = resolver[r].original /\ Apart({})
      BY <1>d, <2>4, NothingDone DEF ResolverOK, ResolverType
    <3>2. ~Exists(File)' /\ Only({Applied(r)})'
      BY <1>n, <2>3, <3>1 DEF Apart, Only, Exists
    <3> QED
      BY <1>s, <3>1, <3>2 DEF Shape, Detours, Writes, Indexes
  <2> QED
    BY <1>3, <2>1, <2>2, <2>3, <2>4 DEF Recreate
<1> QED
  BY <1>1, <1>2, <1>3

-----------------------------------------------------------------------------
(* A refusal restores the conflict *)

\* So every step that a resolution takes with no call failing keeps the shape.
LEMMA ShapeKept ==
    ASSUME Inv, NEW r \in Resolver, Shape(r), Step(r), ~FailStep(r)
    PROVE  Shape(r)'
<1>1. ~(\/ MoveBack(r) \/ Identify(r) \/ Discard(r) \/ Examine(r) \/ Cleaned(r)
        \/ PutBack(r) \/ Relink(r))
  BY DEF Shape, Detours, At, MoveBack, Identify, Discard, Examine, Cleaned, PutBack, Relink
<1> QED
  BY <1>1, ShapeLooking, ShapeWriting, ShapePublishing, ShapeCreating, ShapeDisplacing,
     ShapeIndexing, ShapeRollingBack DEF Step

\* An edit or a fault is not given back, so it is only ever disturbed once.
LEMMA BudgetKept ==
    ASSUME Inv, BudgetLeft, Next
    PROVE  /\ BudgetLeft'
           /\ \A kind \in {"edit", "fault"} : budget'[kind] <= budget[kind]
           /\ \/ \E kind \in EditKinds \ {"delete"}, content \in unsaved :
                     SaveFile(kind, content)
              \/ DeleteFile
              => budget'["edit"] < budget["edit"]
           /\ \A r \in Resolver : FailStep(r) => budget'["fault"] < budget["fault"]
<1>1. /\ budget \in [BudgetKind -> Nat] /\ {"edit", "fault", "git", "total"} = BudgetKind
      /\ Budget \in [BudgetKind -> Nat]
  BY ConflictAssumption DEF Inv, EnvOK, BudgetKind
<1>2. ASSUME NEW kind \in {"edit", "fault", "git"}, Spend(kind)
      PROVE  /\ budget'[kind] < budget[kind]
             /\ \A other \in {"edit", "fault"} : budget'[other] <= budget[other]
  BY <1>1, <1>2 DEF Spend
<1>3. \/ UNCHANGED budget
      \/ Spend("edit") \/ Spend("git") \/ Spend("fault")
  BY DEF Next, Step, SaveFile, DeleteFile, GitLocks, GitCommits, FailStep, env,
         Load, Start, Capture, Recheck, Reload, WriteTemp, Compare, MoveAside, Inspect,
         MoveBack, Publish, Fallback, Tidy, CreateFile, FillFile, ConfirmFile, Identify,
         Discard, Examine, Cleaned, Displace, ExamineOld, DeleteBackup, MakeSymlink,
         Recapture, PutBack, Relink, Revalidate, LockIndex, CopyIndex, CommitIndex,
         Rollback, ExamineNew, Recreate
<1>4. \A kind \in {"edit", "fault"} : budget'[kind] <= budget[kind]
  BY <1>1, <1>2, <1>3
<1>5. budget' \in [BudgetKind -> Nat]
  BY <1>1, <1>3 DEF Spend
<1>6. BudgetLeft'
  BY <1>1, <1>4, <1>5 DEF BudgetLeft
<1> QED
  BY <1>2, <1>4, <1>6 DEF SaveFile, DeleteFile, FailStep

LEMMA InitRestoreInv == Init => RestoreInv
<1> SUFFICES ASSUME Init PROVE RestoreInv
  OBVIOUS
<1>1. Inv
  BY InitInv
<1>2. BudgetLeft
  BY ConflictAssumption DEF Init, BudgetLeft, BudgetKind
<1>3. \A n \in Name \ {File} : dir[n] = NoInode
  BY DEF Init
<1>4. ASSUME NEW r \in Resolver PROVE Shape(r)
  <2>1. resolver[r].pc = "idle"
    BY DEF Init, NewResolver
  <2>2. Only({})
    BY <1>3 DEF Only, Exists
  <2> QED
    BY <2>1, <2>2 DEF Shape, Detours, Writes, Indexes
<1> QED
  BY <1>1, <1>2, <1>4 DEF RestoreInv

LEMMA NextRestoreInv == RestoreInv /\ [Next]_vars => RestoreInv'
<1> SUFFICES ASSUME RestoreInv, [Next]_vars PROVE RestoreInv'
  OBVIOUS
<1>a. Inv /\ BudgetLeft /\ Inv'
  BY NextInv DEF RestoreInv
<1>b. /\ budget \in [BudgetKind -> Nat] /\ Budget \in [BudgetKind -> Nat]
      /\ {"edit", "fault"} \subseteq BudgetKind
  BY <1>a, ConflictAssumption DEF Inv, EnvOK, BudgetKind
<1>c. ASSUME NEW r \in Resolver, Shape(r), UNCHANGED disk, UNCHANGED resolver
      PROVE  Shape(r)'
  <2>1. /\ \A n \in Name : Entry(n)' = Entry(n) /\ Exists(n)' = Exists(n)
        /\ UNCHANGED dir /\ File \in Name
        /\ {Temp(r), Backup(r), Applied(r)} \subseteq Name
    BY <1>c, OwnNames DEF disk, Entry, Exists
  <2>2. \A own : Only(own)' = Only(own)
    BY <2>1 DEF Only
  <2> QED
    BY <1>c, <2>1, <2>2 DEF Shape
<1>1. CASE UNCHANGED vars
  <2>1. BudgetLeft' /\ \A r \in Resolver : Undisturbed(r)' = Undisturbed(r)
    BY <1>a, <1>1 DEF vars, env, BudgetLeft, Undisturbed, At
  <2> QED
    BY <1>a, <1>c, <1>1, <2>1 DEF RestoreInv, vars
<1>2. CASE Next
  <2>1. BudgetLeft'
    BY <1>a, <1>2, BudgetKept
  <2>2. ASSUME NEW r \in Resolver, Undisturbed(r)' PROVE Shape(r)'
    <3>1. /\ budget["edit"] = Budget["edit"] /\ budget'["edit"] = budget["edit"]
          /\ budget["fault"] = Budget["fault"] /\ budget'["fault"] = budget["fault"]
      <4>1. budget' \in [BudgetKind -> Nat]
        BY <1>a DEF Inv, EnvOK
      <4>2. /\ budget'["edit"] = Budget["edit"] /\ budget'["fault"] = Budget["fault"]
            /\ budget'["edit"] <= budget["edit"] /\ budget'["fault"] <= budget["fault"]
        BY <1>a, <1>2, <2>2, BudgetKept DEF Undisturbed
      <4> QED
        BY <1>a, <1>b, <4>1, <4>2 DEF BudgetLeft
    <3>2. /\ ~DeleteFile /\ \A s \in Resolver : ~FailStep(s)
          /\ ~\E kind \in EditKinds \ {"delete"}, content \in unsaved : SaveFile(kind, content)
      BY <1>a, <1>b, <1>2, <3>1, BudgetKept
    <3>3. CASE GitLocks \/ GitCommits
      <4>1. UNCHANGED disk /\ UNCHANGED resolver
        BY <3>3 DEF GitLocks, GitCommits
      <4>2. Undisturbed(r)
        BY <2>2, <3>1, <4>1 DEF Undisturbed, At
      <4> QED
        BY <1>c, <4>1, <4>2 DEF RestoreInv
    <3>4. ASSUME NEW s \in Resolver, Step(s) PROVE Shape(r)'
      <4>1. ResolverStep(s) /\ resolver'[s].pc # "idle"
        BY <1>a, <3>4, StepInv DEF Tame
      <4>2. s = r
        BY <2>2, <4>1 DEF Undisturbed, At
      <4>3. Undisturbed(r)
        BY <2>2, <3>1, <4>1, <4>2 DEF Undisturbed, At, ResolverStep
      <4> QED
        BY <1>a, <3>2, <3>4, <4>2, <4>3, ShapeKept DEF RestoreInv
    <3> QED
      BY <1>2, <3>2, <3>3, <3>4 DEF Next
  <2> QED
    BY <1>a, <2>1, <2>2 DEF RestoreInv
<1> QED
  BY <1>1, <1>2

\* resolve_conflict_at and accept_conflict_side: where no other resolution is open, no
\* other program touches the file and no call fails, a resolution that was refused,
\* whether before the first write, by the lock or by the index under it, leaves at the
\* path what the resolver was opened on, and none of its own names beside it.
THEOREM RefusalCorrect == Spec => []RefusalRestores
<1>1. RestoreInv => RefusalRestores
  BY DEF RestoreInv, RefusalRestores, Undisturbed, Shape, Only, At
<1>2. Spec => []RestoreInv
  BY InitRestoreInv, NextRestoreInv, PTL DEF Spec
<1> QED
  BY <1>1, <1>2, PTL
=============================================================================

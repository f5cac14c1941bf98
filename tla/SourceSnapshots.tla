---------------------------- MODULE SourceSnapshots ----------------------------
(***************************************************************************)
(* The source snapshots of packages/source-snapshots, object by object,    *)
(* with the orchestration of packages/review-orchestration that creates    *)
(* and rehydrates them.  One snapshot id: prefixes never share an object.  *)
(* Creators, deletions of the prefix and the purge interleave at every     *)
(* file operation; rm -r lists a directory and then unlinks what it found. *)
(* The bytes of an object are the creator that put them.                   *)
(***************************************************************************)
EXTENDS Naturals

CONSTANTS
  Creators,   \* concurrent orchestrations that use the id
  Deleters,   \* calls of deleteSourceSnapshot
  Sweeper,    \* purgeExpiredSourceSnapshots; sweeps do not overlap
  N,          \* number of eligible files, in the order of the inventory
  None,
  RETENTION,  \* 48 hours
  MaxTime     \* bound on the clock

VARIABLES
  lock,      \* _write-lock
  manifest,  \* manifest.json
  objects,   \* files/<hash of the path>
  creator,   \* where each orchestration stands
  copied,    \* how many files it has put, and later how many it has rehydrated
  source,    \* the creator named by the manifest it rehydrates from
  workspace, \* the bytes in its rehydrated workspace
  rm,        \* the rm -r each actor performs
  deleter,   \* where each deletion stands
  sweeper,   \* where the sweep stands
  since,     \* the time at which it listed the snapshots
  now,
  removed,   \* history: some rm -r has begun
  crashed    \* history: the process has died

storage == <<lock, manifest, objects>>
copies  == <<copied, source, workspace>>
history == <<removed, crashed>>
actors  == <<creator, deleter, sweeper, since>>
vars    == <<storage, actors, copies, rm, now, history>>

ASSUME ActorsAssumption ==
  /\ None \notin Creators
  /\ Sweeper \notin Creators \cup Deleters /\ Creators \cap Deleters = {}
ASSUME FilesAssumption == N \in Nat
ASSUME TimesAssumption == RETENTION \in Nat \ {0} /\ MaxTime \in Nat

Removers == Creators \cup Deleters \cup {Sweeper}
Files == 1 .. N
Time == 0 .. MaxTime

Manifest == [state : {"none", "torn", "whole"}, by : Creators \cup {None}, expires : Time]
NoManifest == [state |-> "none", by |-> None, expires |-> 0]

\* What was listed and is still to be unlinked; inside: files/ is still to be
\* listed.
Removal == [on : BOOLEAN, lock : BOOLEAN, manifest : BOOLEAN, inside : BOOLEAN,
            files : SUBSET Files]
NoRemoval == [on |-> FALSE, lock |-> FALSE, manifest |-> FALSE, inside |-> FALSE,
              files |-> {}]

Steps == {"check", "lock", "recheck", "unlock", "put", "fill", "release",
          "rollback", "clean", "load", "copy", "build", "undo",
          "done", "failed", "refused"}
Ended == {"done", "failed", "refused"}

TypeOK ==
  /\ lock \in BOOLEAN /\ manifest \in Manifest
  /\ objects \in [Files -> Creators \cup {None}]
  /\ creator \in [Creators -> Steps]
  /\ copied \in [Creators -> 0 .. N]
  /\ source \in [Creators -> Creators \cup {None}]
  /\ workspace \in [Creators -> [Files -> Creators \cup {None}]]
  /\ rm \in [Removers -> Removal]
  /\ deleter \in [Deleters -> {"idle", "remove", "done"}]
  /\ sweeper \in {"idle", "read", "purge"} /\ since \in Time
  /\ now \in Time
  /\ removed \in BOOLEAN /\ crashed \in BOOLEAN

Empty == [f \in Files |-> None]

Init ==
  /\ lock = FALSE /\ manifest = NoManifest /\ objects = Empty
  /\ creator = [c \in Creators |-> "check"]
  /\ copied = [c \in Creators |-> 0]
  /\ source = [c \in Creators |-> None]
  /\ workspace = [c \in Creators |-> Empty]
  /\ rm = [p \in Removers |-> NoRemoval]
  /\ deleter = [d \in Deleters |-> "idle"] /\ sweeper = "idle" /\ since = 0
  /\ now = 0
  /\ removed = FALSE /\ crashed = FALSE

-----------------------------------------------------------------------------
(* rm -r of the prefix. *)

Present == {f \in Files : objects[f] # None}

\* readdir of the prefix: what it holds now is what will be removed.
BeginRemoval(p) ==
  /\ rm' = [rm EXCEPT ![p] = [on |-> TRUE, lock |-> lock, files |-> {},
                              manifest |-> manifest # NoManifest,
                              inside |-> Present # {}]]
  /\ removed' = TRUE

\* readdir of files/, which runs beside the unlinks in the prefix.
ListFiles(p) ==
  /\ rm[p].inside
  /\ rm' = [rm EXCEPT ![p].inside = FALSE, ![p].files = Present]
  /\ UNCHANGED <<storage, actors, copies, now, history>>

Unlink(p) ==
  /\ \/ /\ rm[p].lock
        /\ rm' = [rm EXCEPT ![p].lock = FALSE] /\ lock' = FALSE
        /\ UNCHANGED <<manifest, objects>>
     \/ /\ rm[p].manifest
        /\ rm' = [rm EXCEPT ![p].manifest = FALSE] /\ manifest' = NoManifest
        /\ UNCHANGED <<lock, objects>>
     \/ \E f \in rm[p].files :
          /\ rm' = [rm EXCEPT ![p].files = @ \ {f}]
          /\ objects' = [objects EXCEPT ![f] = None]
          /\ UNCHANGED <<lock, manifest>>
  /\ UNCHANGED <<actors, copies, now, history>>

\* The rmdir at the end; it fails when something has been added meanwhile.
RemovalOver(p) ==
  rm[p].on /\ ~rm[p].lock /\ ~rm[p].manifest /\ ~rm[p].inside /\ rm[p].files = {}
EndRemoval(p)  == rm' = [rm EXCEPT ![p] = NoRemoval]

Remove(p) == ListFiles(p) \/ Unlink(p)

-----------------------------------------------------------------------------
(* createSourceSnapshot. *)

Goes(c, step) == creator' = [creator EXCEPT ![c] = step]

\* The catch block of a creator that owns the prefix: deletePrefix.
RollsBack(c) == Goes(c, "rollback") /\ BeginRemoval(c)

Check(c) ==
  /\ creator[c] = "check"
  /\ Goes(c, IF manifest # NoManifest THEN "refused" ELSE "lock")
  /\ UNCHANGED <<storage, copies, rm, deleter, sweeper, since, now, history>>

\* putObject of the lock, ifAbsent; whatever refuses it, nothing is undone.
TakeLock(c) ==
  /\ creator[c] = "lock"
  /\ \/ ~lock /\ lock' = TRUE /\ Goes(c, "recheck")
     \/ UNCHANGED lock /\ Goes(c, "refused")
  /\ UNCHANGED <<manifest, objects, copies, rm, deleter, sweeper, since, now, history>>

\* Mutant: no second look.
NoRecheck(c) ==
  /\ creator[c] = "recheck"
  /\ Goes(c, "put")
  /\ UNCHANGED <<storage, copies, rm, deleter, sweeper, since, now, history>>

\* The manifest may have been written since the first check.
Recheck(c) ==
  /\ creator[c] = "recheck"
  /\ Goes(c, IF manifest # NoManifest THEN "unlock" ELSE "put")
  /\ UNCHANGED <<storage, copies, rm, deleter, sweeper, since, now, history>>

Unlock(c) ==
  /\ creator[c] = "unlock"
  /\ lock' = FALSE
  /\ Goes(c, "refused")
  /\ UNCHANGED <<manifest, objects, copies, rm, deleter, sweeper, since, now, history>>

\* The second look or the unlinking of the lock fails while ownsPrefix is
\* still set: the catch block then removes the snapshot of somebody else.
RecheckFails(c) ==
  /\ creator[c] \in {"recheck", "unlock"}
  /\ RollsBack(c)
  /\ UNCHANGED <<storage, copies, deleter, sweeper, since, now, crashed>>

\* Mutant: a creator that fails between two files does not roll back.
PutGivesUp(c) ==
  LET f == copied[c] + 1 IN
  /\ creator[c] = "put" /\ copied[c] < N
  /\ \/ /\ objects[f] = None
        /\ objects' = [objects EXCEPT ![f] = c]
        /\ copied' = [copied EXCEPT ![c] = f]
        /\ UNCHANGED creator
     \/ Goes(c, "failed") /\ UNCHANGED <<objects, copied>>
  /\ UNCHANGED <<lock, manifest, source, workspace, rm, deleter, sweeper, since, now, history>>

\* One file of the inventory is read, verified and put, ifAbsent; it may have
\* drifted, and the put may fail.
Put(c) ==
  LET f == copied[c] + 1 IN
  /\ creator[c] = "put" /\ copied[c] < N
  /\ \/ /\ objects[f] = None
        /\ objects' = [objects EXCEPT ![f] = c]
        /\ copied' = [copied EXCEPT ![c] = f]
        /\ UNCHANGED <<creator, rm, removed>>
     \/ RollsBack(c) /\ UNCHANGED <<objects, copied>>
  /\ UNCHANGED <<lock, manifest, source, workspace, deleter, sweeper, since, now, crashed>>

\* Mutant: the manifest is opened before the last file is put.
OpenManifestEarly(c) ==
  /\ creator[c] = "put" /\ copied[c] + 1 >= N
  /\ \/ /\ manifest = NoManifest /\ now + RETENTION <= MaxTime
        /\ manifest' = [state |-> "torn", by |-> c, expires |-> now + RETENTION]
        /\ Goes(c, "fill")
        /\ UNCHANGED <<rm, removed>>
     \/ RollsBack(c) /\ UNCHANGED manifest
  /\ UNCHANGED <<lock, objects, copies, deleter, sweeper, since, now, crashed>>

\* The deadline is computed and the file opened, ifAbsent ...
OpenManifest(c) ==
  /\ creator[c] = "put" /\ copied[c] = N
  /\ \/ /\ manifest = NoManifest /\ now + RETENTION <= MaxTime
        /\ manifest' = [state |-> "torn", by |-> c, expires |-> now + RETENTION]
        /\ Goes(c, "fill")
        /\ UNCHANGED <<rm, removed>>
     \/ RollsBack(c) /\ UNCHANGED manifest
  /\ UNCHANGED <<lock, objects, copies, deleter, sweeper, since, now, crashed>>

\* ... and filled, wherever it is by then.
FillManifest(c) ==
  /\ creator[c] = "fill"
  /\ \/ /\ manifest' = IF manifest.by = c THEN [manifest EXCEPT !.state = "whole"]
                                          ELSE manifest
        /\ Goes(c, "release")
        /\ UNCHANGED <<rm, removed>>
     \/ RollsBack(c) /\ UNCHANGED manifest
  /\ UNCHANGED <<lock, objects, copies, deleter, sweeper, since, now, crashed>>

\* deleteObject of the lock, whosever it is.
Release(c) ==
  /\ creator[c] = "release"
  /\ \/ lock' = FALSE /\ Goes(c, "clean") /\ UNCHANGED <<rm, removed>>
     \/ RollsBack(c) /\ UNCHANGED lock
  /\ UNCHANGED <<manifest, objects, copies, deleter, sweeper, since, now, crashed>>

-----------------------------------------------------------------------------
(* orchestrateMaterializedRepositoryReview after its snapshot was created. *)

\* deleteSourceSnapshot in its catch block, once the workspaces are gone.
Undoes(c) == Goes(c, "undo") /\ BeginRemoval(c)

\* The workspace of the intake is removed, or cannot be.
Clean(c) ==
  /\ creator[c] = "clean"
  /\ \/ Goes(c, "load") /\ UNCHANGED <<rm, removed>>
     \/ Undoes(c)
  /\ UNCHANGED <<storage, copies, deleter, sweeper, since, now, crashed>>

CopiesOn(c, n) == Goes(c, IF n < N THEN "copy" ELSE "build")

\* loadManifest, and the deadline.
Load(c) ==
  /\ creator[c] = "load"
  /\ IF manifest.state = "whole" /\ now < manifest.expires
       THEN /\ source' = [source EXCEPT ![c] = manifest.by]
            /\ copied' = [copied EXCEPT ![c] = 0]
            /\ CopiesOn(c, 0)
            /\ UNCHANGED <<rm, removed>>
       ELSE Undoes(c) /\ UNCHANGED <<source, copied>>
  /\ UNCHANGED <<storage, workspace, deleter, sweeper, since, now, crashed>>

\* Mutant: an object is copied without being compared with the manifest.
CopyUnchecked(c) ==
  LET f == copied[c] + 1 IN
  /\ creator[c] = "copy" /\ copied[c] < N
  /\ IF objects[f] # None
       THEN /\ workspace' = [workspace EXCEPT ![c][f] = objects[f]]
            /\ copied' = [copied EXCEPT ![c] = f]
            /\ CopiesOn(c, f)
            /\ UNCHANGED <<rm, removed>>
       ELSE Undoes(c) /\ workspace' = [workspace EXCEPT ![c] = Empty] /\ UNCHANGED copied
  /\ UNCHANGED <<storage, source, deleter, sweeper, since, now, crashed>>

\* One object is read and compared with the size and hash in the manifest.
Copy(c) ==
  LET f == copied[c] + 1 IN
  /\ creator[c] = "copy" /\ copied[c] < N
  /\ IF objects[f] # None /\ objects[f] = source[c]
       THEN /\ workspace' = [workspace EXCEPT ![c][f] = objects[f]]
            /\ copied' = [copied EXCEPT ![c] = f]
            /\ CopiesOn(c, f)
            /\ UNCHANGED <<rm, removed>>
       ELSE Undoes(c) /\ workspace' = [workspace EXCEPT ![c] = Empty] /\ UNCHANGED copied
  /\ UNCHANGED <<storage, source, deleter, sweeper, since, now, crashed>>

\* The review is built, or fails; either way its workspace goes.
Build(c) ==
  /\ creator[c] = "build"
  /\ workspace' = [workspace EXCEPT ![c] = Empty]
  /\ \/ Goes(c, "done") /\ UNCHANGED <<rm, removed>>
     \/ Undoes(c)
  /\ UNCHANGED <<storage, copied, source, deleter, sweeper, since, now, crashed>>

Fail(c) ==
  /\ creator[c] \in {"rollback", "undo"} /\ RemovalOver(c)
  /\ EndRemoval(c)
  /\ Goes(c, "failed")
  /\ copied' = [copied EXCEPT ![c] = 0] /\ source' = [source EXCEPT ![c] = None]
  /\ UNCHANGED <<storage, workspace, deleter, sweeper, since, now, history>>

Create(c) ==
  \/ Check(c) \/ TakeLock(c) \/ Recheck(c) \/ Unlock(c) \/ RecheckFails(c) \/ Put(c)
  \/ OpenManifest(c) \/ FillManifest(c) \/ Release(c)
  \/ Clean(c) \/ Load(c) \/ Copy(c) \/ Build(c) \/ Fail(c) \/ Remove(c)

-----------------------------------------------------------------------------
(* deleteSourceSnapshot and purgeExpiredSourceSnapshots. *)

Delete(d) ==
  /\ deleter[d] = "idle"
  /\ BeginRemoval(d)
  /\ deleter' = [deleter EXCEPT ![d] = "remove"]
  /\ UNCHANGED <<storage, creator, copies, sweeper, since, now, crashed>>

Deleted(d) ==
  /\ deleter[d] = "remove" /\ RemovalOver(d)
  /\ EndRemoval(d)
  /\ deleter' = [deleter EXCEPT ![d] = "done"]
  /\ UNCHANGED <<storage, creator, copies, sweeper, since, now, history>>

\* listKeys finds the snapshot by its manifest, and the time is taken.
Sweep ==
  /\ sweeper = "idle" /\ manifest # NoManifest
  /\ sweeper' = "read" /\ since' = now
  /\ UNCHANGED <<storage, creator, deleter, copies, rm, now, history>>

\* The manifest is read; one that is gone or torn counts as invalid.
ReadManifest ==
  /\ sweeper = "read"
  /\ IF manifest.state = "whole" /\ since >= manifest.expires
       THEN BeginRemoval(Sweeper) /\ sweeper' = "purge"
       ELSE UNCHANGED <<rm, removed>> /\ sweeper' = "idle"
  /\ since' = 0
  /\ UNCHANGED <<storage, creator, deleter, copies, now, crashed>>

Purged ==
  /\ sweeper = "purge" /\ RemovalOver(Sweeper)
  /\ EndRemoval(Sweeper)
  /\ sweeper' = "idle"
  /\ UNCHANGED <<storage, creator, deleter, since, copies, now, history>>

Purge == Sweep \/ ReadManifest \/ Purged \/ Remove(Sweeper)

Tick ==
  /\ now < MaxTime
  /\ now' = now + 1
  /\ UNCHANGED <<storage, actors, copies, rm, history>>

\* The process dies and a new one starts over what its calls had stored.
Crash ==
  /\ ~crashed /\ crashed' = TRUE
  /\ creator' = [c \in Creators |->
       CASE creator[c] \in Ended \cup {"check"} -> creator[c]
         [] creator[c] = "lock" -> "refused"
         [] OTHER -> "failed"]
  /\ deleter' = [d \in Deleters |-> IF deleter[d] = "remove" THEN "done" ELSE deleter[d]]
  /\ rm' = [p \in Removers |-> NoRemoval]
  /\ sweeper' = "idle" /\ since' = 0
  /\ copied' = [c \in Creators |-> 0]
  /\ source' = [c \in Creators |-> None]
  /\ UNCHANGED <<storage, workspace, now, removed>>

Next ==
  \/ \E c \in Creators : Create(c)
  \/ \E d \in Deleters : Delete(d) \/ Deleted(d) \/ Remove(d)
  \/ Purge
  \/ Tick
  \/ Crash

Spec == Init /\ [][Next]_vars

-----------------------------------------------------------------------------

\* The creators that believe to own the prefix (ownsPrefix).
Owners == {c \in Creators : creator[c] \in {"recheck", "unlock", "put", "fill", "release"}}

\* Until something is removed, the lock admits one creator at a time.
OneOwner == ~removed => \A c, d \in Owners : lock /\ c = d

\* A manifest that can be read stands for a complete snapshot, all of it put
\* by the creator of the manifest, until something is removed.
PublishedIsComplete ==
  ~removed /\ manifest.state = "whole" => \A f \in Files : objects[f] = manifest.by

\* A review is only ever built from the files of one snapshot, all of them,
\* although deletions and another creator of the same id may replace the
\* objects between the manifest and the last copy.
RehydratedIsFaithful ==
  \A c \in Creators : creator[c] = "build" => \A f \in Files : workspace[c][f] = source[c]

\* Of all creators of the id, all but one were turned away at the lock.
Alone ==
  \A c, d \in Creators :
    creator[c] \notin {"check", "lock", "refused"}
      /\ creator[d] \notin {"check", "lock", "refused"} => c = d

Quiet ==
  /\ \A c \in Creators : creator[c] \in Ended
  /\ \A p \in Removers : ~rm[p].on

\* When every call is over, either nothing is stored or a manifest by which
\* the purge will find the rest, and its creator has succeeded: no failure and
\* no removal in the middle of a creation leaves objects that nobody finds.
\* (A second creation would be exposed to removals that were meant for the
\* first; the service uses an id once.)
NothingIsLost ==
  Quiet /\ Alone /\ ~crashed =>
    IF manifest = NoManifest
      THEN ~lock /\ objects = Empty
      ELSE manifest.state = "whole" /\ creator[manifest.by] = "done"

\* A creator that fails removes only what it has stored itself: as long as
\* nothing else was removed, and it has not failed while refusing, a rollback
\* finds no object and no manifest of another creator.
RollbackIsOwn ==
  [][\A c \in Creators :
       ~removed /\ rm'[c].on /\ creator[c] \notin {"recheck", "unlock"}
         => /\ \A f \in Files : objects[f] \in {None, c}
            /\ manifest.by \in {None, c}]_vars

-----------------------------------------------------------------------------

\* What is stored while nobody is writing it.
Complete(c) == \A f \in Files : objects[f] = c
Settled ==
  \/ manifest = NoManifest /\ objects = Empty
  \/ manifest.state = "whole" /\ Complete(manifest.by)

\* What the creator that owns the prefix has stored so far; a dead one leaves
\* its lock, so that nobody else ever owns the prefix.
Creation ==
  ~removed =>
    /\ ~lock => Settled
    /\ \A c \in Creators :
         /\ creator[c] \in {"check", "lock", "recheck"} => copied[c] = 0
         /\ creator[c] = "recheck" => Settled
         /\ creator[c] = "unlock" => Settled /\ manifest # NoManifest
         /\ creator[c] = "put" =>
              /\ manifest = NoManifest
              /\ \A f \in Files : objects[f] = IF f <= copied[c] THEN c ELSE None
         /\ creator[c] = "fill" =>
              manifest.state = "torn" /\ manifest.by = c /\ Complete(c)
         /\ creator[c] \in {"release", "clean", "load", "copy", "build"} =>
              manifest.state = "whole" /\ manifest.by = c /\ Complete(c)

NothingRemoved ==
  ~removed =>
    /\ \A p \in Removers : rm[p] = NoRemoval
    /\ \A c \in Creators : creator[c] \notin {"rollback", "undo"}

Rehydration ==
  \A c \in Creators :
    /\ creator[c] = "copy" =>
         copied[c] < N /\ \A f \in Files : f <= copied[c] => workspace[c][f] = source[c]
    /\ creator[c] = "build" => \A f \in Files : workspace[c][f] = source[c]

\* A removal is under way exactly while its actor waits for it.
Removing(p) ==
  \/ p \in Creators /\ creator[p] \in {"rollback", "undo"}
  \/ p \in Deleters /\ deleter[p] = "remove"
  \/ p = Sweeper /\ sweeper = "purge"

RemovalsFit ==
  \A p \in Removers :
    /\ rm[p].on <=> Removing(p)
    /\ ~rm[p].on => rm[p] = NoRemoval

\* The manifest belongs to a creator that is still at work on it, has succeeded
\* with it, or has listed it for its own removal.
ManifestFits ==
  /\ manifest.state = "none" => manifest = NoManifest
  /\ manifest.state # "none" => manifest.by # None
  /\ \A c \in Creators : ~crashed /\ manifest.by = c =>
       \/ manifest.state = "torn" /\ creator[c] = "fill"
       \/ /\ manifest.state = "whole"
          /\ creator[c] \in {"release", "clean", "load", "copy", "build", "done"}
       \/ creator[c] \in {"rollback", "undo"} /\ rm[c].manifest

\* The lock is held by a creator that will unlink it, or is about to be unlinked.
LockFits ==
  ~crashed /\ lock => Owners # {} \/ \E p \in Removers : rm[p].lock

\* The creators that were not turned away, and those of them that have opened
\* their manifest or given up.
Placed == {c \in Creators :
             creator[c] \notin {"check", "lock", "recheck", "unlock", "refused"}}
Past == {c \in Placed : creator[c] # "put"}

\* Removals that will still unlink the object f.
Reaches(p, f) == rm[p].inside \/ f \in rm[p].files

\* As long as one creator was admitted, every object is found by its creator, by
\* its manifest or by a removal; a removal that takes the manifest away takes
\* every object with it, because nobody puts objects after a manifest.
ObjectsFit ==
  ~crashed /\ (\A c, d \in Placed : c = d) =>
    /\ \A c \in Creators, f \in Files : objects[f] = c =>
         creator[c] = "put" \/ manifest.by = c \/ \E p \in Removers : Reaches(p, f)
    /\ \A p \in Removers : rm[p].manifest =>
         /\ Past # {}
         /\ \A f \in Files : objects[f] # None => Reaches(p, f)

Traces == RemovalsFit /\ ManifestFits /\ LockFits /\ ObjectsFit

\* The inductive invariant behind the theorems of SourceSnapshotsProofs.
IInv ==
  /\ TypeOK /\ NothingRemoved /\ OneOwner /\ Creation /\ PublishedIsComplete
  /\ Rehydration /\ Traces
=============================================================================

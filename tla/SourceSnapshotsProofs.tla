------------------------- MODULE SourceSnapshotsProofs -------------------------
(***************************************************************************)
(* Proofs about SourceSnapshots, for any number of creators, deletions and *)
(* files.  Until something is removed, the lock admits one creator at a    *)
(* time, which finds the prefix either empty or settled and knows at each  *)
(* step what it has stored; hence a manifest that can be read stands for a *)
(* complete snapshot.  After that only the comparison with the manifest    *)
(* protects a rehydration, and it suffices.  A removal that takes the      *)
(* manifest has listed everything there is, so that what one admitted      *)
(* creator has stored is always found, by it or by a removal.              *)
(***************************************************************************)
EXTENDS SourceSnapshots, TLAPS

\* Nothing is stored and nobody has begun.
LEMMA Initially == Init => IInv
<1> SUFFICES ASSUME Init PROVE IInv
  OBVIOUS
<1>1. TypeOK
  <2>1. 0 \in 0 .. N /\ 0 \in Time
    BY FilesAssumption, TimesAssumption DEF Time
  <2>2. NoManifest \in Manifest /\ NoRemoval \in Removal
    BY <2>1 DEF NoManifest, Manifest, NoRemoval, Removal
  <2> QED BY <2>1, <2>2 DEF Init, TypeOK, Empty, Steps
<1>2. NothingRemoved /\ OneOwner /\ Creation /\ PublishedIsComplete
  BY DEF Init, NothingRemoved, OneOwner, Owners, Creation, Settled, PublishedIsComplete,
     NoManifest
<1>3. Rehydration
  BY DEF Init, Rehydration
<1>4. Traces
  BY ActorsAssumption
     DEF Init, Traces, RemovalsFit, Removing, ManifestFits, LockFits, ObjectsFit, Reaches,
         NoManifest, NoRemoval, Empty, Removers
<1> QED BY <1>1, <1>2, <1>3, <1>4 DEF IInv

\* A removal that begins has the shape of a removal.
LEMMA BeginsTyped ==
  ASSUME TypeOK, NEW p \in Removers, BeginRemoval(p)
  PROVE  rm' \in [Removers -> Removal] /\ removed' = TRUE
BY DEF BeginRemoval, TypeOK, Removal, Present, Files

\* Every step preserves the types.
LEMMA TypeStep == TypeOK /\ [Next]_vars => TypeOK'
<1> SUFFICES ASSUME TypeOK, [Next]_vars PROVE TypeOK'
  OBVIOUS
<1> USE FilesAssumption, TimesAssumption
<1>0. /\ Creators \subseteq Removers /\ Deleters \subseteq Removers
      /\ Sweeper \in Removers /\ NoRemoval \in Removal
  BY DEF Removers, NoRemoval, Removal
<1>1. ASSUME NEW p \in Removers, Remove(p) PROVE TypeOK'
  <2>0. rm[p] \in Removal /\ NoManifest \in Manifest
    BY DEF TypeOK, NoManifest, Manifest, Time
  <2>1. CASE ListFiles(p)
    <3>1. [rm[p] EXCEPT !.inside = FALSE, !.files = Present] \in Removal
      BY <2>0 DEF Removal, Present
    <3>2. rm' = [rm EXCEPT ![p] = [rm[p] EXCEPT !.inside = FALSE, !.files = Present]]
      BY <2>1 DEF ListFiles, TypeOK
    <3> QED BY <2>1, <3>1, <3>2 DEF ListFiles, TypeOK, storage, actors, copies, history
  <2>2. CASE Unlink(p)
    <3>1. \A f : /\ [rm[p] EXCEPT !.lock = FALSE] \in Removal
                 /\ [rm[p] EXCEPT !.manifest = FALSE] \in Removal
                 /\ [rm[p] EXCEPT !.files = @ \ {f}] \in Removal
      BY <2>0 DEF Removal
    <3>2. \/ rm' = [rm EXCEPT ![p] = [rm[p] EXCEPT !.lock = FALSE]]
          \/ rm' = [rm EXCEPT ![p] = [rm[p] EXCEPT !.manifest = FALSE]]
          \/ \E f : rm' = [rm EXCEPT ![p] = [rm[p] EXCEPT !.files = @ \ {f}]]
      BY <2>2 DEF Unlink, TypeOK
    <3>3. \E r \in Removal : rm' = [rm EXCEPT ![p] = r]
      BY <3>1, <3>2, Zenon
    <3>4. rm' \in [Removers -> Removal]
      BY <3>3 DEF TypeOK
    <3>5. lock' \in BOOLEAN /\ manifest' \in Manifest
      BY <2>0, <2>2 DEF Unlink, TypeOK
    <3>6. objects' \in [Files -> Creators \cup {None}]
      BY <2>2 DEF Unlink, TypeOK
    <3> QED BY <2>2, <3>4, <3>5, <3>6 DEF Unlink, TypeOK, actors, copies, history
  <2> QED BY <1>1, <2>1, <2>2 DEF Remove
<1>2. ASSUME NEW c \in Creators, Create(c) PROVE TypeOK'
  <2>1. CASE Check(c)
    BY <2>1 DEF Check, Goes, TypeOK, storage, copies, history, Steps
  <2>2. CASE TakeLock(c)
    BY <2>2 DEF TakeLock, Goes, TypeOK, copies, history, Steps
  <2>3. CASE Recheck(c)
    BY <2>3 DEF Recheck, Goes, TypeOK, storage, copies, history, Steps
  <2>4. CASE Unlock(c)
    BY <2>4 DEF Unlock, Goes, TypeOK, copies, history, Steps
  <2>5. CASE RecheckFails(c)
    <3>1. BeginRemoval(c)
      BY <2>5 DEF RecheckFails, RollsBack
    <3> QED BY <1>0, <2>5, <3>1, BeginsTyped
            DEF RecheckFails, RollsBack, Goes, TypeOK, storage, copies, Steps
  <2>6. CASE Put(c)
    <3>1. CASE RollsBack(c) /\ UNCHANGED <<objects, copied>>
      <4>1. BeginRemoval(c)
        BY <3>1 DEF RollsBack
      <4> QED BY <1>0, <2>6, <3>1, <4>1, BeginsTyped
              DEF Put, RollsBack, Goes, TypeOK, Steps
    <3>2. CASE ~(RollsBack(c) /\ UNCHANGED <<objects, copied>>)
      <4>1. copied[c] + 1 \in Files /\ copied[c] + 1 \in 0 .. N
        BY <2>6 DEF Put, TypeOK, Files
      <4>2. /\ objects' = [objects EXCEPT ![copied[c] + 1] = c]
            /\ copied' = [copied EXCEPT ![c] = copied[c] + 1]
            /\ UNCHANGED <<creator, rm, removed>>
        BY <2>6, <3>2 DEF Put
      <4> QED BY <2>6, <4>1, <4>2 DEF Put, TypeOK
    <3> QED BY <3>1, <3>2
  <2>7. CASE OpenManifest(c)
    <3>1. CASE RollsBack(c)
      <4>1. BeginRemoval(c)
        BY <3>1 DEF RollsBack
      <4>2. UNCHANGED manifest \/ manifest' \in Manifest
        BY <2>7 DEF OpenManifest, Manifest, TypeOK, Time
      <4> QED BY <1>0, <2>7, <3>1, <4>1, <4>2, BeginsTyped
              DEF OpenManifest, RollsBack, Goes, TypeOK, copies, Steps
    <3>2. CASE ~RollsBack(c)
      <4>1. manifest' \in Manifest
        BY <2>7, <3>2 DEF OpenManifest, Manifest, TypeOK, Time
      <4> QED BY <2>7, <3>2, <4>1 DEF OpenManifest, Goes, TypeOK, copies, Steps
    <3> QED BY <3>1, <3>2
  <2>8. CASE FillManifest(c)
    <3>0. manifest' \in Manifest
      BY <2>8 DEF FillManifest, Manifest, TypeOK
    <3>1. CASE RollsBack(c)
      <4>1. BeginRemoval(c)
        BY <3>1 DEF RollsBack
      <4> QED BY <1>0, <2>8, <3>0, <3>1, <4>1, BeginsTyped
              DEF FillManifest, RollsBack, Goes, TypeOK, copies, Steps
    <3>2. CASE ~RollsBack(c)
      BY <2>8, <3>0, <3>2 DEF FillManifest, Goes, TypeOK, copies, Steps
    <3> QED BY <3>1, <3>2
  <2>9. CASE Release(c)
    <3>1. CASE RollsBack(c)
      <4>1. BeginRemoval(c)
        BY <3>1 DEF RollsBack
      <4> QED BY <1>0, <2>9, <3>1, <4>1, BeginsTyped
              DEF Release, RollsBack, Goes, TypeOK, copies, Steps
    <3>2. CASE ~RollsBack(c)
      BY <2>9, <3>2 DEF Release, Goes, TypeOK, copies, Steps
    <3> QED BY <3>1, <3>2
  <2>10. CASE Clean(c)
    <3>1. CASE Undoes(c)
      <4>1. BeginRemoval(c)
        BY <3>1 DEF Undoes
      <4> QED BY <1>0, <2>10, <3>1, <4>1, BeginsTyped
              DEF Clean, Undoes, Goes, TypeOK, storage, copies, Steps
    <3>2. CASE ~Undoes(c)
      BY <2>10, <3>2 DEF Clean, Goes, TypeOK, storage, copies, Steps
    <3> QED BY <3>1, <3>2
  <2>11. CASE Load(c)
    <3>1. CASE Undoes(c) /\ UNCHANGED <<source, copied>>
      <4>1. BeginRemoval(c)
        BY <3>1 DEF Undoes
      <4> QED BY <1>0, <2>11, <3>1, <4>1, BeginsTyped
              DEF Load, Undoes, Goes, TypeOK, storage, Steps
    <3>2. CASE ~(Undoes(c) /\ UNCHANGED <<source, copied>>)
      <4>1. /\ source' = [source EXCEPT ![c] = manifest.by]
            /\ copied' = [copied EXCEPT ![c] = 0]
            /\ CopiesOn(c, 0)
            /\ UNCHANGED <<rm, removed>>
        BY <2>11, <3>2 DEF Load
      <4>2. manifest.by \in Creators \cup {None} /\ 0 \in 0 .. N
        BY DEF TypeOK, Manifest
      <4> QED BY <2>11, <4>1, <4>2 DEF Load, CopiesOn, Goes, TypeOK, storage, Steps
    <3> QED BY <3>1, <3>2
  <2>12. CASE Copy(c)
    <3>1. CASE Undoes(c) /\ workspace' = [workspace EXCEPT ![c] = Empty]
                         /\ UNCHANGED copied
      <4>1. BeginRemoval(c)
        BY <3>1 DEF Undoes
      <4>2. workspace' \in [Creators -> [Files -> Creators \cup {None}]]
        BY <3>1 DEF TypeOK, Empty
      <4> QED BY <1>0, <2>12, <3>1, <4>1, <4>2, BeginsTyped
              DEF Copy, Undoes, Goes, TypeOK, storage, Steps
    <3>2. CASE ~(Undoes(c) /\ workspace' = [workspace EXCEPT ![c] = Empty]
                           /\ UNCHANGED copied)
      <4>1. copied[c] \in 0 .. N
        BY DEF TypeOK
      <4>2. /\ workspace' = [workspace EXCEPT ![c][copied[c] + 1] = objects[copied[c] + 1]]
            /\ copied' = [copied EXCEPT ![c] = copied[c] + 1]
            /\ CopiesOn(c, copied[c] + 1)
            /\ UNCHANGED <<rm, removed>>
        BY <2>12, <3>2 DEF Copy
      <4>3. copied[c] + 1 \in Files /\ copied[c] + 1 \in 0 .. N
        BY <4>1, <2>12 DEF Copy, Files
      <4>4. creator' \in [Creators -> Steps]
        BY <4>2 DEF CopiesOn, Goes, TypeOK, Steps
      <4>5. workspace' \in [Creators -> [Files -> Creators \cup {None}]]
        BY <4>2, <4>3 DEF TypeOK
      <4> QED BY <2>12, <4>2, <4>3, <4>4, <4>5 DEF Copy, TypeOK, storage
    <3> QED BY <3>1, <3>2
  <2>13. CASE Build(c)
    <3>0. workspace' \in [Creators -> [Files -> Creators \cup {None}]]
      BY <2>13 DEF Build, TypeOK, Empty
    <3>1. CASE Undoes(c)
      <4>1. BeginRemoval(c)
        BY <3>1 DEF Undoes
      <4> QED BY <1>0, <2>13, <3>0, <3>1, <4>1, BeginsTyped
              DEF Build, Undoes, Goes, TypeOK, storage, Steps
    <3>2. CASE ~Undoes(c)
      BY <2>13, <3>0, <3>2 DEF Build, Goes, TypeOK, storage, Steps
    <3> QED BY <3>1, <3>2
  <2>14. CASE Fail(c)
    BY <1>0, <2>14 DEF Fail, EndRemoval, Goes, TypeOK, storage, history, Steps
  <2>15. CASE Remove(c)
    BY <1>0, <1>1, <2>15
  <2> QED BY <1>2, <2>1, <2>2, <2>3, <2>4, <2>5, <2>6, <2>7, <2>8, <2>9, <2>10, <2>11,
             <2>12, <2>13, <2>14, <2>15 DEF Create
<1>3. ASSUME NEW d \in Deleters, Delete(d) PROVE TypeOK'
  <2>1. BeginRemoval(d)
    BY <1>3 DEF Delete
  <2> QED BY <1>0, <1>3, <2>1, BeginsTyped DEF Delete, TypeOK, storage, copies
<1>4. ASSUME NEW d \in Deleters, Deleted(d) PROVE TypeOK'
  BY <1>0, <1>4 DEF Deleted, EndRemoval, TypeOK, storage, copies, history
<1>5. CASE Sweep
  BY <1>5 DEF Sweep, TypeOK, storage, copies, history
<1>6. CASE ReadManifest
  <2>1. CASE BeginRemoval(Sweeper)
    <3>1. rm' \in [Removers -> Removal] /\ removed' = TRUE
      BY <1>0, <2>1, BeginsTyped
    <3>2. sweeper' \in {"idle", "purge"} /\ since' \in Time
      BY <1>6 DEF ReadManifest, Time
    <3> QED BY <1>6, <3>1, <3>2 DEF ReadManifest, TypeOK, storage, copies
  <2>2. CASE ~BeginRemoval(Sweeper)
    BY <1>6, <2>2 DEF ReadManifest, TypeOK, storage, copies, Time
  <2> QED BY <2>1, <2>2
<1>7. CASE Purged
  BY <1>0, <1>7 DEF Purged, EndRemoval, TypeOK, storage, copies, history
<1>8. CASE Tick
  BY <1>8 DEF Tick, TypeOK, storage, actors, copies, history, Time
<1>9. CASE Crash
  <2>1. creator' \in [Creators -> Steps]
    BY <1>9 DEF Crash, TypeOK, Ended, Steps
  <2>2. deleter' \in [Deleters -> {"idle", "remove", "done"}]
    BY <1>9 DEF Crash, TypeOK
  <2> QED BY <1>0, <1>9, <2>1, <2>2 DEF Crash, TypeOK, storage, Time
<1>10. CASE UNCHANGED vars
  BY <1>10 DEF vars, TypeOK, storage, actors, copies, history
<1> QED BY <1>0, <1>1, <1>2, <1>3, <1>4, <1>5, <1>6, <1>7, <1>8, <1>9, <1>10 DEF Next, Purge

-----------------------------------------------------------------------------
(* What holds until something is removed. *)

\* What a step can be when nothing has been removed after it: no removal is in
\* progress, and none begins.
LEMMA BeforeRemoval ==
  ASSUME IInv, [Next]_vars, ~removed'
  PROVE  /\ ~removed
         /\ rm' = [p \in Removers |-> NoRemoval]
         /\ \/ \E c \in Creators :
                 \/ Check(c) \/ TakeLock(c) \/ Recheck(c) \/ Unlock(c)
                 \/ Put(c) /\ ~RollsBack(c)
                 \/ OpenManifest(c) /\ ~RollsBack(c)
                 \/ FillManifest(c) /\ ~RollsBack(c)
                 \/ Release(c) /\ ~RollsBack(c)
                 \/ Clean(c) /\ ~Undoes(c)
                 \/ Load(c) /\ ~Undoes(c)
                 \/ Copy(c) /\ ~Undoes(c)
                 \/ Build(c) /\ ~Undoes(c)
            \/ Crash
            \/ UNCHANGED <<storage, creator, copied>>
<1>0. /\ rm \in [Removers -> Removal] /\ creator \in [Creators -> Steps]
      /\ removed \in BOOLEAN
      /\ ~removed => /\ \A p \in Removers : rm[p] = NoRemoval
                     /\ \A c \in Creators : creator[c] \notin {"rollback", "undo"}
      /\ Creators \subseteq Removers /\ Deleters \subseteq Removers /\ Sweeper \in Removers
  BY DEF IInv, TypeOK, NothingRemoved, Removers
<1>1. \A p : ~BeginRemoval(p) /\ ~RollsBack(p) /\ ~Undoes(p)
  BY DEF BeginRemoval, RollsBack, Undoes
<1>2. ASSUME NEW p \in Removers, Remove(p) PROVE FALSE
  BY <1>0, <1>2 DEF Remove, ListFiles, Unlink, history, NoRemoval
<1>3. ~removed
  <2>1. ASSUME NEW c \in Creators, Create(c) PROVE ~removed
    BY <1>0, <1>1, <1>2, <2>1 DEF Create, Check, TakeLock, Recheck, Unlock, RecheckFails,
       Put, OpenManifest, FillManifest, Release, Clean, Load, Copy, Build, Fail, history
  <2> QED BY <1>0, <1>1, <1>2, <2>1 DEF Next, vars, Delete, Deleted, Purge, Sweep,
          ReadManifest, Purged, Tick, Crash, history
<1>4. rm = [p \in Removers |-> NoRemoval]
  BY <1>0, <1>3
<1>5. ASSUME NEW c \in Creators, Create(c)
      PROVE  /\ UNCHANGED rm
             /\ \/ Check(c) \/ TakeLock(c) \/ Recheck(c) \/ Unlock(c) \/ Put(c)
                \/ OpenManifest(c) \/ FillManifest(c) \/ Release(c) \/ Clean(c)
                \/ Load(c) \/ Copy(c) \/ Build(c)
  <2>1. ~Fail(c) /\ ~Remove(c) /\ ~RecheckFails(c)
    BY <1>0, <1>1, <1>2, <1>3 DEF Fail, RecheckFails
  <2> QED BY <1>1, <1>5, <2>1 DEF Create, Check, TakeLock, Recheck, Unlock, Put,
          OpenManifest, FillManifest, Release, Clean, Load, Copy, Build
<1>6. ASSUME NEW d \in Deleters, Delete(d) PROVE FALSE
  BY <1>1, <1>6 DEF Delete
<1>7. ASSUME NEW d \in Deleters, Deleted(d) PROVE FALSE
  BY <1>0, <1>3, <1>7 DEF Deleted, RemovalOver, NoRemoval
<1>8. Purge => UNCHANGED <<rm, storage, creator, copied>>
  <2>1. ~Purged
    BY <1>0, <1>3 DEF Purged, RemovalOver, NoRemoval
  <2> QED BY <1>0, <1>1, <1>2, <2>1 DEF Purge, Sweep, ReadManifest, storage, copies
<1>9. Tick \/ UNCHANGED vars => UNCHANGED <<rm, storage, creator, copied>>
  BY DEF Tick, vars, storage, actors, copies
<1>10. Crash => rm' = [p \in Removers |-> NoRemoval]
  BY DEF Crash
<1>11. CASE \E c \in Creators : Create(c)
  <2> PICK c \in Creators : Create(c)
    BY <1>11
  <2>1. ~RollsBack(c) /\ ~Undoes(c)
    BY <1>1
  <2> QED BY <1>3, <1>4, <1>5, <2>1
<1>12. CASE Crash
  BY <1>3, <1>10, <1>12
<1>13. ASSUME ~ \E c \in Creators : Create(c), ~Crash
       PROVE  UNCHANGED <<rm, storage, creator, copied>>
  BY <1>0, <1>2, <1>6, <1>7, <1>8, <1>9, <1>13 DEF Next
<1> QED BY <1>3, <1>4, <1>11, <1>12, <1>13

\* Nobody removes anything before the first removal begins, the lock has one
\* owner, and what is stored is what the owner knows.
LEMMA StorageStep ==
  IInv /\ [Next]_vars => (NothingRemoved /\ OneOwner /\ Creation /\ PublishedIsComplete)'
<1> DEFINE Out == {"rollback", "undo"}
           Holds == /\ NothingRemoved /\ OneOwner /\ Creation /\ PublishedIsComplete
<1>1. CASE removed'
  BY <1>1 DEF NothingRemoved, OneOwner, Creation, PublishedIsComplete
<1>2. ASSUME IInv, [Next]_vars, ~removed' PROVE Holds'
  <2> USE FilesAssumption, TimesAssumption
  <2>0. /\ ~removed
        /\ creator \in [Creators -> Steps] /\ copied \in [Creators -> 0 .. N]
        /\ objects \in [Files -> Creators \cup {None}] /\ manifest \in Manifest
        /\ \A p \in Removers : rm'[p] = NoRemoval
        /\ \A c \in Creators : creator[c] \notin Out
        /\ \A c, d \in Owners : lock /\ c = d
    BY <1>2, BeforeRemoval DEF IInv, TypeOK, NothingRemoved, OneOwner
  <2>C. Creation /\ PublishedIsComplete
    BY <1>2 DEF IInv
  <2> DEFINE Moves(c, step) == creator' = [creator EXCEPT ![c] = step]
  <2>1. ASSUME NEW c \in Creators, Check(c) PROVE Holds'
    <3>1. /\ creator[c] = "check" /\ UNCHANGED <<lock, manifest, objects, copied>>
          /\ Moves(c, "refused") \/ Moves(c, "lock")
      BY <2>1 DEF Check, Goes, storage, copies
    <3> QED BY <2>0, <2>C, <3>1 DEF NothingRemoved, OneOwner, Owners, Creation, Settled,
            Complete, PublishedIsComplete
  <2>2. ASSUME NEW c \in Creators, TakeLock(c) PROVE Holds'
    <3>1. /\ creator[c] = "lock" /\ UNCHANGED <<manifest, objects, copied>>
          /\ \/ Moves(c, "refused") /\ UNCHANGED lock
             \/ Moves(c, "recheck") /\ ~lock /\ lock'
      BY <2>2 DEF TakeLock, Goes, copies
    <3> QED BY <2>0, <2>C, <3>1 DEF NothingRemoved, OneOwner, Owners, Creation, Settled,
            Complete, PublishedIsComplete
  <2>3. ASSUME NEW c \in Creators, Recheck(c) PROVE Holds'
    <3>1. /\ creator[c] = "recheck" /\ UNCHANGED <<lock, manifest, objects, copied>>
          /\ \/ Moves(c, "unlock") /\ manifest # NoManifest
             \/ Moves(c, "put") /\ manifest = NoManifest
      BY <2>3 DEF Recheck, Goes, storage, copies
    <3> QED BY <2>0, <2>C, <3>1 DEF NothingRemoved, OneOwner, Owners, Creation, Settled,
            Complete, PublishedIsComplete, NoManifest, Empty, Files
  <2>4. ASSUME NEW c \in Creators, Unlock(c) PROVE Holds'
    <3>1. /\ creator[c] = "unlock" /\ UNCHANGED <<manifest, objects, copied>>
          /\ Moves(c, "refused") /\ ~lock'
      BY <2>4 DEF Unlock, Goes, copies
    <3> QED BY <2>0, <2>C, <3>1 DEF NothingRemoved, OneOwner, Owners, Creation, Settled,
            Complete, PublishedIsComplete
  <2>5. ASSUME NEW c \in Creators, Put(c), ~RollsBack(c) PROVE Holds'
    <3>1. /\ creator[c] = "put" /\ copied[c] < N
          /\ objects' = [objects EXCEPT ![copied[c] + 1] = c]
          /\ copied' = [copied EXCEPT ![c] = copied[c] + 1]
          /\ UNCHANGED <<creator, lock, manifest>>
      BY <2>5 DEF Put
    <3> QED BY <2>0, <2>C, <3>1 DEF NothingRemoved, OneOwner, Owners, Creation, Settled,
            Complete, PublishedIsComplete, NoManifest, Files
  <2>6. ASSUME NEW c \in Creators, OpenManifest(c), ~RollsBack(c) PROVE Holds'
    <3>1. /\ creator[c] = "put" /\ copied[c] = N
          /\ manifest'.state = "torn" /\ manifest'.by = c
          /\ Moves(c, "fill") /\ UNCHANGED <<objects, copied, lock>>
      BY <2>6 DEF OpenManifest, Goes, copies
    <3> QED BY <2>0, <2>C, <3>1 DEF NothingRemoved, OneOwner, Owners, Creation, Settled,
            Complete, PublishedIsComplete, NoManifest, Files
  <2>7. ASSUME NEW c \in Creators, FillManifest(c), ~RollsBack(c) PROVE Holds'
    <3>1. /\ creator[c] = "fill" /\ manifest.by = c
          /\ manifest'.state = "whole" /\ manifest'.by = c
          /\ Moves(c, "release") /\ UNCHANGED <<objects, copied, lock>>
      BY <2>0, <2>7, <2>C DEF FillManifest, Goes, copies, Creation, Manifest
    <3> QED BY <2>0, <2>C, <3>1 DEF NothingRemoved, OneOwner, Owners, Creation, Settled,
            Complete, PublishedIsComplete, NoManifest, Files
  <2>8. ASSUME NEW c \in Creators, Release(c), ~RollsBack(c) PROVE Holds'
    <3>1. /\ creator[c] = "release" /\ ~lock'
          /\ Moves(c, "clean") /\ UNCHANGED <<manifest, objects, copied>>
      BY <2>8 DEF Release, Goes, copies
    <3> QED BY <2>0, <2>C, <3>1 DEF NothingRemoved, OneOwner, Owners, Creation, Settled,
            Complete, PublishedIsComplete
  <2>9. ASSUME NEW c \in Creators,
               Clean(c) \/ Load(c) \/ Copy(c) \/ Build(c), ~Undoes(c)
        PROVE  Holds'
    <3>1. /\ creator[c] \in {"clean", "load", "copy", "build"}
          /\ UNCHANGED <<lock, manifest, objects>>
          /\ copied' \in [Creators -> 0 .. N]
          /\ \A d \in Creators : d # c => copied'[d] = copied[d]
          /\ Moves(c, "load") \/ Moves(c, "copy") \/ Moves(c, "build") \/ Moves(c, "done")
      <4>1. copied' \in [Creators -> 0 .. N]
        BY <1>2, TypeStep DEF IInv, TypeOK
      <4> QED BY <2>0, <2>9, <4>1 DEF Clean, Load, Copy, Build, CopiesOn, Goes, storage, copies
    <3> QED BY <2>0, <2>C, <3>1 DEF NothingRemoved, OneOwner, Owners, Creation, Settled,
            Complete, PublishedIsComplete
  <2>10. CASE Crash
    <3>1. /\ UNCHANGED <<lock, manifest, objects>>
          /\ copied' = [c \in Creators |-> 0]
          /\ \A c \in Creators :
               /\ creator'[c] \in {creator[c], "refused", "failed"}
               /\ creator'[c] \in {"check", "done", "failed", "refused"}
      BY <2>0, <2>10 DEF Crash, storage, Ended
    <3> QED BY <2>0, <2>C, <3>1 DEF NothingRemoved, OneOwner, Owners, Creation, Settled,
            Complete, PublishedIsComplete
  <2>11. CASE UNCHANGED <<storage, creator, copied>>
    BY <2>0, <2>C, <2>11 DEF storage, NothingRemoved, OneOwner, Owners, Creation, Settled,
       Complete, PublishedIsComplete
  <2> QED BY <1>2, <2>1, <2>2, <2>3, <2>4, <2>5, <2>6, <2>7, <2>8, <2>9, <2>10, <2>11,
             BeforeRemoval
<1> QED BY <1>1, <1>2

-----------------------------------------------------------------------------
(* What holds although anything may be removed at any time. *)

\* An orchestration copies and builds from the files of one snapshot: only Load
\* and Copy lead to these steps, and nobody else touches its workspace.
LEMMA RehydrationStep == TypeOK /\ Rehydration /\ [Next]_vars => Rehydration'
<1> SUFFICES ASSUME TypeOK, Rehydration, [Next]_vars, NEW c \in Creators
             PROVE  /\ creator'[c] = "copy" =>
                         /\ copied'[c] < N
                         /\ \A f \in Files :
                              f <= copied'[c] => workspace'[c][f] = source'[c]
                    /\ creator'[c] = "build" =>
                         \A f \in Files : workspace'[c][f] = source'[c]
  BY DEF Rehydration
<1> USE FilesAssumption
<1>0. /\ creator \in [Creators -> Steps] /\ copied \in [Creators -> 0 .. N]
      /\ source \in [Creators -> Creators \cup {None}]
      /\ workspace \in [Creators -> [Files -> Creators \cup {None}]]
  BY DEF TypeOK
<1> DEFINE Kept == /\ creator'[c] = creator[c] /\ copied'[c] = copied[c]
                   /\ source'[c] = source[c] /\ workspace'[c] = workspace[c]
<1>1. CASE Kept \/ creator'[c] \notin {"copy", "build"}
  BY <1>1 DEF Rehydration
<1>2. ASSUME NEW d \in Creators, Create(d) PROVE d # c => Kept
  <2>1. CASE d # c
    <3>1. \A step : Goes(d, step) => creator'[c] = creator[c]
      BY <1>0, <2>1 DEF Goes
    <3>2. creator'[c] = creator[c]
      BY <1>2, <3>1 DEF Create, Check, TakeLock, Recheck, Unlock, RecheckFails, Put,
         OpenManifest, FillManifest, Release, Clean, Load, Copy, Build, Fail, Remove,
         ListFiles, Unlink, RollsBack, Undoes, CopiesOn, actors
    <3>3. copied'[c] = copied[c] /\ source'[c] = source[c]
      BY <1>0, <1>2, <2>1 DEF Create, Check, TakeLock, Recheck, Unlock, RecheckFails, Put,
         OpenManifest, FillManifest, Release, Clean, Load, Copy, Build, Fail, Remove,
         ListFiles, Unlink, copies
    <3>4. workspace'[c] = workspace[c]
      BY <1>0, <1>2, <2>1 DEF Create, Check, TakeLock, Recheck, Unlock, RecheckFails, Put,
         OpenManifest, FillManifest, Release, Clean, Load, Copy, Build, Fail, Remove,
         ListFiles, Unlink, copies
    <3> QED BY <3>2, <3>3, <3>4
  <2> QED BY <2>1
<1>3. CASE Load(c)
  <2>1. CASE Undoes(c)
    BY <1>0, <1>1, <2>1 DEF Undoes, Goes
  <2>2. CASE ~Undoes(c)
    <3>1. copied'[c] = 0 /\ creator'[c] = (IF 0 < N THEN "copy" ELSE "build")
      BY <1>0, <1>3, <2>2 DEF Load, CopiesOn, Goes
    <3> QED BY <3>1 DEF Files
  <2> QED BY <2>1, <2>2
<1>4. CASE Copy(c)
  <2>1. CASE Undoes(c)
    BY <1>0, <1>1, <2>1 DEF Undoes, Goes
  <2>2. CASE ~Undoes(c)
    <3>1. /\ creator[c] = "copy" /\ copied[c] < N /\ UNCHANGED source
          /\ workspace' = [workspace EXCEPT ![c][copied[c] + 1] = objects[copied[c] + 1]]
          /\ objects[copied[c] + 1] = source[c]
          /\ copied' = [copied EXCEPT ![c] = copied[c] + 1]
          /\ CopiesOn(c, copied[c] + 1)
      BY <1>4, <2>2 DEF Copy
    <3>2. copied'[c] = copied[c] + 1 /\ copied[c] + 1 \in Files
      BY <1>0, <3>1 DEF Files
    <3>3. \A f \in Files : f <= copied'[c] => workspace'[c][f] = source'[c]
      BY <1>0, <3>1, <3>2 DEF Rehydration, Files
    <3>4. creator'[c] = (IF copied'[c] < N THEN "copy" ELSE "build")
      BY <1>0, <3>1, <3>2 DEF CopiesOn, Goes
    <3>5. CASE copied'[c] < N
      BY <3>3, <3>4, <3>5
    <3>6. CASE ~(copied'[c] < N)
      <4>1. \A f \in Files : f <= copied'[c]
        BY <3>2, <3>6 DEF Files
      <4> QED BY <3>3, <3>4, <3>6, <4>1
    <3> QED BY <3>5, <3>6
  <2> QED BY <2>1, <2>2
<1>5. CASE Create(c) /\ ~Load(c) /\ ~Copy(c)
  <2>1. CASE Remove(c)
    BY <1>1, <2>1 DEF Remove, ListFiles, Unlink, actors, copies
  <2>2. CASE Put(c) /\ ~RollsBack(c)
    BY <1>1, <1>0, <2>2 DEF Put
  <2>3. CASE ~Remove(c) /\ ~(Put(c) /\ ~RollsBack(c))
    <3>1. \E step \in Steps \ {"copy", "build"} : Goes(c, step)
      BY <1>5, <2>3 DEF Create, Check, TakeLock, Recheck, Unlock, RecheckFails, Put,
         OpenManifest, FillManifest, Release, Clean, Build, Fail, RollsBack, Undoes, Steps
    <3> QED BY <1>0, <1>1, <3>1 DEF Goes
  <2> QED BY <2>1, <2>2, <2>3
<1>6. CASE Crash
  <2>1. creator'[c] \notin {"copy", "build"}
    BY <1>0, <1>6 DEF Crash, Ended
  <2> QED BY <1>1, <2>1
<1>7. ASSUME ~ \E d \in Creators : Create(d), ~Crash PROVE Kept
  BY <1>7 DEF Next, vars, Delete, Deleted, Remove, ListFiles, Unlink, Purge, Sweep,
     ReadManifest, Purged, Tick, actors, copies
<1> QED BY <1>1, <1>2, <1>3, <1>4, <1>5, <1>6, <1>7

-----------------------------------------------------------------------------
(* Who will find what is stored. *)

\* An actor lists the prefix: it finds whatever is stored.
LEMMA Begins ==
  ASSUME TypeOK, Traces, NEW p \in Removers, BeginRemoval(p), UNCHANGED <<storage, crashed>>,
         \/ creator' = creator
         \/ /\ p \in Creators
            /\ creator[p] \notin {"check", "lock", "refused"}
            /\ \E s \in {"rollback", "undo"} : creator' = [creator EXCEPT ![p] = s],
         Removing(p)',
         \A q \in Removers : q # p => (Removing(q)' <=> Removing(q))
  PROVE  Traces'
<1>0. /\ creator \in [Creators -> Steps] /\ objects \in [Files -> Creators \cup {None}]
      /\ rm \in [Removers -> Removal] /\ manifest \in Manifest
      /\ lock' = lock /\ manifest' = manifest /\ objects' = objects /\ crashed' = crashed
      /\ None \notin Creators /\ Creators \subseteq Removers
  BY ActorsAssumption DEF TypeOK, storage, Removers
<1>1. /\ rm'[p] = [on |-> TRUE, lock |-> lock, files |-> {},
                   manifest |-> manifest # NoManifest, inside |-> Present # {}]
      /\ \A q \in Removers : q # p => rm'[q] = rm[q]
  BY <1>0 DEF BeginRemoval
<1>2. /\ rm'[p].lock = lock /\ rm'[p].manifest = (manifest # NoManifest)
      /\ rm'[p].inside = (Present # {})
  BY <1>1
<1>3. \A d \in Creators : d # p => creator'[d] = creator[d]
  BY <1>0
<1>4. RemovalsFit'
  BY <1>1 DEF Traces, RemovalsFit
<1>5. ManifestFits'
  <2> SUFFICES ASSUME NEW d \in Creators, ~crashed, manifest.by = d
               PROVE  \/ manifest.state = "torn" /\ creator'[d] = "fill"
                      \/ /\ manifest.state = "whole"
                         /\ creator'[d] \in {"release", "clean", "load", "copy", "build", "done"}
                      \/ creator'[d] \in {"rollback", "undo"} /\ rm'[d].manifest
    BY <1>0 DEF Traces, ManifestFits
  <2>1. \/ manifest.state = "torn" /\ creator[d] = "fill"
        \/ /\ manifest.state = "whole"
           /\ creator[d] \in {"release", "clean", "load", "copy", "build", "done"}
        \/ creator[d] \in {"rollback", "undo"} /\ rm[d].manifest
    BY DEF Traces, ManifestFits
  <2>2. CASE d # p
    BY <1>0, <1>1, <1>3, <2>1, <2>2
  <2>3. CASE d = p
    <3>1. manifest # NoManifest
      BY <1>0 DEF NoManifest
    <3>2. rm'[d].manifest
      BY <1>2, <2>3, <3>1
    <3> QED BY <1>0, <2>1, <2>3, <3>2
  <2> QED BY <2>2, <2>3
<1>6. LockFits'
  BY <1>0, <1>1 DEF LockFits
<1>7. Placed \subseteq Placed' /\ Past \subseteq Past'
  BY <1>0, <1>3 DEF Placed, Past
<1>8. ObjectsFit'
  <2> SUFFICES ASSUME ~crashed, \A c, d \in Placed : c = d
               PROVE  /\ \A c \in Creators, f \in Files : objects[f] = c =>
                           \E q \in Removers : Reaches(q, f)'
                      /\ \A q \in Removers : rm'[q].manifest =>
                           /\ Past' # {}
                           /\ \A f \in Files : objects[f] # None => Reaches(q, f)'
    BY <1>0, <1>7 DEF ObjectsFit
  <2>1. \A f \in Files : objects[f] # None => Reaches(p, f)'
    <3>1. \A f \in Files : objects[f] # None => Present # {}
      BY DEF Present
    <3> QED BY <1>2, <3>1 DEF Reaches
  <2>2. \A q \in Removers, f \in Files : q # p => (Reaches(q, f)' <=> Reaches(q, f))
    BY <1>1 DEF Reaches
  <2>3. manifest # NoManifest => Past # {}
    <3> SUFFICES ASSUME manifest # NoManifest PROVE Past # {}
      OBVIOUS
    <3>1. manifest.by \in Creators
      BY <1>0 DEF Traces, ManifestFits, Manifest
    <3> QED BY <3>1 DEF Traces, ManifestFits, Placed, Past
  <2>4. \A c \in Creators, f \in Files : objects[f] = c => \E q \in Removers : Reaches(q, f)'
    BY <1>0, <2>1
  <2>5. ASSUME NEW q \in Removers, rm'[q].manifest
        PROVE  Past' # {} /\ \A f \in Files : objects[f] # None => Reaches(q, f)'
    <3>1. CASE q = p
      BY <1>7, <1>2, <2>1, <2>3, <2>5, <3>1
    <3>2. CASE q # p
      <4>1. Past # {} /\ \A f \in Files : objects[f] # None => Reaches(q, f)
        BY <1>1, <2>5, <3>2 DEF Traces, ObjectsFit
      <4> QED BY <1>7, <2>2, <3>2, <4>1
    <3> QED BY <3>1, <3>2
  <2> QED BY <2>4, <2>5
<1> QED BY <1>4, <1>5, <1>6, <1>8 DEF Traces

\* An actor has unlinked everything it had listed.
LEMMA Ends ==
  ASSUME TypeOK, Traces, NEW p \in Removers, RemovalOver(p), EndRemoval(p),
         UNCHANGED <<storage, crashed>>,
         \/ creator' = creator
         \/ /\ p \in Creators /\ creator[p] \in {"rollback", "undo"}
            /\ creator' = [creator EXCEPT ![p] = "failed"],
         ~Removing(p)',
         \A q \in Removers : q # p => (Removing(q)' <=> Removing(q))
  PROVE  Traces'
<1>0. /\ creator \in [Creators -> Steps] /\ objects \in [Files -> Creators \cup {None}]
      /\ rm \in [Removers -> Removal] /\ manifest \in Manifest
      /\ lock' = lock /\ manifest' = manifest /\ objects' = objects /\ crashed' = crashed
      /\ None \notin Creators /\ Creators \subseteq Removers
  BY ActorsAssumption DEF TypeOK, storage, Removers
<1>1. /\ rm'[p] = NoRemoval /\ \A q \in Removers : q # p => rm'[q] = rm[q]
      /\ ~rm[p].lock /\ ~rm[p].manifest /\ \A f : ~Reaches(p, f)
      /\ ~NoRemoval.on /\ ~NoRemoval.manifest
  BY <1>0 DEF EndRemoval, RemovalOver, Reaches, NoRemoval
<1>2. \A d \in Creators : d # p => creator'[d] = creator[d]
  BY <1>0
<1>3. RemovalsFit'
  BY <1>1 DEF Traces, RemovalsFit
<1>4. ManifestFits'
  BY <1>0, <1>1, <1>2 DEF Traces, ManifestFits
<1>5. LockFits'
  <2>1. Owners \subseteq Owners'
    BY <1>0, <1>2 DEF Owners
  <2> QED BY <1>0, <1>1, <2>1 DEF Traces, LockFits
<1>6. Placed \subseteq Placed' /\ Past \subseteq Past'
  BY <1>0, <1>2 DEF Placed, Past
<1>7. ObjectsFit'
  <2>1. \A q \in Removers, f \in Files : Reaches(q, f) => Reaches(q, f)'
    BY <1>1 DEF Reaches
  <2>2. \A c \in Creators : creator[c] = "put" => creator'[c] = "put"
    BY <1>0, <1>2
  <2>3. \A q \in Removers : rm'[q].manifest => rm[q].manifest
    BY <1>1
  <2> QED BY <1>0, <1>6, <2>1, <2>2, <2>3 DEF Traces, ObjectsFit
<1> QED BY <1>3, <1>4, <1>5, <1>7 DEF Traces

\* A removal lists files/ or unlinks something: what goes with the manifest has
\* been listed with it.
LEMMA Unlinks ==
  ASSUME TypeOK, Traces, NEW p \in Removers, Remove(p)
  PROVE  Traces'
<1>0. /\ objects \in [Files -> Creators \cup {None}]
      /\ rm \in [Removers -> Removal] /\ rm[p] \in Removal /\ manifest \in Manifest
      /\ crashed' = crashed /\ creator' = creator /\ deleter' = deleter /\ sweeper' = sweeper
      /\ None \notin Creators
  BY ActorsAssumption DEF TypeOK, Remove, ListFiles, Unlink, history, actors
<1>1. \A q \in Removers : q # p => rm'[q] = rm[q]
  BY <1>0 DEF Remove, ListFiles, Unlink
<1>2. rm[p].on /\ rm'[p].on
  <2>1. rm[p].on
    BY DEF Traces, RemovalsFit, NoRemoval, Remove, ListFiles, Unlink
  <2> QED BY <1>0, <2>1 DEF Remove, ListFiles, Unlink, Removal
<1>3. RemovalsFit'
  BY <1>0, <1>1, <1>2 DEF Traces, RemovalsFit, Removing
<1>4. Owners' = Owners /\ Placed' = Placed /\ Past' = Past
  BY <1>0 DEF Owners, Placed, Past
<1>5. CASE ListFiles(p)
  <2>1. /\ UNCHANGED <<lock, manifest, objects>>
        /\ rm'[p] = [rm[p] EXCEPT !.inside = FALSE, !.files = Present] /\ rm[p].inside
    BY <1>0, <1>5 DEF ListFiles, storage
  <2>2. rm'[p].lock = rm[p].lock /\ rm'[p].manifest = rm[p].manifest /\ rm'[p].files = Present
    BY <1>0, <2>1 DEF Removal
  <2>3. \A q \in Removers : rm'[q].lock = rm[q].lock /\ rm'[q].manifest = rm[q].manifest
    BY <1>1, <2>2
  <2>4. ManifestFits' /\ LockFits'
    BY <1>0, <1>4, <2>1, <2>3 DEF Traces, ManifestFits, LockFits, Removers
  <2>5. \A f \in Files : objects[f] # None => Reaches(p, f)'
    BY <2>2 DEF Reaches, Present
  <2>6. \A q \in Removers, f \in Files : q # p => (Reaches(q, f)' <=> Reaches(q, f))
    BY <1>1 DEF Reaches
  <2>7. ObjectsFit'
    BY <1>0, <1>1, <1>4, <2>1, <2>2, <2>5, <2>6 DEF Traces, ObjectsFit
  <2> QED BY <1>3, <2>4, <2>7 DEF Traces
<1>6. CASE /\ rm[p].lock /\ rm' = [rm EXCEPT ![p].lock = FALSE] /\ lock' = FALSE
           /\ UNCHANGED <<manifest, objects>>
  <2>1. rm'[p].manifest = rm[p].manifest /\ rm'[p].files = rm[p].files
        /\ rm'[p].inside = rm[p].inside
    BY <1>0, <1>6 DEF Removal
  <2>2. \A q \in Removers : rm'[q].manifest = rm[q].manifest
    BY <1>1, <2>1
  <2>3. \A q \in Removers, f \in Files : Reaches(q, f)' <=> Reaches(q, f)
    BY <1>1, <2>1 DEF Reaches
  <2>4. ManifestFits' /\ LockFits'
    BY <1>0, <1>6, <2>2 DEF Traces, ManifestFits, LockFits, Removers
  <2>5. ObjectsFit'
    BY <1>0, <1>4, <1>6, <2>2, <2>3 DEF Traces, ObjectsFit
  <2> QED BY <1>3, <2>4, <2>5 DEF Traces
<1>7. CASE /\ rm[p].manifest /\ rm' = [rm EXCEPT ![p].manifest = FALSE]
           /\ manifest' = NoManifest /\ UNCHANGED <<lock, objects>>
  <2>1. rm'[p].lock = rm[p].lock /\ rm'[p].files = rm[p].files
        /\ rm'[p].inside = rm[p].inside /\ ~rm'[p].manifest
    BY <1>0, <1>7 DEF Removal
  <2>2. \A q \in Removers : rm'[q].lock = rm[q].lock /\ (rm'[q].manifest => rm[q].manifest)
    BY <1>1, <2>1
  <2>3. \A q \in Removers, f \in Files : Reaches(q, f)' <=> Reaches(q, f)
    BY <1>1, <2>1 DEF Reaches
  <2>4. ManifestFits' /\ LockFits'
    BY <1>0, <1>4, <1>7, <2>2 DEF Traces, ManifestFits, LockFits, NoManifest
  <2>5. ObjectsFit'
    BY <1>0, <1>4, <1>7, <2>2, <2>3 DEF Traces, ObjectsFit
  <2> QED BY <1>3, <2>4, <2>5 DEF Traces
<1>8. ASSUME NEW g \in rm[p].files, rm' = [rm EXCEPT ![p].files = @ \ {g}],
             objects' = [objects EXCEPT ![g] = None], UNCHANGED <<lock, manifest>>
      PROVE  Traces'
  <2>1. /\ rm'[p].lock = rm[p].lock /\ rm'[p].files = rm[p].files \ {g}
        /\ rm'[p].inside = rm[p].inside /\ rm'[p].manifest = rm[p].manifest
    BY <1>0, <1>8 DEF Removal
  <2>2. \A q \in Removers : rm'[q].lock = rm[q].lock /\ rm'[q].manifest = rm[q].manifest
    BY <1>1, <2>1
  <2>3. \A q \in Removers, f \in Files : f # g => (Reaches(q, f)' <=> Reaches(q, f))
    BY <1>1, <2>1 DEF Reaches
  <2>4. \A f \in Files : objects'[f] # None => f # g /\ objects'[f] = objects[f]
    BY <1>0, <1>8
  <2>5. ManifestFits' /\ LockFits'
    BY <1>0, <1>4, <1>8, <2>2 DEF Traces, ManifestFits, LockFits, Removers
  <2>6. ObjectsFit'
    BY <1>0, <1>4, <1>8, <2>2, <2>3, <2>4 DEF Traces, ObjectsFit
  <2> QED BY <1>3, <2>5, <2>6 DEF Traces
<1> QED BY <1>5, <1>6, <1>7, <1>8 DEF Remove, Unlink

\* A creator moves on and removes nothing.
LEMMA Moves ==
  ASSUME TypeOK, Traces, NEW c \in Creators, UNCHANGED <<rm, crashed, deleter, sweeper>>,
         NEW s \in Steps \ {"rollback", "undo"}, creator' = [creator EXCEPT ![c] = s],
         creator[c] \notin {"rollback", "undo"},
         creator[c] \notin {"check", "lock", "recheck", "unlock"}
           => s \notin {"check", "lock", "recheck", "unlock", "refused"},
         s = "put" => creator[c] \in {"recheck", "put"}
  PROVE  /\ RemovalsFit'
         /\ Placed \subseteq Placed' /\ Past \subseteq Past'
         /\ \A d \in Creators : d # c => creator'[d] = creator[d]
         /\ creator'[c] = s
<1>0. creator \in [Creators -> Steps] /\ None \notin Creators /\ Creators \subseteq Removers
  BY ActorsAssumption DEF TypeOK, Removers
<1>1. creator'[c] = s /\ \A d \in Creators : d # c => creator'[d] = creator[d]
  BY <1>0
<1>2. RemovalsFit'
  BY <1>0, <1>1 DEF Traces, RemovalsFit, Removing
<1>3. Placed \subseteq Placed' /\ Past \subseteq Past'
  BY <1>0, <1>1 DEF Placed, Past
<1> QED BY <1>1, <1>2, <1>3

\* Whatever it moves to, objects and manifest stay where they are found.
LEMMA MovesOn ==
  ASSUME TypeOK, Traces, NEW c \in Creators, UNCHANGED <<rm, crashed, deleter, sweeper>>,
         NEW s \in Steps \ {"rollback", "undo", "put"}, creator' = [creator EXCEPT ![c] = s],
         creator[c] \notin {"rollback", "undo", "put"},
         creator[c] \notin {"check", "lock", "recheck", "unlock"}
           => s \notin {"check", "lock", "recheck", "unlock", "refused"},
         UNCHANGED objects, manifest'.by = manifest.by, ManifestFits', LockFits'
  PROVE  Traces'
<1>1. /\ RemovalsFit' /\ Placed \subseteq Placed' /\ Past \subseteq Past'
      /\ \A d \in Creators : creator[d] = "put" => creator'[d] = "put"
  BY Moves
<1>2. \A q \in Removers, f \in Files : Reaches(q, f)' <=> Reaches(q, f)
  BY DEF Reaches
<1>3. ObjectsFit'
  BY <1>1, <1>2 DEF Traces, ObjectsFit
<1> QED BY <1>1, <1>3 DEF Traces


\* Every step leaves what is stored where somebody finds it.
LEMMA TracesStep == IInv /\ [Next]_vars => Traces'
<1> SUFFICES ASSUME IInv, [Next]_vars PROVE Traces'
  OBVIOUS
<1> USE FilesAssumption, TimesAssumption
<1>0. /\ TypeOK /\ Traces /\ creator \in [Creators -> Steps] /\ copied \in [Creators -> 0 .. N]
      /\ objects \in [Files -> Creators \cup {None}] /\ manifest \in Manifest
      /\ None \notin Creators /\ Creators \cap Deleters = {}
      /\ Creators \subseteq Removers /\ Deleters \subseteq Removers /\ Sweeper \in Removers
      /\ Sweeper \notin Creators /\ Sweeper \notin Deleters
  BY ActorsAssumption DEF IInv, TypeOK, Removers
<1>1. ASSUME NEW p \in Removers, Remove(p) PROVE Traces'
  BY <1>0, <1>1, Unlinks
<1>2. ASSUME NEW c \in Creators, RollsBack(c) \/ Undoes(c),
             creator[c] \in {"recheck", "unlock", "put", "fill", "release", "clean", "load",
                             "copy", "build"},
             UNCHANGED <<storage, crashed, deleter, sweeper>>
      PROVE  Traces'
  <2>1. BeginRemoval(c) /\ \E s \in {"rollback", "undo"} : creator' = [creator EXCEPT ![c] = s]
    BY <1>2 DEF RollsBack, Undoes, Goes
  <2>2. /\ creator'[c] \in {"rollback", "undo"}
        /\ \A d \in Creators : d # c => creator'[d] = creator[d]
    BY <1>0, <2>1
  <2>3. Removing(c)' /\ \A q \in Removers : q # c => (Removing(q)' <=> Removing(q))
    BY <1>0, <1>2, <2>2 DEF Removing
  <2> QED BY <1>0, <1>2, <2>1, <2>3, Begins
<1>3. ASSUME NEW c \in Creators, Create(c) PROVE Traces'
  <2>1. CASE Check(c)
    <3>1. \E s \in {"refused", "lock"} : creator' = [creator EXCEPT ![c] = s]
      BY <2>1 DEF Check, Goes
    <3>2. ManifestFits' /\ LockFits'
      BY <1>0, <2>1, <3>1 DEF Check, Traces, ManifestFits, LockFits, Owners, storage, history
    <3> QED BY <1>0, <2>1, <3>1, <3>2, MovesOn DEF Check, storage, history, Steps
  <2>2. CASE TakeLock(c)
    <3>1. \/ creator' = [creator EXCEPT ![c] = "recheck"]
          \/ creator' = [creator EXCEPT ![c] = "refused"] /\ lock' = lock
      BY <2>2 DEF TakeLock, Goes
    <3>2. LockFits'
      BY <1>0, <2>2, <3>1 DEF TakeLock, Traces, LockFits, Owners, history
    <3>3. ManifestFits'
      BY <1>0, <2>2, <3>1 DEF TakeLock, Traces, ManifestFits, history
    <3> QED BY <1>0, <2>2, <3>1, <3>2, <3>3, MovesOn DEF TakeLock, history, Steps
  <2>3. CASE Recheck(c)
    <3>1. \/ creator' = [creator EXCEPT ![c] = "unlock"]
          \/ creator' = [creator EXCEPT ![c] = "put"]
      BY <2>3 DEF Recheck, Goes
    <3>2. LockFits'
      <4>1. c \in Owners'
        BY <1>0, <3>1 DEF Owners
      <4> QED BY <4>1 DEF LockFits
    <3>3. ManifestFits'
      BY <1>0, <2>3, <3>1 DEF Recheck, Traces, ManifestFits, history, storage
    <3>4. CASE creator' = [creator EXCEPT ![c] = "unlock"]
      BY <1>0, <2>3, <3>2, <3>3, <3>4, MovesOn DEF Recheck, history, storage, Steps
    <3>5. CASE creator' = [creator EXCEPT ![c] = "put"]
      <4>1. /\ RemovalsFit' /\ Placed \subseteq Placed' /\ Past \subseteq Past'
            /\ \A d \in Creators : d # c => creator'[d] = creator[d]
            /\ creator'[c] = "put"
        BY <1>0, <2>3, <3>5, Moves DEF Recheck, history, storage, Steps
      <4>2. \A q \in Removers, f \in Files : Reaches(q, f)' <=> Reaches(q, f)
        BY <2>3 DEF Reaches, Recheck
      <4>3. ObjectsFit'
        BY <1>0, <2>3, <4>1, <4>2 DEF Recheck, Traces, ObjectsFit, history, storage
      <4> QED BY <3>2, <3>3, <4>1, <4>3 DEF Traces
    <3> QED BY <3>1, <3>4, <3>5
  <2>4. CASE Unlock(c)
    <3>1. creator' = [creator EXCEPT ![c] = "refused"] /\ ~lock'
      BY <2>4 DEF Unlock, Goes
    <3>2. LockFits'
      BY <3>1 DEF LockFits
    <3>3. ManifestFits'
      BY <1>0, <2>4, <3>1 DEF Unlock, Traces, ManifestFits, history
    <3> QED BY <1>0, <2>4, <3>1, <3>2, <3>3, MovesOn DEF Unlock, history, Steps
  <2>5. CASE RecheckFails(c)
    BY <1>2, <2>5 DEF RecheckFails
  <2>6. CASE Put(c)
    <3>1. CASE RollsBack(c) /\ UNCHANGED <<objects, copied>>
      BY <1>2, <2>6, <3>1 DEF Put, storage
    <3>2. CASE ~(RollsBack(c) /\ UNCHANGED <<objects, copied>>)
      <4> DEFINE g == copied[c] + 1
      <4>1. /\ objects' = [objects EXCEPT ![g] = c] /\ creator[c] = "put" /\ copied[c] < N
            /\ UNCHANGED <<creator, lock, manifest, rm, deleter, sweeper, crashed>>
        BY <2>6, <3>2 DEF Put
      <4>2. g \in Files
        BY <1>0, <4>1 DEF Files
      <4> HIDE DEF g
      <4>3. RemovalsFit' /\ ManifestFits' /\ LockFits'
        BY <1>0, <4>1 DEF Traces, RemovalsFit, Removing, ManifestFits, LockFits, Owners
      <4>4. objects'[g] = c /\ \A f \in Files : f # g => objects'[f] = objects[f]
        BY <1>0, <4>1, <4>2
      <4>5. Placed' = Placed /\ Past' = Past /\ c \in Placed /\ c \notin Past
        BY <4>1 DEF Placed, Past
      <4>6. \A q \in Removers, f \in Files : Reaches(q, f)' <=> Reaches(q, f)
        BY <4>1 DEF Reaches
      <4>7. ObjectsFit'
        <5> SUFFICES ASSUME ~crashed, \A d, e \in Placed : d = e
                     PROVE  /\ \A d \in Creators, f \in Files : objects'[f] = d =>
                                 \/ creator[d] = "put" \/ manifest.by = d
                                 \/ \E q \in Removers : Reaches(q, f)
                            /\ \A q \in Removers : ~rm[q].manifest
          BY <4>1, <4>5, <4>6 DEF ObjectsFit
        <5>1. Past = {}
          BY <4>5 DEF Past
        <5> QED BY <1>0, <4>1, <4>4, <5>1 DEF Traces, ObjectsFit
      <4> QED BY <4>3, <4>7 DEF Traces
    <3> QED BY <3>1, <3>2
  <2>7. CASE OpenManifest(c)
    <3>1. CASE RollsBack(c) /\ UNCHANGED manifest
      BY <1>2, <2>7, <3>1 DEF OpenManifest, storage
    <3>2. CASE ~(RollsBack(c) /\ UNCHANGED manifest)
      <4>1. /\ manifest = NoManifest /\ creator[c] = "put"
            /\ manifest'.state = "torn" /\ manifest'.by = c
            /\ creator' = [creator EXCEPT ![c] = "fill"]
            /\ UNCHANGED <<rm, lock, objects, deleter, sweeper, crashed>>
        BY <2>7, <3>2 DEF OpenManifest, Goes, history
      <4>2. /\ RemovalsFit' /\ Placed \subseteq Placed' /\ Past \subseteq Past'
            /\ \A d \in Creators : d # c => creator'[d] = creator[d]
            /\ creator'[c] = "fill"
        BY <1>0, <4>1, Moves DEF Steps
      <4>3. ManifestFits'
        BY <1>0, <4>1, <4>2 DEF ManifestFits
      <4>4. LockFits'
        <5>1. c \in Owners'
          BY <4>2 DEF Owners
        <5> QED BY <5>1 DEF LockFits
      <4>5. \A q \in Removers, f \in Files : Reaches(q, f)' <=> Reaches(q, f)
        BY <4>1 DEF Reaches
      <4>6. \A d \in Creators : manifest.by # d
        BY <1>0, <4>1 DEF NoManifest
      <4>7. ObjectsFit'
        BY <1>0, <4>1, <4>2, <4>5, <4>6 DEF Traces, ObjectsFit
      <4> QED BY <4>2, <4>3, <4>4, <4>7 DEF Traces
    <3> QED BY <3>1, <3>2
  <2>8. CASE FillManifest(c)
    <3>1. CASE RollsBack(c) /\ UNCHANGED manifest
      BY <1>2, <2>8, <3>1 DEF FillManifest, storage
    <3>2. CASE ~(RollsBack(c) /\ UNCHANGED manifest)
      <4>1. /\ creator[c] = "fill"
            /\ manifest' = IF manifest.by = c THEN [manifest EXCEPT !.state = "whole"]
                                              ELSE manifest
            /\ creator' = [creator EXCEPT ![c] = "release"]
            /\ UNCHANGED <<rm, lock, objects, deleter, sweeper, crashed>>
        BY <2>8, <3>2 DEF FillManifest, Goes, history
      <4>2. /\ creator'[c] = "release"
            /\ \A d \in Creators : d # c => creator'[d] = creator[d]
        BY <1>0, <4>1
      <4>3. /\ manifest'.by = manifest.by
            /\ manifest.by = c => manifest'.state = "whole"
            /\ manifest.by # c => manifest' = manifest
        BY <1>0, <4>1 DEF Manifest
      <4>4. ManifestFits'
        BY <1>0, <4>1, <4>2, <4>3 DEF Traces, ManifestFits
      <4>5. LockFits'
        <5>1. c \in Owners'
          BY <4>2 DEF Owners
        <5> QED BY <5>1 DEF LockFits
      <4> QED BY <1>0, <4>1, <4>3, <4>4, <4>5, MovesOn DEF Steps
    <3> QED BY <3>1, <3>2
  <2>9. CASE Release(c)
    <3>1. CASE RollsBack(c) /\ UNCHANGED lock
      BY <1>2, <2>9, <3>1 DEF Release, storage
    <3>2. CASE ~(RollsBack(c) /\ UNCHANGED lock)
      <4>1. /\ creator[c] = "release" /\ ~lock'
            /\ creator' = [creator EXCEPT ![c] = "clean"]
            /\ UNCHANGED <<rm, manifest, objects, deleter, sweeper, crashed>>
        BY <2>9, <3>2 DEF Release, Goes, history
      <4>2. ManifestFits' /\ LockFits'
        BY <1>0, <4>1 DEF Traces, ManifestFits, LockFits
      <4> QED BY <1>0, <4>1, <4>2, MovesOn DEF Steps
    <3> QED BY <3>1, <3>2
  <2>10. CASE Clean(c) \/ Load(c) \/ Copy(c) \/ Build(c)
    <3>1. CASE Undoes(c)
      BY <1>2, <2>10, <3>1 DEF Clean, Load, Copy, Build
    <3>2. CASE ~Undoes(c)
      <4>1. /\ creator[c] \in {"clean", "load", "copy", "build"}
            /\ \E s \in {"load", "copy", "build", "done"} :
                 creator' = [creator EXCEPT ![c] = s]
            /\ UNCHANGED <<rm, lock, manifest, objects, deleter, sweeper, crashed>>
        BY <2>10, <3>2 DEF Clean, Load, Copy, Build, CopiesOn, Goes, storage, history
      <4>2. ManifestFits' /\ LockFits'
        BY <1>0, <4>1 DEF Traces, ManifestFits, LockFits, Owners
      <4> QED BY <1>0, <4>1, <4>2, MovesOn DEF Steps
    <3> QED BY <3>1, <3>2
  <2>11. CASE Fail(c)
    <3>1. /\ creator[c] \in {"rollback", "undo"} /\ creator' = [creator EXCEPT ![c] = "failed"]
          /\ UNCHANGED <<storage, crashed, deleter, sweeper>>
      BY <2>11 DEF Fail, Goes, history
    <3>2. ~Removing(c)' /\ \A q \in Removers : q # c => (Removing(q)' <=> Removing(q))
      BY <1>0, <3>1 DEF Removing
    <3> QED BY <1>0, <2>11, <3>1, <3>2, Ends DEF Fail
  <2>12. CASE Remove(c)
    BY <1>0, <1>1, <2>12
  <2> QED BY <1>3, <2>1, <2>2, <2>3, <2>4, <2>5, <2>6, <2>7, <2>8, <2>9, <2>10, <2>11, <2>12
          DEF Create
<1>4. ASSUME NEW d \in Deleters, Delete(d) \/ Deleted(d) PROVE Traces'
  <2>1. CASE Delete(d)
    <3>1. Removing(d)' /\ \A q \in Removers : q # d => (Removing(q)' <=> Removing(q))
      BY <1>0, <2>1 DEF Delete, Removing, TypeOK
    <3> QED BY <1>0, <2>1, <3>1, Begins DEF Delete
  <2>2. CASE Deleted(d)
    <3>1. ~Removing(d)' /\ \A q \in Removers : q # d => (Removing(q)' <=> Removing(q))
      BY <1>0, <2>2 DEF Deleted, Removing, TypeOK
    <3> QED BY <1>0, <2>2, <3>1, Ends DEF Deleted, history
  <2> QED BY <1>4, <2>1, <2>2
<1>5. CASE Purge
  <2>1. CASE Sweep
    BY <1>0, <2>1 DEF Sweep, storage, history, Traces, RemovalsFit, Removing, ManifestFits,
       LockFits, Owners, ObjectsFit, Placed, Past, Reaches
  <2>2. CASE ReadManifest
    <3>1. CASE BeginRemoval(Sweeper) /\ sweeper' = "purge"
      <4>1. Removing(Sweeper)'
            /\ \A q \in Removers : q # Sweeper => (Removing(q)' <=> Removing(q))
        BY <1>0, <2>2, <3>1 DEF ReadManifest, Removing
      <4> QED BY <1>0, <2>2, <3>1, <4>1, Begins DEF ReadManifest
    <3>2. CASE UNCHANGED rm /\ sweeper' = "idle"
      BY <1>0, <2>2, <3>2 DEF ReadManifest, storage, Traces, RemovalsFit, Removing,
         ManifestFits, LockFits, Owners, ObjectsFit, Placed, Past, Reaches
    <3> QED BY <2>2, <3>1, <3>2 DEF ReadManifest
  <2>3. CASE Purged
    <3>1. ~Removing(Sweeper)'
          /\ \A q \in Removers : q # Sweeper => (Removing(q)' <=> Removing(q))
      BY <1>0, <2>3 DEF Purged, Removing
    <3> QED BY <1>0, <2>3, <3>1, Ends DEF Purged, history
  <2> QED BY <1>0, <1>1, <1>5, <2>1, <2>2, <2>3 DEF Purge
<1>6. CASE Tick
  BY <1>0, <1>6 DEF Tick, storage, actors, history, Traces, RemovalsFit, Removing, ManifestFits,
     LockFits, Owners, ObjectsFit, Placed, Past, Reaches
<1>7. CASE Crash
  <2>1. /\ crashed' /\ sweeper' = "idle" /\ \A p \in Removers : rm'[p] = NoRemoval
        /\ \A d \in Deleters : deleter'[d] # "remove"
        /\ UNCHANGED storage
    BY <1>0, <1>7 DEF Crash
  <2>2. \A c \in Creators : creator'[c] \notin {"rollback", "undo"}
    BY <1>0, <1>7 DEF Crash, Ended
  <2>3. RemovalsFit'
    BY <2>1, <2>2 DEF RemovalsFit, Removing, NoRemoval
  <2>4. ManifestFits' /\ LockFits' /\ ObjectsFit'
    BY <1>0, <2>1 DEF Traces, ManifestFits, LockFits, ObjectsFit, storage
  <2> QED BY <2>3, <2>4 DEF Traces
<1>8. CASE UNCHANGED vars
  BY <1>0, <1>8 DEF vars, storage, actors, history, Traces, RemovalsFit, Removing, ManifestFits,
     LockFits, Owners, ObjectsFit, Placed, Past, Reaches
<1> QED BY <1>0, <1>1, <1>3, <1>4, <1>5, <1>6, <1>7, <1>8 DEF Next


-----------------------------------------------------------------------------

\* Every step preserves the inductive invariant.
LEMMA InvariantStep == IInv /\ [Next]_vars => IInv'
BY TypeStep, StorageStep, RehydrationStep, TracesStep DEF IInv

\* createSourceSnapshot and rehydrateSourceSnapshot keep the inductive
\* invariant, whatever is deleted, purged or lost with the process.
THEOREM SnapshotInvariant == Spec => []IInv
<1>1. Init => IInv
  BY Initially
<1>2. IInv /\ [Next]_vars => IInv'
  BY InvariantStep
<1> QED BY <1>1, <1>2, PTL DEF Spec

\* The write lock admits one creator at a time, until something is removed.
THEOREM LockExcludes == Spec => []OneOwner
<1>1. IInv => OneOwner
  BY DEF IInv
<1> QED BY <1>1, SnapshotInvariant, PTL

\* A manifest that can be read stands for a complete snapshot of one creator,
\* until something is removed: the manifest is written last.
THEOREM ManifestIsLast == Spec => []PublishedIsComplete
<1>1. IInv => PublishedIsComplete
  BY DEF IInv
<1> QED BY <1>1, SnapshotInvariant, PTL

\* A review is built from the files of exactly one snapshot, whoever removes or
\* replaces objects while they are copied.
THEOREM ReviewsReadOneSnapshot == Spec => []RehydratedIsFaithful
<1>1. IInv => RehydratedIsFaithful
  BY DEF IInv, Rehydration, RehydratedIsFaithful
<1> QED BY <1>1, SnapshotInvariant, PTL

\* When every call is over, a creator that was the only one to be admitted has
\* either succeeded or left nothing, whoever else removed the prefix meanwhile.
THEOREM NothingStaysUnfound == Spec => []NothingIsLost
<1>1. IInv => NothingIsLost
  <2> SUFFICES ASSUME IInv, Quiet, Alone, ~crashed
               PROVE  IF manifest = NoManifest
                        THEN ~lock /\ objects = Empty
                        ELSE manifest.state = "whole" /\ creator[manifest.by] = "done"
    BY DEF NothingIsLost
  <2>0. /\ manifest \in Manifest /\ objects \in [Files -> Creators \cup {None}]
        /\ None \notin Creators /\ Creators \subseteq Removers
        /\ RemovalsFit /\ ManifestFits /\ LockFits /\ ObjectsFit
    BY ActorsAssumption DEF IInv, TypeOK, Traces, Removers
  <2>1. \A p \in Removers :
          ~rm[p].lock /\ ~rm[p].manifest /\ \A f \in Files : ~Reaches(p, f)
    BY <2>0 DEF Quiet, RemovalsFit, NoRemoval, Reaches
  <2>2. \A c \in Creators : creator[c] \in {"done", "failed", "refused"}
    BY DEF Quiet, Ended
  <2>3. ~lock
    BY <2>0, <2>1, <2>2 DEF LockFits, Owners
  <2>4. \A c, d \in Placed : c = d
    BY <2>2 DEF Alone, Placed
  <2>5. \A c \in Creators, f \in Files : objects[f] = c => manifest.by = c
    BY <2>0, <2>1, <2>2, <2>4 DEF ObjectsFit
  <2>6. CASE manifest = NoManifest
    <3>1. \A f \in Files : objects[f] = None
      BY <2>0, <2>5, <2>6 DEF NoManifest
    <3> QED BY <2>0, <2>3, <2>6, <3>1 DEF Empty
  <2>7. CASE manifest # NoManifest
    <3>1. manifest.by \in Creators
      BY <2>0, <2>7 DEF ManifestFits, Manifest
    <3> QED BY <2>0, <2>1, <2>2, <2>7, <3>1 DEF ManifestFits
  <2> QED BY <2>6, <2>7
<1> QED BY <1>1, SnapshotInvariant, PTL

\* The first rollback removes nothing but what its own creator has stored, unless
\* the creator failed while it refused the id.
THEOREM RollbackRemovesItsOwn == Spec => RollbackIsOwn
<1> DEFINE A(c) == ~removed /\ rm'[c].on /\ creator[c] \notin {"recheck", "unlock"}
                     => /\ \A f \in Files : objects[f] \in {None, c}
                        /\ manifest.by \in {None, c}
<1>1. IInv /\ [Next]_vars => [\A c \in Creators : A(c)]_vars
  <2> SUFFICES ASSUME IInv, Next, NEW c \in Creators, ~removed, rm'[c].on,
                      creator[c] \notin {"recheck", "unlock"}
               PROVE  /\ \A f \in Files : objects[f] \in {None, c}
                      /\ manifest.by \in {None, c}
    OBVIOUS
  <2>0. /\ rm \in [Removers -> Removal] /\ ~rm[c].on /\ c \in Removers
        /\ creator[c] \notin {"rollback", "undo"}
    BY DEF IInv, TypeOK, NothingRemoved, NoRemoval, Removers
  <2>1. removed' # removed
    BY <2>0, BeforeRemoval DEF NoRemoval
  <2>2. \A p \in Removers : BeginRemoval(p) => p = c
    BY <2>0 DEF BeginRemoval
  <2>3. Creators \subseteq Removers /\ Deleters \subseteq Removers /\ Sweeper \in Removers
        /\ c \notin Deleters /\ c # Sweeper
    BY ActorsAssumption DEF Removers
  <2>4. PICK d \in Creators : Create(d) /\ removed' # removed
    BY <2>1, <2>2, <2>3 DEF Next, Delete, Deleted, Remove, ListFiles, Unlink, Purge, Sweep,
       ReadManifest, Purged, Tick, Crash, history
  <2>5. /\ BeginRemoval(d)
        /\ creator[d] \in {"recheck", "unlock", "put", "fill", "release", "clean", "load",
                           "copy", "build"}
    BY <2>4 DEF Create, Check, TakeLock, Recheck, Unlock, RecheckFails, Put, OpenManifest,
       FillManifest, Release, Clean, Load, Copy, Build, Fail, Remove, ListFiles, Unlink,
       RollsBack, Undoes, history
  <2>6. creator[c] \in {"put", "fill", "release", "clean", "load", "copy", "build"}
    BY <2>2, <2>3, <2>5
  <2>7. CASE creator[c] = "put"
    BY <2>7 DEF IInv, Creation, NoManifest
  <2>8. CASE creator[c] # "put"
    BY <2>6, <2>8 DEF IInv, Creation, Complete
  <2> QED BY <2>7, <2>8
<1> QED BY <1>1, SnapshotInvariant, PTL DEF Spec, RollbackIsOwn
=============================================================================

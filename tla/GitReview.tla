------------------------------- MODULE GitReview -------------------------------
(***************************************************************************)
(* One Git review from the URL to the review: processGitJob of             *)
(* review-service and orchestrateMaterializedRepositoryReview around       *)
(* GitIntake and ConceptGeneration.  ReviewLifecycle has the job, its      *)
(* files and its rivals; here are the two copies of the source that one    *)
(* worker makes, the workspace git fills and the rehydrated one, with      *)
(* every removal able to fail, and the question whether the worker ends.   *)
(***************************************************************************)
EXTENDS Integers, FiniteSets

CONSTANTS Commits, Tags, Peel, Kinds, Models, Identities, None

ASSUME TagAssumption == Commits \cap Tags = {} /\ Peel \in [Tags -> Commits]
ASSUME ModelsAssumption == Models \in Nat /\ IsFiniteSet(Kinds) /\ Kinds # {}
ASSUME NoneAssumption == None \notin Commits \cup Tags \cup Identities

VARIABLES
  step, asked, listing, git, helpers, timedOut, exceeded, killed, stray, revision, head,
  workspace, cleanup, error,
  phase, model, by, bundle,
  at,         \* where the worker stands
  snapshot,   \* the revision whose source is stored
  copy,       \* the rehydrated workspace
  rehydrated, \* whether the orchestrator holds it
  stuck,      \* the last removal of the copy failed
  result      \* what the job becomes

Intake == INSTANCE GitIntake
Generation == INSTANCE ConceptGeneration

intake == <<step, asked, listing, git, helpers, timedOut, exceeded, killed, stray, revision,
            head, workspace, cleanup, error>>
generation == <<phase, model, by, bundle>>
files == <<snapshot, copy, rehydrated, stuck>>
vars == <<intake, generation, at, files, result>>

TypeOK ==
  /\ Intake!TypeOK /\ Generation!GenTypeOK
  /\ at \in {"acquire", "inventory", "snapshot", "clean", "rehydrate", "analyse", "generate",
             "dispose", "deliver", "unwindCopy", "unwindWorkspace", "rollback", "finally", "over"}
  /\ snapshot \in Commits \cup {None}
  /\ copy \in {"none", "present", "gone"}
  /\ rehydrated \in BOOLEAN /\ stuck \in BOOLEAN
  /\ result \in {"none", "ready", "failed"}

Init ==
  /\ Intake!Init /\ Generation!GenInit
  /\ at = "acquire" /\ snapshot = None /\ copy = "none" /\ rehydrated = FALSE
  /\ stuck = FALSE /\ result = "none"

-----------------------------------------------------------------------------
Others == UNCHANGED <<intake, generation>>

\* One step of the intake, and what processGitJob makes of its end.
Acquire ==
  /\ at = "acquire" /\ step \notin {"acquired", "refused"}
  /\ Intake!Next
  /\ UNCHANGED <<generation, at, files, result>>

Acquired ==
  /\ at = "acquire" /\ step = "acquired"
  /\ at' = "inventory" /\ Others /\ UNCHANGED <<files, result>>

\* The catch block without a snapshot; acquired is undefined.
NotAcquired ==
  /\ at = "acquire" /\ step = "refused"
  /\ result' = "failed" /\ at' = "finally"
  /\ Others /\ UNCHANGED files

\* inventoryRepository, outside the orchestrator's try block.
Inventory ==
  /\ at = "inventory"
  /\ \/ at' = "snapshot" /\ UNCHANGED result
     \/ at' = "finally" /\ result' = "failed"
  /\ Others /\ UNCHANGED files

\* createSourceSnapshot.
StoreSnapshot ==
  /\ at = "snapshot"
  /\ \/ at' = "clean" /\ snapshot' = head
     \/ at' = "unwindCopy" /\ UNCHANGED snapshot
  /\ Others /\ UNCHANGED <<copy, rehydrated, stuck, result>>

\* Mutant: a failing removal is swallowed.
CleanQuietly ==
  /\ at = "clean"
  /\ Intake!Cleanup
  /\ at' = "rehydrate"
  /\ UNCHANGED <<step, asked, listing, git, helpers, timedOut, exceeded, killed, stray,
                 revision, head, error, generation, files, result>>

\* The workspace goes before anything is generated; a failing removal throws.
Clean ==
  /\ at = "clean"
  /\ Intake!Cleanup
  /\ at' = IF cleanup' = "failed" THEN "unwindCopy" ELSE "rehydrate"
  /\ UNCHANGED <<step, asked, listing, git, helpers, timedOut, exceeded, killed, stray,
                 revision, head, error, generation, files, result>>

\* rehydrateSourceSnapshot: whole, or refused with or without a rest of it.
Rehydrate ==
  /\ at = "rehydrate"
  /\ \/ /\ copy' = "present" /\ rehydrated' = TRUE /\ at' = "analyse" /\ UNCHANGED stuck
     \/ /\ copy' \in {"none", "gone"} /\ at' = "unwindCopy" /\ UNCHANGED <<rehydrated, stuck>>
     \/ /\ copy' = "present" /\ stuck' = TRUE /\ at' = "unwindCopy" /\ UNCHANGED rehydrated
  /\ Others /\ UNCHANGED <<snapshot, result>>

\* analyzeRepository and the deterministic review.
Analyse ==
  /\ at = "analyse"
  /\ at' \in {"generate", "unwindCopy"}
  /\ Others /\ UNCHANGED <<files, result>>

Generate ==
  /\ at = "generate" /\ bundle = None
  /\ Generation!Assemble \/ \E k \in Kinds : Generation!GenStep(k)
  /\ UNCHANGED <<intake, at, files, result>>

Generated ==
  /\ at = "generate" /\ bundle # None
  /\ at' = "dispose" /\ Others /\ UNCHANGED <<files, result>>

\* rm of the copy, which may fail.
RemoveCopy(next, otherwise) ==
  \/ copy' = "gone" /\ stuck' = FALSE /\ at' = next
  \/ copy' = "present" /\ stuck' = TRUE /\ at' = otherwise

\* Mutant: the error of that removal is swallowed.
DisposeQuietly ==
  /\ at = "dispose"
  /\ RemoveCopy("deliver", "deliver")
  /\ rehydrated' = FALSE
  /\ Others /\ UNCHANGED <<snapshot, result>>

\* rehydrated.cleanup() before the review is returned.
Dispose ==
  /\ at = "dispose"
  /\ RemoveCopy("deliver", "unwindCopy")
  /\ rehydrated' = (at' # "deliver")
  /\ Others /\ UNCHANGED <<snapshot, result>>

\* artifacts.save and the transition to ready, or the catch block of the job.
Deliver ==
  /\ at = "deliver"
  /\ at' = "finally"
  /\ \/ result' = "ready" /\ UNCHANGED snapshot
     \/ result' = "failed" /\ snapshot' \in {None, snapshot}
  /\ Others /\ UNCHANGED <<copy, rehydrated, stuck>>

\* cleanTemporaryWorkspaces tries both, whatever becomes of the first.
UnwindCopy ==
  /\ at = "unwindCopy"
  /\ IF rehydrated THEN RemoveCopy("unwindWorkspace", "unwindWorkspace")
                   ELSE at' = "unwindWorkspace" /\ UNCHANGED <<copy, stuck>>
  /\ Others /\ UNCHANGED <<snapshot, rehydrated, result>>

\* materializedCleanup is undefined once the orchestrator has called it.
UnwindWorkspace ==
  /\ at = "unwindWorkspace"
  /\ IF snapshot = None THEN Intake!Cleanup ELSE UNCHANGED <<cleanup, workspace>>
  /\ at' = "rollback"
  /\ UNCHANGED <<step, asked, listing, git, helpers, timedOut, exceeded, killed, stray,
                 revision, head, error, generation, files, result>>

\* deleteSourceSnapshot, which may fail, and the job's catch block.
Rollback ==
  /\ at = "rollback"
  /\ at' = "finally" /\ result' = "failed"
  /\ snapshot' \in {None, snapshot}
  /\ Others /\ UNCHANGED <<copy, rehydrated, stuck>>

\* acquired?.cleanup() with its error swallowed.
Finally ==
  /\ at = "finally"
  /\ IF step = "acquired" THEN Intake!Cleanup ELSE UNCHANGED <<cleanup, workspace>>
  /\ at' = "over"
  /\ UNCHANGED <<step, asked, listing, git, helpers, timedOut, exceeded, killed, stray,
                 revision, head, error, generation, files, result>>

Work ==
  \/ Acquired \/ NotAcquired \/ Inventory \/ StoreSnapshot \/ Clean \/ Rehydrate \/ Analyse
  \/ Generated \/ Dispose \/ Deliver \/ UnwindCopy \/ UnwindWorkspace \/ Rollback \/ Finally

Next == Acquire \/ Generate \/ Work

Spec == Init /\ [][Next]_vars

-----------------------------------------------------------------------------
During(A) == at = "acquire" /\ A /\ UNCHANGED <<generation, at, files, result>>
Calling(A) == at = "generate" /\ A /\ UNCHANGED <<intake, at, files, result>>

\* The event loop runs the worker, its timers fire, a signalled git and the
\* helpers it left end.  A git that nobody signals and a fetch before its
\* headers need not end; a response body is assumed to.
FairSpec ==
  /\ Spec
  /\ WF_vars(Work)
  /\ WF_vars(During(Intake!Create \/ Intake!Spawn \/ Intake!Close \/ Intake!Measure
                    \/ Intake!Remove))
  /\ WF_vars(During(Intake!Timer))
  /\ WF_vars(During(killed /\ Intake!Exit))
  /\ WF_vars(During(Intake!HelpersEnd))
  /\ WF_vars(Calling(Generation!Assemble))
  /\ \A k \in Kinds :
       /\ WF_vars(Calling(Generation!Send(k) \/ Generation!GiveUp(k)))
       /\ WF_vars(Calling(Generation!TimesOut(k)))
       /\ WF_vars(Calling(Generation!Accept(k) \/ Generation!Refuse(k)))

-----------------------------------------------------------------------------
\* What is snapshotted and reviewed is the object the client's ref stood for:
\* the id it named, or the only one the remote listed in full, and HEAD is
\* that id (resolveCommit, commitFromOutput, the HEAD check).
PinnedRevision ==
  at \notin {"acquire", "finally", "over"} =>
    /\ head = revision
    /\ IF asked # None THEN revision = asked ELSE listing = {revision}

\* Nobody writes to the workspace any more when it is measured, read or
\* removed: not git, not a helper of it; only a child whose signal was refused
\* may outlive its command, and such an intake is never acquired ('close'
\* rather than 'exit' settles a command).
QuietWorkspace ==
  /\ step \in {"measure", "acquired"} \/ cleanup # "unused" => git = "none" /\ ~helpers
  /\ stray => step \in {"removing", "refused"}

\* No copy of the source outlives its worker unless a removal of it failed,
\* and then the job is not ready (the four places that remove one, the
\* memoised cleanup, the error a failing removal becomes).
SourceIsDisposed ==
  at = "over" =>
    /\ workspace = "present" => cleanup = "failed" /\ result = "failed"
    /\ copy = "present" => stuck /\ result = "failed"

\* The review is generated from the rehydrated copy alone: the workspace is
\* gone and the source is stored by then.
ReviewedFromTheCopy ==
  at \in {"analyse", "generate"} =>
    workspace = "gone" /\ copy = "present" /\ snapshot = revision

\* The bundle says who wrote it: it holds what the settled calls returned,
\* names exactly the identities that wrote a concept, and a concept is left
\* deterministic only after every model was tried (Promise.all, the
\* generation metadata).
BundleIsHonest ==
  bundle # None =>
    /\ bundle.written = by
    /\ \A k \in Kinds : by[k] = None => model[k] > Models
    /\ bundle.models = {by[k] : k \in Kinds} \ {None}
    /\ bundle.generator = "model-provider" <=> \A k \in Kinds : by[k] # None
    /\ bundle.generator = "deterministic-baseline" <=> \A k \in Kinds : by[k] = None

\* Every worker ends, whatever git and the provider do (the timers).
WorkerEnds == <>(at = "over")

-----------------------------------------------------------------------------
\* What the intake knows at each of its steps: the flags of a command are reset
\* with it and a kill has one of two reasons, so an output that is used is the
\* whole output; helpers are waited for; a workspace is there from Create on and
\* its removal is tried exactly once.
IntakeFits ==
  /\ git = "none" => ~timedOut /\ ~exceeded /\ ~killed
  /\ killed => timedOut \/ exceeded
  /\ git # "none" => step \in Intake!Commands
  /\ helpers => git \in {"exited", "exitedBadly"}
  /\ stray => step \in {"removing", "refused"}
  /\ step = "ls-remote" => asked = None
  /\ step \in {"ls-remote", "create"} => workspace = "none"
  /\ step \in {"init", "remote", "fetch", "checkout", "rev-parse", "measure", "removing"}
       => workspace = "present" /\ cleanup = "unused"
  /\ step = "refused" => workspace = "none" \/ cleanup # "unused"
  /\ step = "acquired" => workspace # "none"
  /\ step \notin {"ls-remote", "removing", "refused"} =>
       IF asked # None THEN revision = asked ELSE listing = {revision}
  /\ step \in {"measure", "acquired"} => head = revision
  /\ cleanup = "unused" => workspace # "gone"
  /\ cleanup = "done" => workspace = "gone"
  /\ cleanup = "failed" => workspace = "present"
  /\ cleanup # "unused" => step \in {"acquired", "refused"}

\* Where the worker stands tells which copies of the source there still are.
WorkerFits ==
  /\ at = "acquire" => result = "none" /\ (cleanup = "unused" \/ step = "refused")
  /\ at \notin {"acquire", "finally", "over"} => step = "acquired" /\ result = "none"
  /\ at \in {"finally", "over"} => step \in {"acquired", "refused"} /\ result # "none"
  /\ at = "clean" => snapshot = revision
  /\ at \in {"rehydrate", "analyse", "generate", "dispose", "deliver"} =>
       cleanup = "done" /\ snapshot = revision
  /\ at \in {"acquire", "inventory", "snapshot", "clean", "rehydrate"} => copy = "none"
  /\ at \in {"analyse", "generate", "dispose"} => copy = "present" /\ rehydrated
  /\ at = "deliver" => copy = "gone"
  /\ at = "unwindCopy" /\ copy = "present" => rehydrated \/ stuck
  /\ at \in {"unwindWorkspace", "rollback", "finally", "over"} /\ copy = "present" => stuck
  /\ result = "ready" => cleanup = "done" /\ copy = "gone"
  /\ at = "over" /\ step = "acquired" => cleanup # "unused"

\* A concept that is settled was written by a model or has tried them all, and
\* once there is a bundle no concept changes any more.
ConceptsFit ==
  /\ \A k \in Kinds :
       /\ phase[k] # "settled" => by[k] = None
       /\ phase[k] \in {"fetch", "body"} => model[k] <= Models
       /\ phase[k] = "settled" /\ by[k] = None => model[k] > Models
  /\ bundle # None => \A k \in Kinds : phase[k] = "settled"

\* The inductive invariant behind the theorems of GitReviewProofs.
IInv ==
  /\ TypeOK /\ IntakeFits /\ WorkerFits /\ ConceptsFit /\ BundleIsHonest
=============================================================================

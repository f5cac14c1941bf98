------------------------------- MODULE GitIntake -------------------------------
(***************************************************************************)
(* packages/git-intake: a public repository is resolved to one object id,  *)
(* fetched into a fresh workspace and checked, by six git commands run one *)
(* after the other.  A command is a child process that races its timer,    *)
(* its output limit and a kill that may be refused.                        *)
(***************************************************************************)
EXTENDS Integers

CONSTANTS
  Commits,   \* object ids of commits
  Tags,      \* object ids of annotated tags
  Peel,      \* the commit each tag points to: what a checkout of it leaves in HEAD
  None

VARIABLES
  step,       \* where intakePublicGitRepository stands, a command by its name
  asked,      \* requestedRef when it is a full object id, None for a name or the default branch
  listing,    \* the object ids ls-remote has to print for that name
  git,        \* the child of the current command
  helpers,    \* processes git has started and that hold its pipes outlive it
  timedOut, exceeded, killed,   \* flags of runGitCommand, and whether a signal arrived
  stray,      \* a child that could not be killed was left behind
  revision, head,   \* the id the intake works on, and what HEAD is in the workspace
  workspace,
  cleanup,    \* the memoised promise of cleanupWorkspace
  error       \* the code the intake throws

process == <<git, helpers, timedOut, exceeded, killed>>
request == <<asked, listing>>
vars == <<step, request, process, stray, revision, head, workspace, cleanup, error>>

Objects == Commits \cup Tags
Commands == {"ls-remote", "init", "remote", "fetch", "checkout", "rev-parse"}
Errors == {"GIT_TIMEOUT", "GIT_OUTPUT_LIMIT", "GIT_TRANSPORT_FAILED", "GIT_HEAD_MISMATCH",
           "REPOSITORY_SIZE_LIMIT", "WORKSPACE_CREATE_FAILED", "WORKSPACE_CLEANUP_FAILED"}

TypeOK ==
  /\ step \in Commands \cup {"create", "measure", "acquired", "removing", "refused"}
  /\ asked \in Objects \cup {None} /\ listing \subseteq Objects
  /\ git \in {"none", "running", "exited", "exitedBadly"}
  /\ helpers \in BOOLEAN /\ timedOut \in BOOLEAN /\ exceeded \in BOOLEAN
  /\ killed \in BOOLEAN /\ stray \in BOOLEAN
  /\ revision \in Objects \cup {None} /\ head \in Commits \cup {None}
  /\ workspace \in {"none", "present", "gone"}
  /\ cleanup \in {"unused", "done", "failed"}
  /\ error \in Errors \cup {"none"}

\* The URL and the ref have passed parsePublicGitHubRepository and validRef.
Init ==
  /\ asked \in Objects \cup {None}
  /\ IF asked = None THEN listing \in SUBSET Objects ELSE listing = {}
  /\ step = IF asked = None THEN "ls-remote" ELSE "create"
  /\ revision = asked /\ head = None
  /\ git = "none" /\ helpers = FALSE /\ timedOut = FALSE /\ exceeded = FALSE
  /\ killed = FALSE /\ stray = FALSE
  /\ workspace = "none" /\ cleanup = "unused" /\ error = "none"

-----------------------------------------------------------------------------
\* The memoised removal of the workspace: it runs once, and every later call
\* gets the promise of the first.
Cleanup ==
  \/ cleanup = "unused" /\ cleanup' = "done" /\ workspace' = "gone"
  \/ cleanup = "unused" /\ cleanup' = "failed" /\ UNCHANGED workspace
  \/ cleanup # "unused" /\ UNCHANGED <<cleanup, workspace>>

\* What a throw leads to: before there is a workspace the intake is over.
Throw(code) ==
  /\ error' = code
  /\ step' = IF workspace = "none" THEN "refused" ELSE "removing"

\* mkdir and mkdtemp.
Create ==
  /\ step = "create"
  /\ \/ step' = "init" /\ workspace' = "present" /\ UNCHANGED error
     \/ Throw("WORKSPACE_CREATE_FAILED") /\ UNCHANGED workspace
  /\ UNCHANGED <<request, process, stray, revision, head, cleanup>>

-----------------------------------------------------------------------------
\* runGitCommand.  git is the child; the timer is armed while it is not "none".

Settled == /\ git' = "none" /\ timedOut' = FALSE /\ exceeded' = FALSE /\ killed' = FALSE

\* spawn throws, or the child reports 'error' instead of starting.
SpawnFails ==
  /\ step \in Commands /\ git = "none"
  /\ Throw("GIT_TRANSPORT_FAILED")
  /\ UNCHANGED <<request, process, stray, revision, head, workspace, cleanup>>

Spawn ==
  /\ step \in Commands /\ git = "none"
  /\ git' = "running"
  /\ UNCHANGED <<step, request, helpers, timedOut, exceeded, killed, stray,
                 revision, head, workspace, cleanup, error>>

\* child.kill(): a signal, nothing when the child is gone already, or, when the
\* signal is refused, an 'error' event, which settles the command at once.
Kill ==
  \/ /\ killed' = (killed \/ git = "running")
     /\ UNCHANGED <<step, git, helpers, stray, error>>
  \/ /\ git = "running"
     /\ stray' = TRUE /\ git' = "none" /\ killed' = FALSE
     /\ Throw("GIT_TRANSPORT_FAILED")
     /\ UNCHANGED helpers

\* Mutant: the timer only remembers that it fired.
TimerWithoutKill ==
  /\ git # "none" /\ ~timedOut
  /\ timedOut' = TRUE
  /\ UNCHANGED <<step, request, git, helpers, exceeded, killed, stray, revision, head,
                 workspace, cleanup, error>>

\* The timer fires any time before the command settles, also after the exit.
Timer ==
  /\ git # "none" /\ ~timedOut
  /\ Kill
  /\ timedOut' = (git' # "none") /\ exceeded' = (exceeded /\ git' # "none")
  /\ UNCHANGED <<request, revision, head, workspace, cleanup>>

\* stdout and stderr together pass the limit.
Overflow ==
  /\ git # "none" /\ ~exceeded
  /\ Kill
  /\ exceeded' = (git' # "none") /\ timedOut' = (timedOut /\ git' # "none")
  /\ UNCHANGED <<request, revision, head, workspace, cleanup>>

\* git ends on its own or by the signal, which may also come too late to matter.
\* Its helpers may still be at work in the workspace.
Exit ==
  /\ git = "running"
  /\ git' \in {"exited", "exitedBadly"}
  /\ step = "rev-parse" /\ head = None => git' = "exitedBadly"
  /\ helpers' \in BOOLEAN
  /\ head' = IF step = "checkout" /\ git' = "exited"
             THEN IF revision \in Tags THEN Peel[revision] ELSE revision
             ELSE head
  /\ UNCHANGED <<step, request, timedOut, exceeded, killed, stray, revision,
                 workspace, cleanup, error>>

HelpersEnd ==
  /\ helpers /\ helpers' = FALSE
  /\ UNCHANGED <<step, request, git, timedOut, exceeded, killed, stray, revision,
                 head, workspace, cleanup, error>>

\* What the command has printed; a killed child or a full buffer cuts it short.
Complete == CASE step = "ls-remote" -> listing
              [] step = "rev-parse" -> {head} \ {None}
              [] OTHER -> {}
Printed(out) == IF killed \/ exceeded THEN out \subseteq Complete ELSE out = Complete

Following == [init |-> "remote", remote |-> "fetch", fetch |-> "checkout",
              checkout |-> "rev-parse"]

\* commitFromOutput takes an output that names exactly one object.
NamesOne(out) == \E o \in Objects : out = {o}

\* Mutant: HEAD is read and not compared.
HeadIsAny(out) == out # {}

\* The check of HEAD against the resolved revision.
HeadIsRevision(out) == out = {revision}

Resolves(out) ==
  CASE step \in DOMAIN Following ->
         step' = Following[step] /\ UNCHANGED <<revision, error>>
    [] step \notin DOMAIN Following /\ ~NamesOne(out) ->
         Throw("GIT_TRANSPORT_FAILED") /\ UNCHANGED revision
    [] step = "ls-remote" /\ NamesOne(out) ->
         revision' \in out /\ step' = "create" /\ UNCHANGED error
    [] step = "rev-parse" /\ NamesOne(out) ->
         /\ UNCHANGED revision
         /\ IF HeadIsRevision(out)
            THEN step' = "measure" /\ UNCHANGED error
            ELSE Throw("GIT_HEAD_MISMATCH")

Verdict(out) ==
  CASE timedOut -> Throw("GIT_TIMEOUT") /\ UNCHANGED revision
    [] ~timedOut /\ exceeded -> Throw("GIT_OUTPUT_LIMIT") /\ UNCHANGED revision
    [] ~timedOut /\ ~exceeded /\ git = "exitedBadly" ->
         Throw("GIT_TRANSPORT_FAILED") /\ UNCHANGED revision
    [] ~timedOut /\ ~exceeded /\ git = "exited" -> Resolves(out)

\* Mutant: the 'exit' event, which does not wait for the pipes.
Exited == git \in {"exited", "exitedBadly"}

\* The 'close' event: git has ended and nobody holds its pipes any more.
Closed == git \in {"exited", "exitedBadly"} /\ ~helpers

Close ==
  /\ Closed
  /\ \E out \in SUBSET Objects : Printed(out) /\ Verdict(out)
  /\ Settled
  /\ UNCHANGED <<request, helpers, stray, head, workspace, cleanup>>

-----------------------------------------------------------------------------
\* workspaceBytes: within the limit, or too large, or an entry it refuses.
Measure ==
  /\ step = "measure"
  /\ \/ step' = "acquired" /\ UNCHANGED error
     \/ Throw("REPOSITORY_SIZE_LIMIT")
  /\ UNCHANGED <<request, process, stray, revision, head, workspace, cleanup>>

\* The catch block.
Remove ==
  /\ step = "removing"
  /\ Cleanup
  /\ step' = "refused"
  /\ error' = IF cleanup' = "failed" THEN "WORKSPACE_CLEANUP_FAILED" ELSE error
  /\ UNCHANGED <<request, process, stray, revision, head>>

Next ==
  \/ Create \/ SpawnFails \/ Spawn \/ Timer \/ Overflow \/ Exit \/ HelpersEnd
  \/ Close \/ Measure \/ Remove

Spec == Init /\ [][Next]_vars
=============================================================================

------------------------------- MODULE WebClient -------------------------------
(***************************************************************************)
(* The page of apps/web (app.js) with its two clients (upload-client.js,   *)
(* live-client.js), both configured, as the server that serves the page    *)
(* configures them.  An action is one turn of the browser's event loop:    *)
(* an event handler or the continuation of an await, with the rejections   *)
(* it causes, which run as microtasks before the next turn.  The page is   *)
(* inert under the modal upload dialog.  ZIP and GitHub uploads differ in  *)
(* what they send; they share their panel and their abort controller.      *)
(* What is typed into forms, texts and the choice of tabs are left out.    *)
(***************************************************************************)
EXTENDS Naturals

CONSTANTS
  MaxUploads,   \* bound on the uploads of one visit
  MaxAttempts,  \* maxPollAttempts, 240
  MaxLoads,     \* bound on the repeated loads of the demonstration in flight
  None

ASSUME BoundsAssumption ==
  /\ MaxUploads \in Nat /\ MaxAttempts \in Nat \ {0} /\ MaxLoads \in Nat \ {0}
  /\ None \notin 0 .. MaxUploads /\ None \notin {"cut", "torn", "late"}

VARIABLES
  sessions,   \* reviewSessions: the state of the review stored under each key
  selected,   \* activeReviewKey
  mode,       \* activeReviewMode: which client is asked
  fixture,    \* the review on the page and its state
  answer,     \* selectedAnswer: the review it is about
  question,   \* the review of the question in flight, or None; questionPending
  loads,      \* calls of reviewClient.load in flight, "boot" and "again"
  dialog,     \* the upload dialog is open
  panel,      \* uploadProgress.state
  controller, \* uploadAbortController, named by the upload it was made for
  upload,     \* the uploads, numbered as they are begun
  moved,      \* history: the page changed its review under a question
  overlapped  \* history: uploads begun while another one was running

review == <<sessions, selected, mode, fixture, answer, question, loads, moved>>
intake == <<dialog, panel, controller, upload, overlapped>>
vars   == <<review, intake>>

Uploads == 1 .. MaxUploads
Demo    == 0
Keys    == Uploads \cup {Demo}

\* The panel's states by what its buttons do in them: "failed" stands for the
\* failures that Cancel tries again, "gone" for expired and deleted, "idle"
\* also for an invalid file, "processing" also for queued.
Busy     == {"uploading", "processing"}
Failures == {"failed", "gone", "rate-limited"}

\* The states that show the form.
FormReady == {"idle"} \cup Failures

\* How the two loads of the demonstration end, "loading" also for "empty":
\* neither has a button.
LoadOutcomes == {"loading", "ready", "failed"}

\* An upload awaits a fetch, a response body or a timer.
Awaits == {"posting", "accepting", "polling", "readingJob", "sleeping", "loading",
           "readingReview"}

\* Mutant: the review is loaded without the signal.
WithoutLoading == {"posting", "polling", "sleeping"}

\* An abort rejects a pending fetch and wakes a sleep.  It is not noticed
\* while a response body is read: the body then breaks, or is already there.
Interruptible == {"posting", "polling", "sleeping", "loading"}

\* An abort cuts an upload short, or it tears the body that is being read,
\* the last of them perhaps too late.
Stop(pc) == IF pc = "readingReview" THEN "late" ELSE "torn"

Upload == [pc : Awaits \cup {"none", "done"}, attempt : 0 .. MaxAttempts,
           stop : {None, "cut", "torn", "late"}]

TypeOK ==
  /\ sessions \in [Keys -> {"absent", "loading", "ready", "failed"}]
  /\ selected \in Keys /\ mode \in {"demo", "upload"}
  /\ fixture \in [of : Keys, state : {"loading", "ready", "failed"}]
  /\ answer \in Keys /\ question \in Keys \cup {None}
  /\ loads \in [{"boot", "again"} -> 0 .. MaxLoads]
  /\ dialog \in BOOLEAN /\ panel \in FormReady \cup Busy \cup {"ready"}
  /\ controller \in Uploads \cup {None}
  /\ upload \in [Uploads -> Upload]
  /\ moved \in BOOLEAN /\ overlapped \subseteq Uploads

Init ==
  /\ sessions = [k \in Keys |-> IF k = Demo THEN "loading" ELSE "absent"]
  /\ selected = Demo /\ mode = "demo"
  /\ fixture = [of |-> Demo, state |-> "loading"]
  /\ answer = Demo /\ question = None
  /\ loads = [load \in {"boot", "again"} |-> IF load = "boot" THEN 1 ELSE 0]
  /\ dialog = FALSE /\ panel = "idle" /\ controller = None
  /\ upload = [u \in Uploads |-> [pc |-> "none", attempt |-> 0, stop |-> None]]
  /\ moved = FALSE /\ overlapped = {}

Running(u) == upload[u].pc \in Awaits
Aborted(u) == upload[u].stop # None

-----------------------------------------------------------------------------
(* The review on the page. *)

\* applyReview: the answer becomes one of the review's own examples.
ApplyReview(key, state) ==
  /\ fixture' = [of |-> key, state |-> state]
  /\ answer' = key
  /\ moved' = (question # None)

\* The review switcher.
SwitchReview(key) ==
  /\ ~dialog
  /\ sessions[key] # "absent"
  /\ selected' = key
  /\ mode' = IF key = Demo THEN "demo" ELSE "upload"
  /\ ApplyReview(key, sessions[key])
  /\ UNCHANGED <<sessions, question, loads, intake>>

\* load at the start of the page, whenever its answer comes.
DemoLoaded(state) ==
  /\ loads["boot"] > 0
  /\ loads' = [loads EXCEPT !["boot"] = @ - 1]
  /\ sessions' = [sessions EXCEPT ![Demo] = state]
  /\ ApplyReview(Demo, state)
  /\ UNCHANGED <<selected, mode, question, intake>>

\* The button of a review that is not ready: it loads the demonstration.
StateAction ==
  /\ ~dialog /\ fixture.state = "failed"
  /\ loads["again"] < MaxLoads
  /\ loads' = [loads EXCEPT !["again"] = @ + 1]
  /\ fixture' = [of |-> Demo, state |-> "loading"]
  /\ moved' = TRUE
  /\ UNCHANGED <<sessions, selected, mode, answer, question, intake>>

\* Its answer: neither the selected session nor the mode is asked for.
LoadedAgain(state) ==
  /\ loads["again"] > 0
  /\ loads' = [loads EXCEPT !["again"] = @ - 1]
  /\ ApplyReview(Demo, state)
  /\ UNCHANGED <<sessions, selected, mode, question, intake>>

\* The state selector, a development affordance.
SelectState(state) ==
  /\ ~dialog
  /\ fixture' = [of |-> Demo, state |-> state]
  /\ moved' = TRUE
  /\ UNCHANGED <<sessions, selected, mode, answer, question, loads, intake>>

\* An uploaded review is asked about by the id on the page; the client of the
\* demonstration sends the id that it has loaded itself.
Asked == IF mode = "upload" THEN fixture.of ELSE Demo

\* The chat form, which is disabled while a question is pending.
Ask ==
  /\ ~dialog /\ fixture.state = "ready" /\ question = None
  /\ question' = Asked
  /\ moved' = FALSE
  /\ UNCHANGED <<sessions, selected, mode, fixture, answer, loads, intake>>

\* The answer goes to the page, whatever review it shows by now.
Answered ==
  /\ question # None
  /\ answer' = question /\ question' = None
  /\ UNCHANGED <<sessions, selected, mode, fixture, loads, moved, intake>>

\* A failed question marks the review that is on the page by now.
QuestionFails ==
  /\ question # None
  /\ question' = None
  /\ fixture' = [fixture EXCEPT !.state = "failed"]
  /\ UNCHANGED <<sessions, selected, mode, answer, loads, moved, intake>>

-----------------------------------------------------------------------------
(* The upload dialog. *)

\* The uploads after uploadAbortController?.abort().
AfterAbort ==
  [u \in Uploads |->
     IF u # controller THEN upload[u]
     ELSE IF upload[u].pc \in Interruptible
       THEN [pc |-> "done", attempt |-> 0, stop |-> "cut"]
       ELSE [upload[u] EXCEPT !.stop = Stop(upload[u].pc)]]

OpenDialog ==
  /\ ~dialog
  /\ dialog' = TRUE /\ panel' = "idle"
  /\ upload' = AfterAbort /\ controller' = None
  /\ UNCHANGED <<review, overlapped>>

\* The close button, Escape, and with it the listener of the close event.
CloseDialog ==
  /\ dialog
  /\ dialog' = FALSE
  /\ upload' = AfterAbort /\ controller' = None
  /\ UNCHANGED <<review, panel, overlapped>>

\* Mutant: a source tab lets go of the controller.
ChooseSourceForgets ==
  /\ dialog /\ panel # "idle"
  /\ panel' = "idle" /\ controller' = None
  /\ UNCHANGED <<review, dialog, upload, overlapped>>

\* A source tab, shown also while an upload is running, and the choice of a
\* file in the form: neither aborts anything.
ChooseSource ==
  /\ dialog /\ panel # "idle"
  /\ panel' = "idle"
  /\ UNCHANGED <<review, dialog, controller, upload, overlapped>>

\* submitUpload and submitGitHubReview up to their await.  If the abort ends
\* the older upload at once, its catch block runs after this handler, and
\* forgets the controller that the handler has just made.
Begin(u) ==
  /\ upload[u].pc = "none" /\ \A v \in Uploads : v < u => upload[v].pc # "none"
  /\ upload' = [AfterAbort EXCEPT ![u].pc = "posting", ![u].attempt = 1]
  /\ controller' = IF \E v \in Uploads : Running(v) /\ AfterAbort[v].pc = "done"
                     THEN None ELSE u
  /\ overlapped' = IF \E v \in Uploads : Running(v)
                     THEN overlapped \cup {u} ELSE overlapped
  /\ panel' = "uploading"
  /\ UNCHANGED <<review, dialog>>

\* Input that does not validate: the ZIP form says so as "idle", the GitHub
\* form as a failure; an upload that is running goes on.
RefuseInput ==
  /\ panel' \in {"idle", "failed"}
  /\ UNCHANGED <<review, dialog, controller, upload, overlapped>>

Submit(u) == dialog /\ panel \in FormReady /\ (Begin(u) \/ RefuseInput)

\* The button #cancel-upload, which the form of a failure shows too.
Cancel ==
  /\ dialog
  /\ \/ /\ panel \in Busy
        /\ upload' = AfterAbort /\ controller' = None /\ panel' = "idle"
        /\ UNCHANGED <<review, dialog, overlapped>>
     \/ panel = "failed" /\ (RefuseInput \/ \E u \in Uploads : Begin(u))
     \/ panel = "gone" /\ panel' = "idle"
        /\ UNCHANGED <<review, dialog, controller, upload, overlapped>>
     \/ panel \notin Busy \cup {"failed", "gone"} /\ CloseDialog

-----------------------------------------------------------------------------
(* One upload: uploadAndPoll or createGitHubReview with pollJob and         *)
(* loadCompletedReview, and the rest of its submit handler.                 *)

Goes(u, pc) == upload' = [upload EXCEPT ![u].pc = pc]

Ends(u) ==
  upload' = [upload EXCEPT ![u] = [pc |-> "done", attempt |-> 0, stop |-> @.stop]]

\* The catch block; nothing is shown of an upload that noticed its abort.
Silent(u) ==
  /\ Ends(u) /\ controller' = None
  /\ UNCHANGED <<review, dialog, panel, overlapped>>

Fail(u, state) ==
  /\ Ends(u) /\ controller' = None
  /\ panel' = state
  /\ UNCHANGED <<review, dialog, overlapped>>

\* A fetch is answered, with a body to read, or fails.
Respond(u, pc, reading, states) ==
  /\ upload[u].pc = pc
  /\ \/ Goes(u, reading) /\ UNCHANGED <<review, dialog, panel, controller, overlapped>>
     \/ \E state \in states : Fail(u, state)

\* The next request of an aborted upload is rejected before it is sent.
Request(u, pc) ==
  IF Aborted(u)
    THEN Silent(u)
    ELSE Goes(u, pc) /\ UNCHANGED <<review, dialog, panel, controller, overlapped>>

\* The POST of uploadAndPoll or createGitHubReview, and its body.
Posted(u) == Respond(u, "posting", "accepting", {"failed", "rate-limited"})

Accepted(u) ==
  /\ upload[u].pc = "accepting"
  /\ Request(u, "polling") \/ Fail(u, "failed")

\* A poll of pollJob.
Polled(u) == Respond(u, "polling", "readingJob", Failures)

\* Mutant: the attempts are not counted.
SleepUncounted(u) ==
  /\ Goes(u, "sleeping") /\ panel' = "processing"
  /\ UNCHANGED <<review, dialog, controller, overlapped>>

\* The job is shown as it is; also an upload that is already aborted sleeps.
Sleep(u) ==
  /\ upload' = [upload EXCEPT ![u].pc = "sleeping", ![u].attempt = @ + 1]
  /\ panel' = "processing"
  /\ UNCHANGED <<review, dialog, controller, overlapped>>

\* Mutant: a poll that times out is taken for one that was aborted.
StillWorkingQuietly(u) ==
  /\ upload[u].pc = "readingJob"
  /\ IF upload[u].attempt < MaxAttempts THEN Sleep(u) ELSE Silent(u)

StillWorking(u) ==
  /\ upload[u].pc = "readingJob"
  /\ IF upload[u].attempt < MaxAttempts THEN Sleep(u) ELSE Fail(u, "failed")

JobReady(u) ==
  /\ upload[u].pc = "readingJob"
  /\ IF Aborted(u) THEN Ends(u) ELSE Goes(u, "loading")
  /\ controller' = IF Aborted(u) THEN None ELSE controller
  /\ panel' = "processing"
  /\ UNCHANGED <<review, dialog, overlapped>>

\* A terminal state, or a body that is broken or not a job.
JobFails(u) ==
  /\ upload[u].pc = "readingJob"
  /\ \E state \in {"failed", "gone"} : Fail(u, state)

\* The timer; the loop looks at the signal before it polls again.
Awake(u) == upload[u].pc = "sleeping" /\ Request(u, "polling")

\* loadCompletedReview.
Loaded(u) == Respond(u, "loading", "readingReview", Failures)

\* Mutant: the questions still go to the demonstration's client.
SucceedInMode(u) ==
  /\ upload[u].pc = "readingReview"
  /\ Ends(u) /\ controller' = None
  /\ sessions' = [sessions EXCEPT ![u] = "ready"]
  /\ selected' = u
  /\ ApplyReview(u, "ready")
  /\ panel' = "ready" /\ dialog' = FALSE
  /\ UNCHANGED <<mode, question, loads, overlapped>>

\* The review is stored and opened.  The dialog's close event finds no
\* controller to abort.
Succeed(u) ==
  /\ upload[u].pc = "readingReview"
  /\ Ends(u) /\ controller' = None
  /\ sessions' = [sessions EXCEPT ![u] = "ready"]
  /\ selected' = u /\ mode' = "upload"
  /\ ApplyReview(u, "ready")
  /\ panel' = "ready" /\ dialog' = FALSE
  /\ UNCHANGED <<question, loads, overlapped>>

\* A body that is broken or not a review.
ReviewInvalid(u) == upload[u].pc = "readingReview" /\ Fail(u, "failed")

UploadStep(u) ==
  \/ Posted(u) \/ Accepted(u) \/ Polled(u) \/ StillWorking(u) \/ JobReady(u)
  \/ JobFails(u) \/ Awake(u) \/ Loaded(u) \/ Succeed(u) \/ ReviewInvalid(u)

-----------------------------------------------------------------------------

Next ==
  \/ \E u \in Uploads : UploadStep(u) \/ Submit(u)
  \/ OpenDialog \/ CloseDialog \/ ChooseSource \/ Cancel
  \/ \E key \in Keys : SwitchReview(key)
  \/ \E state \in LoadOutcomes :
       DemoLoaded(state) \/ LoadedAgain(state) \/ SelectState(state)
  \/ StateAction \/ Ask \/ Answered \/ QuestionFails

\* Requests are answered or fail, bodies end, and timers fire; the user may
\* do nothing.
Spec == Init /\ [][Next]_vars /\ \A u \in Uploads : WF_vars(UploadStep(u))

-----------------------------------------------------------------------------

\* A review that the user has aborted is never stored or opened, whatever
\* its requests were doing and whatever answers came later.  The exception is
\* an abort that meets the last body, which may be complete by then.
AbortedStaysAway ==
  \A u \in Uploads :
    sessions[u] # "absent" => upload[u].stop \in {None, "late"}

\* The chat shows the answer of the review on the page, and asks about it, as
\* long as the page has not changed its review under a pending question
\* (another session, an upload that completes, the demonstration that arrives
\* late) or by the development selector: then the code shows what it gets.
AnswerFitsReview ==
  fixture.state = "ready" /\ ~moved
    => fixture.of = (IF question # None THEN question ELSE answer)

\* The dialog does not show progress that is not there: some upload is under
\* way behind it, unless an abort has met an upload between a response and its
\* body, which can leave the panel at "processing" for good.
BusyMeansRunning ==
  dialog /\ panel \in Busy
    => \E u \in Uploads : Running(u) \/ upload[u].stop = "torn"

\* The latest upload can be cancelled: the controller that Cancel and the
\* dialog abort is its own.  The exception is an upload begun while an older
\* one was running: the catch block of the older one forgets its controller.
StaysCancellable ==
  \A u \in Uploads :
    /\ Running(u) /\ ~Aborted(u) /\ u \notin overlapped
    /\ \A v \in Uploads : v > u => upload[v].pc = "none"
    => controller = u

\* Whatever the server answers, and if it answers "processing" for ever, an
\* upload comes to an end.
EveryUploadEnds == \A u \in Uploads : Running(u) ~> ~Running(u)

-----------------------------------------------------------------------------
(* The inductive invariant of WebClientProofs. *)

\* The controller is that of an upload which runs and was not aborted.
ControllerRuns ==
  controller # None => Running(controller) /\ ~Aborted(controller)

\* Where an upload can be that an abort has met.
AbortsBite ==
  \A u \in Uploads :
    /\ upload[u].pc = "none" => upload[u].stop = None
    /\ upload[u].stop = "cut" => upload[u].pc = "done"
    /\ upload[u].stop = "torn" =>
         upload[u].pc \in {"accepting", "readingJob", "sleeping", "done"}
    /\ upload[u].stop = "late" => upload[u].pc \in {"readingReview", "done"}

StoredIsDone == \A u \in Uploads : sessions[u] # "absent" => upload[u].pc = "done"

BegunInOrder ==
  \A u, v \in Uploads : v < u /\ upload[u].pc # "none" => upload[v].pc # "none"

OverlapsAreKnown ==
  \A u, v \in Uploads : v < u /\ Running(u) /\ Running(v) => u \in overlapped

\* The client of the demonstration is asked about nothing else.
DemoIsShown == mode = "demo" => fixture.of = Demo

IInv ==
  /\ TypeOK
  /\ ControllerRuns /\ AbortsBite /\ StoredIsDone /\ BegunInOrder /\ OverlapsAreKnown
  /\ DemoIsShown
  /\ AbortedStaysAway /\ AnswerFitsReview /\ BusyMeansRunning /\ StaysCancellable
=============================================================================

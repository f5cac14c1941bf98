---------------------------- MODULE WebClientProofs ----------------------------
(***************************************************************************)
(* Theorems about the page for any number of uploads and of polls: what    *)
(* was cancelled stays away, the latest upload can be cancelled, progress  *)
(* is not shown without an upload, and answers fit the review on display.  *)
(***************************************************************************)
EXTENDS WebClient, TLAPS

\* The page starts with no uploads.
LEMMA InitEstablishes == Init => IInv
<1> SUFFICES ASSUME Init PROVE IInv
  OBVIOUS
<1> USE DEF Init
<1>1. Demo \in Keys /\ Demo \notin Uploads
  BY BoundsAssumption DEF Keys, Uploads, Demo
<1>2. TypeOK
  <2>1. [pc |-> "none", attempt |-> 0, stop |-> None] \in Upload
    BY BoundsAssumption DEF Upload
  <2>2. upload \in [Uploads -> Upload] /\ panel \in FormReady
    BY <2>1 DEF FormReady
  <2>3. sessions \in [Keys -> {"absent", "loading", "ready", "failed"}]
    OBVIOUS
  <2>4. fixture \in [of : Keys, state : {"loading", "ready", "failed"}]
    BY <1>1
  <2>5. loads \in [{"boot", "again"} -> 0 .. MaxLoads]
    <3>1. 0 \in 0 .. MaxLoads /\ 1 \in 0 .. MaxLoads
      BY BoundsAssumption
    <3> QED
      BY <3>1
  <2> QED
    BY <1>1, <2>2, <2>3, <2>4, <2>5 DEF TypeOK
<1>3. ControllerRuns /\ AbortsBite /\ StoredIsDone /\ BegunInOrder /\ OverlapsAreKnown
  BY <1>1, BoundsAssumption DEF ControllerRuns, AbortsBite, StoredIsDone, BegunInOrder,
     OverlapsAreKnown, Running, Awaits, Keys
<1>4. DemoIsShown /\ AbortedStaysAway /\ AnswerFitsReview /\ BusyMeansRunning /\ StaysCancellable
  BY <1>1 DEF DemoIsShown, AbortedStaysAway, AnswerFitsReview, BusyMeansRunning, Busy,
     StaysCancellable, Running, Awaits, Keys
<1> QED
  BY <1>2, <1>3, <1>4 DEF IInv

\* Whatever the page does about its reviews, the uploads do not depend on it.
LEMMA ReviewStepsKeep ==
  ASSUME IInv,
         \/ \E key \in Keys : SwitchReview(key)
         \/ \E state \in LoadOutcomes :
              DemoLoaded(state) \/ LoadedAgain(state) \/ SelectState(state)
         \/ StateAction \/ Ask \/ Answered \/ QuestionFails
  PROVE  IInv'
<1>1. UNCHANGED intake
  BY DEF SwitchReview, DemoLoaded, LoadedAgain, SelectState, StateAction, Ask, Answered,
     QuestionFails, intake
<1>2. Demo \in Keys /\ Demo \notin Uploads /\ None \notin Keys
  BY BoundsAssumption DEF Keys, Uploads, Demo
<1>3. \/ sessions' = sessions
      \/ \E state \in LoadOutcomes : sessions' = [sessions EXCEPT ![Demo] = state]
  BY DEF SwitchReview, DemoLoaded, LoadedAgain, SelectState, StateAction, Ask, Answered,
     QuestionFails
<1>4. \A u \in Uploads : sessions'[u] = sessions[u]
  BY <1>2, <1>3 DEF IInv, TypeOK, Keys
<1>4a. loads' \in [{"boot", "again"} -> 0 .. MaxLoads]
  <2>1. /\ loads \in [{"boot", "again"} -> 0 .. MaxLoads]
        /\ \/ loads' = loads
           \/ /\ loads["again"] < MaxLoads
              /\ loads' = [loads EXCEPT !["again"] = loads["again"] + 1]
           \/ \E load \in {"boot", "again"} :
                loads[load] > 0 /\ loads' = [loads EXCEPT ![load] = loads[load] - 1]
    BY DEF IInv, TypeOK, SwitchReview, DemoLoaded, LoadedAgain, SelectState, StateAction,
       Ask, Answered, QuestionFails
  <2>2. /\ loads["again"] < MaxLoads => loads["again"] + 1 \in 0 .. MaxLoads
        /\ \A load \in {"boot", "again"} : loads[load] > 0 => loads[load] - 1 \in 0 .. MaxLoads
    BY <2>1, BoundsAssumption
  <2> QED
    BY <2>1, <2>2
<1>5. TypeOK'
  <2>1. ASSUME NEW key \in Keys, SwitchReview(key) PROVE TypeOK'
    BY <1>1, <1>2, <2>1 DEF IInv, TypeOK, SwitchReview, ApplyReview, intake
  <2>2. ASSUME NEW state \in LoadOutcomes, DemoLoaded(state) PROVE TypeOK'
    BY <1>1, <1>2, <1>4a, <2>2 DEF IInv, TypeOK, DemoLoaded, ApplyReview, intake, LoadOutcomes
  <2>3. ASSUME NEW state \in LoadOutcomes, LoadedAgain(state) PROVE TypeOK'
    BY <1>1, <1>2, <1>4a, <2>3 DEF IInv, TypeOK, LoadedAgain, ApplyReview, intake, LoadOutcomes
  <2>4. ASSUME NEW state \in LoadOutcomes, SelectState(state) PROVE TypeOK'
    BY <1>1, <1>2, <2>4 DEF IInv, TypeOK, SelectState, intake, LoadOutcomes
  <2>5. ASSUME StateAction PROVE TypeOK'
    BY <1>1, <1>2, <1>4a, <2>5 DEF IInv, TypeOK, StateAction, intake
  <2>6. ASSUME Ask PROVE TypeOK'
    <3>1. question' \in Keys /\ moved' = FALSE
      BY <1>2, <2>6 DEF IInv, TypeOK, Ask, Asked
    <3> QED
      BY <1>1, <2>6, <3>1 DEF IInv, TypeOK, Ask, intake
  <2>7. ASSUME Answered PROVE TypeOK'
    BY <1>1, <1>2, <2>7 DEF IInv, TypeOK, Answered, intake
  <2>8. ASSUME QuestionFails PROVE TypeOK'
    BY <1>1, <1>2, <2>8 DEF IInv, TypeOK, QuestionFails, intake
  <2> QED
    BY <2>1, <2>2, <2>3, <2>4, <2>5, <2>6, <2>7, <2>8
<1>6. /\ ControllerRuns' /\ AbortsBite' /\ BegunInOrder' /\ OverlapsAreKnown'
      /\ BusyMeansRunning' /\ StaysCancellable'
  BY <1>1 DEF IInv, intake, ControllerRuns, AbortsBite, BegunInOrder, OverlapsAreKnown,
     BusyMeansRunning, StaysCancellable, Running, Aborted
<1>7. StoredIsDone' /\ AbortedStaysAway'
  BY <1>1, <1>4 DEF IInv, intake, StoredIsDone, AbortedStaysAway
<1>8. DemoIsShown' /\ AnswerFitsReview'
  <2>1. ASSUME NEW key \in Keys, SwitchReview(key) PROVE DemoIsShown' /\ AnswerFitsReview'
    BY <1>2, <2>1 DEF SwitchReview, ApplyReview, DemoIsShown, AnswerFitsReview, IInv, TypeOK
  <2>2. ASSUME NEW state \in LoadOutcomes, DemoLoaded(state) \/ LoadedAgain(state)
        PROVE  DemoIsShown' /\ AnswerFitsReview'
    <3>1. /\ fixture' = [of |-> Demo, state |-> state] /\ answer' = Demo
          /\ moved' = (question # None) /\ question' = question
      BY <2>2 DEF DemoLoaded, LoadedAgain, ApplyReview
    <3> QED
      BY <3>1 DEF DemoIsShown, AnswerFitsReview
  <2>3. ASSUME NEW state \in LoadOutcomes, StateAction \/ SelectState(state)
        PROVE  DemoIsShown' /\ AnswerFitsReview'
    BY <2>3 DEF StateAction, SelectState, DemoIsShown, AnswerFitsReview, IInv
  <2>4. ASSUME Ask PROVE DemoIsShown' /\ AnswerFitsReview'
    BY <1>2, <2>4 DEF Ask, Asked, DemoIsShown, AnswerFitsReview, IInv, TypeOK
  <2>5. ASSUME Answered PROVE DemoIsShown' /\ AnswerFitsReview'
    BY <1>2, <2>5 DEF Answered, DemoIsShown, AnswerFitsReview, IInv, TypeOK
  <2>6. ASSUME QuestionFails PROVE DemoIsShown' /\ AnswerFitsReview'
    BY <1>2, <2>6 DEF QuestionFails, DemoIsShown, AnswerFitsReview, IInv, TypeOK
  <2> QED
    BY <2>1, <2>2, <2>3, <2>4, <2>5, <2>6 DEF LoadOutcomes
<1> QED
  BY <1>5, <1>6, <1>7, <1>8 DEF IInv

\* An abort reaches one upload at most, one that runs and was not aborted; it
\* ends there or is marked, and every other one stays as it is.
LEMMA Aborting ==
  ASSUME IInv
  PROVE  /\ AfterAbort \in [Uploads -> Upload]
         /\ \A u \in Uploads : u # controller => AfterAbort[u] = upload[u]
         /\ controller # None =>
              /\ controller \in Uploads /\ Running(controller)
              /\ AfterAbort[controller].stop # None
              /\ \/ /\ AfterAbort[controller].pc = "done"
                    /\ AfterAbort[controller].stop = "cut"
                 \/ /\ AfterAbort[controller].pc = upload[controller].pc
                    /\ \/ /\ AfterAbort[controller].pc = "readingReview"
                          /\ AfterAbort[controller].stop = "late"
                       \/ /\ AfterAbort[controller].pc \in {"accepting", "readingJob"}
                          /\ AfterAbort[controller].stop = "torn"
<1>1. upload \in [Uploads -> Upload] /\ controller \in Uploads \cup {None}
  BY DEF IInv, TypeOK
<1>2. AfterAbort \in [Uploads -> Upload]
  BY <1>1, BoundsAssumption DEF AfterAbort, Upload, Stop
<1>3. \A u \in Uploads : u # controller => AfterAbort[u] = upload[u]
  BY DEF AfterAbort
<1>4. ASSUME controller # None
      PROVE  /\ controller \in Uploads /\ Running(controller)
             /\ AfterAbort[controller].stop # None
             /\ \/ /\ AfterAbort[controller].pc = "done"
                   /\ AfterAbort[controller].stop = "cut"
                \/ /\ AfterAbort[controller].pc = upload[controller].pc
                   /\ \/ /\ AfterAbort[controller].pc = "readingReview"
                         /\ AfterAbort[controller].stop = "late"
                      \/ /\ AfterAbort[controller].pc \in {"accepting", "readingJob"}
                         /\ AfterAbort[controller].stop = "torn"
  <2>1. controller \in Uploads /\ Running(controller)
    BY <1>1, <1>4 DEF IInv, ControllerRuns
  <2>2. CASE upload[controller].pc \in Interruptible
    <3>1. AfterAbort[controller] = [pc |-> "done", attempt |-> 0, stop |-> "cut"]
      BY <2>1, <2>2 DEF AfterAbort
    <3> QED
      BY <2>1, <3>1, BoundsAssumption
  <2>3. CASE upload[controller].pc \notin Interruptible
    <3>1. AfterAbort[controller] =
            [upload[controller] EXCEPT !.stop = Stop(upload[controller].pc)]
      BY <2>1, <2>3 DEF AfterAbort
    <3>2. upload[controller].pc \in {"accepting", "readingJob", "readingReview"}
      BY <2>1, <2>3 DEF Running, Awaits, Interruptible
    <3>3. upload[controller] \in Upload
      BY <1>1, <2>1
    <3>4. /\ AfterAbort[controller].pc = upload[controller].pc
          /\ AfterAbort[controller].stop = Stop(upload[controller].pc)
      BY <3>1, <3>3 DEF Upload
    <3> QED
      BY <2>1, <3>2, <3>4, BoundsAssumption DEF Stop
  <2> QED
    BY <2>2, <2>3
<1> QED
  BY <1>2, <1>3, <1>4

\* The page and its uploads do not change, and the panel shows no progress.
LEMMA PanelKeeps ==
  ASSUME IInv, UNCHANGED <<review, dialog, controller, upload, overlapped>>,
         panel' \in FormReady
  PROVE  IInv'
<1>1. TypeOK'
  BY DEF IInv, TypeOK, review
<1>2. BusyMeansRunning'
  BY DEF BusyMeansRunning, FormReady, Failures, Busy
<1>3. /\ ControllerRuns' /\ AbortsBite' /\ BegunInOrder' /\ OverlapsAreKnown'
      /\ StaysCancellable'
  BY DEF IInv, ControllerRuns, AbortsBite, BegunInOrder, OverlapsAreKnown, StaysCancellable,
     Running, Aborted
<1>4. StoredIsDone' /\ AbortedStaysAway' /\ DemoIsShown' /\ AnswerFitsReview'
  BY DEF IInv, review, StoredIsDone, AbortedStaysAway, DemoIsShown, AnswerFitsReview
<1> QED
  BY <1>1, <1>2, <1>3, <1>4 DEF IInv

\* Opening and closing the dialog, and Cancel, abort the current upload.
LEMMA AbortKeeps ==
  ASSUME IInv, UNCHANGED <<review, overlapped>>,
         upload' = AfterAbort, controller' = None,
         dialog' \in BOOLEAN, panel' \in FormReady \cup Busy \cup {"ready"},
         dialog' => panel' \notin Busy
  PROVE  IInv'
<1>1. upload' \in [Uploads -> Upload]
  BY Aborting
<1>2. TypeOK'
  BY <1>1 DEF IInv, TypeOK, review
<1>3. \A u \in Uploads :
        \/ upload'[u] = upload[u]
        \/ /\ u = controller /\ Running(u) /\ upload'[u].stop # None
           /\ \/ upload'[u].pc = "done" /\ upload'[u].stop = "cut"
              \/ /\ upload'[u].pc = upload[u].pc
                 /\ \/ upload'[u].pc = "readingReview" /\ upload'[u].stop = "late"
                    \/ upload'[u].pc \in {"accepting", "readingJob"} /\ upload'[u].stop = "torn"
  BY Aborting, BoundsAssumption DEF Uploads
<1>4. \A u \in Uploads : upload'[u].pc \in Awaits => Running(u)
  BY <1>3 DEF Running, Awaits
<1>5. \A u \in Uploads : upload'[u].pc = "none" <=> upload[u].pc = "none"
  BY <1>3 DEF Running, Awaits
<1>6. ControllerRuns' /\ BusyMeansRunning'
  BY DEF ControllerRuns, BusyMeansRunning
<1>7. AbortsBite'
  BY <1>3, BoundsAssumption DEF IInv, AbortsBite
<1>8. BegunInOrder' /\ OverlapsAreKnown'
  BY <1>4, <1>5 DEF IInv, BegunInOrder, OverlapsAreKnown, Running
<1>9. StoredIsDone' /\ AbortedStaysAway'
  BY <1>3 DEF IInv, review, StoredIsDone, AbortedStaysAway, Running, Awaits
<1>10. StaysCancellable'
  <2> SUFFICES ASSUME NEW u \in Uploads, upload'[u].pc \in Awaits, upload'[u].stop = None,
                      u \notin overlapped, \A v \in Uploads : v > u => upload'[v].pc = "none"
               PROVE  FALSE
    BY DEF StaysCancellable, Running, Aborted
  <2>1. upload'[u] = upload[u] /\ Running(u) /\ ~Aborted(u)
    BY <1>3 DEF Running, Aborted
  <2>2. controller = u
    BY <1>5, <2>1 DEF IInv, StaysCancellable
  <2>3. upload'[u].stop # None
    BY <2>2, Aborting, BoundsAssumption DEF Uploads
  <2> QED
    BY <2>3
<1>11. DemoIsShown' /\ AnswerFitsReview'
  BY DEF IInv, review, DemoIsShown, AnswerFitsReview
<1> QED
  BY <1>2, <1>6, <1>7, <1>8, <1>9, <1>10, <1>11 DEF IInv

\* A new upload is the latest one; whatever ran before it is aborted or makes
\* it one that overlaps.
LEMMA BeginKeeps ==
  ASSUME IInv, NEW u \in Uploads, Begin(u)
  PROVE  IInv'
<1> USE BoundsAssumption
<1>1. /\ upload[u].pc = "none" /\ \A v \in Uploads : v < u => upload[v].pc # "none"
      /\ upload' = [AfterAbort EXCEPT ![u].pc = "posting", ![u].attempt = 1]
      /\ panel' = "uploading" /\ UNCHANGED <<review, dialog>>
      /\ controller' \in {None, u} /\ overlapped' \in {overlapped, overlapped \cup {u}}
      /\ (\E v \in Uploads : Running(v)) => u \in overlapped'
      /\ controller' = None => \E v \in Uploads : Running(v)
  <2>1. /\ upload[u].pc = "none" /\ \A v \in Uploads : v < u => upload[v].pc # "none"
        /\ upload' = [AfterAbort EXCEPT ![u].pc = "posting", ![u].attempt = 1]
        /\ panel' = "uploading" /\ UNCHANGED <<review, dialog>>
    BY DEF Begin
  <2>2. controller' = IF \E v \in Uploads : Running(v) /\ AfterAbort[v].pc = "done"
                        THEN None ELSE u
    BY DEF Begin
  <2>3. overlapped' = IF \E v \in Uploads : Running(v)
                        THEN overlapped \cup {u} ELSE overlapped
    BY DEF Begin
  <2>4. u # None
    BY DEF Uploads
  <2>5. controller' \in {None, u} /\ (controller' = None => \E v \in Uploads : Running(v))
    BY <2>2, <2>4, Zenon
  <2> HIDE DEF Running
  <2>6. /\ overlapped' \in {overlapped, overlapped \cup {u}}
        /\ (\E v \in Uploads : Running(v)) => u \in overlapped'
    BY <2>3
  <2> QED
    BY <2>1, <2>5, <2>6
<1>2. u # controller /\ AfterAbort[u] = upload[u]
  BY <1>1, Aborting DEF Running, Awaits, Uploads
<1>3. upload[u].stop = None
  BY <1>1 DEF IInv, AbortsBite
<1>4. /\ upload'[u].pc = "posting" /\ upload'[u].stop = None
      /\ upload' \in [Uploads -> Upload]
  <2>1. AfterAbort \in [Uploads -> Upload]
    BY Aborting
  <2>2. AfterAbort[u] \in Upload /\ AfterAbort[u].stop = None
    BY <1>2, <1>3, <2>1
  <2>3. upload'[u] = [AfterAbort[u] EXCEPT !.pc = "posting", !.attempt = 1]
    BY <1>1, <2>1
  <2>4. upload'[u] \in Upload /\ upload'[u].pc = "posting" /\ upload'[u].stop = None
    <3>1. upload'[u] = [pc |-> "posting", attempt |-> 1, stop |-> None]
      BY <2>2, <2>3 DEF Upload
    <3>2. 1 \in 0 .. MaxAttempts
      OBVIOUS
    <3> QED
      BY <3>1, <3>2 DEF Upload, Awaits
  <2> QED
    BY <1>1, <2>1, <2>4
<1>5. \A v \in Uploads :
        \/ v = u
        \/ v # u /\ upload'[v] = upload[v]
        \/ /\ v # u /\ v = controller /\ Running(v) /\ upload'[v].stop # None
           /\ \/ upload'[v].pc = "done" /\ upload'[v].stop = "cut"
              \/ /\ upload'[v].pc = upload[v].pc
                 /\ \/ upload'[v].pc = "readingReview" /\ upload'[v].stop = "late"
                    \/ upload'[v].pc \in {"accepting", "readingJob"} /\ upload'[v].stop = "torn"
  <2>1. AfterAbort \in [Uploads -> Upload]
    BY Aborting
  <2>2. \A v \in Uploads : v # u => upload'[v] = AfterAbort[v]
    BY <1>1, <2>1
  <2> QED
    BY <2>2, Aborting DEF Uploads
<1>6. TypeOK'
  BY <1>1, <1>4 DEF IInv, TypeOK, review, Busy
<1>7. \A v \in Uploads : v # u /\ upload'[v].pc \in Awaits => Running(v)
  BY <1>5 DEF Running, Awaits
<1>8. \A v \in Uploads : v # u => (upload'[v].pc = "none" <=> upload[v].pc = "none")
  BY <1>5 DEF Running, Awaits
<1>9. ControllerRuns' /\ BusyMeansRunning'
  BY <1>1, <1>4 DEF ControllerRuns, BusyMeansRunning, Running, Aborted, Awaits
<1>10. AbortsBite'
  BY <1>4, <1>5 DEF IInv, AbortsBite
<1>11. BegunInOrder'
  <2>1. \A v \in Uploads : v > u => upload[v].pc = "none"
    BY <1>1 DEF IInv, BegunInOrder
  <2> QED
    BY <1>1, <1>4, <1>8, <2>1 DEF IInv, BegunInOrder, Uploads
<1>12. OverlapsAreKnown'
  <2> SUFFICES ASSUME NEW v \in Uploads, NEW w \in Uploads, w < v,
                      upload'[v].pc \in Awaits, upload'[w].pc \in Awaits
               PROVE  v \in overlapped'
    BY DEF OverlapsAreKnown, Running
  <2>1. CASE v = u
    BY <1>1, <1>7, <2>1 DEF Uploads
  <2>2. CASE w = u
    <3>1. upload[v].pc # "none"
      BY <1>7, <2>2 DEF Running, Awaits, Uploads
    <3> QED
      BY <1>1, <2>2, <3>1 DEF IInv, BegunInOrder
  <2>3. CASE v # u /\ w # u
    BY <1>1, <1>7, <2>3 DEF IInv, OverlapsAreKnown
  <2> QED
    BY <2>1, <2>2, <2>3
<1>13. StoredIsDone' /\ AbortedStaysAway'
  BY <1>1, <1>4, <1>5 DEF IInv, review, StoredIsDone, AbortedStaysAway, Running, Awaits
<1>14. StaysCancellable'
  <2> SUFFICES ASSUME NEW v \in Uploads, upload'[v].pc \in Awaits, upload'[v].stop = None,
                      v \notin overlapped', \A w \in Uploads : w > v => upload'[w].pc = "none"
               PROVE  controller' = v
    BY DEF StaysCancellable, Running, Aborted
  <2>1. CASE v = u
    BY <1>1, <2>1
  <2>2. CASE v # u
    <3>1. upload[v].pc # "none"
      BY <1>7, <2>2 DEF Running, Awaits
    <3>2. v < u
      BY <1>1, <2>2, <3>1 DEF IInv, BegunInOrder, Uploads
    <3> QED
      BY <1>4, <3>2 DEF Uploads
  <2> QED
    BY <2>1, <2>2
<1>15. DemoIsShown' /\ AnswerFitsReview'
  BY <1>1 DEF IInv, review, DemoIsShown, AnswerFitsReview
<1> QED
  BY <1>6, <1>9, <1>10, <1>11, <1>12, <1>13, <1>14, <1>15 DEF IInv

\* An upload goes on to its next await.
LEMMA GoingKeeps ==
  ASSUME IInv, NEW u \in Uploads, Running(u), NEW x \in Upload,
         upload' = [upload EXCEPT ![u] = x],
         x.pc \in Awaits, x.stop = upload[u].stop,
         x.stop = "torn" => x.pc \in {"accepting", "readingJob", "sleeping"},
         x.stop = "late" => x.pc = "readingReview",
         UNCHANGED <<review, dialog, controller, overlapped>>,
         panel' \in {panel, "processing"}
  PROVE  IInv'
<1>1. upload'[u] = x /\ \A v \in Uploads : v # u => upload'[v] = upload[v]
  BY DEF IInv, TypeOK
<1>2. TypeOK'
  BY DEF IInv, TypeOK, review, Busy
<1>3. /\ \A v \in Uploads : upload'[v].pc \in Awaits <=> Running(v)
      /\ \A v \in Uploads : upload'[v].stop = upload[v].stop
      /\ \A v \in Uploads : upload'[v].pc = "none" <=> upload[v].pc = "none"
  BY <1>1 DEF Running, Awaits
<1>4. ControllerRuns' /\ OverlapsAreKnown' /\ BegunInOrder'
  BY <1>3 DEF IInv, TypeOK, ControllerRuns, OverlapsAreKnown, BegunInOrder, Running, Aborted
<1>5. x.pc # "none" /\ x.stop # "cut"
  BY DEF IInv, AbortsBite, Running, Awaits
<1>6. AbortsBite'
  BY <1>1, <1>5 DEF IInv, AbortsBite
<1>7. StoredIsDone' /\ AbortedStaysAway'
  BY <1>1, <1>3 DEF IInv, review, StoredIsDone, AbortedStaysAway, Running, Awaits
<1>8. BusyMeansRunning'
  BY <1>1 DEF BusyMeansRunning, Running
<1>9. StaysCancellable'
  BY <1>3 DEF IInv, StaysCancellable, Running, Aborted
<1>10. DemoIsShown' /\ AnswerFitsReview'
  BY DEF IInv, review, DemoIsShown, AnswerFitsReview
<1> QED
  BY <1>2, <1>4, <1>6, <1>7, <1>8, <1>9, <1>10 DEF IInv

\* An upload ends, and the page's controller with it: it was the upload's own,
\* or that of a later one that overlaps.
LEMMA EndingKeeps ==
  ASSUME IInv, NEW u \in Uploads, Running(u),
         Ends(u), controller' = None, UNCHANGED overlapped,
         TypeOK', StoredIsDone', AbortedStaysAway', DemoIsShown', AnswerFitsReview',
         dialog' /\ panel' \in Busy => upload[u].stop = "torn"
  PROVE  IInv'
<1>1. /\ upload'[u].pc = "done" /\ upload'[u].stop = upload[u].stop
      /\ \A v \in Uploads : v # u => upload'[v] = upload[v]
  BY DEF Ends, IInv, TypeOK, Upload
<1>2. ControllerRuns'
  BY DEF ControllerRuns
<1>3. AbortsBite'
  BY <1>1 DEF IInv, AbortsBite
<1>4. \A v \in Uploads : upload'[v].pc \in Awaits => v # u /\ Running(v)
  BY <1>1 DEF Running, Awaits
<1>5. \A v \in Uploads : upload'[v].pc = "none" <=> upload[v].pc = "none"
  BY <1>1 DEF Running, Awaits
<1>6. BegunInOrder' /\ OverlapsAreKnown'
  BY <1>4, <1>5 DEF IInv, BegunInOrder, OverlapsAreKnown, Running
<1>7. BusyMeansRunning'
  BY <1>1 DEF BusyMeansRunning
<1>8. StaysCancellable'
  <2> SUFFICES ASSUME NEW v \in Uploads, upload'[v].pc \in Awaits, v \notin overlapped,
                      \A w \in Uploads : w > v => upload'[w].pc = "none"
               PROVE  FALSE
    BY DEF StaysCancellable, Running, Aborted
  <2>1. v # u /\ Running(v)
    BY <1>4
  <2>2. CASE u < v
    BY <2>1, <2>2 DEF IInv, OverlapsAreKnown
  <2>3. CASE u > v
    BY <1>1, <2>3
  <2> QED
    BY <2>1, <2>2, <2>3 DEF Uploads
<1> QED
  BY <1>2, <1>3, <1>6, <1>7, <1>8 DEF IInv

\* What has ended keeps only the mark of its abort.
LEMMA EndTypes ==
  ASSUME IInv, NEW u \in Uploads, Ends(u)
  PROVE  /\ upload' \in [Uploads -> Upload]
         /\ upload'[u].pc = "done" /\ upload'[u].stop = upload[u].stop
         /\ \A v \in Uploads : v # u => upload'[v] = upload[v]
<1>1. upload[u] \in Upload /\ upload \in [Uploads -> Upload]
  BY DEF IInv, TypeOK
<1> DEFINE x == [pc |-> "done", attempt |-> 0, stop |-> upload[u].stop]
<1>2. 0 \in 0 .. MaxAttempts
  BY BoundsAssumption
<1>3. x \in Upload
  BY <1>1, <1>2 DEF Upload
<1>4. upload' = [upload EXCEPT ![u] = x]
  BY DEF Ends
<1> QED
  BY <1>1, <1>3, <1>4

\* An upload ends without a review.
LEMMA FailingKeeps ==
  ASSUME IInv, NEW u \in Uploads, Running(u),
         Ends(u), controller' = None, UNCHANGED <<review, dialog, overlapped>>,
         panel' \in FormReady \cup Busy \cup {"ready"},
         panel' \in Busy => upload[u].stop = "torn"
  PROVE  IInv'
<1>1. /\ upload' \in [Uploads -> Upload]
      /\ upload'[u].pc = "done" /\ upload'[u].stop = upload[u].stop
      /\ \A v \in Uploads : v # u => upload'[v] = upload[v]
  BY EndTypes
<1>2. controller' \in Uploads \cup {None}
  OBVIOUS
<1>3. TypeOK'
  BY <1>1, <1>2 DEF IInv, TypeOK, review
<1>4. /\ \A v \in Uploads : upload'[v].stop = upload[v].stop
      /\ \A v \in Uploads : upload[v].pc = "done" => upload'[v].pc = "done"
  BY <1>1
<1>5. StoredIsDone' /\ AbortedStaysAway' /\ DemoIsShown' /\ AnswerFitsReview'
  BY <1>4 DEF IInv, review, StoredIsDone, AbortedStaysAway, DemoIsShown, AnswerFitsReview
<1> QED
  BY <1>3, <1>5, EndingKeeps

\* Silent ends an upload that was aborted, or one that shows no progress.
LEMMA FailStepKeeps ==
  ASSUME IInv, NEW u \in Uploads, Running(u),
         \/ \E state \in Failures : Fail(u, state)
         \/ Silent(u) /\ upload[u].stop = "torn"
  PROVE  IInv'
<1>1. ASSUME NEW state \in Failures, Fail(u, state) PROVE IInv'
  BY <1>1, FailingKeeps DEF Fail, FormReady, Failures, Busy
<1>2. ASSUME Silent(u), upload[u].stop = "torn" PROVE IInv'
  <2>1. panel' \in FormReady \cup Busy \cup {"ready"}
    BY <1>2 DEF Silent, IInv, TypeOK
  <2> QED
    BY <1>2, <2>1, FailingKeeps DEF Silent
<1> QED
  BY <1>1, <1>2

\* An upload goes to another await and keeps its attempts and its mark.
LEMMA GoesKeeps ==
  ASSUME IInv, NEW u \in Uploads, Running(u), NEW pc \in Awaits, Goes(u, pc),
         upload[u].stop = "torn" => pc \in {"accepting", "readingJob", "sleeping"},
         upload[u].stop = "late" => pc = "readingReview",
         UNCHANGED <<review, dialog, controller, overlapped>>,
         panel' \in {panel, "processing"}
  PROVE  IInv'
<1>1. upload[u] \in Upload
  BY DEF IInv, TypeOK
<1> DEFINE x == [pc |-> pc, attempt |-> upload[u].attempt, stop |-> upload[u].stop]
<1>2. x \in Upload
  BY <1>1 DEF Upload
<1>3. upload' = [upload EXCEPT ![u] = x]
  <2>1. [upload[u] EXCEPT !.pc = pc] = x
    BY <1>1 DEF Upload
  <2>2. upload' = [upload EXCEPT ![u] = [upload[u] EXCEPT !.pc = pc]]
    BY DEF Goes
  <2> QED
    BY <2>1, <2>2
<1> QED
  BY <1>2, <1>3, GoingKeeps

\* An abort that meets a fetch ends the upload, so one that awaits a fetch has
\* not been aborted.
LEMMA Unmarked ==
  ASSUME IInv, NEW u \in Uploads, upload[u].pc \in Interruptible, upload[u].pc # "sleeping"
  PROVE  upload[u].stop = None
BY DEF IInv, TypeOK, Upload, AbortsBite, Interruptible

\* The answer to a fetch.
LEMMA RespondKeeps ==
  ASSUME IInv, NEW u \in Uploads, NEW pc \in Interruptible \ {"sleeping"},
         NEW reading \in {"accepting", "readingJob", "readingReview"},
         NEW states \in SUBSET Failures, Respond(u, pc, reading, states)
  PROVE  IInv'
<1>1. upload[u].pc = pc /\ Running(u) /\ upload[u].stop = None
  BY Unmarked DEF Respond, Running, Interruptible, Awaits
<1>2. CASE Goes(u, reading) /\ UNCHANGED <<review, dialog, panel, controller, overlapped>>
  BY <1>1, <1>2, GoesKeeps, BoundsAssumption DEF Awaits
<1>3. CASE \E state \in states : Fail(u, state)
  BY <1>1, <1>3, FailStepKeeps
<1> QED
  BY <1>2, <1>3 DEF Respond

\* The look at the signal before a poll.
LEMMA RequestKeeps ==
  ASSUME IInv, NEW u \in Uploads, upload[u].pc \in {"accepting", "sleeping"},
         Request(u, "polling")
  PROVE  IInv'
<1>1. Running(u)
  BY DEF Running, Awaits
<1>2. CASE Aborted(u)
  <2>1. upload[u].stop = "torn"
    BY <1>2 DEF IInv, TypeOK, Upload, AbortsBite, Aborted
  <2> QED
    BY <1>1, <1>2, <2>1, FailStepKeeps DEF Request
<1>3. CASE ~Aborted(u)
  BY <1>1, <1>3, GoesKeeps, BoundsAssumption DEF Request, Aborted, Awaits
<1> QED
  BY <1>2, <1>3

\* The loop of pollJob, and an abort that a job's body hides.
LEMMA PollKeeps ==
  ASSUME IInv, NEW u \in Uploads, StillWorking(u) \/ JobReady(u) \/ JobFails(u)
  PROVE  IInv'
<1>1. upload[u].pc = "readingJob" /\ Running(u) /\ upload[u] \in Upload
  BY DEF StillWorking, JobReady, JobFails, Running, Awaits, IInv, TypeOK
<1>2. upload[u].stop \in {None, "torn"}
  BY <1>1 DEF IInv, AbortsBite, Upload
<1>3. CASE StillWorking(u) /\ upload[u].attempt < MaxAttempts
  <2> DEFINE x == [pc |-> "sleeping", attempt |-> upload[u].attempt + 1,
                   stop |-> upload[u].stop]
  <2>1. x \in Upload
    <3>1. upload[u].attempt + 1 \in 0 .. MaxAttempts
      BY <1>1, <1>3, BoundsAssumption DEF Upload
    <3> QED
      BY <1>1, <3>1 DEF Upload, Awaits
  <2>2. /\ upload' = [upload EXCEPT ![u] = x] /\ panel' = "processing"
        /\ UNCHANGED <<review, dialog, controller, overlapped>>
    BY <1>1, <1>3 DEF StillWorking, Sleep, Upload, IInv, TypeOK
  <2>3. x.pc = "sleeping" /\ x.stop = upload[u].stop
    OBVIOUS
  <2> HIDE DEF x
  <2> QED
    BY <1>1, <1>2, <2>1, <2>2, <2>3, GoingKeeps, BoundsAssumption DEF Awaits
<1>4. CASE StillWorking(u) /\ ~(upload[u].attempt < MaxAttempts)
  BY <1>1, <1>4, FailStepKeeps DEF StillWorking, Failures
<1>5. CASE JobReady(u) /\ Aborted(u)
  <2>1. upload[u].stop = "torn" /\ Ends(u) /\ controller' = None /\ panel' = "processing"
        /\ UNCHANGED <<review, dialog, overlapped>>
    BY <1>2, <1>5 DEF JobReady, Aborted
  <2> QED
    BY <1>1, <2>1, FailingKeeps DEF Busy
<1>6. CASE JobReady(u) /\ ~Aborted(u)
  <2>1. /\ upload[u].stop = None /\ Goes(u, "loading") /\ panel' = "processing"
        /\ UNCHANGED <<review, dialog, controller, overlapped>>
    BY <1>6 DEF JobReady, Aborted
  <2> QED
    BY <1>1, <2>1, GoesKeeps, BoundsAssumption DEF Awaits
<1>7. CASE JobFails(u)
  BY <1>1, <1>7, FailStepKeeps DEF JobFails, Failures
<1> QED
  BY <1>3, <1>4, <1>5, <1>6, <1>7

\* A review is stored, of an upload that was not aborted, or too late.
LEMMA SucceedKeeps ==
  ASSUME IInv, NEW u \in Uploads, Succeed(u)
  PROVE  IInv'
<1>1. /\ upload[u].pc = "readingReview" /\ Running(u) /\ Ends(u) /\ controller' = None
      /\ sessions' = [sessions EXCEPT ![u] = "ready"] /\ selected' = u /\ mode' = "upload"
      /\ fixture' = [of |-> u, state |-> "ready"] /\ answer' = u /\ moved' = (question # None)
      /\ panel' = "ready" /\ dialog' = FALSE /\ UNCHANGED <<question, loads, overlapped>>
  BY DEF Succeed, ApplyReview, Running, Awaits
<1>2. /\ upload' \in [Uploads -> Upload]
      /\ upload'[u].pc = "done" /\ upload'[u].stop = upload[u].stop
      /\ \A v \in Uploads : v # u => upload'[v] = upload[v]
  BY <1>1, EndTypes
<1>3. u \in Keys /\ Uploads \subseteq Keys
  BY DEF Keys
<1>4. TypeOK'
  BY <1>1, <1>2, <1>3 DEF IInv, TypeOK
<1>5. /\ sessions'[u] = "ready"
      /\ \A v \in Uploads : v # u => sessions'[v] = sessions[v]
  BY <1>1, <1>3 DEF IInv, TypeOK
<1>6. upload[u].stop \in {None, "late"}
  BY <1>1 DEF IInv, TypeOK, Upload, AbortsBite
<1>7. StoredIsDone' /\ AbortedStaysAway'
  BY <1>2, <1>5, <1>6 DEF IInv, StoredIsDone, AbortedStaysAway
<1>8. DemoIsShown' /\ AnswerFitsReview'
  BY <1>1 DEF DemoIsShown, AnswerFitsReview
<1> QED
  BY <1>1, <1>4, <1>7, <1>8, EndingKeeps

\* Every step keeps the invariant.
LEMMA StepKeeps == IInv /\ [Next]_vars => IInv'
<1> SUFFICES ASSUME IInv, [Next]_vars PROVE IInv'
  OBVIOUS
<1>1. ASSUME NEW u \in Uploads, UploadStep(u) PROVE IInv'
  <2>1. CASE Posted(u) \/ Polled(u) \/ Loaded(u)
    BY <2>1, RespondKeeps DEF Posted, Polled, Loaded, Interruptible, Failures
  <2>2. CASE Accepted(u)
    <3>1. upload[u].pc = "accepting" /\ Running(u)
      BY <2>2 DEF Accepted, Running, Awaits
    <3> QED
      BY <2>2, <3>1, RequestKeeps, FailStepKeeps DEF Accepted, Failures
  <2>3. CASE StillWorking(u) \/ JobReady(u) \/ JobFails(u)
    BY <2>3, PollKeeps
  <2>4. CASE Awake(u)
    BY <2>4, RequestKeeps DEF Awake
  <2>5. CASE Succeed(u)
    BY <2>5, SucceedKeeps
  <2>6. CASE ReviewInvalid(u)
    <3>1. Running(u) /\ Fail(u, "failed")
      BY <2>6 DEF ReviewInvalid, Running, Awaits
    <3> QED
      BY <3>1, FailStepKeeps DEF Failures
  <2> QED
    BY <1>1, <2>1, <2>2, <2>3, <2>4, <2>5, <2>6 DEF UploadStep
<1>2. ASSUME RefuseInput PROVE IInv'
  BY <1>2, PanelKeeps DEF RefuseInput, FormReady, Failures
<1>3. ASSUME NEW u \in Uploads, Submit(u) PROVE IInv'
  BY <1>2, <1>3, BeginKeeps DEF Submit
<1>4. ASSUME OpenDialog PROVE IInv'
  BY <1>4, AbortKeeps DEF OpenDialog, FormReady, Failures, Busy
<1>5. ASSUME CloseDialog PROVE IInv'
  <2>1. panel' \in FormReady \cup Busy \cup {"ready"}
    BY <1>5 DEF CloseDialog, IInv, TypeOK
  <2> QED
    BY <1>5, <2>1, AbortKeeps DEF CloseDialog
<1>6. ASSUME ChooseSource PROVE IInv'
  BY <1>6, PanelKeeps DEF ChooseSource, FormReady
<1>7. ASSUME Cancel PROVE IInv'
  <2>1. CASE /\ upload' = AfterAbort /\ controller' = None /\ panel' = "idle"
             /\ UNCHANGED <<review, dialog, overlapped>>
    <3>1. dialog' \in BOOLEAN
      BY <2>1 DEF IInv, TypeOK
    <3> QED
      BY <2>1, <3>1, AbortKeeps DEF FormReady, Failures, Busy
  <2>2. CASE RefuseInput \/ \E u \in Uploads : Begin(u)
    BY <1>2, <2>2, BeginKeeps
  <2>3. CASE panel' = "idle" /\ UNCHANGED <<review, dialog, controller, upload, overlapped>>
    BY <2>3, PanelKeeps DEF FormReady
  <2>4. CASE CloseDialog
    BY <1>5, <2>4
  <2> QED
    BY <1>7, <2>1, <2>2, <2>3, <2>4 DEF Cancel
<1>8. ASSUME UNCHANGED vars PROVE IInv'
  <2>1. TypeOK' /\ ControllerRuns' /\ AbortsBite' /\ BegunInOrder' /\ OverlapsAreKnown'
    BY <1>8 DEF vars, review, intake, IInv, TypeOK, ControllerRuns, AbortsBite, BegunInOrder,
       OverlapsAreKnown, Running, Aborted
  <2>2. StoredIsDone' /\ AbortedStaysAway' /\ DemoIsShown' /\ AnswerFitsReview'
    BY <1>8 DEF vars, review, intake, IInv, StoredIsDone, AbortedStaysAway, DemoIsShown,
       AnswerFitsReview
  <2>3. BusyMeansRunning' /\ StaysCancellable'
    BY <1>8 DEF vars, intake, IInv, BusyMeansRunning, StaysCancellable, Running, Aborted
  <2> QED
    BY <2>1, <2>2, <2>3 DEF IInv
<1> QED
  BY <1>1, <1>3, <1>4, <1>5, <1>6, <1>7, <1>8, ReviewStepsKeep DEF Next

\* The inductive invariant: one controller for one running upload, what an
\* abort leaves where, and which uploads have run at the same time.
THEOREM PageInvariant == Spec => []IInv
BY InitEstablishes, StepKeeps, PTL DEF Spec

\* For any number of uploads and polls, an aborted review is never stored or
\* opened, except when the abort meets its last body.
THEOREM CancelledStaysAway == Spec => []AbortedStaysAway
<1>1. IInv => AbortedStaysAway
  BY DEF IInv
<1> QED
  BY <1>1, PageInvariant, PTL

\* Questions and answers fit the review on the page until it changes.
THEOREM AnswersFit == Spec => []AnswerFitsReview
<1>1. IInv => AnswerFitsReview
  BY DEF IInv
<1> QED
  BY <1>1, PageInvariant, PTL

\* Progress is shown only of an upload that is under way or was torn.
THEOREM ProgressIsReal == Spec => []BusyMeansRunning
<1>1. IInv => BusyMeansRunning
  BY DEF IInv
<1> QED
  BY <1>1, PageInvariant, PTL

\* The controller is that of the latest upload, unless that one has overlapped
\* an older one.
THEOREM LatestIsCancellable == Spec => []StaysCancellable
<1>1. IInv => StaysCancellable
  BY DEF IInv
<1> QED
  BY <1>1, PageInvariant, PTL
=============================================================================

---------------------------- MODULE GitReviewProofs ----------------------------
(***************************************************************************)
(* Proofs about GitReview, for any remote, any number of models and any    *)
(* set of concepts.  An output is used only if nothing has cut it short,   *)
(* a command is over only when git and its helpers are, and where the      *)
(* worker stands tells which removals have been tried; what the client is  *)
(* promised follows.                                                       *)
(***************************************************************************)
EXTENDS GitReview, TLAPS

\* An intake that begins has neither a child nor a workspace.
LEMMA Initially == Init => IInv
<1> SUFFICES ASSUME Init PROVE IInv
  OBVIOUS
<1>1. TypeOK
  <2>1. Intake!TypeOK
    BY DEF Init, Intake!Init, Intake!TypeOK, Intake!Objects, Intake!Commands
  <2>2. Generation!GenTypeOK
    <3>1. 1 \in 1 .. (Models + 1)
      BY ModelsAssumption
    <3> QED BY <3>1 DEF Init, Generation!GenInit, Generation!GenTypeOK, Generation!Bundles
  <2> QED BY <2>1, <2>2 DEF Init, TypeOK
<1>2. IntakeFits
  BY NoneAssumption DEF Init, IntakeFits, Intake!Init, Intake!Commands, Intake!Objects
<1>3. WorkerFits
  BY DEF Init, WorkerFits, Intake!Init
<1>4. ConceptsFit /\ BundleIsHonest
  BY DEF Init, ConceptsFit, BundleIsHonest, Generation!GenInit
<1> QED BY <1>1, <1>2, <1>3, <1>4 DEF IInv

-----------------------------------------------------------------------------
(* The intake. *)

\* A throw ends the intake, or has its workspace removed if there is one.
LEMMA Throws ==
  ASSUME NEW code \in Intake!Errors, Intake!Throw(code)
  PROVE  /\ error' \in Intake!Errors
         /\ workspace = "none" => step' = "refused"
         /\ workspace # "none" => step' = "removing"
BY DEF Intake!Throw

\* The output of a command that has settled well is all it had to print.
LEMMA OutputIsWhole ==
  ASSUME TypeOK, IntakeFits, NEW out \in SUBSET Intake!Objects, Intake!Printed(out),
         ~timedOut, ~exceeded
  PROVE  out = Intake!Complete
BY DEF IntakeFits, Intake!Printed

\* A kill signals the child, or leaves it behind and throws.
LEMMA Kills ==
  ASSUME TypeOK, IntakeFits, git # "none", Intake!Kill,
         UNCHANGED <<asked, listing, revision, head, workspace, cleanup>>,
         timedOut' \in BOOLEAN, exceeded' \in BOOLEAN,
         git' # "none" => timedOut' \/ exceeded',
         git' = "none" => ~timedOut' /\ ~exceeded'
  PROVE  Intake!TypeOK' /\ IntakeFits'
<1> DEFINE code == "GIT_TRANSPORT_FAILED"
<1>1. CASE /\ killed' = (killed \/ git = "running")
           /\ UNCHANGED <<step, git, helpers, stray, error>>
  <2>1. killed' \in BOOLEAN
    BY <1>1 DEF TypeOK, Intake!TypeOK
  <2>2. Intake!TypeOK'
    BY <1>1, <2>1 DEF TypeOK, Intake!TypeOK
  <2>3. git' # "none"
    BY <1>1
  <2> QED BY <1>1, <2>2, <2>3 DEF IntakeFits
<1>2. CASE /\ git = "running"
           /\ stray' = TRUE /\ git' = "none" /\ killed' = FALSE
           /\ Intake!Throw(code) /\ UNCHANGED helpers
  <2>1. code \in Intake!Errors
    BY DEF Intake!Errors
  <2>2. /\ error' \in Intake!Errors
        /\ workspace = "none" => step' = "refused"
        /\ workspace # "none" => step' = "removing"
    BY <1>2, <2>1, Throws
  <2>3. Intake!TypeOK'
    BY <1>2, <2>2 DEF TypeOK, Intake!TypeOK
  <2>4. ~helpers
    BY <1>2 DEF IntakeFits
  <2>5. step \in Intake!Commands
    BY DEF IntakeFits
  <2>6. workspace = "none" \/ (workspace = "present" /\ cleanup = "unused")
    BY <2>5 DEF IntakeFits, Intake!Commands
  <2>7. cleanup = "unused"
    BY <2>5 DEF IntakeFits, Intake!Commands
  <2> QED BY <1>2, <2>2, <2>3, <2>4, <2>6, <2>7 DEF IntakeFits, Intake!Commands
<1> QED BY <1>1, <1>2 DEF Intake!Kill

\* Every step of the intake keeps its part of the invariant.
LEMMA IntakeStep ==
  ASSUME TypeOK, IntakeFits, Intake!Next
  PROVE  Intake!TypeOK' /\ IntakeFits'
<1>0. Intake!TypeOK
  BY DEF TypeOK
<1> DEFINE Keep == UNCHANGED <<asked, listing, git, helpers, timedOut, exceeded, killed, stray>>
<1>1. ASSUME NEW code \in Intake!Errors, Intake!Throw(code), step # "removing",
             step \notin {"acquired", "refused"},
             UNCHANGED <<asked, listing, helpers, stray, revision, head, workspace, cleanup>>,
             \/ git = "none" /\ UNCHANGED <<git, timedOut, exceeded, killed>>
             \/ ~helpers /\ git' = "none" /\ ~timedOut' /\ ~exceeded' /\ ~killed'
                /\ timedOut' \in BOOLEAN /\ exceeded' \in BOOLEAN /\ killed' \in BOOLEAN
      PROVE  Intake!TypeOK' /\ IntakeFits'
  <2>1. /\ error' \in Intake!Errors
        /\ workspace = "none" => step' = "refused"
        /\ workspace # "none" => step' = "removing"
    BY <1>1, Throws
  <2>2. Intake!TypeOK'
    BY <1>0, <1>1, <2>1 DEF Intake!TypeOK
  <2>3. ~helpers /\ git' = "none"
    BY <1>1 DEF IntakeFits
  <2>4. /\ workspace = "none" \/ (workspace = "present" /\ cleanup = "unused")
        /\ cleanup = "unused" /\ ~stray
    BY <1>0, <1>1 DEF IntakeFits, Intake!TypeOK, Intake!Commands
  <2> QED BY <1>1, <2>1, <2>2, <2>3, <2>4 DEF IntakeFits, Intake!Commands
<1>2. CASE Intake!Create
  <2>1. "WORKSPACE_CREATE_FAILED" \in Intake!Errors
    BY DEF Intake!Errors
  <2>2. git = "none"
    BY <1>2 DEF IntakeFits, Intake!Create, Intake!Commands
  <2>3. CASE Intake!Throw("WORKSPACE_CREATE_FAILED") /\ UNCHANGED workspace
    BY <1>1, <1>2, <2>1, <2>2, <2>3 DEF Intake!Create, Intake!request, Intake!process
  <2>4. CASE step' = "init" /\ workspace' = "present" /\ UNCHANGED error
    <3>1. /\ step = "create" /\ UNCHANGED <<stray, revision, head, cleanup>>
          /\ Keep
      BY <1>2 DEF Intake!Create, Intake!request, Intake!process
    <3>2. cleanup = "unused"
      BY <3>1 DEF IntakeFits
    <3> QED BY <1>0, <2>2, <2>4, <3>1, <3>2 DEF Intake!TypeOK, IntakeFits, Intake!Commands
  <2> QED BY <1>2, <2>3, <2>4 DEF Intake!Create
<1>3. CASE Intake!SpawnFails
  <2>1. "GIT_TRANSPORT_FAILED" \in Intake!Errors
    BY DEF Intake!Errors
  <2> QED BY <1>1, <1>3, <2>1 DEF Intake!SpawnFails, Intake!request, Intake!process,
             Intake!Commands
<1>4. CASE Intake!Spawn
  BY <1>0, <1>4 DEF Intake!Spawn, Intake!request, Intake!TypeOK, IntakeFits
<1>5. CASE Intake!Timer
  <2>1. timedOut' \in BOOLEAN /\ exceeded' \in BOOLEAN
    BY <1>0, <1>5 DEF Intake!Timer, Intake!TypeOK
  <2> QED BY <1>5, <2>1, Kills DEF Intake!Timer, Intake!request
<1>6. CASE Intake!Overflow
  <2>1. timedOut' \in BOOLEAN /\ exceeded' \in BOOLEAN
    BY <1>0, <1>6 DEF Intake!Overflow, Intake!TypeOK
  <2> QED BY <1>6, <2>1, Kills DEF Intake!Overflow, Intake!request
<1>7. CASE Intake!Exit
  <2>1. head' \in Commits \cup {None}
    <3>1. step = "checkout" => revision \in Commits \cup Tags
      BY <1>0, NoneAssumption DEF IntakeFits, Intake!TypeOK, Intake!Objects
    <3> QED BY <1>0, <1>7, <3>1, TagAssumption DEF Intake!Exit, Intake!TypeOK
  <2>2. step \in Intake!Commands
    BY <1>7 DEF IntakeFits, Intake!Exit
  <2> QED BY <1>0, <1>7, <2>1, <2>2
          DEF Intake!Exit, Intake!request, Intake!TypeOK, IntakeFits, Intake!Commands
<1>8. CASE Intake!HelpersEnd
  <2>1. /\ helpers' = FALSE
        /\ UNCHANGED <<step, asked, listing, git, timedOut, exceeded, killed, stray, revision,
                       head, workspace, cleanup, error>>
    BY <1>8 DEF Intake!HelpersEnd, Intake!request
  <2>2. helpers' \in BOOLEAN
    BY <2>1
  <2>3. Intake!TypeOK'
    <3>1. timedOut' \in BOOLEAN /\ exceeded' \in BOOLEAN /\ killed' \in BOOLEAN
          /\ stray' \in BOOLEAN
      BY <1>0, <2>1 DEF Intake!TypeOK
    <3> QED BY <1>0, <2>1, <2>2, <3>1 DEF Intake!TypeOK, Intake!Objects, Intake!Commands, Intake!Errors
  <2> QED BY <2>1, <2>3 DEF IntakeFits
<1>9. CASE Intake!Close
  <2>1. PICK out \in SUBSET Intake!Objects : Intake!Printed(out) /\ Intake!Verdict(out)
    BY <1>9 DEF Intake!Close
  <2>2. /\ ~helpers /\ git \in {"exited", "exitedBadly"} /\ step \in Intake!Commands
        /\ git' = "none" /\ timedOut' = FALSE /\ exceeded' = FALSE /\ killed' = FALSE
        /\ UNCHANGED <<asked, listing, helpers, stray, head, workspace, cleanup>>
    BY <1>9 DEF Intake!Close, Intake!Closed, Intake!Settled, Intake!request, IntakeFits
  <2>3. CASE \E code \in Intake!Errors : Intake!Throw(code) /\ UNCHANGED revision
    <3>1. PICK code \in Intake!Errors : Intake!Throw(code) /\ UNCHANGED revision
      BY <2>3
    <3> QED BY <1>1, <2>2, <3>1 DEF Intake!Commands
  <2>4. CASE ~ \E code \in Intake!Errors : Intake!Throw(code) /\ UNCHANGED revision
    <3>1. ~timedOut /\ ~exceeded /\ git = "exited" /\ Intake!Resolves(out)
      BY <1>0, <2>1, <2>2, <2>4 DEF Intake!Verdict, Intake!Errors, Intake!TypeOK
    <3>2. out = Intake!Complete
      BY <2>1, <3>1, OutputIsWhole
    <3>3. ~stray /\ cleanup = "unused"
      BY <2>2 DEF IntakeFits, Intake!Commands
    <3>4. CASE step \in DOMAIN Intake!Following
      <4>1. /\ step' \in {"remote", "fetch", "checkout", "rev-parse"}
            /\ step \in {"init", "remote", "fetch", "checkout"}
            /\ UNCHANGED <<revision, error>>
        <5>1. /\ DOMAIN Intake!Following = {"init", "remote", "fetch", "checkout"}
              /\ \A s \in DOMAIN Intake!Following :
                   Intake!Following[s] \in {"remote", "fetch", "checkout", "rev-parse"}
          BY DEF Intake!Following
        <5>2. step' = Intake!Following[step] /\ UNCHANGED <<revision, error>>
          BY <3>1, <3>4, <5>1 DEF Intake!Resolves
        <5> QED BY <3>4, <5>1, <5>2
      <4> QED BY <1>0, <2>2, <3>3, <4>1
              DEF Intake!TypeOK, IntakeFits, Intake!Commands
    <3>5. CASE step \notin DOMAIN Intake!Following
      <4>1. step \in {"ls-remote", "rev-parse"}
        BY <2>2, <3>5 DEF Intake!Commands, Intake!Following
      <4>2. Intake!NamesOne(out)
        BY <2>4, <3>1, <3>5 DEF Intake!Resolves, Intake!Errors
      <4>3. PICK o \in Intake!Objects : out = {o}
        BY <4>2 DEF Intake!NamesOne
      <4>4. CASE step = "ls-remote"
        <5>1. out = listing
          BY <3>2, <4>4 DEF Intake!Complete
        <5>2. revision' = o /\ step' = "create" /\ UNCHANGED error
          BY <3>1, <3>5, <4>2, <4>3, <4>4 DEF Intake!Resolves
        <5>3. asked = None /\ workspace = "none"
          BY <4>4 DEF IntakeFits
        <5> QED BY <1>0, <2>2, <3>3, <4>3, <5>1, <5>2, <5>3
                DEF Intake!TypeOK, IntakeFits, Intake!Commands
      <4>5. CASE step = "rev-parse"
        <5>1. out = {head} \ {None}
          BY <3>2, <4>5 DEF Intake!Complete
        <5>2. UNCHANGED revision /\ (out = {revision} /\ step' = "measure" /\ UNCHANGED error)
          BY <2>4, <3>1, <3>5, <4>2, <4>5
             DEF Intake!Resolves, Intake!HeadIsRevision, Intake!Errors
        <5>3. head = revision
          BY <5>1, <5>2
        <5> QED BY <1>0, <2>2, <3>3, <4>5, <5>2, <5>3
                DEF Intake!TypeOK, IntakeFits, Intake!Commands
      <4> QED BY <4>1, <4>4, <4>5
    <3> QED BY <3>4, <3>5
  <2> QED BY <2>3, <2>4
<1>10. CASE Intake!Measure
  <2>1. "REPOSITORY_SIZE_LIMIT" \in Intake!Errors
    BY DEF Intake!Errors
  <2>2. git = "none"
    BY <1>10 DEF IntakeFits, Intake!Measure, Intake!Commands
  <2>3. CASE Intake!Throw("REPOSITORY_SIZE_LIMIT")
    BY <1>1, <1>10, <2>1, <2>2, <2>3 DEF Intake!Measure, Intake!request, Intake!process
  <2>4. CASE step' = "acquired" /\ UNCHANGED error
    BY <1>0, <1>10, <2>2, <2>4
       DEF Intake!Measure, Intake!request, Intake!process, Intake!TypeOK, IntakeFits
  <2> QED BY <1>10, <2>3, <2>4 DEF Intake!Measure
<1>11. CASE Intake!Remove
  <2>1. /\ step = "removing" /\ step' = "refused" /\ Keep /\ UNCHANGED <<revision, head>>
        /\ error' \in Intake!Errors \cup {"none"}
    BY <1>0, <1>11
       DEF Intake!Remove, Intake!request, Intake!process, Intake!TypeOK, Intake!Errors
  <2>2. git = "none" /\ cleanup = "unused" /\ workspace = "present" /\ ~helpers
    BY <2>1 DEF IntakeFits, Intake!Commands
  <2>3. \/ cleanup' = "done" /\ workspace' = "gone"
        \/ cleanup' = "failed" /\ workspace' = workspace
    BY <1>11, <2>2 DEF Intake!Remove, Intake!Cleanup
  <2> QED BY <1>0, <2>1, <2>2, <2>3 DEF Intake!TypeOK, IntakeFits, Intake!Commands
<1> QED BY <1>2, <1>3, <1>4, <1>5, <1>6, <1>7, <1>8, <1>9, <1>10, <1>11 DEF Intake!Next

-----------------------------------------------------------------------------
(* The concepts. *)

\* Every step of the generation keeps its part of the invariant, and what the
\* bundle says of it.
LEMMA GenerationStep ==
  ASSUME TypeOK, ConceptsFit, bundle = None,
         Generation!Assemble \/ \E k \in Kinds : Generation!GenStep(k)
  PROVE  Generation!GenTypeOK' /\ ConceptsFit' /\ BundleIsHonest'
<1> USE ModelsAssumption
<1>0. Generation!GenTypeOK
  BY DEF TypeOK
<1>1. CASE Generation!Assemble
  <2> DEFINE written == {k \in Kinds : by[k] # None}
  <2>1. /\ \A k \in Kinds : phase[k] = "settled"
        /\ bundle' = [written |-> by,
                      generator |-> IF written = {} THEN "deterministic-baseline"
                                    ELSE IF written = Kinds THEN "model-provider"
                                    ELSE "model-provider-hybrid",
                      models |-> {by[k] : k \in written}]
        /\ UNCHANGED <<phase, model, by>>
    BY <1>1 DEF Generation!Assemble, Generation!AllSettled, Generation!Bundle
  <2>2. {by[k] : k \in written} \subseteq Identities
    BY <1>0 DEF Generation!GenTypeOK
  <2>3. bundle' \in Generation!Bundles
    BY <1>0, <2>1, <2>2 DEF Generation!Bundles, Generation!GenTypeOK
  <2>4. Generation!GenTypeOK'
    BY <1>0, <2>1, <2>3 DEF Generation!GenTypeOK
  <2>5. ConceptsFit'
    BY <2>1 DEF ConceptsFit
  <2>6. {by[k] : k \in written} = {by[k] : k \in Kinds} \ {None}
    OBVIOUS
  <2>7. /\ bundle'.written = by'
        /\ bundle'.models = {by'[k] : k \in Kinds} \ {None}
        /\ \A k \in Kinds : by'[k] = None => model'[k] > Models
    BY <2>1, <2>6 DEF ConceptsFit
  <2>8. written = {} <=> \A k \in Kinds : by[k] = None
    OBVIOUS
  <2>9. written = Kinds <=> \A k \in Kinds : by[k] # None
    OBVIOUS
  <2>10. Kinds # {}
    OBVIOUS
  <2>11. bundle'.generator = "model-provider" <=> written = Kinds
    BY <2>1, <2>10
  <2>12. bundle'.generator = "deterministic-baseline" <=> written = {}
    BY <2>1
  <2>13. BundleIsHonest'
    BY <2>1, <2>7, <2>8, <2>9, <2>11, <2>12 DEF BundleIsHonest
  <2> QED BY <2>4, <2>5, <2>13
<1>2. ASSUME NEW k \in Kinds, Generation!GenStep(k)
      PROVE  Generation!GenTypeOK' /\ ConceptsFit' /\ BundleIsHonest'
  <2>0. /\ phase \in [Kinds -> {"next", "fetch", "body", "settled"}]
        /\ model \in [Kinds -> 1 .. (Models + 1)]
        /\ by \in [Kinds -> Identities \cup {None}]
    BY <1>0 DEF Generation!GenTypeOK
  <2>1. bundle' = None
    BY <1>2 DEF Generation!GenStep, Generation!Send, Generation!RequestRefused,
       Generation!TimesOut, Generation!Headers, Generation!Accept, Generation!Refuse,
       Generation!GiveUp
  <2>2. ASSUME NEW p \in {"fetch", "body"}, phase' = [phase EXCEPT ![k] = p],
               UNCHANGED <<model, by>>, model[k] <= Models, phase[k] # "settled"
        PROVE  Generation!GenTypeOK' /\ ConceptsFit'
    <3>1. Generation!GenTypeOK'
      BY <2>0, <2>1, <2>2 DEF Generation!GenTypeOK
    <3>2. \A j \in Kinds : j # k => phase'[j] = phase[j]
      BY <2>0, <2>2
    <3>3. phase'[k] = p
      BY <2>0, <2>2
    <3> QED BY <2>1, <2>2, <3>1, <3>2, <3>3 DEF ConceptsFit
  <2>3. ASSUME phase' = [phase EXCEPT ![k] = "settled"], UNCHANGED model,
               NEW i \in Identities \cup {None}, by' = [by EXCEPT ![k] = i],
               i = None => model[k] > Models
        PROVE  Generation!GenTypeOK' /\ ConceptsFit'
    <3>1. by' \in [Kinds -> Identities \cup {None}]
      BY <2>0, <2>3
    <3>2. Generation!GenTypeOK'
      BY <2>0, <2>1, <2>3, <3>1 DEF Generation!GenTypeOK
    <3>3. \A j \in Kinds : j # k => phase'[j] = phase[j] /\ by'[j] = by[j]
      BY <2>0, <2>3
    <3>4. phase'[k] = "settled" /\ by'[k] = i
      BY <2>0, <2>3
    <3> QED BY <2>1, <2>3, <3>2, <3>3, <3>4 DEF ConceptsFit
  <2>4. ASSUME Generation!TryNext(k), UNCHANGED by, phase[k] # "settled", model[k] <= Models
        PROVE  Generation!GenTypeOK' /\ ConceptsFit'
    <3>1. /\ phase' = [phase EXCEPT ![k] = "next"]
          /\ model' = [model EXCEPT ![k] = model[k] + 1]
      BY <2>0, <2>4 DEF Generation!TryNext
    <3>2. model[k] + 1 \in 1 .. (Models + 1)
      BY <2>0, <2>4
    <3>3. model' \in [Kinds -> 1 .. (Models + 1)]
      BY <2>0, <3>1, <3>2
    <3>4. Generation!GenTypeOK'
      BY <2>0, <2>1, <2>4, <3>1, <3>3 DEF Generation!GenTypeOK
    <3>5. \A j \in Kinds : j # k => phase'[j] = phase[j] /\ model'[j] = model[j]
      BY <2>0, <3>1
    <3>6. phase'[k] = "next" /\ by'[k] = None
      BY <2>0, <2>4, <3>1 DEF ConceptsFit
    <3> QED BY <2>1, <2>4, <3>4, <3>5, <3>6 DEF ConceptsFit
  <2>5. Generation!GenTypeOK' /\ ConceptsFit'
    <3>1. CASE Generation!Send(k)
      <4>1. /\ phase' = [phase EXCEPT ![k] = "fetch"] /\ by' = by /\ UNCHANGED model
            /\ model[k] <= Models /\ phase[k] # "settled"
        BY <3>1 DEF Generation!Send, Generation!HasModel
      <4> QED BY <2>2, <4>1
    <3>2. CASE Generation!RequestRefused(k)
      BY <2>4, <3>2 DEF Generation!RequestRefused, Generation!HasModel
    <3>3. CASE Generation!TimesOut(k)
      BY <2>4, <3>3 DEF Generation!TimesOut, ConceptsFit
    <3>4. CASE Generation!Headers(k)
      <4>1. /\ by' = by /\ model[k] <= Models /\ phase[k] # "settled"
            /\ \/ phase' = [phase EXCEPT ![k] = "body"] /\ UNCHANGED model
               \/ Generation!TryNext(k)
        BY <3>4 DEF Generation!Headers, ConceptsFit
      <4>2. CASE Generation!TryNext(k)
        BY <2>4, <4>1, <4>2
      <4>3. CASE phase' = [phase EXCEPT ![k] = "body"] /\ UNCHANGED model
        BY <2>2, <4>1, <4>3
      <4> QED BY <4>1, <4>2, <4>3
    <3>5. CASE Generation!Accept(k)
      <4>1. PICK i \in Identities : by' = [by EXCEPT ![k] = i]
        BY <3>5 DEF Generation!Accept
      <4>2. phase' = [phase EXCEPT ![k] = "settled"] /\ UNCHANGED model
        BY <3>5 DEF Generation!Accept
      <4>3. i \in Identities \cup {None} /\ i # None
        BY NoneAssumption
      <4> QED BY <2>3, <4>1, <4>2, <4>3
    <3>6. CASE Generation!Refuse(k)
      BY <2>4, <3>6 DEF Generation!Refuse, ConceptsFit
    <3>7. CASE Generation!GiveUp(k)
      <4>1. phase' = [phase EXCEPT ![k] = "settled"] /\ by' = by /\ UNCHANGED model
        BY <3>7 DEF Generation!GiveUp
      <4>2. model[k] > Models
        BY <2>0, <3>7 DEF Generation!GiveUp, Generation!HasModel
      <4>3. by[k] = None
        BY <3>7 DEF Generation!GiveUp, ConceptsFit
      <4>4. by' = [by EXCEPT ![k] = None]
        BY <2>0, <4>1, <4>3
      <4> QED BY <2>3, <4>1, <4>2, <4>4
    <3> QED BY <1>2, <3>1, <3>2, <3>3, <3>4, <3>5, <3>6, <3>7 DEF Generation!GenStep
  <2> QED BY <2>1, <2>5 DEF BundleIsHonest
<1> QED BY <1>1, <1>2

\* What does not touch the concepts leaves what is known of them.
LEMMA ConceptsKept ==
  ASSUME IInv, UNCHANGED generation
  PROVE  Generation!GenTypeOK' /\ ConceptsFit' /\ BundleIsHonest'
BY DEF IInv, TypeOK, generation, Generation!GenTypeOK, ConceptsFit, BundleIsHonest

\* What does not touch the intake leaves what is known of it.
LEMMA IntakeKept ==
  ASSUME IInv, UNCHANGED intake
  PROVE  Intake!TypeOK' /\ IntakeFits'
BY DEF IInv, TypeOK, intake, Intake!TypeOK, IntakeFits

\* The memoised removal of an acquired workspace: tried once, and then it is
\* gone or the removal has failed.
LEMMA CleanupStep ==
  ASSUME IInv, step = "acquired", Intake!Cleanup,
         UNCHANGED <<step, asked, listing, git, helpers, timedOut, exceeded, killed, stray,
                     revision, head, error>>
  PROVE  /\ Intake!TypeOK' /\ IntakeFits'
         /\ cleanup' \in {"done", "failed"}
         /\ cleanup # "unused" => UNCHANGED <<cleanup, workspace>>
<1>0. Intake!TypeOK /\ IntakeFits
  BY DEF IInv, TypeOK
<1>1. \/ cleanup = "unused" /\ cleanup' = "done" /\ workspace' = "gone"
      \/ cleanup = "unused" /\ cleanup' = "failed" /\ workspace' = workspace
      \/ cleanup # "unused" /\ UNCHANGED <<cleanup, workspace>>
  BY DEF Intake!Cleanup
<1>2. workspace # "none" /\ (cleanup = "unused" => workspace = "present")
  BY <1>0 DEF IntakeFits, Intake!TypeOK
<1>3. cleanup' \in {"done", "failed"} /\ workspace' \in {"present", "gone"}
  BY <1>0, <1>1, <1>2 DEF Intake!TypeOK, IntakeFits
<1>4. Intake!TypeOK'
  BY <1>0, <1>3 DEF Intake!TypeOK, Intake!Objects, Intake!Commands, Intake!Errors
<1>5. IntakeFits'
  BY <1>0, <1>1, <1>2, <1>3 DEF IntakeFits, Intake!Commands
<1> QED BY <1>1, <1>3, <1>4, <1>5

-----------------------------------------------------------------------------
(* The worker. *)

\* A step of the worker that leaves the intake and the concepts alone.
LEMMA WorkerMoves ==
  ASSUME IInv, UNCHANGED <<intake, generation>>,
         snapshot' \in Commits \cup {None}, copy' \in {"none", "present", "gone"},
         rehydrated' \in BOOLEAN, stuck' \in BOOLEAN, result' \in {"none", "ready", "failed"},
         at' \in {"inventory", "snapshot", "clean", "rehydrate", "analyse", "generate",
                  "dispose", "deliver", "unwindCopy", "unwindWorkspace", "rollback", "finally"},
         WorkerFits'
  PROVE  IInv'
<1>1. Intake!TypeOK' /\ IntakeFits'
  BY IntakeKept
<1>2. Generation!GenTypeOK' /\ ConceptsFit' /\ BundleIsHonest'
  BY ConceptsKept
<1>3. TypeOK'
  BY <1>1, <1>2 DEF TypeOK
<1> QED BY <1>1, <1>2, <1>3 DEF IInv

\* A step of the worker that calls the memoised removal, or does without it.
LEMMA WorkerCleans ==
  ASSUME IInv, step = "acquired", Intake!Cleanup \/ UNCHANGED <<cleanup, workspace>>,
         UNCHANGED <<step, asked, listing, git, helpers, timedOut, exceeded, killed, stray,
                     revision, head, error, generation, files, result>>,
         at' \in {"rehydrate", "unwindCopy", "rollback", "over"},
         cleanup' = "done" \/ at' # "rehydrate",
         Intake!Cleanup \/ at' # "over",
         at' = "rehydrate" => at = "clean",
         at' = "unwindCopy" => at = "clean",
         at' = "rollback" => at = "unwindWorkspace",
         at' = "over" => at = "finally"
  PROVE  IInv'
<1>0. TypeOK /\ IntakeFits /\ WorkerFits
  BY DEF IInv
<1>1. /\ Intake!TypeOK' /\ IntakeFits'
      /\ cleanup # "unused" => UNCHANGED <<cleanup, workspace>>
  <2>1. CASE Intake!Cleanup
    BY <2>1, CleanupStep
  <2>2. CASE UNCHANGED <<cleanup, workspace>>
    <3>1. UNCHANGED intake
      BY <2>2 DEF intake
    <3> QED BY <2>2, <3>1, IntakeKept
  <2> QED BY <2>1, <2>2
<1>2. Intake!Cleanup => cleanup' # "unused"
  BY CleanupStep
<1>3. Generation!GenTypeOK' /\ ConceptsFit' /\ BundleIsHonest'
  BY ConceptsKept
<1>4. TypeOK'
  BY <1>0, <1>1, <1>3 DEF TypeOK, files
<1>5. WorkerFits'
  BY <1>0, <1>1, <1>2 DEF WorkerFits, files, TypeOK
<1> QED BY <1>1, <1>3, <1>4, <1>5 DEF IInv

\* Every step preserves the inductive invariant.
LEMMA InvariantStep == IInv /\ [Next]_vars => IInv'
<1> SUFFICES ASSUME IInv, [Next]_vars PROVE IInv'
  OBVIOUS
<1>0. /\ TypeOK /\ IntakeFits /\ WorkerFits /\ ConceptsFit /\ BundleIsHonest
      /\ snapshot \in Commits \cup {None} /\ copy \in {"none", "present", "gone"}
      /\ rehydrated \in BOOLEAN /\ stuck \in BOOLEAN /\ result \in {"none", "ready", "failed"}
      /\ step = "acquired" => head = revision /\ head \in Commits \cup {None}
  BY DEF IInv, TypeOK, IntakeFits, Intake!TypeOK
<1>1. CASE Acquire
  <2>1. /\ at = "acquire" /\ Intake!Next /\ step \notin {"acquired", "refused"}
        /\ UNCHANGED <<generation, at, files, result>>
    BY <1>1 DEF Acquire
  <2>2. Intake!TypeOK' /\ IntakeFits'
    BY <1>0, <2>1, IntakeStep
  <2>3. Generation!GenTypeOK' /\ ConceptsFit' /\ BundleIsHonest'
    BY <2>1, ConceptsKept
  <2>4. TypeOK'
    BY <1>0, <2>1, <2>2, <2>3 DEF TypeOK, files
  <2>5. cleanup' = "unused" \/ step' = "refused"
    <3>1. cleanup = "unused"
      BY <1>0, <2>1 DEF WorkerFits
    <3>2. cleanup' = cleanup \/ step' = "refused"
      BY <2>1 DEF Intake!Next, Intake!Create, Intake!SpawnFails, Intake!Spawn, Intake!Timer,
         Intake!Overflow, Intake!Exit, Intake!HelpersEnd, Intake!Close, Intake!Measure,
         Intake!Remove
    <3> QED BY <3>1, <3>2
  <2>6. WorkerFits'
    BY <1>0, <2>1, <2>5 DEF WorkerFits, files
  <2> QED BY <2>2, <2>3, <2>4, <2>6 DEF IInv
<1>2. CASE Generate
  <2>1. /\ bundle = None /\ UNCHANGED <<intake, at, files, result>>
        /\ Generation!Assemble \/ \E k \in Kinds : Generation!GenStep(k)
    BY <1>2 DEF Generate
  <2>2. Generation!GenTypeOK' /\ ConceptsFit' /\ BundleIsHonest'
    BY <1>0, <2>1, GenerationStep
  <2>3. Intake!TypeOK' /\ IntakeFits'
    BY <2>1, IntakeKept
  <2>4. TypeOK'
    BY <1>0, <2>1, <2>2, <2>3 DEF TypeOK, files
  <2>5. WorkerFits'
    BY <1>0, <2>1 DEF WorkerFits, files, intake
  <2> QED BY <2>2, <2>3, <2>4, <2>5 DEF IInv
<1>3. CASE Acquired
  <2>1. WorkerFits'
    BY <1>0, <1>3 DEF Acquired, Others, WorkerFits, files, intake
  <2> QED BY <1>0, <1>3, <2>1, WorkerMoves DEF Acquired, Others, files
<1>4. CASE NotAcquired
  <2>1. WorkerFits'
    BY <1>0, <1>4 DEF NotAcquired, Others, WorkerFits, files, intake
  <2> QED BY <1>0, <1>4, <2>1, WorkerMoves DEF NotAcquired, Others, files
<1>5. CASE Inventory
  <2>1. WorkerFits'
    BY <1>0, <1>5 DEF Inventory, Others, WorkerFits, files, intake
  <2> QED BY <1>0, <1>5, <2>1, WorkerMoves DEF Inventory, Others, files
<1>6. CASE StoreSnapshot
  <2>1. WorkerFits' /\ snapshot' \in Commits \cup {None}
    BY <1>0, <1>6 DEF StoreSnapshot, Others, WorkerFits, intake
  <2> QED BY <1>0, <1>6, <2>1, WorkerMoves DEF StoreSnapshot, Others
<1>7. CASE Clean
  <2>1. step = "acquired"
    BY <1>0, <1>7 DEF Clean, WorkerFits
  <2>2. at' \in {"rehydrate", "unwindCopy"} /\ (at' = "rehydrate" => cleanup' = "done")
    <3>1. cleanup' \in {"done", "failed"}
      BY <1>7, <2>1, CleanupStep DEF Clean
    <3> QED BY <1>7, <3>1 DEF Clean
  <2> QED BY <1>7, <2>1, <2>2, WorkerCleans DEF Clean
<1>8. CASE Rehydrate
  <2>1. WorkerFits'
    BY <1>0, <1>8 DEF Rehydrate, Others, WorkerFits, intake
  <2> QED BY <1>0, <1>8, <2>1, WorkerMoves DEF Rehydrate, Others
<1>9. CASE Analyse
  <2>1. WorkerFits'
    BY <1>0, <1>9 DEF Analyse, Others, WorkerFits, files, intake
  <2> QED BY <1>0, <1>9, <2>1, WorkerMoves DEF Analyse, Others, files
<1>10. CASE Generated
  <2>1. WorkerFits'
    BY <1>0, <1>10 DEF Generated, Others, WorkerFits, files, intake
  <2> QED BY <1>0, <1>10, <2>1, WorkerMoves DEF Generated, Others, files
<1>11. CASE Dispose
  <2>1. WorkerFits'
    BY <1>0, <1>11 DEF Dispose, RemoveCopy, Others, WorkerFits, intake
  <2> QED BY <1>0, <1>11, <2>1, WorkerMoves DEF Dispose, RemoveCopy, Others
<1>12. CASE Deliver
  <2>1. WorkerFits'
    BY <1>0, <1>12 DEF Deliver, Others, WorkerFits, intake
  <2> QED BY <1>0, <1>12, <2>1, WorkerMoves DEF Deliver, Others
<1>13. CASE UnwindCopy
  <2>1. WorkerFits'
    BY <1>0, <1>13 DEF UnwindCopy, RemoveCopy, Others, WorkerFits, intake
  <2> QED BY <1>0, <1>13, <2>1, WorkerMoves DEF UnwindCopy, RemoveCopy, Others
<1>14. CASE UnwindWorkspace
  <2>1. step = "acquired"
    BY <1>0, <1>14 DEF UnwindWorkspace, WorkerFits
  <2> QED BY <1>14, <2>1, WorkerCleans DEF UnwindWorkspace
<1>15. CASE Rollback
  <2>1. WorkerFits'
    BY <1>0, <1>15 DEF Rollback, Others, WorkerFits, intake
  <2> QED BY <1>0, <1>15, <2>1, WorkerMoves DEF Rollback, Others
<1>16. CASE Finally
  <2>1. CASE step = "acquired"
    BY <1>16, <2>1, WorkerCleans DEF Finally
  <2>2. CASE step # "acquired"
    <3>1. UNCHANGED <<intake, generation, files, result>> /\ at = "finally" /\ at' = "over"
      BY <1>16, <2>2 DEF Finally, intake
    <3>2. Intake!TypeOK' /\ IntakeFits'
      BY <3>1, IntakeKept
    <3>3. Generation!GenTypeOK' /\ ConceptsFit' /\ BundleIsHonest'
      BY <3>1, ConceptsKept
    <3>4. TypeOK'
      BY <1>0, <3>1, <3>2, <3>3 DEF TypeOK, files
    <3>5. WorkerFits'
      BY <1>0, <2>2, <3>1 DEF WorkerFits, files, intake
    <3> QED BY <3>2, <3>3, <3>4, <3>5 DEF IInv
  <2> QED BY <2>1, <2>2
<1>17. CASE UNCHANGED vars
  <2>1. Intake!TypeOK' /\ IntakeFits'
    BY <1>17, IntakeKept DEF vars
  <2>2. Generation!GenTypeOK' /\ ConceptsFit' /\ BundleIsHonest'
    BY <1>17, ConceptsKept DEF vars
  <2>3. TypeOK'
    BY <1>0, <1>17, <2>1, <2>2 DEF TypeOK, files, vars
  <2>4. WorkerFits'
    BY <1>0, <1>17 DEF WorkerFits, files, intake, vars
  <2> QED BY <2>1, <2>2, <2>3, <2>4 DEF IInv
<1> QED BY <1>1, <1>2, <1>3, <1>4, <1>5, <1>6, <1>7, <1>8, <1>9, <1>10, <1>11, <1>12, <1>13,
           <1>14, <1>15, <1>16, <1>17 DEF Next, Work

-----------------------------------------------------------------------------

\* The worker keeps the inductive invariant, whatever git, the provider and the
\* file system do.
THEOREM GitReviewInvariant == Spec => []IInv
<1>1. Init => IInv
  BY Initially
<1>2. IInv /\ [Next]_vars => IInv'
  BY InvariantStep
<1> QED BY <1>1, <1>2, PTL DEF Spec

\* Every variable keeps its type, those of the intake and of the generation
\* included.
THEOREM TypeCorrect == Spec => []TypeOK
<1>1. IInv => TypeOK
  BY DEF IInv
<1> QED BY <1>1, GitReviewInvariant, PTL

\* What is reviewed is the object the client's ref stood for, although a killed
\* git may have printed half of it: such an output is never used.
THEOREM RevisionIsPinned == Spec => []PinnedRevision
<1>1. IInv => PinnedRevision
  BY DEF IInv, WorkerFits, IntakeFits, PinnedRevision
<1> QED BY <1>1, GitReviewInvariant, PTL

\* Neither git nor a helper of it writes to a workspace that is measured, read or
\* removed, and no intake that left a child behind is acquired.
THEOREM WorkspaceIsQuiet == Spec => []QuietWorkspace
<1>1. IInv => QuietWorkspace
  BY DEF IInv, IntakeFits, QuietWorkspace, Intake!Commands
<1> QED BY <1>1, GitReviewInvariant, PTL

\* A copy of the source outlives its worker only if a removal of it has failed,
\* and then the job is not ready.
THEOREM SourceGoesWithItsWorker == Spec => []SourceIsDisposed
<1>1. IInv => SourceIsDisposed
  BY DEF IInv, TypeOK, WorkerFits, IntakeFits, SourceIsDisposed, Intake!TypeOK
<1> QED BY <1>1, GitReviewInvariant, PTL

\* A review is generated from the rehydrated copy of the pinned revision, when
\* the workspace of the intake is gone.
THEOREM ReviewReadsTheCopy == Spec => []ReviewedFromTheCopy
<1>1. IInv => ReviewedFromTheCopy
  BY DEF IInv, WorkerFits, IntakeFits, ReviewedFromTheCopy
<1> QED BY <1>1, GitReviewInvariant, PTL

\* The metadata of a bundle names exactly the models that wrote its concepts, in
\* whatever order their calls have settled.
THEOREM MetadataIsHonest == Spec => []BundleIsHonest
<1>1. IInv => BundleIsHonest
  BY DEF IInv
<1> QED BY <1>1, GitReviewInvariant, PTL
=============================================================================

-------------------------- MODULE TransferPoolProofs --------------------------
(***************************************************************************)
(* TransferPool for every set of workers and number of parts: a nil return *)
(* means that every part is recorded, an error return that something       *)
(* failed, no worker outlives the call, and every step is one that         *)
(* PoolContract allows.  And PartPlan for every size and request: the plan  *)
(* of the parts that the pool then transfers covers the file.               *)
(***************************************************************************)
EXTENDS TransferPool, PartPlan, TransferPartsProofs, FiniteSetTheorems, TLAPS

\* A worker that has a part in hand.
Carries(w) == worker[w].does \in {"calls", "delivers", "deliversErr"}
Failing(w) == worker[w].does = "deliversErr"

\* Every part is in one place at most.
InOnePlace ==
    /\ todo \cap recorded = {}
    /\ \A w \in Workers : Carries(w) => worker[w].part \in Parts \ (todo \cup recorded)
    /\ \A v, w \in Workers :
        Carries(v) /\ Carries(w) /\ v # w => worker[v].part # worker[w].part
    /\ collector.does = "records" =>
        /\ collector.part \in Parts \ (todo \cup recorded)
        /\ \A w \in Workers : Carries(w) => worker[w].part # collector.part

\* Until the pool is cancelled no part is dropped.
NoneDropped ==
    cancelled \/ collector.does = "takesErr" \/
    \A n \in Parts :
        \/ n \in todo \cup recorded
        \/ collector.does = "records" /\ collector.part = n
        \/ \E w \in Workers : Carries(w) /\ worker[w].part = n

\* How far each goroutine is tells how far the others are.
InStep ==
    /\ collector.does = "starts" =>
        /\ feeder = "unborn" /\ results = "open" /\ ~ cancelled
        /\ \A w \in Workers : worker[w].does = "unborn"
    /\ collector.does # "starts" /\ feeder = "unborn" => result = "nil"
    /\ \A w \in Workers : worker[w].does = "unborn" <=> feeder = "unborn"
    /\ feeder = "gone" => todo = {} \/ cancelled
    /\ \A w \in Workers : gone(w) =>
        feeder = "gone" \/ cancelled \/ collector.does = "takesErr"
    /\ results = "closed" => \A w \in Workers : gone(w)
    /\ result # "none" <=> collector.does = "returned"
    /\ collector.does = "returned" /\ feeder # "unborn" => results = "closed"

\* What is known of errors.
Errors ==
    /\ cancelled /\ result = "none" => firstErr
    /\ firstErr => cancelled
    /\ ~ firstErr => saved = recorded /\ saveFails = 0
    /\ firstErr => callFails + saveFails > 0
    /\ (\E w \in Workers : Failing(w)) \/ collector.does = "takesErr"
        => callFails > 0 \/ cancelled
    /\ callFails > 0 =>
        firstErr \/ collector.does = "takesErr" \/ \E w \in Workers : Failing(w)
    /\ result = "error" <=> result # "none" /\ firstErr

\* The inductive invariant.
PoolInv ==
    TypeOK /\ InOnePlace /\ NoneDropped /\ InStep /\ Errors
    /\ NilMeansAllSaved /\ ErrorIsReported /\ QuietAfterReturn

\* The vocabulary of the actions.
USE DEF At, Idle, gone, Become, Carries, Failing, Parts, Missing, book, fails,
        AfterDelivery, SaveErr, WorkerStates, CollectorStates

-----------------------------------------------------------------------------
\* The initial states satisfy the invariant.
LEMMA PoolInit == Init => PoolInv
<1>. SUFFICES ASSUME Init PROVE PoolInv
  OBVIOUS
<1>1. completed \in Nat
  <2>1. IsFiniteSet(Parts)
    BY PoolInputs, FS_Interval
  <2>2. IsFiniteSet(recorded)
    BY <2>1, FS_Subset DEF Init
  <2>. QED  BY <2>2, FS_CardinalityType DEF Init
<1>2. TypeOK
  BY <1>1 DEF Init, TypeOK
<1>. QED
  BY <1>2 DEF Init, PoolInv, InOnePlace, NoneDropped, InStep, Errors,
     NilMeansAllSaved, ErrorIsReported, QuietAfterReturn

LEMMA NothingMissingStep == ASSUME PoolInv, NothingMissing PROVE PoolInv'
<1>. USE PoolInputs DEF PoolInv, NothingMissing
<1>1. TypeOK'
  BY DEF TypeOK
<1>2. InOnePlace'
  BY DEF TypeOK, InOnePlace, InStep
<1>3. NoneDropped'
  BY DEF TypeOK, NoneDropped, InStep
<1>4. InStep'
  BY DEF TypeOK, InStep
<1>5. Errors'
  BY DEF TypeOK, Errors, InStep
<1>6. recorded = Parts /\ saved = Parts /\ callFails = 0 /\ saveFails = 0
  <2>1. ~ firstErr /\ ~ cancelled /\ \A w \in Workers : worker[w].does = "unborn"
    BY DEF InStep, Errors
  <2>2. recorded = Parts
    BY <2>1 DEF NoneDropped, TypeOK
  <2>. QED
    BY <2>1, <2>2 DEF Errors, TypeOK
<1>7. (NilMeansAllSaved /\ ErrorIsReported /\ QuietAfterReturn)'
  BY <1>6 DEF InStep, NilMeansAllSaved, ErrorIsReported, QuietAfterReturn
<1>. QED
  BY <1>1, <1>2, <1>3, <1>4, <1>5, <1>7

LEMMA StartGoroutinesStep == ASSUME PoolInv, StartGoroutines PROVE PoolInv'
<1>. USE PoolInputs DEF PoolInv, StartGoroutines
<1>1. TypeOK'
  BY DEF TypeOK
<1>2. InOnePlace'
  BY DEF TypeOK, InOnePlace, InStep
<1>3. NoneDropped'
  BY DEF TypeOK, NoneDropped, InStep
<1>4. InStep'
  BY DEF TypeOK, InStep
<1>5. Errors'
  BY DEF TypeOK, Errors, InStep
<1>6. (NilMeansAllSaved /\ ErrorIsReported /\ QuietAfterReturn)'
  BY DEF TypeOK, InStep, Errors, NoneDropped, NilMeansAllSaved, ErrorIsReported, QuietAfterReturn
<1>. QED
  BY <1>1, <1>2, <1>3, <1>4, <1>5, <1>6

LEMMA CloseJobsStep == ASSUME PoolInv, CloseJobs PROVE PoolInv'
<1>. USE PoolInputs DEF PoolInv, CloseJobs
<1>1. TypeOK'
  BY DEF TypeOK
<1>2. InOnePlace'
  BY DEF TypeOK, InOnePlace, InStep
<1>3. NoneDropped'
  BY DEF TypeOK, NoneDropped, InStep
<1>4. InStep'
  BY DEF TypeOK, InStep
<1>5. Errors'
  BY DEF TypeOK, Errors, InStep
<1>6. (NilMeansAllSaved /\ ErrorIsReported /\ QuietAfterReturn)'
  BY DEF TypeOK, InStep, Errors, NoneDropped, NilMeansAllSaved, ErrorIsReported, QuietAfterReturn
<1>. QED
  BY <1>1, <1>2, <1>3, <1>4, <1>5, <1>6

LEMMA HandOutStep == ASSUME NEW w \in Workers, PoolInv, HandOut(w) PROVE PoolInv'
<1>. USE PoolInputs DEF PoolInv, HandOut
<1>1. TypeOK'
  BY DEF TypeOK
<1>2. InOnePlace'
  BY DEF TypeOK, InOnePlace, InStep
<1>3. NoneDropped'
  BY DEF TypeOK, NoneDropped, InStep
<1>4. InStep'
  BY DEF TypeOK, InStep
<1>5. Errors'
  BY DEF TypeOK, Errors, InStep
<1>6. (NilMeansAllSaved /\ ErrorIsReported /\ QuietAfterReturn)'
  BY DEF TypeOK, InStep, Errors, NoneDropped, NilMeansAllSaved, ErrorIsReported, QuietAfterReturn
<1>. QED
  BY <1>1, <1>2, <1>3, <1>4, <1>5, <1>6

LEMMA CallReturnsStep == ASSUME NEW w \in Workers, PoolInv, CallReturns(w) PROVE PoolInv'
<1>. USE PoolInputs DEF PoolInv, CallReturns
<1>1. TypeOK'
  BY DEF TypeOK
<1>2. InOnePlace'
  BY DEF TypeOK, InOnePlace, InStep
<1>3. NoneDropped'
  BY DEF TypeOK, NoneDropped, InStep
<1>4. InStep'
  BY DEF TypeOK, InStep
<1>5. Errors'
  BY DEF TypeOK, Errors, InStep
<1>6. (NilMeansAllSaved /\ ErrorIsReported /\ QuietAfterReturn)'
  BY DEF TypeOK, InStep, Errors, NoneDropped, NilMeansAllSaved, ErrorIsReported, QuietAfterReturn
<1>. QED
  BY <1>1, <1>2, <1>3, <1>4, <1>5, <1>6

LEMMA WorkerGoesStep == ASSUME NEW w \in Workers, PoolInv, WorkerGoes(w) PROVE PoolInv'
<1>. USE PoolInputs DEF PoolInv, WorkerGoes
<1>1. TypeOK'
  BY DEF TypeOK
<1>2. InOnePlace'
  BY DEF TypeOK, InOnePlace, InStep
<1>3. NoneDropped'
  BY DEF TypeOK, NoneDropped, InStep
<1>4. InStep'
  BY DEF TypeOK, InStep
<1>5. Errors'
  BY DEF TypeOK, Errors, InStep
<1>6. (NilMeansAllSaved /\ ErrorIsReported /\ QuietAfterReturn)'
  BY DEF TypeOK, InStep, Errors, NoneDropped, NilMeansAllSaved, ErrorIsReported, QuietAfterReturn
<1>. QED
  BY <1>1, <1>2, <1>3, <1>4, <1>5, <1>6

LEMMA DeliverStep == ASSUME NEW w \in Workers, PoolInv, Deliver(w) PROVE PoolInv'
<1>. USE PoolInputs DEF PoolInv, Deliver
<1>1. TypeOK'
  BY DEF TypeOK
<1>2. InOnePlace'
  BY DEF TypeOK, InOnePlace, InStep
<1>3. NoneDropped'
  BY DEF TypeOK, NoneDropped, InStep
<1>4. InStep'
  BY DEF TypeOK, InStep
<1>5. Errors'
  BY DEF TypeOK, Errors, InStep
<1>6. (NilMeansAllSaved /\ ErrorIsReported /\ QuietAfterReturn)'
  BY DEF TypeOK, InStep, Errors, NoneDropped, NilMeansAllSaved, ErrorIsReported, QuietAfterReturn
<1>. QED
  BY <1>1, <1>2, <1>3, <1>4, <1>5, <1>6

LEMMA CloseResultsStep == ASSUME PoolInv, CloseResults PROVE PoolInv'
<1>. USE PoolInputs DEF PoolInv, CloseResults
<1>1. TypeOK'
  BY DEF TypeOK
<1>2. InOnePlace'
  BY DEF TypeOK, InOnePlace, InStep
<1>3. NoneDropped'
  BY DEF TypeOK, NoneDropped, InStep
<1>4. InStep'
  BY DEF TypeOK, InStep
<1>5. Errors'
  BY DEF TypeOK, Errors, InStep
<1>6. (NilMeansAllSaved /\ ErrorIsReported /\ QuietAfterReturn)'
  BY DEF TypeOK, InStep, Errors, NoneDropped, NilMeansAllSaved, ErrorIsReported, QuietAfterReturn
<1>. QED
  BY <1>1, <1>2, <1>3, <1>4, <1>5, <1>6

LEMMA TakeErrStep == ASSUME PoolInv, TakeErr PROVE PoolInv'
<1>. USE PoolInputs DEF PoolInv, TakeErr
<1>1. TypeOK'
  BY DEF TypeOK
<1>2. InOnePlace'
  BY DEF TypeOK, InOnePlace, InStep
<1>3. NoneDropped'
  BY DEF TypeOK, NoneDropped, InStep
<1>4. InStep'
  BY DEF TypeOK, InStep
<1>5. Errors'
  BY DEF TypeOK, Errors, InStep
<1>6. (NilMeansAllSaved /\ ErrorIsReported /\ QuietAfterReturn)'
  BY DEF TypeOK, InStep, Errors, NoneDropped, NilMeansAllSaved, ErrorIsReported, QuietAfterReturn
<1>. QED
  BY <1>1, <1>2, <1>3, <1>4, <1>5, <1>6

LEMMA RecordStep == ASSUME PoolInv, Record PROVE PoolInv'
<1>. USE PoolInputs DEF PoolInv, Record
<1>1. TypeOK'
  <2>1. collector.part \in Parts /\ collector' = Idle("receives")
    BY DEF InOnePlace
  <2>2. completed' \in Nat /\ saveFails' \in Nat
    BY DEF TypeOK
  <2>3. recorded' \subseteq Parts
    BY <2>1 DEF TypeOK
  <2>4. saved' \subseteq Parts
    BY <2>3 DEF TypeOK
  <2>5. firstErr' \in BOOLEAN /\ cancelled' \in BOOLEAN
    BY DEF TypeOK
  <2>. QED
    BY <2>1, <2>2, <2>3, <2>4, <2>5 DEF TypeOK
<1>2. InOnePlace'
  BY DEF TypeOK, InOnePlace, InStep
<1>3. NoneDropped'
  BY DEF TypeOK, NoneDropped, InStep
<1>4. InStep'
  BY DEF TypeOK, InStep
<1>5. Errors'
  BY DEF TypeOK, Errors, InStep
<1>6. (NilMeansAllSaved /\ ErrorIsReported /\ QuietAfterReturn)'
  BY DEF TypeOK, InStep, Errors, NoneDropped, NilMeansAllSaved, ErrorIsReported, QuietAfterReturn
<1>. QED
  BY <1>1, <1>2, <1>3, <1>4, <1>5, <1>6

LEMMA ReturnStep == ASSUME PoolInv, Return PROVE PoolInv'
<1>. USE PoolInputs DEF PoolInv, Return
<1>1. TypeOK'
  BY DEF TypeOK
<1>2. InOnePlace'
  BY DEF TypeOK, InOnePlace, InStep
<1>3. NoneDropped'
  BY DEF TypeOK, NoneDropped, InStep
<1>4. InStep'
  BY DEF TypeOK, InStep
<1>5. Errors'
  BY DEF TypeOK, Errors, InStep
<1>6. ~ firstErr => recorded = Parts /\ saved = Parts /\ callFails + saveFails = 0
  <2>. SUFFICES ASSUME ~ firstErr
                PROVE  recorded = Parts /\ saved = Parts /\ callFails + saveFails = 0
    OBVIOUS
  <2>1. result = "none" /\ ~ cancelled
    BY DEF InStep, Errors
  <2>2. \A w \in Workers : gone(w)
    BY DEF InStep
  <2>3. todo = {}
    BY <2>1, <2>2 DEF InStep
  <2>4. recorded = Parts
    BY <2>1, <2>2, <2>3 DEF NoneDropped, TypeOK
  <2>5. callFails = 0 /\ saveFails = 0
    BY <2>2 DEF Errors, TypeOK
  <2>. QED
    BY <2>4, <2>5 DEF Errors
<1>7. (NilMeansAllSaved /\ ErrorIsReported /\ QuietAfterReturn)'
  BY <1>6 DEF TypeOK, InStep, Errors, NilMeansAllSaved, ErrorIsReported, QuietAfterReturn
<1>. QED
  BY <1>1, <1>2, <1>3, <1>4, <1>5, <1>7

-----------------------------------------------------------------------------
\* Every step preserves the invariant.
LEMMA PoolStepInv == PoolInv /\ [Next]_vars => PoolInv'
<1>. SUFFICES ASSUME PoolInv, [Next]_vars PROVE PoolInv'
  OBVIOUS
<1>1. CASE UNCHANGED vars
  BY <1>1 DEF vars, PoolInv, TypeOK, InOnePlace, NoneDropped, InStep, Errors,
     NilMeansAllSaved, ErrorIsReported, QuietAfterReturn
<1>2. CASE Feeder
  BY <1>2, CloseJobsStep, HandOutStep DEF Feeder
<1>3. CASE \E w \in Workers : Worker(w)
  BY <1>3, CallReturnsStep, WorkerGoesStep DEF Worker
<1>4. CASE CloseResults
  BY <1>4, CloseResultsStep
<1>5. CASE Collector
  BY <1>5, NothingMissingStep, StartGoroutinesStep, DeliverStep, TakeErrStep,
     RecordStep, ReturnStep DEF Collector
<1>6. CASE Over
  BY <1>6, <1>1 DEF Over
<1>. QED
  BY <1>1, <1>2, <1>3, <1>4, <1>5, <1>6 DEF Next

LEMMA PoolInvariant == Spec => []PoolInv
  BY PoolInit, PoolStepInv, PTL DEF Spec

\* The variables stay in their types, whatever the pool's width and the number
\* of parts (uploadMissingParts, downloadMissingChunks).
THEOREM PoolTypeCorrect == Spec => []TypeOK
  BY PoolInvariant, PTL DEF PoolInv

\* A nil return is only given with every part recorded and on disk.
THEOREM NilIsComplete == Spec => []NilMeansAllSaved
  BY PoolInvariant, PTL DEF PoolInv

\* An error is returned exactly when a call or a save failed by itself.
THEOREM ErrorsSurface == Spec => []ErrorIsReported
  BY PoolInvariant, PTL DEF PoolInv

\* No worker outlives the call.
THEOREM NoLateWorker == Spec => []QuietAfterReturn
  BY PoolInvariant, PTL DEF PoolInv

-----------------------------------------------------------------------------
\* The goroutines do what the contract allows: they start where it starts, and
\* each of their steps is a step of it or leaves its variables alone.
LEMMA ContractInit == Init => Contract!Init
  BY DEF Init, Contract!Init

LEMMA ContractStep == PoolInv /\ [Next]_vars => [Contract!Next]_Contract!vars
<1>. SUFFICES ASSUME PoolInv, [Next]_vars PROVE [Contract!Next]_Contract!vars
  OBVIOUS
<1>. USE DEF Contract!vars
<1>1. CASE Record
  <2>1. result = "none" /\ collector.part \in Parts \ recorded
    BY <1>1 DEF Record, PoolInv, InStep, InOnePlace, TypeOK
  <2>2. Contract!Record(collector.part)
    BY <1>1, <2>1 DEF Record, Contract!Record
  <2>. QED
    BY <2>1, <2>2 DEF Contract!Next
<1>2. CASE NothingMissing
  <2>1. PoolInv'
    BY <1>2, NothingMissingStep
  <2>2. result = "none" /\ saved' = Parts /\ UNCHANGED <<recorded, saved>> /\ result' = "nil"
    BY <1>2, <2>1 DEF NothingMissing, PoolInv, NilMeansAllSaved, InStep, TypeOK
  <2>. QED
    BY <2>2 DEF Contract!Next, Contract!ReturnNil
<1>3. CASE Return
  <2>1. PoolInv'
    BY <1>3, ReturnStep
  <2>2. /\ result = "none" /\ UNCHANGED <<recorded, saved>> /\ result' \in {"nil", "error"}
        /\ result' = "nil" => saved' = Parts
    BY <1>3, <2>1 DEF Return, PoolInv, NilMeansAllSaved, InStep
  <2>. QED
    BY <2>2 DEF Contract!Next, Contract!ReturnNil, Contract!ReturnError
<1>4. ASSUME ~ (Record \/ NothingMissing \/ Return)
      PROVE  UNCHANGED <<recorded, saved, result>>
  BY <1>4 DEF Next, Feeder, Worker, Collector, Over, vars, CloseJobs, HandOut, CallReturns,
     WorkerGoes, Deliver, CloseResults, StartGoroutines, TakeErr
<1>. QED
  BY <1>1, <1>2, <1>3, <1>4

\* The pool implements the safety part of PoolContract.
THEOREM PoolMeetsContract == Spec => Contract!Init /\ [][Contract!Next]_Contract!vars
<1>1. Init => Contract!Init
  BY ContractInit
<1>2. PoolInv /\ [Next]_vars => [Contract!Next]_Contract!vars
  BY ContractStep
<1>. QED
  BY <1>1, <1>2, PoolInvariant, PTL DEF Spec
-----------------------------------------------------------------------------
\* The count reported is the number of parts recorded until the first error, and
\* behind it from then on.
Progress ==
    /\ completed <= Cardinality(recorded)
    /\ ~ firstErr => completed = Cardinality(recorded)

LEMMA PartsFinite == ASSUME NEW S \in SUBSET Parts
                     PROVE  IsFiniteSet(S) /\ Cardinality(S) \in Nat
<1>1. IsFiniteSet(1 .. Total) /\ Cardinality(1 .. Total) = Total
  BY PoolInputs, FS_Interval
<1>2. IsFiniteSet(S)
  BY <1>1, FS_Subset DEF Parts
<1>. QED
  BY <1>2, FS_CardinalityType

LEMMA ProgressStep == ASSUME PoolInv, Progress, [Next]_vars PROVE Progress'
<1>. USE DEF Progress
<1>1. CASE Record
  <2>1. collector.part \in Parts \ recorded /\ recorded \subseteq Parts /\ completed \in Nat
    BY <1>1 DEF PoolInv, TypeOK, InOnePlace, Record
  <2>2. recorded' = recorded \cup {collector.part}
    BY <1>1 DEF Record
  <2>3. Cardinality(recorded') = Cardinality(recorded) + 1 /\ Cardinality(recorded) \in Nat
    BY <2>1, <2>2, PartsFinite, FS_AddElement
  <2>4. \/ completed' = completed + 1 /\ firstErr' = firstErr
        \/ completed' = completed /\ firstErr' = TRUE
    BY <1>1 DEF Record
  <2>. QED
    BY <2>1, <2>3, <2>4
<1>2. CASE ~ Record
  <2>. USE <1>2 DEF Next, Feeder, Worker, Collector, Over, vars, NothingMissing, StartGoroutines,
        CloseJobs, HandOut, CallReturns, WorkerGoes, Deliver, CloseResults, TakeErr, Return
  <2>1. completed' = completed /\ recorded' = recorded
    OBVIOUS
  <2>2. ~ firstErr' => ~ firstErr
    OBVIOUS
  <2>. QED
    BY <2>1, <2>2
<1>. QED
  BY <1>1, <1>2

\* The progress reported never runs ahead of the parts recorded, and is complete
\* with a nil return (completed and OnProgress).
THEOREM ProgressTrue == Spec => []ProgressIsTrue
<1>1. Init => Progress
  <2>. SUFFICES ASSUME Init PROVE Progress
    OBVIOUS
  <2>1. completed = Cardinality(recorded) /\ Cardinality(recorded) \in Nat
    BY PartsFinite DEF Init
  <2>. QED
    BY <2>1 DEF Progress
<1>2. PoolInv /\ Progress => ProgressIsTrue
  <2>. SUFFICES ASSUME PoolInv, Progress, result = "nil" PROVE completed = Total
    BY DEF ProgressIsTrue, Progress
  <2>1. ~ firstErr
    BY DEF PoolInv, Errors
  <2>2. recorded = Parts
    BY DEF PoolInv, NilMeansAllSaved
  <2>3. Cardinality(1 .. Total) = Total
    BY PoolInputs, FS_Interval
  <2>. QED
    BY <2>1, <2>2, <2>3 DEF Progress, Parts
<1>3. PoolInv /\ Progress /\ [Next]_vars => Progress'
  BY ProgressStep
<1>. QED
  BY <1>1, <1>2, <1>3, PoolInvariant, PTL DEF Spec

-----------------------------------------------------------------------------
(* The plan of the parts (PartPlan), for all sizes, requests, floors and       *)
(* ceilings: it covers every file with ranges that tile it.                   *)

\* The loop variable is a part size, and after the loop the file fits at it.
Settled == phase = "settled" => Fits(fileSize, size)

PlanInv == PlanTypeOK /\ Settled /\ LeastDoubling

LEMMA PlanInvInit == PlanInit => PlanInv
  BY PlanInputs, PartLimits DEF PlanInit, PlanInv, PlanTypeOK, Settled, LeastDoubling, Greatest

LEMMA PlanInvStep == PlanInv /\ [PlanNext]_planVars => PlanInv'
<1>. SUFFICES ASSUME PlanInv, [PlanNext]_planVars
              PROVE  PlanInv'
  OBVIOUS
<1>. USE DEF PlanInv, PlanTypeOK, Settled, LeastDoubling
<1>1. CASE Double
  <2>1. (size * 2) \div 2 = size
    BY SMT
  <2>. QED
    BY <1>1, <2>1 DEF Double, Overflows
<1>2. CASE Settle
  <2>1. CeilDiv(fileSize, size) \in Int
    BY <1>2, PlanInputs, SMT DEF CeilDiv
  <2>. QED
    BY <1>2, <2>1, PartLimits DEF Settle, Overflows, Fits
<1>3. CASE UNCHANGED planVars
  BY <1>3 DEF planVars
<1>. QED
  BY <1>1, <1>2, <1>3 DEF PlanNext, Returned

LEMMA PlanInvariant == PlanSpec => []PlanInv
  BY PlanInvInit, PlanInvStep, PTL DEF PlanSpec

\* computePartSize's loop variable is a positive size throughout.
THEOREM PlanTypeCorrect == PlanSpec => []PlanTypeOK
<1>1. PlanInv => PlanTypeOK
  BY DEF PlanInv
<1>. QED
  BY <1>1, PlanInvariant, PTL

\* The ranges of the chosen plan tile the file from its first byte to its last,
\* none of them empty: the ceiling that numParts applies never cuts a tail off.
THEOREM PlanTiles == PlanSpec => []RangesTile
<1>1. PlanInv => RangesTile
  <2>. DEFINE total == numParts(fileSize, size)
  <2>. SUFFICES ASSUME PlanInv, phase = "settled"
                PROVE  /\ total \in 1 .. MaxParts
                       /\ partStart(1, size) = 0
                       /\ \A n \in 2 .. total :
                             partStart(n, size) = partEnd(n - 1, fileSize, size)
                       /\ partEnd(total, fileSize, size) = fileSize
                       /\ fileSize > 0 =>
                             \A n \in 1 .. total :
                                partStart(n, size) < partEnd(n, fileSize, size)
    BY DEF RangesTile
  <2>1. fileSize \in Nat /\ size \in Nat \ {0} /\ Fits(fileSize, size)
    BY PlanInputs DEF PlanInv, PlanTypeOK, Settled
  <2>2. CASE fileSize = 0
    BY <2>1, <2>2, PartLimits DEF numParts, partEnd, partStart, Least
  <2>3. CASE fileSize # 0
    <3>1. ASSUME NEW n \in 1 .. total
          PROVE  partStart(n, size) < partEnd(n, fileSize, size)
      <4>1. (n - 1) * size < fileSize /\ (n - 1) * size \in Nat
        BY <2>1, <2>3, NumPartsStart
      <4>. QED
        BY <2>1, <4>1 DEF partStart, partEnd, Least
    <3>. QED
      BY <2>1, <2>3, <3>1, RangesTileFile
  <2>. QED
    BY <2>1, <2>2, <2>3
<1>. QED
  BY <1>1, PlanInvariant, PTL

\* What the loop has tried so far did not fit; so, when it is left, it has computed
\* the first doubling that does, which is what computePartSize stands for in the
\* other modules.
Doubles ==
    \E k \in Nat :
        /\ size = doublings(Greatest(requested, MinPartSize))[k]
        /\ \A j \in 0 .. k - 1 :
              ~ Fits(fileSize, doublings(Greatest(requested, MinPartSize))[j])

THEOREM PlanIsClosedForm == PlanSpec => []LoopIsClosedForm
<1>. DEFINE d == doublings(Greatest(requested, MinPartSize))
<1>0. PlanTypeOK => Greatest(requested, MinPartSize) \in Nat \ {0}
  BY PlanInputs, PartLimits DEF PlanTypeOK, Greatest
<1>1. PlanInit => Doubles
  <2>. SUFFICES ASSUME PlanInit PROVE Doubles
    OBVIOUS
  <2>1. PlanTypeOK
    BY PlanInvInit DEF PlanInv
  <2>2. d[0] = size
    BY <1>0, <2>1, DoublingsGrow DEF PlanInit
  <2>. HIDE DEF d
  <2>3. size = d[0] /\ \A j \in 0 .. 0 - 1 : ~ Fits(fileSize, d[j])
    BY <2>2
  <2>. QED
    BY <2>3 DEF Doubles, d
<1>2. PlanInv /\ Doubles /\ [PlanNext]_planVars => Doubles'
  <2>. SUFFICES ASSUME PlanInv, Doubles, [PlanNext]_planVars PROVE Doubles'
    OBVIOUS
  <2>1. UNCHANGED <<fileSize, requested>>
    BY DEF PlanNext, Double, Settle, Returned, planVars
  <2>2. CASE Double
    <3>1. PICK k \in Nat : size = d[k] /\ \A j \in 0 .. k - 1 : ~ Fits(fileSize, d[j])
      BY DEF Doubles
    <3>2. d[k + 1] = 2 * d[k] /\ d[k] \in Nat
      BY <1>0, DoublingsGrow DEF PlanInv
    <3>3. ~ Fits(fileSize, size)
      <4>1. CeilDiv(fileSize, size) \in Int
        BY PlanInputs, SMT DEF CeilDiv, PlanInv, PlanTypeOK
      <4>. QED
        BY <2>2, <4>1, PartLimits DEF Double, Overflows, Fits
    <3>4. size' = 2 * size
      BY <2>2, <3>1, <3>2 DEF Double
    <3>. HIDE DEF d
    <3>5. size' = d[k + 1] /\ \A j \in 0 .. (k + 1) - 1 : ~ Fits(fileSize, d[j])
      BY <3>1, <3>2, <3>3, <3>4
    <3>. QED
      BY <2>1, <3>5 DEF Doubles, d
  <2>3. CASE UNCHANGED size
    BY <2>1, <2>3 DEF Doubles
  <2>. QED
    BY <2>2, <2>3 DEF PlanNext, Settle, Returned, planVars
<1>3. PlanInv /\ Doubles => LoopIsClosedForm
  <2>. SUFFICES ASSUME PlanInv, Doubles, phase = "settled"
                PROVE  size = computePartSize(fileSize, requested)
    BY DEF LoopIsClosedForm
  <2>1. PICK k \in Nat : size = d[k] /\ \A j \in 0 .. k - 1 : ~ Fits(fileSize, d[j])
    BY DEF Doubles
  <2>2. Fits(fileSize, d[k]) /\ fileSize \in Nat /\ requested \in Nat
    BY <2>1, PlanInputs DEF PlanInv, Settled, PlanTypeOK
  <2>. QED
    BY <2>1, <2>2, FirstThatFits
<1>. QED
  BY <1>1, <1>2, <1>3, PlanInvariant, PTL DEF PlanSpec

\* The part size is never doubled more often than the ceiling demands.
THEOREM PlanIsLeast == PlanSpec => []LeastDoubling
<1>1. PlanInv => LeastDoubling
  BY DEF PlanInv
<1>. QED
  BY <1>1, PlanInvariant, PTL
=============================================================================

---------------------------- MODULE TransferPool ----------------------------
(***************************************************************************)
(* One call of uploadMissingParts (objectstorage/mpupload.go) or of        *)
(* downloadMissingChunks (objectstorage/mpdownload.go), goroutine by       *)
(* goroutine: a feeder that offers the missing parts on the unbuffered     *)
(* channel jobs, workers that take them and deliver on the unbuffered      *)
(* channel results, a closer that closes results once the workers are      *)
(* gone, and the collector, which is the caller's goroutine.  The two      *)
(* functions differ in one thing: a download worker returns after it       *)
(* delivered an error.                                                     *)
(*                                                                         *)
(* A send and its receive are one step.  Every call answers.  The caller's *)
(* context is never cancelled: the program runs its commands on the        *)
(* background context.                                                     *)
(***************************************************************************)
EXTENDS Naturals, FiniteSets

CONSTANTS
    Workers,       \* the goroutines of the pool
    Total,         \* the number of parts
    Kinds,         \* the functions modelled: "upload", "download"
    MaxFailures    \* bound: calls that fail before the pool is cancelled, and saves that fail

ASSUME PoolInputs ==
    /\ IsFiniteSet(Workers) /\ Workers # {}
    /\ Total \in Nat
    /\ Kinds \subseteq {"upload", "download"}
    /\ MaxFailures \in Nat

Parts == 1 .. Total

VARIABLES
    kind,        \* which of the two functions runs
    todo,        \* missing parts the feeder has not handed out
    feeder,      \* "unborn", "offers" or "gone"; it closes jobs when it goes
    worker,      \* per worker: what it does, and with which part
    results,     \* "open" or "closed"
    collector,   \* what the caller's goroutine does, and with which part
    cancelled,   \* the pool's context is done
    firstErr,    \* an error has been taken
    recorded,    \* cp.Parts, cp.Chunks
    saved,       \* the same on disk
    completed,   \* the count OnProgress reports
    result,      \* "none" until the call returns
    callFails,   \* counter: calls that failed by themselves
    saveFails    \* counter: saves that failed

book == <<recorded, saved, completed>>
fails == <<callFails, saveFails>>
vars == <<kind, todo, feeder, worker, results, collector, cancelled, firstErr, book, result, fails>>

At(s, n) == [does |-> s, part |-> n]
Idle(s) == At(s, 0)
gone(w) == worker[w].does = "gone"
Become(w, state) == worker' = [worker EXCEPT ![w] = state]

\* The parts left to transfer.  The mistake is a loop that stops short of the last.
MissingButLast(done) == (1 .. Total - 1) \ done
Missing(done) == Parts \ done

Init ==
    /\ kind \in Kinds
    /\ recorded \in SUBSET Parts /\ saved = recorded
    /\ completed = Cardinality(recorded)
    /\ todo = Missing(recorded)
    /\ feeder = "unborn"
    /\ worker = [w \in Workers |-> Idle("unborn")]
    /\ results = "open"
    /\ collector = Idle("starts")
    /\ cancelled = FALSE /\ firstErr = FALSE
    /\ result = "none"
    /\ callFails = 0 /\ saveFails = 0

-----------------------------------------------------------------------------
(* The caller's goroutine before its loop.                                  *)

NothingMissing ==
    /\ collector.does = "starts" /\ todo = {}
    /\ collector' = Idle("returned")
    /\ result' = "nil"
    /\ UNCHANGED <<kind, todo, feeder, worker, results, cancelled, firstErr, book, fails>>

StartGoroutines ==
    /\ collector.does = "starts" /\ todo # {}
    /\ feeder' = "offers"
    /\ worker' = [w \in Workers |-> Idle("receives")]
    /\ collector' = Idle("receives")
    /\ UNCHANGED <<kind, todo, results, cancelled, firstErr, book, result, fails>>

-----------------------------------------------------------------------------
(* The feeder.                                                              *)

\* It hands the lowest missing part to a worker that waits for one.
HandOut(w) ==
    /\ feeder = "offers" /\ worker[w].does = "receives"
    /\ \E n \in todo :
        /\ \A m \in todo : n <= m
        /\ Become(w, At("calls", n))
        /\ todo' = todo \ {n}
    /\ UNCHANGED <<kind, feeder, results, collector, cancelled, firstErr, book, result, fails>>

\* It has nothing left, or its select takes ctx.Done.  The mistake is a plain
\* send in place of the select.
FeederNeverCancelled ==
    /\ feeder = "offers" /\ todo = {}
    /\ feeder' = "gone"
    /\ UNCHANGED <<kind, todo, worker, results, collector, cancelled, firstErr, book, result, fails>>
CloseJobs ==
    /\ feeder = "offers" /\ (todo = {} \/ cancelled)
    /\ feeder' = "gone"
    /\ UNCHANGED <<kind, todo, worker, results, collector, cancelled, firstErr, book, result, fails>>

-----------------------------------------------------------------------------
(* The workers.                                                             *)

\* uploadOnePart or downloadOneChunk returns; once the context is done it may
\* return an error of its own accord.
CallReturns(w) ==
    /\ worker[w].does = "calls"
    /\ \/ Become(w, At("delivers", worker[w].part)) /\ UNCHANGED callFails
       \/ cancelled /\ Become(w, At("deliversErr", worker[w].part)) /\ UNCHANGED callFails
       \/ /\ ~ cancelled /\ callFails < MaxFailures
          /\ callFails' = callFails + 1
          /\ Become(w, At("deliversErr", worker[w].part))
    /\ UNCHANGED <<kind, todo, feeder, results, collector, cancelled, firstErr, book, result, saveFails>>

\* jobs is closed, or the select of the delivery takes ctx.Done.
WorkerGoes(w) ==
    /\ \/ worker[w].does = "receives" /\ feeder = "gone"
       \/ worker[w].does \in {"delivers", "deliversErr"} /\ cancelled
    /\ Become(w, Idle("gone"))
    /\ UNCHANGED <<kind, todo, feeder, results, collector, cancelled, firstErr, book, result, fails>>

\* What a worker does after its delivery.
AfterDelivery(failed) == IF failed /\ kind = "download" THEN Idle("gone") ELSE Idle("receives")

\* A worker's send and the collector's receive.
Deliver(w) ==
    /\ collector.does = "receives"
    /\ worker[w].does \in {"delivers", "deliversErr"}
    /\ LET failed == worker[w].does = "deliversErr"
       IN  /\ collector' = At(IF failed THEN "takesErr" ELSE "records", worker[w].part)
           /\ Become(w, AfterDelivery(failed))
    /\ UNCHANGED <<kind, todo, feeder, results, cancelled, firstErr, book, result, fails>>

\* The closer.  The mistake is to close when no worker waits for a part any more.
ClosesEarly ==
    /\ results = "open" /\ feeder = "gone"
    /\ results' = "closed"
    /\ UNCHANGED <<kind, todo, feeder, worker, collector, cancelled, firstErr, book, result, fails>>
CloseResults ==
    /\ results = "open" /\ \A w \in Workers : gone(w)
    /\ results' = "closed"
    /\ UNCHANGED <<kind, todo, feeder, worker, collector, cancelled, firstErr, book, result, fails>>

-----------------------------------------------------------------------------
(* The collector's loop.                                                    *)

\* The first error is kept and cancels the pool.  The mistake is not to keep it.
TakeErrUnkept ==
    /\ collector.does = "takesErr"
    /\ cancelled' = TRUE
    /\ collector' = Idle("receives")
    /\ UNCHANGED <<kind, todo, feeder, worker, results, firstErr, book, result, fails>>
TakeErr ==
    /\ collector.does = "takesErr"
    /\ firstErr' = TRUE /\ cancelled' = TRUE
    /\ collector' = Idle("receives")
    /\ UNCHANGED <<kind, todo, feeder, worker, results, book, result, fails>>

\* A save that failed: kept if it is the first error, and otherwise counted as
\* a success.
SaveErr ==
    IF firstErr
    THEN completed' = completed + 1 /\ UNCHANGED <<firstErr, cancelled>>
    ELSE firstErr' = TRUE /\ cancelled' = TRUE /\ UNCHANGED completed

\* appendPart or saveDownloadCheckpoint: memory first, then the whole of it to disk.
Record ==
    /\ collector.does = "records"
    /\ recorded' = recorded \cup {collector.part}
    /\ \/ /\ saved' = recorded'
          /\ completed' = completed + 1
          /\ UNCHANGED <<firstErr, cancelled, saveFails>>
       \/ /\ saveFails < MaxFailures
          /\ saveFails' = saveFails + 1
          /\ SaveErr
          /\ UNCHANGED saved
    /\ collector' = Idle("receives")
    /\ UNCHANGED <<kind, todo, feeder, worker, results, result, callFails>>

\* results is closed: the loop ends, the deferred cancel runs.
Return ==
    /\ collector.does = "receives" /\ results = "closed"
    /\ collector' = Idle("returned")
    /\ result' = IF firstErr THEN "error" ELSE "nil"
    /\ cancelled' = TRUE
    /\ UNCHANGED <<kind, todo, feeder, worker, results, firstErr, book, fails>>

-----------------------------------------------------------------------------
Feeder == CloseJobs \/ \E w \in Workers : HandOut(w)
Worker(w) == CallReturns(w) \/ WorkerGoes(w)
Collector ==
    \/ NothingMissing \/ StartGoroutines
    \/ TakeErr \/ Record \/ Return
    \/ \E w \in Workers : Deliver(w)

AllGone ==
    /\ result # "none"
    /\ feeder \in {"unborn", "gone"}
    /\ \A w \in Workers : gone(w) \/ worker[w].does = "unborn"

\* The call is over and every goroutine with it.
Over == AllGone /\ UNCHANGED vars

Next == Feeder \/ (\E w \in Workers : Worker(w)) \/ CloseResults \/ Collector \/ Over

\* Every goroutine that can go on does, the Go scheduler's promise, and every
\* call returns.
Fairness ==
    /\ WF_vars(Feeder)
    /\ \A w \in Workers : WF_vars(Worker(w))
    /\ WF_vars(CloseResults)
    /\ WF_vars(Collector)

Spec == Init /\ [][Next]_vars /\ Fairness

-----------------------------------------------------------------------------
(* Properties.                                                              *)

WorkerStates == {"unborn", "receives", "calls", "delivers", "deliversErr", "gone"}
CollectorStates == {"starts", "receives", "takesErr", "records", "returned"}

\* Every variable holds what the two functions let it hold.
TypeOK ==
    /\ kind \in Kinds
    /\ todo \subseteq Parts
    /\ feeder \in {"unborn", "offers", "gone"}
    /\ worker \in [Workers -> [does : WorkerStates, part : Parts \cup {0}]]
    /\ results \in {"open", "closed"}
    /\ collector \in [does : CollectorStates, part : Parts \cup {0}]
    /\ cancelled \in BOOLEAN /\ firstErr \in BOOLEAN
    /\ recorded \subseteq Parts /\ saved \subseteq Parts
    /\ completed \in Nat
    /\ result \in {"none", "nil", "error"}
    /\ callFails \in Nat /\ saveFails \in Nat

\* A call that returns nil has every part recorded and on disk, so that the
\* caller may complete the upload or rename the download (the loop over results).
NilMeansAllSaved == result = "nil" => recorded = Parts /\ saved = Parts

\* An error is returned if and only if a call or a save failed by itself: none
\* is lost in the race of delivery and cancellation, and the cancellation's own
\* errors are never the cause (firstErr).
ErrorIsReported ==
    result # "none" => (result = "error" <=> callFails + saveFails > 0)

\* Once the call has returned no worker runs, so that none writes to the file
\* the caller closes or sends a part after the upload is completed (wg.Wait
\* before close(results)).
QuietAfterReturn ==
    result # "none" => \A w \in Workers : gone(w) \/ worker[w].does = "unborn"

\* The progress reported never runs ahead of the parts recorded, and is complete
\* when nil is returned (completed).
ProgressIsTrue ==
    /\ completed <= Cardinality(recorded)
    /\ result = "nil" => completed = Total

\* The call ends and leaves no goroutine behind (the selects on ctx.Done, the
\* closing of jobs and of results).
NoLeak == <>[]AllGone

\* What the callers count on. Of the pool's state the contract sees the parts
\* recorded and saved and what the call returned; channels, goroutines and the
\* cancellation are hidden, and their steps are stutters of the contract.
Contract == INSTANCE PoolContract WITH
    Parts <- Parts, recorded <- recorded, saved <- saved, result <- result
MeetsContract == Contract!Spec

=============================================================================

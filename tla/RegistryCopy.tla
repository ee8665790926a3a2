---------------------------- MODULE RegistryCopy ----------------------------
(***************************************************************************)
(* "registry push", "registry copy" and "registry copy --all-tags"         *)
(* (registry/push.go, copy.go, push_view.go), from the check of the        *)
(* destinations to the exit code: the main goroutine, the worker           *)
(* goroutines, the producer of the jobs, the drainer of the results, and   *)
(* the bubbletea program that shows the rows and takes Ctrl+C.             *)
(*                                                                         *)
(* An image stands for all of its blobs: it is read with one request and   *)
(* published with one, each through the retrying transport.  The program's *)
(* Send is a hand-over: it waits before the program runs, and does nothing *)
(* once it has ended.  When the main goroutine returns the process ends.   *)
(***************************************************************************)
EXTENDS RetryTransport, FiniteSets

CONSTANTS
    Workers,     \* the goroutines of a pool; 1 is the one of a push or a copy
    Tags,        \* the tags or images by number, in the order of the command
    Kinds,       \* "push", "copy", "copy-all"
    MaxFaults    \* bound: attempts, reads and checks that fail

ASSUME CopyInputs ==
    /\ IsFiniteSet(Workers) /\ 1 \in Workers
    /\ IsFiniteSet(Tags) /\ 1 \in Tags /\ Tags \subseteq Nat
    /\ Callers = Workers
    /\ Kinds \subseteq {"push", "copy", "copy-all"}
    /\ MaxFaults \in Nat

VARIABLES
    cmd,        \* [kind, overwrite, agent, tty]: the command and its flags
    dst,        \* per tag, what the destination holds: "absent", "old" or "new"
    main,       \* where the main goroutine is
    unchecked,  \* tags whose destination has not been looked at
    skip,       \* tags not to be overwritten
    confirmed,  \* tags the user agreed to overwrite
    lapsed,     \* the control-plane context is past --timeout
    queue,      \* tags not handed to a worker
    jobs,       \* the channel of the jobs: "unmade", "open" or "closed"
    worker,     \* per worker: what it does, with which tag
    resultsCh,  \* results on their way to the drainer (buffered for all tags)
    results,    \* the slice of results: "zero", "ok" or "err" per tag
    drainer,    \* "drains" or "done"
    view,       \* the program: "none", "off", "running", "quitting", "ended", "broken"
    rows,       \* rows in a terminal state
    cancelled,  \* the transfer context is done
    report,     \* what is printed per tag: "none", "ok", "err" or "skipped"
    exit,       \* "none", "ok" or "error"
    faults      \* counter of the faults

asking == <<unchecked, skip, confirmed, lapsed>>
pool == <<queue, jobs, worker, resultsCh, results, drainer>>
screen == <<view, rows>>
ending == <<report, exit>>
vars == <<cmd, dst, main, asking, pool, screen, cancelled, ending, faults, call>>

TagsOf(kind) == IF kind = "copy" THEN {1} ELSE Tags
MyTags == TagsOf(cmd.kind)
ToCopy == MyTags \ skip
Pool == IF cmd.kind = "copy-all" THEN Workers ELSE {1}

At(s, t) == [does |-> s, tag |-> t]
Doing(w, s) == worker[w].does = s
Become(w, s, t) == worker' = [worker EXCEPT ![w] = At(s, t)]
Fault == faults < MaxFaults /\ faults' = faults + 1

Init ==
    /\ cmd \in [kind : Kinds, overwrite : BOOLEAN, agent : BOOLEAN, tty : BOOLEAN]
    /\ cmd.agent => ~ cmd.tty
    /\ cmd.kind = "push" => cmd.overwrite
    /\ dst \in [Tags -> {"absent", "old"}]
    /\ main = "starts"
    /\ unchecked = MyTags /\ skip = {} /\ confirmed = {} /\ lapsed = FALSE
    /\ queue = {} /\ jobs = "unmade"
    /\ worker = [w \in Workers |-> At("unborn", 0)]
    /\ resultsCh = {} /\ results = [t \in Tags |-> "zero"] /\ drainer = "drains"
    /\ view \in IF cmd.tty THEN {"none", "off"} ELSE {"none"}
    /\ rows = {} /\ cancelled = FALSE
    /\ report = [t \in Tags |-> "none"] /\ exit = "none"
    /\ faults = 0 /\ TransportInit

-----------------------------------------------------------------------------
(* The main goroutine before the transfer.                                  *)

EndsWith(code) ==
    /\ main' = "done" /\ exit' = code
    /\ UNCHANGED <<cmd, dst, asking, pool, screen, cancelled, report, call>>

\* The images are resolved, or the tags of the source listed.
Start ==
    /\ main = "starts"
    /\ main' = IF cmd.overwrite THEN "prepared" ELSE "checks"
    /\ UNCHANGED <<cmd, dst, asking, pool, screen, cancelled, ending, faults, call>>
\* Without a tag, and after a dry run, which reads the manifests, that is all.
DryRun == main = "starts" /\ cmd.kind # "push" /\ EndsWith("ok") /\ UNCHANGED faults
ListFails == main = "starts" /\ cmd.kind # "push" /\ Fault /\ EndsWith("error")

Foremost(t) == t \in unchecked /\ \A u \in unchecked : t <= u

\* Head finds no such tag.
Absent(t) ==
    /\ main = "checks" /\ Foremost(t) /\ ~ lapsed /\ dst[t] = "absent"
    /\ unchecked' = unchecked \ {t}
    /\ UNCHANGED <<cmd, dst, main, skip, confirmed, lapsed, pool, screen, cancelled, ending, faults, call>>

\* Head fails, for want of time too.
CheckFails ==
    /\ main = "checks" /\ unchecked # {}
    /\ (lapsed /\ UNCHANGED faults) \/ Fault
    /\ EndsWith("error")

\* Head finds the tag: an agent is refused, a pipe skips, a user is asked.
Exists(t) ==
    /\ main = "checks" /\ Foremost(t) /\ ~ lapsed /\ dst[t] = "old"
    /\ UNCHANGED faults
    /\ \/ cmd.agent /\ EndsWith("error")
       \/ /\ ~ cmd.agent /\ ~ cmd.tty
          /\ unchecked' = unchecked \ {t} /\ skip' = skip \cup {t}
          /\ UNCHANGED <<cmd, dst, main, confirmed, lapsed, pool, screen, cancelled, ending, call>>
       \/ /\ cmd.tty
          /\ main' = "asks"
          /\ UNCHANGED <<cmd, dst, asking, pool, screen, cancelled, ending, call>>

\* The answer, given in time or not.  A prompt that fails is a no.
\* The mistake forgets the no.
DeclineForgotten(t) ==
    /\ main = "asks" /\ Foremost(t)
    /\ lapsed' \in {lapsed, TRUE}
    /\ \/ confirmed' = confirmed \cup {t} /\ UNCHANGED skip
       \/ UNCHANGED <<skip, confirmed>>
    /\ unchecked' = unchecked \ {t} /\ main' = "checks"
    /\ UNCHANGED <<cmd, dst, pool, screen, cancelled, ending, faults, call>>
AnswerPrompt(t) ==
    /\ main = "asks" /\ Foremost(t)
    /\ lapsed' \in {lapsed, TRUE}
    /\ \/ confirmed' = confirmed \cup {t} /\ UNCHANGED skip
       \/ skip' = skip \cup {t} /\ UNCHANGED confirmed
    /\ unchecked' = unchecked \ {t} /\ main' = "checks"
    /\ UNCHANGED <<cmd, dst, pool, screen, cancelled, ending, faults, call>>

\* Every destination has been looked at.  The mistake goes ahead with the first
\* that may be written.
CheckedSome ==
    /\ main = "checks" /\ unchecked # MyTags
    /\ main' = "prepared"
    /\ UNCHANGED <<cmd, dst, asking, pool, screen, cancelled, ending, faults, call>>
Checked ==
    /\ main = "checks" /\ unchecked = {}
    /\ main' = "prepared"
    /\ UNCHANGED <<cmd, dst, asking, pool, screen, cancelled, ending, faults, call>>

\* The goroutines are started.  Without a tag to copy there is no pool.
StartPool ==
    /\ main = "prepared" /\ ToCopy # {}
    /\ main' = "transfers"
    /\ queue' = ToCopy /\ jobs' = "open"
    /\ worker' = [w \in Workers |-> At(IF w \in Pool THEN "idle" ELSE "gone", 0)]
    /\ UNCHANGED <<cmd, dst, asking, resultsCh, results, drainer, screen, cancelled, ending, faults, call>>

SkipAll ==
    /\ main = "prepared" /\ ToCopy = {}
    /\ report' = [t \in Tags |-> IF t \in MyTags THEN "skipped" ELSE "none"]
    /\ main' = "done" /\ exit' = "ok"
    /\ UNCHANGED <<cmd, dst, asking, pool, screen, cancelled, faults, call>>

-----------------------------------------------------------------------------
(* The producer and the workers.                                            *)

\* The lowest tag goes to an idle worker: once the context is done, the select
\* of the producer may still do so.
HandOut(w) ==
    /\ jobs = "open" /\ Doing(w, "idle") /\ queue # {}
    /\ \E t \in queue :
        /\ \A u \in queue : t <= u
        /\ queue' = queue \ {t}
        /\ Become(w, "reads", t)
    /\ call' = IF cmd.kind = "push" THEN call ELSE [call EXCEPT ![w] = NewCall("none")]
    /\ UNCHANGED <<cmd, dst, main, asking, jobs, resultsCh, results, drainer, screen, cancelled, ending, faults>>

\* The mistake leaves the channel open when the context is done.
ReturnWithoutClose ==
    /\ jobs = "open" /\ queue = {} /\ ~ cancelled
    /\ jobs' = "closed"
    /\ UNCHANGED <<cmd, dst, main, asking, queue, worker, resultsCh, results, drainer, screen, cancelled, ending, faults, call>>
CloseJobs ==
    /\ jobs = "open"
    /\ queue = {} \/ (cmd.kind = "copy-all" /\ cancelled)
    /\ jobs' = "closed"
    /\ UNCHANGED <<cmd, dst, main, asking, queue, worker, resultsCh, results, drainer, screen, cancelled, ending, faults, call>>

WorkerGoes(w) ==
    /\ Doing(w, "idle") /\ jobs = "closed"
    /\ Become(w, "gone", 0)
    /\ UNCHANGED <<cmd, dst, main, asking, queue, jobs, resultsCh, results, drainer, screen, cancelled, ending, faults, call>>

Publish(w) ==
    /\ Become(w, "writes", worker[w].tag)
    /\ \E b \in {"rewindable", "once"} : call' = [call EXCEPT ![w] = NewCall(b)]
Conclude(w, as) ==
    /\ Become(w, as, worker[w].tag)
    /\ call' = [call EXCEPT ![w] = NoCall]

\* A push reads its image from the Docker daemon, a layout or an archive; a
\* reference that cannot be resolved ends like a failed read.
LoadLocal(w) ==
    /\ Doing(w, "reads") /\ cmd.kind = "push"
    /\ \/ Publish(w) /\ UNCHANGED faults
       \/ /\ (cancelled /\ UNCHANGED faults) \/ Fault
          /\ Become(w, "failed", worker[w].tag)
          /\ UNCHANGED call
    /\ UNCHANGED <<cmd, dst, main, asking, queue, jobs, resultsCh, results, drainer, screen, cancelled, ending>>

\* One attempt of a request.  An attempt to publish that ended badly may still
\* have done its work.
Serve(w) ==
    /\ \E answer \in Answers :
        /\ Answered(w, answer)
        /\ IF answer = "ok" THEN UNCHANGED faults ELSE Fault
        /\ IF Doing(w, "writes")
           THEN \/ dst' = [dst EXCEPT ![worker[w].tag] = "new"]
                \/ answer # "ok" /\ UNCHANGED dst
           ELSE UNCHANGED dst
    /\ UNCHANGED <<cmd, main, asking, pool, screen, cancelled, ending>>

Retry(w) ==
    /\ Wake(w)
    /\ UNCHANGED <<cmd, dst, main, asking, pool, screen, cancelled, ending, faults>>

Interrupt(w) ==
    /\ cancelled /\ Interrupted(w)
    /\ UNCHANGED <<cmd, dst, main, asking, pool, screen, cancelled, ending, faults>>

\* The request has its answer.  A copy that cannot read its source returns
\* before there is a view.  The mistake goes on to publish what was not read.
TakeAnswerBlindly(w) ==
    /\ call[w].at = "answered"
    /\ (Doing(w, "reads") /\ Publish(w)) \/ (Doing(w, "writes") /\ Conclude(w, "written"))
    /\ UNCHANGED <<cmd, dst, main, asking, queue, jobs, resultsCh, results, drainer, screen, cancelled, ending, faults>>
TakeAnswer(w) ==
    /\ call[w].at = "answered"
    /\ \/ call[w].answer = "ok" /\ Doing(w, "reads") /\ Publish(w) /\ UNCHANGED view
       \/ call[w].answer = "ok" /\ Doing(w, "writes") /\ Conclude(w, "written") /\ UNCHANGED view
       \/ /\ call[w].answer # "ok" /\ Conclude(w, "failed")
          /\ view' = IF cmd.kind = "copy" /\ Doing(w, "reads") THEN "none" ELSE view
    /\ UNCHANGED <<cmd, dst, main, asking, queue, jobs, resultsCh, results, drainer, rows, cancelled, ending, faults>>

-----------------------------------------------------------------------------
(* The results and the view.                                                *)

Outcome(w) == IF Doing(w, "failed") THEN "err" ELSE "ok"
HasOutcome(w) == worker[w].does \in {"written", "failed"}

\* Send of pushResultMsg: the row is final, and after the last row the program
\* is told to quit.
SendRow(t) ==
    /\ view # "off"
    /\ IF view \in {"running", "quitting"}
       THEN /\ rows' = rows \cup {t}
            /\ view' = IF rows' = ToCopy THEN "quitting" ELSE view
       ELSE UNCHANGED screen

\* The one goroutine of a push or a copy writes the result the main goroutine
\* will read, and tells the view.
Deliver(w) ==
    /\ HasOutcome(w) /\ cmd.kind # "copy-all"
    /\ results' = [results EXCEPT ![worker[w].tag] = Outcome(w)]
    /\ SendRow(worker[w].tag)
    /\ Become(w, "idle", 0)
    /\ UNCHANGED <<cmd, dst, main, asking, queue, jobs, resultsCh, drainer, cancelled, ending, faults, call>>

\* A worker of the pool hands its result to the drainer.  The mistake drops
\* those that come after Ctrl+C.
QueueUnlessCancelled(w) ==
    /\ HasOutcome(w) /\ cmd.kind = "copy-all"
    /\ resultsCh' = IF cancelled THEN resultsCh
                    ELSE resultsCh \cup {[tag |-> worker[w].tag, res |-> Outcome(w)]}
    /\ Become(w, "idle", 0)
    /\ UNCHANGED <<cmd, dst, main, asking, queue, jobs, results, drainer, screen, cancelled, ending, faults, call>>
Queue(w) ==
    /\ HasOutcome(w) /\ cmd.kind = "copy-all"
    /\ resultsCh' = resultsCh \cup {[tag |-> worker[w].tag, res |-> Outcome(w)]}
    /\ Become(w, "idle", 0)
    /\ UNCHANGED <<cmd, dst, main, asking, queue, jobs, results, drainer, screen, cancelled, ending, faults, call>>

Drain ==
    /\ drainer = "drains" /\ cmd.kind = "copy-all"
    /\ \E r \in resultsCh :
        /\ resultsCh' = resultsCh \ {r}
        /\ results' = [results EXCEPT ![r.tag] = r.res]
        /\ SendRow(r.tag)
    /\ UNCHANGED <<cmd, dst, main, asking, queue, jobs, worker, drainer, cancelled, ending, faults, call>>

\* resultsCh is closed and empty: the program is told to quit.
Drained ==
    /\ drainer = "drains" /\ cmd.kind = "copy-all"
    /\ resultsCh = {} /\ \A w \in Workers : Doing(w, "gone")
    /\ view # "off"
    /\ drainer' = "done"
    /\ view' = IF view = "running" THEN "quitting" ELSE view
    /\ UNCHANGED <<cmd, dst, main, asking, queue, jobs, worker, resultsCh, results, rows, cancelled, ending, faults, call>>

\* program.Run starts, or its set-up fails.  A copy has read its source by then.
RunView ==
    /\ view = "off"
    /\ cmd.kind = "copy" => worker[1].does \in {"writes", "written", "failed"}
    /\ view' \in {"running", "broken"}
    /\ UNCHANGED <<cmd, dst, main, asking, pool, rows, cancelled, ending, faults, call>>

CtrlC ==
    /\ view = "running"
    /\ view' = "quitting" /\ cancelled' = TRUE
    /\ UNCHANGED <<cmd, dst, main, asking, pool, rows, ending, faults, call>>

\* The quit message arrives; others may have come before it.
EndView ==
    /\ view = "quitting"
    /\ view' = "ended"
    /\ UNCHANGED <<cmd, dst, main, asking, pool, rows, cancelled, ending, faults, call>>

-----------------------------------------------------------------------------
(* The main goroutine after the transfer.                                   *)

\* What the main goroutine waits for: the program, and in copy --all-tags the
\* drainer; without a view, the loop over the images, which is its own.
ViewIsOver == view \in {"none", "ended", "broken"}
TransferIsOver ==
    /\ ViewIsOver
    /\ cmd.kind = "copy-all" => drainer = "done"
    /\ view = "none" => \A w \in Workers : Doing(w, "gone")

\* summarizeCopyResults, buildPushPayload: a zero result has no error.
Return ==
    /\ main = "transfers" /\ TransferIsOver
    /\ main' = "done"
    /\ report' = [t \in Tags |->
                    CASE t \notin MyTags -> "none"
                      [] t \in skip -> "skipped"
                      [] results[t] = "err" -> "err"
                      [] OTHER -> "ok"]
    /\ exit' = IF \E t \in MyTags : results[t] = "err" THEN "error" ELSE "ok"
    /\ UNCHANGED <<cmd, dst, asking, pool, screen, cancelled, faults, call>>

Check == CheckFails \/ Checked \/ (\E t \in Tags : Absent(t) \/ Exists(t))
Answer == \E t \in Tags : AnswerPrompt(t)
Main == Start \/ DryRun \/ ListFails \/ Check \/ Answer \/ StartPool \/ SkipAll \/ Return

\* The other goroutines go on until the main one ends the process.
Transferring == main = "transfers"
WorkerStep(w) ==
    /\ Transferring
    /\ \/ HandOut(w) \/ WorkerGoes(w) \/ LoadLocal(w) \/ TakeAnswer(w)
       \/ Deliver(w) \/ Queue(w)
Request(w) == Transferring /\ (Serve(w) \/ Retry(w) \/ Interrupt(w))
Producer == Transferring /\ CloseJobs
Drainer == Transferring /\ (Drain \/ Drained)
View == Transferring /\ (RunView \/ EndView)

Next ==
    \/ Main \/ Producer \/ Drainer \/ View
    \/ Transferring /\ CtrlC
    \/ \E w \in Workers : WorkerStep(w) \/ Request(w)

\* Go runs every goroutine that can go on; servers answer, and so does the user.
Fairness ==
    /\ WF_vars(Main) /\ WF_vars(Producer) /\ WF_vars(Drainer) /\ WF_vars(View)
    /\ \A w \in Workers : WF_vars(WorkerStep(w) \/ Request(w))

Spec == Init /\ [][Next]_vars /\ Fairness

-----------------------------------------------------------------------------
(* Properties.                                                              *)

Consented(t) == cmd.overwrite \/ t \in confirmed

\* An image that was there is replaced only if a flag says so or the user
\* answered yes to the question about it (resolveAllTagsOverwrite).
ConsentedOverwrite ==
    [][\A t \in Tags : dst[t] = "old" /\ dst'[t] = "new" => Consented(t)]_vars

\* Nothing is published while a destination is still to be looked at, so that a
\* refusal or a failed look leaves the registry as it was ("so we can short-circuit
\* before any Write lands", copy.go:1119-1120).
NothingBeforeChecks ==
    unchecked # {} /\ ~ cmd.overwrite => \A t \in Tags : dst[t] # "new"

PrintedIsTrue(t) ==
    /\ report[t] = "ok" => dst[t] = "new"
    /\ report[t] = "skipped" => dst[t] = "old" /\ t \notin confirmed

\* push and the copy of one tag wait for their view only: when its program cannot
\* start, the main goroutine reads results that are still being made.
Unwatched == view = "broken" /\ cmd.kind # "copy-all"

\* A run that the user lets finish, and whose main goroutine waits for it, prints
\* of every image what became of it, and its exit code is an error if and only if
\* one failed (summarizeCopyResults, firstError).  FailuresFlagged is about the
\* runs left out, those of push and copy whose view cannot start.
ReportTrue ==
    main = "done" /\ ~ cancelled /\ ~ Unwatched =>
        /\ \A t \in MyTags : PrintedIsTrue(t)
        /\ report[1] # "none" => (exit = "error" <=> \E t \in MyTags : report[t] = "err")

\* When copy --all-tags ends, after Ctrl+C too, no request is under way and every
\* tag a worker was given has its result (wg.Wait, done).
PoolDrained ==
    main = "done" /\ cmd.kind = "copy-all" /\ jobs # "unmade" =>
        /\ \A w \in Workers : call[w].at = "none"
        /\ \A t \in ToCopy \ queue : results[t] # "zero"

\* The command comes to an end, whether or not the user interrupts it.
CommandEnds == <>(main = "done")

\* What runCopyAllTagsPool says of itself: "the user always sees the full result
\* set" (copy.go:1241).
AlwaysFullResultSet == main = "done" => \A t \in MyTags : PrintedIsTrue(t)

\* What runPushBubbletea says of a view that cannot start: "the caller's firstError
\* will still flag any per-image failures" (push.go:539-541), so that no image is
\* called pushed which is not there when the process ends.
FailuresFlagged ==
    main = "done" /\ cmd.kind = "push" /\ view = "broken" =>
        \A t \in MyTags : report[t] = "ok" => dst[t] = "new"

=============================================================================

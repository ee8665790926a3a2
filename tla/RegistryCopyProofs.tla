------------------------- MODULE RegistryCopyProofs -------------------------
(***************************************************************************)
(* RegistryCopy for every set of workers and of tags and any number of     *)
(* faults: nothing is published before every destination has been looked   *)
(* at, no image is replaced without consent, what is printed is so, and    *)
(* the pool is drained when copy --all-tags ends.                          *)
(***************************************************************************)
EXTENDS RegistryCopy, TLAPS

\* What a worker has in hand.
Has(w) == worker[w].does \in {"reads", "writes", "written", "failed"}
Preparing == main \in {"starts", "checks", "asks", "prepared"}

\* The types of what the argument is about.
Shapes ==
    /\ cmd.kind \in Kinds
    /\ dst \in [Tags -> {"absent", "old", "new"}]
    /\ DOMAIN worker = Workers
    /\ main \in {"starts", "checks", "asks", "prepared", "transfers", "done"}

\* Before the pool starts there is nothing to do, and later only what may be
\* copied.
Assigned ==
    /\ queue \subseteq ToCopy
    /\ \A w \in Workers : Has(w) => worker[w].tag \in ToCopy
    /\ Preparing => queue = {} /\ \A w \in Workers : ~ Has(w)

\* A request is under way only of a worker that writes, or reads a registry.
Requests(does) == does = "writes" \/ (does = "reads" /\ cmd.kind # "push")
Busy ==
    /\ DOMAIN call = Workers
    /\ \A w \in Workers : call[w].at # "none" => Requests(worker[w].does)

\* Every destination is looked at before anything is published.
Looked == ~ cmd.overwrite /\ main \in {"prepared", "transfers"} => unchecked = {}

\* A tag that was there was skipped, or agreed to.
Asked ==
    ~ cmd.overwrite =>
        \A t \in MyTags \ unchecked : dst[t] = "old" => t \in skip \cup confirmed

CopyInv == Shapes /\ Assigned /\ Busy /\ Looked /\ Asked /\ NothingBeforeChecks

LEMMA CopyInvInit == Init => CopyInv
<1> SUFFICES ASSUME Init PROVE CopyInv
  OBVIOUS
<1>1. Shapes
  BY DEF Init, Shapes, At
<1>2. Assigned
  BY DEF Init, Assigned, Has, At
<1>4. Busy
  BY CopyInputs DEF Init, Busy, TransportInit, NoCall
<1>3. Looked /\ Asked /\ NothingBeforeChecks
  BY DEF Init, Looked, Asked, NothingBeforeChecks
<1> QED
  BY <1>1, <1>2, <1>3, <1>4 DEF CopyInv

-----------------------------------------------------------------------------
(* Before and after the transfer.                                          *)

\* A step of the main goroutine that leaves registry and pool alone.
LEMMA PrepareKeeps ==
  ASSUME CopyInv, Preparing, UNCHANGED <<cmd, dst, queue, worker, call>>,
         \/ main' = main
         \/ main' \in {"checks", "asks"}
         \/ main' = "prepared" /\ (cmd.overwrite \/ unchecked' = {})
         \/ main' = "done",
         \/ UNCHANGED <<unchecked, skip, confirmed>> /\ (main' = main => Looked')
         \/ \E t \in unchecked :
               /\ unchecked' = unchecked \ {t} /\ main # "prepared"
               /\ dst[t] = "old" => t \in skip' \cup confirmed'
               /\ skip \subseteq skip' /\ confirmed \subseteq confirmed'
  PROVE  CopyInv'
<1>1. Shapes'
  BY DEF CopyInv, Shapes
<1>2. MyTags' = MyTags
  BY DEF MyTags
<1>3. Assigned'
  BY DEF CopyInv, Assigned, Preparing, Has
<1>4. Looked'
  BY DEF CopyInv, Looked, Preparing
<1>5. Asked'
  BY <1>2 DEF CopyInv, Asked
<1>6. NothingBeforeChecks'
  BY DEF CopyInv, NothingBeforeChecks
<1>7. Busy'
  BY DEF CopyInv, Busy, Requests
<1> QED
  BY <1>1, <1>3, <1>4, <1>5, <1>6, <1>7 DEF CopyInv

LEMMA BeforeKeeps ==
  ASSUME CopyInv, Start \/ DryRun \/ ListFails \/ Check \/ Answer \/ SkipAll
  PROVE  CopyInv' /\ dst' = dst
<1> USE DEF Preparing, asking, pool
<1>1. CASE Start
  BY <1>1, PrepareKeeps DEF Start
<1>2. CASE DryRun \/ ListFails
  BY <1>2, PrepareKeeps DEF DryRun, ListFails, EndsWith
<1>3. CASE CheckFails
  BY <1>3, PrepareKeeps DEF CheckFails, EndsWith
<1>4. CASE Checked
  BY <1>4, PrepareKeeps DEF Checked
<1>5. ASSUME NEW t \in Tags, Absent(t) PROVE CopyInv' /\ dst' = dst
  BY <1>5, PrepareKeeps DEF Absent, Foremost
<1>6. ASSUME NEW t \in Tags, Exists(t) PROVE CopyInv' /\ dst' = dst
  <2>1. main = "checks" /\ t \in unchecked /\ dst[t] = "old"
    BY <1>6 DEF Exists, Foremost
  <2>2. CASE EndsWith("error")
    BY <2>1, <2>2, PrepareKeeps DEF EndsWith
  <2>3. CASE /\ unchecked' = unchecked \ {t} /\ skip' = skip \cup {t}
             /\ UNCHANGED <<cmd, dst, main, confirmed, queue, worker, call>>
    BY <2>1, <2>3, PrepareKeeps
  <2>4. CASE main' = "asks" /\ UNCHANGED <<cmd, dst, unchecked, skip, confirmed, queue, worker, call>>
    BY <2>1, <2>4, PrepareKeeps
  <2> QED
    BY <1>6, <2>2, <2>3, <2>4 DEF Exists
<1>7. ASSUME NEW t \in Tags, AnswerPrompt(t) PROVE CopyInv' /\ dst' = dst
  BY <1>7, PrepareKeeps DEF AnswerPrompt, Foremost
<1>8. CASE SkipAll
  BY <1>8, PrepareKeeps DEF SkipAll
<1> QED
  BY <1>1, <1>2, <1>3, <1>4, <1>5, <1>6, <1>7, <1>8 DEF Check, Answer

LEMMA StartPoolKeeps == ASSUME CopyInv, StartPool PROVE CopyInv' /\ dst' = dst
<1>1. /\ main = "prepared" /\ main' = "transfers" /\ queue' = ToCopy
      /\ worker' = [w \in Workers |-> At(IF w \in Pool THEN "idle" ELSE "gone", 0)]
      /\ UNCHANGED <<cmd, dst, unchecked, skip, confirmed, call>>
  BY DEF StartPool, asking
<1>2. ToCopy' = ToCopy /\ MyTags' = MyTags
  BY <1>1 DEF ToCopy, MyTags
<1>3. Shapes'
  BY <1>1 DEF CopyInv, Shapes
<1>4. Assigned'
  BY <1>1, <1>2 DEF Assigned, Has, At, Preparing
<1>5. Looked' /\ Asked' /\ NothingBeforeChecks'
  BY <1>1, <1>2 DEF CopyInv, Looked, Asked, NothingBeforeChecks
<1>6. Busy'
  BY <1>1 DEF CopyInv, Assigned, Busy, Requests, Has, Preparing
<1> QED
  BY <1>1, <1>3, <1>4, <1>5, <1>6 DEF CopyInv

-----------------------------------------------------------------------------
(* The transfer.                                                           *)

\* A step of the transfer: the workers keep to what may be copied, and what is
\* published is in the hand of one.
LEMMA TransferKeeps ==
  ASSUME CopyInv, main = "transfers", main' \in {"transfers", "done"},
         UNCHANGED <<cmd, unchecked, skip, confirmed>>,
         DOMAIN worker' = Workers, Busy', queue' \subseteq queue,
         \A w \in Workers : Has(w)' =>
            \/ Has(w) /\ worker'[w].tag = worker[w].tag
            \/ worker'[w].tag \in queue,
         \/ dst' = dst
         \/ \E w \in Workers : Has(w) /\ dst' = [dst EXCEPT ![worker[w].tag] = "new"]
  PROVE  /\ CopyInv'
         /\ \A t \in Tags : dst[t] = "old" /\ dst'[t] = "new" => Consented(t)
<1>1. ToCopy' = ToCopy /\ MyTags' = MyTags
  BY DEF ToCopy, MyTags
<1>2. Shapes'
  BY DEF CopyInv, Shapes
<1>3. Assigned'
  BY <1>1 DEF CopyInv, Assigned, Preparing
<1>4. Looked' /\ NothingBeforeChecks'
  BY DEF CopyInv, Looked, NothingBeforeChecks
<1>5. \A t \in Tags : dst'[t] = dst[t] \/ (dst'[t] = "new" /\ t \in ToCopy)
  BY DEF CopyInv, Shapes, Assigned
<1>6. MyTags \subseteq Tags
  BY CopyInputs DEF MyTags, TagsOf
<1>7. Asked'
  BY <1>1, <1>5, <1>6 DEF CopyInv, Asked
<1>8. \A t \in Tags : dst[t] = "old" /\ dst'[t] = "new" => Consented(t)
  BY <1>5 DEF CopyInv, Looked, Asked, ToCopy, Consented
<1> QED
  BY <1>2, <1>3, <1>4, <1>7, <1>8 DEF CopyInv

\* What a worker may become.
LEMMA BecomesWhat ==
  ASSUME CopyInv, NEW w \in Workers, NEW s, NEW t, Become(w, s, t)
  PROVE  /\ DOMAIN worker' = Workers
         /\ \A v \in Workers \ {w} : worker'[v] = worker[v]
         /\ worker'[w].does = s /\ worker'[w].tag = t
BY DEF Become, At, CopyInv, Shapes

LEMMA BusyNow ==
  ASSUME CopyInv, NEW w \in Workers, DOMAIN worker' = Workers, DOMAIN call' = Workers,
         \A v \in Workers \ {w} : worker'[v] = worker[v] /\ call'[v] = call[v],
         call'[w].at # "none" => Requests(worker'[w].does), cmd' = cmd
  PROVE  Busy'
BY DEF CopyInv, Busy, Requests

LEMMA WorkerKeeps ==
  ASSUME CopyInv, main = "transfers", NEW w \in Workers, WorkerStep(w)
  PROVE  CopyInv' /\ dst' = dst
<1> USE DEF asking, pool, Doing, Requests
<1> DEFINE Goes(s, t) ==
         /\ worker'[w].does = s /\ worker'[w].tag = t
         /\ DOMAIN worker' = Workers /\ \A v \in Workers \ {w} : worker'[v] = worker[v]
<1> DEFINE Rest == UNCHANGED <<cmd, dst, main, unchecked, skip, confirmed>>
<1>1. DOMAIN call = Workers /\ (call[w].at # "none" => Requests(worker[w].does))
  BY DEF CopyInv, Busy
<1>2. NoCall.at = "none"
  BY DEF NoCall
<1>3. CASE HandOut(w)
  <2>1. PICK t \in queue : queue' = queue \ {t} /\ Become(w, "reads", t)
    BY <1>3 DEF HandOut
  <2>2. Goes("reads", t) /\ Rest
    BY <1>3, <2>1, BecomesWhat DEF HandOut
  <2>3. DOMAIN call' = Workers /\ \A v \in Workers \ {w} : call'[v] = call[v]
    BY <1>1, <1>3 DEF HandOut
  <2>4. call'[w].at # "none" => cmd.kind # "push"
    BY <1>1, <1>3 DEF HandOut
  <2>5. Busy'
    BY <2>2, <2>3, <2>4, BusyNow
  <2> QED
    BY <2>1, <2>2, <2>5, TransferKeeps DEF Has
<1>4. CASE WorkerGoes(w)
  <2>1. Goes("gone", 0) /\ Rest /\ call' = call /\ queue' = queue /\ worker[w].does = "idle"
    BY <1>4, BecomesWhat DEF WorkerGoes
  <2>2. Busy'
    BY <1>1, <2>1, BusyNow
  <2> QED
    BY <2>1, <2>2, TransferKeeps DEF Has
<1>5. CASE LoadLocal(w)
  <2>1. PICK s \in {"writes", "failed"} :
            /\ Become(w, s, worker[w].tag)
            /\ s = "failed" => call' = call
            /\ s = "writes" => \E b \in {"rewindable", "once"} : call' = [call EXCEPT ![w] = NewCall(b)]
    BY <1>5 DEF LoadLocal, Publish
  <2>2. Goes(s, worker[w].tag) /\ Rest /\ queue' = queue /\ Has(w)
    BY <1>5, <2>1, BecomesWhat DEF LoadLocal, Has
  <2>3. DOMAIN call' = Workers /\ \A v \in Workers \ {w} : call'[v] = call[v]
    BY <1>1, <2>1
  <2>4. call'[w].at # "none" => s = "writes"
    BY <1>1, <1>5, <2>1 DEF LoadLocal
  <2> QED
    BY <2>2, <2>3, <2>4, BusyNow, TransferKeeps DEF Has
<1>6. CASE TakeAnswer(w)
  <2>1. Has(w) /\ Rest /\ queue' = queue
    <3>1. call[w].at = "answered"
      BY <1>6 DEF TakeAnswer
    <3> QED
      BY <1>1, <1>6, <3>1 DEF TakeAnswer, Has
  <2>2. PICK s \in {"writes", "written", "failed"} :
            /\ Become(w, s, worker[w].tag)
            /\ s # "writes" => call' = [call EXCEPT ![w] = NoCall]
            /\ s = "writes" => \E b \in {"rewindable", "once"} : call' = [call EXCEPT ![w] = NewCall(b)]
    BY <1>6 DEF TakeAnswer, Publish, Conclude
  <2>3. Goes(s, worker[w].tag)
    BY <2>2, BecomesWhat
  <2>4. DOMAIN call' = Workers /\ \A v \in Workers \ {w} : call'[v] = call[v]
    BY <1>1, <2>2
  <2>5. call'[w].at # "none" => s = "writes"
    BY <1>1, <1>2, <2>2
  <2> QED
    BY <2>1, <2>3, <2>4, <2>5, BusyNow, TransferKeeps DEF Has
<1>7. CASE Deliver(w) \/ Queue(w)
  <2>1. /\ Goes("idle", 0) /\ Rest /\ queue' = queue /\ call' = call
        /\ worker[w].does \in {"written", "failed"}
    BY <1>7, BecomesWhat DEF Deliver, Queue, HasOutcome
  <2>2. Busy'
    BY <1>1, <2>1, BusyNow
  <2> QED
    BY <2>1, <2>2, TransferKeeps DEF Has
<1> QED
  BY <1>3, <1>4, <1>5, <1>6, <1>7 DEF WorkerStep

LEMMA RequestKeeps ==
  ASSUME CopyInv, NEW w \in Workers, Request(w)
  PROVE  /\ CopyInv'
         /\ \A t \in Tags : dst[t] = "old" /\ dst'[t] = "new" => Consented(t)
<1>1. main = "transfers" /\ UNCHANGED <<cmd, main, unchecked, skip, confirmed, queue, worker>>
  BY DEF Request, Transferring, Serve, Retry, Interrupt, asking, pool
<1>2. dst' = dst \/ (Has(w) /\ dst' = [dst EXCEPT ![worker[w].tag] = "new"])
  BY DEF Request, Serve, Retry, Interrupt, Has, Doing
<1>3. \A v \in Workers : Has(v)' => Has(v) /\ worker'[v].tag = worker[v].tag
  BY <1>1 DEF Has
<1>4. /\ call[w].at \in {"sent", "waits"} /\ DOMAIN call' = DOMAIN call
      /\ \A v \in Workers \ {w} : call'[v] = call[v]
  <2>1. CASE Serve(w)
    <3>1. PICK answer \in Answers : Answered(w, answer)
      BY <2>1 DEF Serve
    <3>2. call[w].at = "sent" /\ \E x : call' = [call EXCEPT ![w] = x]
      BY <3>1 DEF Answered
    <3> QED
      BY <3>2
  <2>2. CASE Retry(w)
    <3>1. call[w].at = "waits" /\ \E x : call' = [call EXCEPT ![w] = x]
      BY <2>2 DEF Retry, Wake
    <3> QED
      BY <3>1
  <2>3. CASE Interrupt(w)
    <3>1. call[w].at \in {"sent", "waits"} /\ \E x : call' = [call EXCEPT ![w] = x]
      BY <2>3 DEF Interrupt, Interrupted
    <3> QED
      BY <3>1
  <2> QED
    BY <2>1, <2>2, <2>3 DEF Request
<1>5. DOMAIN worker = Workers /\ DOMAIN call = Workers /\ Requests(worker[w].does)
  BY <1>4 DEF CopyInv, Shapes, Busy
<1>6. Busy'
  BY <1>1, <1>4, <1>5, BusyNow
<1> QED
  BY <1>1, <1>2, <1>3, <1>5, <1>6, TransferKeeps

LEMMA RestKeeps ==
  ASSUME CopyInv, Return \/ Producer \/ Drainer \/ View \/ (Transferring /\ CtrlC)
  PROVE  CopyInv' /\ dst' = dst
<1>1. /\ main = "transfers" /\ main' \in {"transfers", "done"}
      /\ UNCHANGED <<cmd, dst, unchecked, skip, confirmed, worker, call>>
      /\ queue' = queue
  BY DEF Return, Producer, Drainer, View, Transferring, CtrlC, CloseJobs, Drain, Drained, RunView, EndView,
         asking, pool
<1>2. \A v \in Workers : Has(v)' => Has(v) /\ worker'[v].tag = worker[v].tag
  BY <1>1 DEF Has
<1> QED
  BY <1>1, <1>2, TransferKeeps DEF CopyInv, Shapes, Busy, Requests

-----------------------------------------------------------------------------

Overwrites == \A t \in Tags : dst[t] = "old" /\ dst'[t] = "new" => Consented(t)

LEMMA CopyInvStep == CopyInv /\ [Next]_vars => CopyInv' /\ (Overwrites \/ UNCHANGED vars)
<1> SUFFICES ASSUME CopyInv, [Next]_vars PROVE CopyInv' /\ (Overwrites \/ UNCHANGED vars)
  OBVIOUS
<1>1. CASE UNCHANGED vars
  BY <1>1 DEF vars, asking, pool, CopyInv, Shapes, Assigned, Busy, Requests, Has, Preparing, Looked, Asked,
              NothingBeforeChecks, ToCopy, MyTags
<1>2. dst' = dst => Overwrites
  BY DEF Overwrites
<1>3. CASE Main
  BY <1>2, <1>3, BeforeKeeps, StartPoolKeeps, RestKeeps DEF Main
<1>4. CASE Producer \/ Drainer \/ View \/ (Transferring /\ CtrlC)
  BY <1>2, <1>4, RestKeeps
<1>5. ASSUME NEW w \in Workers, WorkerStep(w) PROVE CopyInv' /\ Overwrites
  BY <1>2, <1>5, WorkerKeeps DEF WorkerStep, Transferring
<1>6. ASSUME NEW w \in Workers, Request(w) PROVE CopyInv' /\ Overwrites
  BY <1>6, RequestKeeps DEF Overwrites
<1> QED
  BY <1>1, <1>3, <1>4, <1>5, <1>6 DEF Next

\* While a destination is still to be looked at nothing is published, so that a
\* refusal or a failed look leaves the registry as it was (copy.go:1119-1120).
THEOREM ChecksComeFirst == Spec => []NothingBeforeChecks
<1>1. CopyInv => NothingBeforeChecks
  BY DEF CopyInv
<1> QED
  BY <1>1, CopyInvInit, CopyInvStep, PTL DEF Spec

\* An image that was there is replaced only if a flag says so or the user
\* answered yes to the question about it (resolveAllTagsOverwrite).
THEOREM NothingReplacedUnasked == Spec => ConsentedOverwrite
<1>1. CopyInv /\ [Next]_vars =>
        [\A t \in Tags : dst[t] = "old" /\ dst'[t] = "new" => Consented(t)]_vars
  BY CopyInvStep DEF Overwrites
<1> QED
  BY <1>1, CopyInvInit, CopyInvStep, PTL DEF Spec, ConsentedOverwrite
-----------------------------------------------------------------------------
(* The results and the report.                                             *)

\* Nothing has happened before the transfer.
Fresh ==
    Preparing =>
        /\ jobs = "unmade" /\ drainer = "drains" /\ resultsCh = {} /\ rows = {}
        /\ view \in {"none", "off"} /\ ~ cancelled
        /\ \A t \in Tags : results[t] = "zero"

\* A tag that is skipped is as it was, and the user did not agree to it.
Spared ==
    /\ unchecked \subseteq MyTags
    /\ unchecked \cap (skip \cup confirmed) = {} /\ skip \cap confirmed = {}
    /\ \A t \in skip : t \in Tags /\ dst[t] = "old"
    /\ main = "asks" => \A t \in Tags : Foremost(t) => dst[t] = "old"

\* What a worker, the channel and the slice say of a tag is so.
Told ==
    /\ results \in [Tags -> {"zero", "ok", "err"}]
    /\ \A t \in Tags : results[t] # "zero" => t \in ToCopy
    /\ \A t \in Tags : results[t] = "ok" => dst[t] = "new"
    /\ \A r \in resultsCh : /\ r.tag \in ToCopy /\ r.res \in {"ok", "err"}
                            /\ r.res = "ok" => dst[r.tag] = "new"
    /\ \A w \in Workers :
          worker[w].does = "written"
            \/ (worker[w].does = "writes" /\ call[w].at = "answered" /\ call[w].answer = "ok")
          => dst[worker[w].tag] = "new"

\* A tag that was handed out is with a worker, in the channel, or has its result.
Accounted ==
    jobs # "unmade" => \A t \in ToCopy \ queue :
        \/ results[t] # "zero"
        \/ \E r \in resultsCh : r.tag = t
        \/ \E w \in Workers : Has(w) /\ worker[w].tag = t

\* How the goroutines end.
Closing ==
    /\ jobs \in {"unmade", "open", "closed"}
    /\ main = "transfers" => jobs # "unmade"
    /\ jobs = "closed" /\ ~ cancelled => queue = {}
    /\ jobs = "open" => worker[1].does # "gone"
    /\ drainer = "done" => resultsCh = {} /\ \A w \in Workers : worker[w].does = "gone"
    /\ cmd.kind # "copy-all" => resultsCh = {}
    /\ main = "done" /\ cmd.kind = "copy-all" /\ jobs # "unmade" => drainer = "done"

\* What the view has shown.
Shown ==
    /\ \A t \in rows : t \in Tags /\ results[t] # "zero"
    /\ cmd.kind # "copy-all" /\ view \in {"quitting", "ended"} /\ ~ cancelled => rows = ToCopy

\* The type of the requests.
Calling == call \in [Workers -> Calls]

\* Nothing is printed before the end.
Reported == main # "done" => \A t \in Tags : report[t] = "none"

ReportInv == CopyInv /\ Calling /\ Fresh /\ Spared /\ Told /\ Accounted /\ Closing /\ Shown /\ Reported /\ ReportTrue

LEMMA ToCopyIsTags == ToCopy \subseteq Tags /\ MyTags \subseteq Tags
BY CopyInputs DEF ToCopy, MyTags, TagsOf

LEMMA CallingStep == ASSUME ReportInv, [Next]_vars PROVE Calling'
<1> USE DEF asking, pool, screen, ending
<1>1. Calling /\ \A w \in Workers : call[w] \in Calls
  BY DEF ReportInv, Calling
<1>2. NoCall \in Calls /\ \A b \in Bodies : NewCall(b) \in Calls
  BY DEF NoCall, NewCall, Calls, Outcomes, Answers, Bodies
<1>3. \A w \in Workers, c \in Calls : call' = [call EXCEPT ![w] = c] => Calling'
  BY <1>1 DEF Calling
<1>4. CASE UNCHANGED call
  BY <1>1, <1>4 DEF Calling
<1>5. ASSUME NEW w \in Workers, WorkerStep(w) PROVE Calling'
  <2>1. \/ UNCHANGED call
        \/ call' = [call EXCEPT ![w] = NoCall]
        \/ \E b \in Bodies : call' = [call EXCEPT ![w] = NewCall(b)]
    BY <1>5 DEF WorkerStep, HandOut, WorkerGoes, LoadLocal, TakeAnswer, Deliver, Queue, Publish, Conclude,
                Bodies
  <2> QED
    BY <1>2, <1>3, <1>4, <2>1
<1>6. ASSUME NEW w \in Workers, Request(w) PROVE Calling'
  <2> DEFINE c == call[w]
  <2>1. PICK answer \in Outcomes :
           \/ call' = [call EXCEPT ![w] = [c EXCEPT !.at = "waits"]]
           \/ call' = [call EXCEPT ![w] = [c EXCEPT !.at = "answered", !.answer = answer]]
           \/ call' = [call EXCEPT ![w] = [c EXCEPT !.at = "sent", !.attempt = c.attempt + 1]]
    BY <1>1, <1>6 DEF Request, Serve, Answered, Retry, Wake, Interrupt, Interrupted, Outcomes, Calling
  <2> c \in [at : {"none", "sent", "waits", "answered"}, body : Bodies, attempt : Nat, answer : Outcomes]
    BY <1>1 DEF Calls
  <2>2. [c EXCEPT !.at = "waits"] \in Calls
    BY DEF Calls
  <2>3. [c EXCEPT !.at = "answered", !.answer = answer] \in Calls
    BY DEF Calls
  <2>4. [c EXCEPT !.at = "sent", !.attempt = c.attempt + 1] \in Calls
    <3>1. c.attempt + 1 \in Nat
      OBVIOUS
    <3> QED
      BY <3>1 DEF Calls
  <2> QED
    BY <1>3, <2>1, <2>2, <2>3, <2>4
<1>7. CASE Main
  BY <1>4, <1>7 DEF Main, Start, DryRun, ListFails, EndsWith, Check, CheckFails, Checked, Absent, Exists,
                    Answer, AnswerPrompt, StartPool, SkipAll, Return
<1>8. CASE Producer \/ Drainer \/ View \/ (Transferring /\ CtrlC)
  BY <1>4, <1>8 DEF Producer, Drainer, View, CloseJobs, Drain, Drained, RunView, EndView, CtrlC
<1>9. CASE UNCHANGED vars
  BY <1>4, <1>9 DEF vars
<1> QED
  BY <1>5, <1>6, <1>7, <1>8, <1>9 DEF Next

LEMMA ReportInvInit == Init => ReportInv
<1> SUFFICES ASSUME Init PROVE ReportInv
  OBVIOUS
<1> USE DEF Init
<1>1. Fresh /\ Shown
  BY DEF Fresh, Shown
<1>2. Spared
  BY DEF Spared
<1>3. Told
  BY DEF Told, At
<1>4. Accounted /\ Closing
  BY DEF Accounted, Closing
<1>5. Reported /\ ReportTrue
  BY DEF Reported, ReportTrue
<1>6. Calling
  BY CopyInputs DEF Calling, Calls, TransportInit, NoCall, Outcomes, Answers, Bodies
<1> QED
  BY <1>1, <1>2, <1>3, <1>4, <1>5, <1>6, CopyInvInit DEF ReportInv

\* A step of the main goroutine before the transfer.
LEMMA PrepareReports ==
  ASSUME ReportInv, CopyInv', Calling', Spared', ReportTrue', Preparing,
         UNCHANGED <<cmd, dst, worker, call, queue, jobs, resultsCh, results, drainer, view, rows, cancelled>>,
         main' \in {"checks", "asks", "prepared", "done"}, main' # "done" => report' = report
  PROVE  ReportInv'
<1>1. Fresh'
  BY DEF ReportInv, Fresh, Preparing
<1>2. Told'
  BY DEF ReportInv, Fresh, Told, CopyInv, Assigned, Has
<1>3. Accounted' /\ Closing' /\ Shown' /\ Reported'
  BY DEF ReportInv, Fresh, Accounted, Closing, Shown, Reported, Preparing
<1> QED
  BY <1>1, <1>2, <1>3 DEF ReportInv

\* One that gives up, with nothing to report.
LEMMA EndsWithReports ==
  ASSUME ReportInv, CopyInv', Calling', Preparing, NEW code, EndsWith(code)
  PROVE  ReportInv'
<1> USE DEF EndsWith, asking, pool, screen
<1>1. Spared'
  BY DEF ReportInv, Spared, MyTags
<1>2. ReportTrue'
  BY CopyInputs, ToCopyIsTags DEF ReportInv, Reported, ReportTrue, PrintedIsTrue, MyTags, Preparing
<1> QED
  BY <1>1, <1>2, PrepareReports

LEMMA ForemostIsOne ==
  ASSUME Spared, NEW t, NEW u, Foremost(t), Foremost(u)
  PROVE  t = u
BY CopyInputs, ToCopyIsTags DEF Spared, Foremost

LEMMA ChecksReport ==
  ASSUME ReportInv, CopyInv', Calling', Start \/ DryRun \/ ListFails \/ Check \/ Answer \/ SkipAll
  PROVE  ReportInv'
<1> USE DEF asking, pool, screen, ending, Preparing
<1>1. CASE Start
  <2>1. Spared' /\ ReportTrue'
    BY <1>1 DEF Start, ReportInv, Spared, MyTags, ReportTrue
  <2> QED
    BY <1>1, <2>1, PrepareReports DEF Start
<1>2. CASE DryRun \/ ListFails \/ CheckFails
  BY <1>2, EndsWithReports DEF DryRun, ListFails, CheckFails
<1>3. CASE Checked
  <2>1. Spared' /\ ReportTrue'
    BY <1>3 DEF Checked, ReportInv, Spared, MyTags, ReportTrue
  <2> QED
    BY <1>3, <2>1, PrepareReports DEF Checked
<1>4. ASSUME NEW t \in Tags, Absent(t) PROVE ReportInv'
  <2>1. Spared' /\ ReportTrue'
    BY <1>4 DEF Absent, Foremost, ReportInv, Spared, MyTags, ReportTrue
  <2> QED
    BY <1>4, <2>1, PrepareReports DEF Absent
<1>5. ASSUME NEW t \in Tags, Exists(t) PROVE ReportInv'
  <2>1. main = "checks" /\ t \in unchecked /\ dst[t] = "old" /\ Foremost(t)
    BY <1>5 DEF Exists, Foremost
  <2>2. CASE EndsWith("error")
    BY <2>1, <2>2, EndsWithReports
  <2>3. CASE /\ unchecked' = unchecked \ {t} /\ skip' = skip \cup {t}
             /\ UNCHANGED <<cmd, dst, main, confirmed, lapsed, pool, screen, cancelled, ending, call>>
    <3>1. Spared' /\ ReportTrue'
      BY <2>1, <2>3 DEF ReportInv, Spared, MyTags, ReportTrue
    <3> QED
      BY <2>1, <2>3, <3>1, PrepareReports
  <2>4. CASE main' = "asks" /\ UNCHANGED <<cmd, dst, asking, pool, screen, cancelled, ending, call>>
    <3>1. \A u \in Tags : Foremost(u) => u = t
      BY <2>1, ForemostIsOne DEF ReportInv
    <3>2. Spared' /\ ReportTrue'
      BY <2>1, <2>4, <3>1 DEF ReportInv, Spared, MyTags, ReportTrue, Foremost
    <3> QED
      BY <2>1, <2>4, <3>2, PrepareReports
  <2> QED
    BY <1>5, <2>2, <2>3, <2>4 DEF Exists
<1>6. ASSUME NEW t \in Tags, AnswerPrompt(t) PROVE ReportInv'
  <2>1. /\ main = "asks" /\ t \in unchecked /\ dst[t] = "old" /\ main' = "checks"
        /\ unchecked' = unchecked \ {t}
        /\ \/ confirmed' = confirmed \cup {t} /\ skip' = skip
           \/ skip' = skip \cup {t} /\ confirmed' = confirmed
        /\ UNCHANGED <<cmd, dst, pool, screen, cancelled, ending, call>>
    BY <1>6 DEF AnswerPrompt, ReportInv, Spared, Foremost
  <2>2. Spared' /\ ReportTrue'
    BY <2>1 DEF ReportInv, Spared, MyTags, ReportTrue
  <2> QED
    BY <2>1, <2>2, PrepareReports
<1>7. CASE SkipAll
  <2>1. /\ main = "prepared" /\ main' = "done" /\ exit' = "ok" /\ MyTags \subseteq skip
        /\ \A t \in MyTags : report'[t] = "skipped"
        /\ UNCHANGED <<cmd, dst, unchecked, skip, confirmed>>
    BY <1>7, ToCopyIsTags DEF SkipAll, ToCopy
  <2>2. Spared'
    BY <2>1 DEF ReportInv, Spared, MyTags
  <2>3. ReportTrue'
    BY <2>1 DEF ReportInv, Spared, ReportTrue, PrintedIsTrue, MyTags
  <2> QED
    BY <1>7, <2>1, <2>2, <2>3, PrepareReports DEF SkipAll
<1> QED
  BY <1>1, <1>2, <1>3, <1>4, <1>5, <1>6, <1>7 DEF Check, Answer

LEMMA StartPoolReports == ASSUME ReportInv, CopyInv', Calling', StartPool PROVE ReportInv'
<1>1. /\ main = "prepared" /\ main' = "transfers" /\ queue' = ToCopy /\ jobs' = "open"
      /\ worker' = [w \in Workers |-> At(IF w \in Pool THEN "idle" ELSE "gone", 0)]
      /\ UNCHANGED <<cmd, dst, unchecked, skip, confirmed, call, resultsCh, results, drainer, view, rows,
                     cancelled, report>>
  BY DEF StartPool, asking, screen, ending
<1>2. ToCopy' = ToCopy /\ MyTags' = MyTags
  BY <1>1 DEF ToCopy, MyTags
<1>3. /\ drainer = "drains" /\ resultsCh = {} /\ rows = {} /\ view \in {"none", "off"}
      /\ \A t \in Tags : results[t] = "zero"
  BY <1>1 DEF ReportInv, Fresh, Preparing
<1>4. Fresh' /\ Spared' /\ Reported' /\ ReportTrue'
  BY <1>1, <1>2 DEF ReportInv, Fresh, Preparing, Spared, Reported, ReportTrue
<1>5. Told'
  BY <1>1, <1>2, <1>3 DEF ReportInv, Told, At
<1>6. Accounted' /\ Shown'
  BY <1>1, <1>2, <1>3 DEF Accounted, Shown
<1>7. worker'[1].does = "idle"
  BY <1>1, CopyInputs DEF At, Pool
<1>8. Closing'
  BY <1>1, <1>3, <1>7 DEF Closing
<1> QED
  BY <1>4, <1>5, <1>6, <1>8 DEF ReportInv

\* A step of the transfer.
LEMMA TransferReports ==
  ASSUME ReportInv, CopyInv', Calling', main = "transfers", main' = main,
         UNCHANGED <<cmd, unchecked, skip, confirmed, report>>,
         \A t \in Tags : dst'[t] = dst[t] \/ (t \in ToCopy /\ dst'[t] = "new"),
         Told', Accounted', Closing', Shown'
  PROVE  ReportInv'
<1>1. Fresh' /\ Reported' /\ ReportTrue'
  BY DEF ReportInv, Fresh, Preparing, Reported, ReportTrue
<1>2. Spared'
  BY DEF ReportInv, Spared, ToCopy, MyTags
<1> QED
  BY <1>1, <1>2 DEF ReportInv

\* A worker takes a tag, or goes on with the one it has.
LEMMA GoesOnReports ==
  ASSUME ReportInv, CopyInv', Calling', main = "transfers", main' = main,
         UNCHANGED <<cmd, dst, unchecked, skip, confirmed, report, jobs, resultsCh, results, drainer,
                     rows, cancelled>>,
         view' = view \/ view' = "none",
         NEW w \in Workers, NEW s \in {"reads", "writes", "written", "failed"}, NEW t,
         worker'[w].does = s /\ worker'[w].tag = t,
         \A v \in Workers \ {w} : worker'[v] = worker[v] /\ call'[v] = call[v],
         worker[w].does # "gone",
         \/ worker[w].tag = t /\ Has(w) /\ queue' = queue
         \/ worker[w].does = "idle" /\ queue' = queue \ {t} /\ jobs = "open",
         s = "written" => dst[t] = "new",
         s = "writes" => call'[w].at # "answered"
  PROVE  ReportInv'
<1>1. ToCopy' = ToCopy
  BY DEF ToCopy, MyTags
<1>2. Told'
  BY <1>1 DEF ReportInv, Told
<1>3. Accounted'
  <2>1. \A v \in Workers : Has(v) => Has(v)' /\ worker'[v].tag = worker[v].tag
    BY DEF Has
  <2>2. Has(w)'
    BY DEF Has
  <2> QED
    BY <1>1, <2>1, <2>2 DEF ReportInv, Accounted
<1>4. Closing' /\ Shown'
  BY <1>1, CopyInputs DEF ReportInv, Closing, Shown
<1> QED
  BY <1>2, <1>3, <1>4, TransferReports

LEMMA WorkerReports ==
  ASSUME ReportInv, CopyInv', Calling', main = "transfers", NEW w \in Workers, WorkerStep(w)
  PROVE  ReportInv'
<1> USE DEF asking, pool, screen, ending, Doing
<1> DEFINE Goes(s, t) ==
         /\ worker'[w].does = s /\ worker'[w].tag = t
         /\ DOMAIN worker' = Workers /\ \A v \in Workers \ {w} : worker'[v] = worker[v]
<1> DEFINE Rest == UNCHANGED <<cmd, dst, main, unchecked, skip, confirmed, report>>
<1>1. /\ CopyInv /\ DOMAIN call = Workers
      /\ call[w].at # "none" => Requests(worker[w].does)
  BY DEF ReportInv, CopyInv, Busy
<1>2. \A b : NewCall(b).at = "sent"
  BY DEF NewCall
<1>3. CASE HandOut(w)
  <2>1. PICK t \in queue : queue' = queue \ {t} /\ Become(w, "reads", t)
    BY <1>3 DEF HandOut
  <2>2. /\ Goes("reads", t) /\ Rest /\ worker[w].does = "idle" /\ jobs = "open"
        /\ UNCHANGED <<jobs, resultsCh, results, drainer, view, rows, cancelled>>
    BY <1>1, <1>3, <2>1, BecomesWhat DEF HandOut
  <2>3. \A v \in Workers \ {w} : call'[v] = call[v]
    BY <1>1, <1>3 DEF HandOut
  <2> QED
    BY <2>1, <2>2, <2>3, GoesOnReports
<1>4. CASE WorkerGoes(w)
  <2>1. /\ Goes("gone", 0) /\ Rest /\ worker[w].does = "idle" /\ jobs = "closed"
        /\ UNCHANGED <<call, queue, jobs, resultsCh, results, drainer, view, rows, cancelled>>
    BY <1>1, <1>4, BecomesWhat DEF WorkerGoes
  <2>2. ToCopy' = ToCopy
    BY <2>1 DEF ToCopy, MyTags
  <2>3. Told' /\ Closing' /\ Shown'
    BY <2>1, <2>2 DEF ReportInv, Told, Closing, Shown
  <2>4. \A v \in Workers : Has(v) => Has(v)' /\ worker'[v].tag = worker[v].tag
    BY <2>1 DEF Has
  <2>5. Accounted'
    BY <2>1, <2>2, <2>4 DEF ReportInv, Accounted
  <2> QED
    BY <2>1, <2>3, <2>5, TransferReports
<1>5. CASE LoadLocal(w)
  <2>1. PICK s \in {"writes", "failed"} :
            /\ Become(w, s, worker[w].tag)
            /\ s = "failed" => call' = call
            /\ s = "writes" => \E b \in {"rewindable", "once"} : call' = [call EXCEPT ![w] = NewCall(b)]
    BY <1>5 DEF LoadLocal, Publish
  <2>2. /\ Goes(s, worker[w].tag) /\ Rest /\ worker[w].does = "reads" /\ Has(w)
        /\ UNCHANGED <<queue, jobs, resultsCh, results, drainer, view, rows, cancelled>>
    BY <1>1, <1>5, <2>1, BecomesWhat DEF LoadLocal, Has
  <2>3. \A v \in Workers \ {w} : call'[v] = call[v]
    BY <1>1, <2>1
  <2>4. s = "writes" => call'[w].at # "answered"
    BY <1>1, <1>2, <2>1
  <2> QED
    BY <2>1, <2>2, <2>3, <2>4, GoesOnReports
<1>6. CASE TakeAnswer(w)
  <2>1. /\ Has(w) /\ Rest /\ call[w].at = "answered" /\ (view' = view \/ view' = "none")
        /\ UNCHANGED <<queue, jobs, resultsCh, results, drainer, rows, cancelled>>
    BY <1>1, <1>6 DEF TakeAnswer, Has, Requests
  <2>2. PICK s \in {"writes", "written", "failed"} :
            /\ Become(w, s, worker[w].tag)
            /\ s # "writes" => call' = [call EXCEPT ![w] = NoCall]
            /\ s = "writes" => \E b \in {"rewindable", "once"} : call' = [call EXCEPT ![w] = NewCall(b)]
            /\ s = "written" => call[w].answer = "ok" /\ worker[w].does = "writes"
    BY <1>6 DEF TakeAnswer, Publish, Conclude
  <2>3. Goes(s, worker[w].tag)
    BY <1>1, <2>2, BecomesWhat
  <2>4. \A v \in Workers \ {w} : call'[v] = call[v]
    BY <1>1, <2>2
  <2>5. s = "writes" => call'[w].at # "answered"
    BY <1>1, <1>2, <2>2
  <2>6. s = "written" => dst[worker[w].tag] = "new"
    BY <2>1, <2>2 DEF ReportInv, Told
  <2>7. worker[w].does # "gone"
    BY <2>1 DEF Has
  <2> QED
    BY <2>1, <2>2, <2>3, <2>4, <2>5, <2>6, <2>7, GoesOnReports
<1>7. CASE Deliver(w) \/ Queue(w)
  <2> DEFINE t == worker[w].tag
  <2>1. /\ Goes("idle", 0) /\ Rest /\ worker[w].does \in {"written", "failed"}
        /\ UNCHANGED <<call, queue, jobs, drainer, cancelled>>
    BY <1>1, <1>7, BecomesWhat DEF Deliver, Queue, HasOutcome
  <2>2. ToCopy' = ToCopy
    BY <2>1 DEF ToCopy, MyTags
  <2>3. t \in ToCopy /\ t \in Tags
    BY <1>1, <2>1, ToCopyIsTags DEF CopyInv, Assigned, Has
  <2>4. /\ Outcome(w) \in {"ok", "err"}
        /\ Outcome(w) = "ok" => dst[t] = "new"
    BY <2>1 DEF Outcome, ReportInv, Told
  <2>5. drainer # "done"
    BY <2>1 DEF ReportInv, Closing
  <2>6. \A v \in Workers : Has(v) /\ v # w => Has(v)' /\ worker'[v].tag = worker[v].tag
    BY <2>1 DEF Has
  <2>7. CASE Deliver(w)
    <3>1. /\ results' = [results EXCEPT ![t] = Outcome(w)] /\ resultsCh' = resultsCh
          /\ cmd.kind # "copy-all" /\ SendRow(t)
      BY <2>7 DEF Deliver
    <3>2. /\ results' \in [Tags -> {"zero", "ok", "err"}] /\ results'[t] = Outcome(w)
          /\ \A u \in Tags \ {t} : results'[u] = results[u]
      BY <2>3, <2>4, <3>1 DEF ReportInv, Told
    <3>3. Told'
      BY <2>1, <2>2, <2>3, <2>4, <3>1, <3>2 DEF ReportInv, Told
    <3>4. Accounted'
      BY <2>1, <2>2, <2>4, <2>6, <3>1, <3>2, ToCopyIsTags DEF ReportInv, Accounted
    <3>5. Closing'
      BY <2>1, <2>5, <3>1, CopyInputs DEF ReportInv, Closing
    <3>6. Shown'
      BY <2>1, <2>2, <2>3, <2>4, <3>1, <3>2 DEF ReportInv, Shown, SendRow
    <3> QED
      BY <2>1, <3>3, <3>4, <3>5, <3>6, TransferReports
  <2>8. CASE Queue(w)
    <3>1. /\ resultsCh' = resultsCh \cup {[tag |-> t, res |-> Outcome(w)]}
          /\ cmd.kind = "copy-all" /\ UNCHANGED <<results, view, rows>>
      BY <2>8 DEF Queue
    <3>2. Told'
      BY <2>1, <2>2, <2>3, <2>4, <3>1 DEF ReportInv, Told
    <3>3. Accounted'
      <4>1. \E r \in resultsCh' : r.tag = t
        <5>1. [tag |-> t, res |-> Outcome(w)] \in resultsCh'
          BY <3>1
        <5> QED
          BY <5>1
      <4> QED
        BY <2>1, <2>2, <2>6, <3>1, <4>1 DEF ReportInv, Accounted
    <3>4. Closing' /\ Shown'
      BY <2>1, <2>2, <2>5, <3>1, CopyInputs DEF ReportInv, Closing, Shown
    <3> QED
      BY <2>1, <3>2, <3>3, <3>4, TransferReports
  <2> QED
    BY <1>7, <2>7, <2>8
<1> QED
  BY <1>3, <1>4, <1>5, <1>6, <1>7 DEF WorkerStep

LEMMA RequestReports ==
  ASSUME ReportInv, CopyInv', Calling', NEW w \in Workers, Request(w)
  PROVE  ReportInv'
<1> USE DEF asking, pool, screen, ending
<1>1. /\ main = "transfers" /\ main' = main /\ DOMAIN call = Workers /\ call[w] \in Calls
      /\ UNCHANGED <<cmd, unchecked, skip, confirmed, report, queue, jobs, worker, resultsCh, results,
                     drainer, view, rows, cancelled>>
  BY DEF Request, Transferring, Serve, Retry, Interrupt, ReportInv, CopyInv, Busy, Calling
<1>2. /\ dst' = dst
         \/ (worker[w].does = "writes" /\ dst' = [dst EXCEPT ![worker[w].tag] = "new"])
      /\ \A v \in Workers \ {w} : call'[v] = call[v]
      /\ call'[w].at = "answered" /\ call'[w].answer = "ok" /\ worker[w].does = "writes" =>
            dst' = [dst EXCEPT ![worker[w].tag] = "new"]
  <2>1. CASE Serve(w)
    <3>1. PICK answer \in Answers :
             /\ Answered(w, answer)
             /\ IF Doing(w, "writes")
                THEN \/ dst' = [dst EXCEPT ![worker[w].tag] = "new"]
                     \/ answer # "ok" /\ UNCHANGED dst
                ELSE UNCHANGED dst
      BY <2>1 DEF Serve
    <3>2. \/ call' = [call EXCEPT ![w] = [@ EXCEPT !.at = "waits"]]
          \/ call' = [call EXCEPT ![w] = [@ EXCEPT !.at = "answered", !.answer = answer]]
      BY <3>1 DEF Answered
    <3>3. \A v \in Workers \ {w} : call'[v] = call[v]
      BY <1>1, <3>2
    <3>4. call'[w].at = "answered" /\ call'[w].answer = "ok" => answer = "ok" \/ call[w].at # "sent"
      BY <1>1, <3>2 DEF Calls
    <3>5. call[w].at = "sent"
      BY <3>1 DEF Answered
    <3> QED
      BY <3>1, <3>3, <3>4, <3>5 DEF Doing
  <2>2. CASE Retry(w) \/ Interrupt(w)
    <3>1. dst' = dst
      BY <2>2 DEF Retry, Interrupt
    <3>2. \/ call' = [call EXCEPT ![w].at = "sent", ![w].attempt = @ + 1]
          \/ call' = [call EXCEPT ![w] = [@ EXCEPT !.at = "answered", !.answer = "nothing"]]
          \/ call' = [call EXCEPT ![w] = [@ EXCEPT !.at = "answered", !.answer = "cancelled"]]
      BY <2>2 DEF Retry, Interrupt, Wake, Interrupted
    <3>3. call'[w].at # "answered" \/ call'[w].answer # "ok"
      BY <1>1, <3>2 DEF Calls
    <3>4. \A v \in Workers \ {w} : call'[v] = call[v]
      BY <1>1, <3>2
    <3> QED
      BY <3>1, <3>3, <3>4
  <2> QED
    BY <2>1, <2>2 DEF Request
<1>3. \A v \in Workers : Has(v)' <=> Has(v)
  BY <1>1 DEF Has
<1>4. worker[w].does = "writes" => worker[w].tag \in ToCopy /\ worker[w].tag \in Tags
  BY ToCopyIsTags DEF ReportInv, CopyInv, Assigned, Has
<1>5. /\ \A t \in Tags : dst'[t] = dst[t] \/ (t \in ToCopy /\ dst'[t] = "new")
      /\ call'[w].at = "answered" /\ call'[w].answer = "ok" /\ worker[w].does = "writes" =>
            dst'[worker[w].tag] = "new"
  BY <1>2, <1>4 DEF ReportInv, CopyInv, Shapes
<1>6. ToCopy' = ToCopy
  BY <1>1 DEF ToCopy, MyTags
<1>7. Told'
  <2>1. \A t \in Tags : dst[t] = "new" => dst'[t] = "new"
    BY <1>5
  <2>2. ASSUME NEW v \in Workers,
               worker[v].does = "written" \/
                 (worker[v].does = "writes" /\ call'[v].at = "answered" /\ call'[v].answer = "ok")
        PROVE  dst'[worker[v].tag] = "new"
    <3>1. worker[v].tag \in Tags
      BY <2>2, ToCopyIsTags DEF ReportInv, CopyInv, Assigned, Has
    <3>2. CASE v = w /\ worker[v].does = "writes"
      BY <1>5, <2>2, <3>2
    <3>3. CASE v # w \/ worker[v].does = "written"
      BY <1>2, <2>1, <2>2, <3>1, <3>3 DEF ReportInv, Told
    <3> QED
      BY <2>2, <3>2, <3>3
  <2> QED
    BY <1>1, <1>6, <2>1, <2>2, ToCopyIsTags DEF ReportInv, Told
<1>8. Accounted' /\ Closing' /\ Shown'
  BY <1>1, <1>3, <1>6 DEF ReportInv, Accounted, Closing, Shown
<1> QED
  BY <1>1, <1>5, <1>7, <1>8, TransferReports

LEMMA RestReports ==
  ASSUME ReportInv, CopyInv', Calling', Producer \/ Drainer \/ View \/ (Transferring /\ CtrlC)
  PROVE  ReportInv'
<1> USE DEF asking, pool, screen, ending, Doing
<1>1. /\ main = "transfers" /\ main' = main
      /\ UNCHANGED <<cmd, dst, unchecked, skip, confirmed, report, queue, worker, call>>
  BY DEF Producer, Drainer, View, Transferring, CtrlC, CloseJobs, Drain, Drained, RunView, EndView
<1>2. ToCopy' = ToCopy /\ \A v \in Workers : Has(v)' <=> Has(v)
  BY <1>1 DEF ToCopy, MyTags, Has
<1>3. CASE CloseJobs
  <2>1. Told' /\ Accounted' /\ Closing' /\ Shown'
    BY <1>1, <1>2, <1>3 DEF CloseJobs, ReportInv, Told, Accounted, Closing, Shown
  <2> QED
    BY <1>1, <2>1, TransferReports
<1>4. CASE Drain
  <2>1. PICK r \in resultsCh :
          resultsCh' = resultsCh \ {r} /\ results' = [results EXCEPT ![r.tag] = r.res] /\ SendRow(r.tag)
    BY <1>4 DEF Drain
  <2>2. /\ cmd.kind = "copy-all" /\ drainer = "drains"
        /\ UNCHANGED <<jobs, drainer, cancelled>>
    BY <1>4 DEF Drain
  <2>3. /\ r.tag \in ToCopy /\ r.tag \in Tags /\ r.res \in {"ok", "err"}
        /\ r.res = "ok" => dst[r.tag] = "new"
    BY ToCopyIsTags DEF ReportInv, Told
  <2>4. /\ results' \in [Tags -> {"zero", "ok", "err"}] /\ results'[r.tag] = r.res
        /\ \A u \in Tags \ {r.tag} : results'[u] = results[u]
    BY <2>1, <2>3 DEF ReportInv, Told
  <2>5. Told'
    BY <1>1, <1>2, <2>1, <2>3, <2>4 DEF ReportInv, Told
  <2>6. Accounted'
    <3> SUFFICES ASSUME jobs # "unmade", NEW t \in ToCopy \ queue
                 PROVE  \/ results'[t] # "zero"
                        \/ \E q \in resultsCh' : q.tag = t
                        \/ \E w \in Workers : Has(w)' /\ worker'[w].tag = t
      BY <1>1, <1>2, <2>2 DEF Accounted
    <3>1. CASE t = r.tag
      BY <2>3, <2>4, <3>1
    <3>2. CASE t # r.tag
      BY <1>1, <1>2, <2>1, <2>4, <3>2, ToCopyIsTags DEF ReportInv, Accounted
    <3> QED
      BY <3>1, <3>2
  <2>7. Closing'
    BY <1>1, <2>1, <2>2 DEF ReportInv, Closing
  <2>8. Shown'
    BY <1>2, <2>1, <2>2, <2>3, <2>4, <1>1 DEF ReportInv, Shown, SendRow
  <2> QED
    BY <1>1, <2>5, <2>6, <2>7, <2>8, TransferReports
<1>5. CASE Drained
  <2>1. Told' /\ Accounted' /\ Closing' /\ Shown'
    BY <1>1, <1>2, <1>5 DEF Drained, ReportInv, Told, Accounted, Closing, Shown
  <2> QED
    BY <1>1, <2>1, TransferReports
<1>6. CASE RunView \/ EndView \/ CtrlC
  <2>1. Told' /\ Accounted' /\ Closing' /\ Shown'
    BY <1>1, <1>2, <1>6 DEF RunView, EndView, CtrlC, ReportInv, Told, Accounted, Closing, Shown
  <2> QED
    BY <1>1, <2>1, TransferReports
<1> QED
  BY <1>3, <1>4, <1>5, <1>6 DEF Producer, Drainer, View

\* Every tag has its result when an undisturbed transfer is over.
LEMMA AllHaveResults ==
  ASSUME ReportInv, main = "transfers", TransferIsOver, ~ cancelled, ~ Unwatched
  PROVE  \A t \in ToCopy : results[t] # "zero"
<1>1. CASE cmd.kind = "copy-all" \/ view = "none"
  <2>1. /\ \A w \in Workers : worker[w].does = "gone"
        /\ resultsCh = {}
    BY <1>1 DEF TransferIsOver, Doing, ReportInv, Closing
  <2>2. jobs = "closed" /\ queue = {}
    BY <2>1, CopyInputs DEF ReportInv, Closing
  <2>3. \A w \in Workers : ~ Has(w)
    BY <2>1 DEF Has
  <2> QED
    BY <2>1, <2>2, <2>3 DEF ReportInv, Accounted
<1>2. CASE cmd.kind # "copy-all" /\ view # "none"
  BY <1>2 DEF TransferIsOver, ViewIsOver, ReportInv, Shown, Unwatched
<1> QED
  BY <1>1, <1>2

LEMMA ReturnReports == ASSUME ReportInv, CopyInv', Calling', Return PROVE ReportInv'
<1>1. /\ main = "transfers" /\ main' = "done" /\ TransferIsOver
      /\ report' = [t \in Tags |->
                       CASE t \notin MyTags -> "none"
                         [] t \in skip -> "skipped"
                         [] results[t] = "err" -> "err"
                         [] OTHER -> "ok"]
      /\ exit' = IF \E t \in MyTags : results[t] = "err" THEN "error" ELSE "ok"
      /\ UNCHANGED <<cmd, dst, unchecked, skip, confirmed, queue, jobs, worker, resultsCh, results, drainer,
                     view, rows, cancelled, call>>
  BY DEF Return, asking, pool, screen
<1>2. ToCopy' = ToCopy /\ MyTags' = MyTags
  BY <1>1 DEF ToCopy, MyTags
<1>3. Fresh' /\ Spared' /\ Told' /\ Shown' /\ Reported'
  BY <1>1, <1>2 DEF ReportInv, Fresh, Preparing, Spared, Told, Shown, Reported
<1>4. Accounted'
  BY <1>1, <1>2 DEF ReportInv, Accounted, Has
<1>5. Closing'
  BY <1>1 DEF ReportInv, Closing, TransferIsOver
<1>6. ReportTrue'
  <2> SUFFICES ASSUME ~ cancelled, ~ Unwatched
               PROVE  /\ \A t \in MyTags : PrintedIsTrue(t)'
                      /\ exit' = "error" <=> \E t \in MyTags : report'[t] = "err"
    BY <1>1, <1>2 DEF ReportTrue, Unwatched
  <2>1. \A t \in MyTags : report'[t] = IF t \in skip THEN "skipped"
                                       ELSE IF results[t] = "err" THEN "err" ELSE "ok"
    BY <1>1, ToCopyIsTags DEF ReportInv, Told, ToCopy
  <2>2. \A t \in ToCopy : results[t] # "zero"
    BY <1>1, AllHaveResults
  <2>3. \A t \in MyTags : PrintedIsTrue(t)'
    BY <1>1, <2>1, <2>2, ToCopyIsTags DEF PrintedIsTrue, ReportInv, Told, Spared, ToCopy
  <2>4. exit' = "error" <=> \E t \in MyTags : results[t] = "err"
    BY <1>1
  <2>5. \A t \in MyTags : results[t] = "err" <=> report'[t] = "err"
    BY <2>1, ToCopyIsTags DEF ReportInv, Told, ToCopy
  <2> QED
    BY <2>3, <2>4, <2>5
<1> QED
  BY <1>3, <1>4, <1>5, <1>6 DEF ReportInv

LEMMA ReportInvStep == ReportInv /\ [Next]_vars => ReportInv'
<1> SUFFICES ASSUME ReportInv, [Next]_vars PROVE ReportInv'
  OBVIOUS
<1>1. CopyInv' /\ Calling'
  BY CopyInvStep, CallingStep DEF ReportInv
<1>2. CASE UNCHANGED vars
  <2> USE <1>2 DEF vars, asking, pool, screen, ending
  <2>1. ToCopy' = ToCopy /\ MyTags' = MyTags
    BY DEF ToCopy, MyTags
  <2>2. Fresh' /\ Spared' /\ Reported'
    BY <2>1 DEF ReportInv, Fresh, Preparing, Spared, Foremost, Reported
  <2>3. Told' /\ Accounted' /\ Closing' /\ Shown'
    BY <2>1 DEF ReportInv, Told, Accounted, Has, Closing, Shown
  <2>4. ReportTrue'
    BY <2>1 DEF ReportInv, ReportTrue, Unwatched, PrintedIsTrue
  <2> QED
    BY <1>1, <2>2, <2>3, <2>4 DEF ReportInv
<1>3. CASE Main
  BY <1>1, <1>3, ChecksReport, StartPoolReports, ReturnReports DEF Main
<1>4. CASE Producer \/ Drainer \/ View \/ (Transferring /\ CtrlC)
  BY <1>1, <1>4, RestReports
<1>5. ASSUME NEW w \in Workers, WorkerStep(w) \/ Request(w) PROVE ReportInv'
  BY <1>1, <1>5, WorkerReports, RequestReports DEF WorkerStep, Transferring
<1> QED
  BY <1>2, <1>3, <1>4, <1>5 DEF Next

\* A run that the user lets finish, and whose main goroutine waits for it, prints
\* of every image what became of it, and its exit code is an error if and only if
\* one failed (summarizeCopyResults, firstError); what is left out are push and copy
\* of one tag with a view that cannot start (push.go:538).
THEOREM ReportsAreTrue == Spec => []ReportTrue
<1>1. ReportInv => ReportTrue
  BY DEF ReportInv
<1> QED
  BY <1>1, ReportInvInit, ReportInvStep, PTL DEF Spec

\* When copy --all-tags ends, after Ctrl+C too, no request is under way and every
\* tag a worker was given has its result (wg.Wait, done).
THEOREM PoolIsDrained == Spec => []PoolDrained
<1>1. ReportInv => PoolDrained
  <2> SUFFICES ASSUME ReportInv, main = "done", cmd.kind = "copy-all", jobs # "unmade"
               PROVE  /\ \A w \in Workers : call[w].at = "none"
                      /\ \A t \in ToCopy \ queue : results[t] # "zero"
    BY DEF PoolDrained
  <2>1. resultsCh = {} /\ \A w \in Workers : worker[w].does = "gone"
    BY DEF ReportInv, Closing
  <2>2. \A w \in Workers : ~ Has(w) /\ ~ Requests(worker[w].does)
    BY <2>1 DEF Has, Requests
  <2> QED
    BY <2>1, <2>2 DEF ReportInv, CopyInv, Busy, Accounted
<1> QED
  BY <1>1, ReportInvInit, ReportInvStep, PTL DEF Spec

=============================================================================

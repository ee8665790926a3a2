------------------------ MODULE GuardedCommandProofs ------------------------
(***************************************************************************)
(* For every command, any number of items and any failures: nothing is     *)
(* taken away or created without consent (ConsentFirst), what is printed is *)
(* so (SaysWhatIsSo), and a run that nothing disturbs does what the user   *)
(* agreed to however long he thinks (ThinkingIsFree).                      *)
(*                                                                         *)
(* The invariants speak of what is left of the plan.  A step that does work *)
(* has a question for it still before it, or the user has answered one and *)
(* what is in hand has not changed since; a target that was not named, or  *)
(* not waited for, has the step that does so ahead; and what was agreed to *)
(* is made or gone, or the step that sees to it is ahead.  Every plan keeps *)
(* to that at its start (PlansAreOrderly).  That work is the last a plan   *)
(* does is what lets the user be asked only about what is not done.        *)
(***************************************************************************)
EXTENDS GuardedCommand, FiniteSetTheorems, TLAPS

\* The steps that clear a later one.
Clearing == {"refuse", "ask", "askAll", "confirm", "menu", "pickOne", "pickSome"}

\* Step k of what is left is cleared: by a step before it, or by what the user has
\* said so far.
AgreedToAll(k) == confirmed = Items /\ \A i \in 1 .. k - 1 : rest[i] # "ask"
AgreedToTargets(k) ==
    /\ targets \subseteq confirmed /\ rest[k] \notin {"wipe", "create"}
    /\ \A i \in 1 .. k - 1 : rest[i] \notin Retarget
Cleared(k) ==
    \/ inv.yes
    \/ \E j \in 1 .. k - 1 : Clears(inv, rest, j, k)
    \/ ~ inv.agent /\ (AgreedToAll(k) \/ AgreedToTargets(k))

PicksOrderly == ~ inv.agent => Orderly(inv, PickedPlan(inv, TRUE)) /\ Orderly(inv, PickedPlan(inv, FALSE))

\* What is left to do keeps to the rules.
RestInv ==
    /\ rest \in Seq(StepNames) /\ WorksLast(rest) /\ SkipsLook(rest)
    /\ (\E k \in 1 .. Len(rest) : rest[k] = "pickSome") => PicksOrderly
    /\ \A k \in 1 .. Len(rest) : Guarded(inv, rest[k]) => Cleared(k)

\* Once work was done no question is left, and no work but the one at hand.
DoneInv ==
    taken \cup made # {} =>
        \A k \in 1 .. Len(rest) :
            /\ rest[k] \notin Retarget \cup Questions
            /\ k > 1 \/ made # {} => rest[k] \notin Work

HandInv ==
    /\ inv \in Invocations(Commands)
    /\ targets \subseteq Items /\ world \subseteq Items
    /\ made = {} => todo \subseteq targets

ConsentInv == RestInv /\ DoneInv /\ HandInv /\ NothingWithoutConsent

-----------------------------------------------------------------------------
(* Sequences.                                                               *)

\* r is s without its first d steps.
Drops(r, s, d) ==
    /\ r \in Seq(StepNames) /\ d \in 0 .. Len(s) /\ Len(r) = Len(s) - d
    /\ \A k \in 1 .. Len(r) : r[k] = s[k + d]

LEMMA HeadIs ==
    ASSUME NEW s \in Seq(StepNames), s # <<>>
    PROVE  Head(s) = s[1] /\ Len(s) \in Nat /\ Len(s) >= 1 /\ s[1] \in StepNames
  OBVIOUS

LEMMA TailDrops ==
    ASSUME NEW s \in Seq(StepNames), s # <<>>
    PROVE  Drops(Tail(s), s, 1)
  BY DEF Drops

LEMMA SubSeqDrops ==
    ASSUME NEW s \in Seq(StepNames), NEW d \in 1 .. Len(s) + 1
    PROVE  Drops(SubSeq(s, d, Len(s)), s, d - 1)
  BY DEF Drops

LEMMA RulesDrop ==
    ASSUME NEW s \in Seq(StepNames), NEW r, NEW d, Drops(r, s, d), WorksLast(s), SkipsLook(s)
    PROVE  /\ r \in Seq(StepNames) /\ WorksLast(r) /\ SkipsLook(r)
           /\ (\E k \in 1 .. Len(r) : r[k] = "pickSome") => \E k \in 1 .. Len(s) : s[k] = "pickSome"
<1>1. /\ Len(s) \in Nat /\ d \in Nat /\ Len(r) = Len(s) - d /\ Len(r) \in Nat
      /\ \A k \in 1 .. Len(r) : r[k] = s[k + d] /\ k + d \in 1 .. Len(s)
  BY DEF Drops
<1>2. WorksLast(r)
  BY <1>1 DEF WorksLast
<1>3. SkipsLook(r)
  <2> SUFFICES ASSUME NEW j \in 1 .. Len(r), r[j] \in {"peekFor", "tryFor"}
               PROVE  /\ j + 1 <= Len(r)
                      /\ \/ r[j + 1] = "askVolumes"
                         \/ /\ r[j] = "peekFor" /\ r[j + 1] = "bound"
                            /\ j + 2 <= Len(r) /\ r[j + 2] = "peek"
    BY DEF SkipsLook
  <2>1. /\ (j + d) + 1 <= Len(s)
        /\ \/ s[(j + d) + 1] = "askVolumes"
           \/ /\ s[j + d] = "peekFor" /\ s[(j + d) + 1] = "bound"
              /\ (j + d) + 2 <= Len(s) /\ s[(j + d) + 2] = "peek"
    BY <1>1 DEF SkipsLook
  <2> QED
    BY <1>1, <2>1
<1> QED
  BY <1>1, <1>2, <1>3 DEF Drops

-----------------------------------------------------------------------------
(* What is left of a plan.                                                   *)

\* A rest without steps, and a plan that is orderly from its start.
LEMMA FinishRest ==
    ASSUME rest' = <<>>
    PROVE  RestInv' /\ DoneInv'
  BY DEF RestInv, DoneInv, WorksLast, SkipsLook

LEMMA OrderlyRest ==
    ASSUME RestInv, DoneInv, UNCHANGED <<inv, taken, made>>, Orderly(inv, rest'), taken \cup made = {},
           (\E k \in 1 .. Len(rest') : rest'[k] = "pickSome") => PicksOrderly
    PROVE  RestInv' /\ DoneInv'
<1>1. RestInv'
  <2>1. \A k \in 1 .. Len(rest') : Guarded(inv, rest'[k]) => inv.yes \/ \E j \in 1 .. k - 1 : Clears(inv, rest', j, k)
    BY DEF Orderly, AsksFirst
  <2>2. \A k \in 1 .. Len(rest') : Guarded(inv', rest'[k]) => Cleared(k)'
    BY <2>1 DEF Cleared
  <2>3. PicksOrderly' = PicksOrderly
    BY DEF PicksOrderly
  <2> QED
    BY <2>2, <2>3 DEF RestInv, Orderly
<1> QED
  BY <1>1 DEF DoneInv

\* What clears a step still does when steps before both are gone.
LEMMA ClearsShift ==
    ASSUME NEW i, NEW s \in Seq(StepNames), NEW r, NEW d, Drops(r, s, d),
           NEW k \in 1 .. Len(r), NEW j \in 1 .. k + d - 1, Clears(i, s, j, k + d), j > d
    PROVE  j - d \in 1 .. k - 1 /\ Clears(i, r, j - d, k)
<1>1. /\ Len(s) \in Nat /\ d \in Nat /\ Len(r) = Len(s) - d /\ Len(r) \in Nat
      /\ \A m \in 1 .. Len(r) : r[m] = s[m + d]
  BY DEF Drops
<1>2. /\ j - d \in 1 .. k - 1 /\ j - d \in 1 .. Len(r) /\ r[j - d] = s[j] /\ r[k] = s[k + d]
  BY <1>1
<1>3. \A m \in (j - d) + 1 .. k - 1 : m + d \in j + 1 .. (k + d) - 1 /\ r[m] = s[m + d]
  BY <1>1
<1> QED
  BY <1>2, <1>3 DEF Clears

\* Steps go that clear nothing, or that do so by what the user has said now.
LEMMA DropRest ==
    ASSUME RestInv, NEW d \in 1 .. Len(rest), Drops(rest', rest, d), UNCHANGED inv,
           \A j \in 1 .. d : rest[j] \notin Clearing \ {"confirm"} \/ (~ inv.agent /\ rest[j] # "refuse"),
           \/ confirmed' = confirmed /\ \A j \in 1 .. d : rest[j] \notin {"ask", "askAll", "confirm"}
           \/ d = 1 /\ rest[1] \in {"askAll", "confirm"} /\ confirmed' = Items
           \/ d = 1 /\ rest[1] = "ask" /\ confirmed' = targets,
           targets' = targets \/ \E j \in 1 .. d : rest[j] \in Retarget \ {"ask"},
           targets' \subseteq Items
    PROVE  RestInv'
<1>1. /\ rest \in Seq(StepNames) /\ Len(rest) \in Nat /\ d \in Nat /\ Len(rest') = Len(rest) - d
      /\ Len(rest') \in Nat
      /\ \A k \in 1 .. Len(rest') : rest'[k] = rest[k + d] /\ k + d \in 1 .. Len(rest)
  BY DEF RestInv, Drops
<1>2. ASSUME NEW k \in 1 .. Len(rest'), Guarded(inv, rest'[k]) PROVE Cleared(k)'
  <2>1. Cleared(k + d)
    BY <1>1, <1>2 DEF RestInv
  <2>2. CASE inv.yes
    BY <2>2 DEF Cleared
  <2>3. ASSUME NEW j \in 1 .. (k + d) - 1, Clears(inv, rest, j, k + d) PROVE Cleared(k)'
    <3>1. CASE j > d
      <4>1. rest \in Seq(StepNames) /\ Drops(rest', rest, d)
        BY <1>1
      <4>2. j \in 1 .. k + d - 1 /\ Clears(inv, rest, j, k + d) /\ j > d
        BY <2>3, <3>1
      <4>3. j - d \in 1 .. k - 1 /\ Clears(inv, rest', j - d, k)
        BY <4>1, <4>2, ClearsShift
      <4> QED
        BY <4>3 DEF Cleared
    <3>2. CASE j <= d
      <4>1. j \in 1 .. d
        BY <1>1, <3>2
      <4>2. /\ ~ inv.agent
            /\ \/ rest[j] \in {"askAll", "confirm"} /\ \A i \in j + 1 .. (k + d) - 1 : rest[i] # "ask"
               \/ /\ rest[j] = "ask" /\ rest[k + d] \notin {"wipe", "create"}
                  /\ \A i \in j + 1 .. (k + d) - 1 : rest[i] \notin Retarget
        BY <2>3, <4>1 DEF Clears, Clearing
      <4>3. d = 1 /\ j = 1
        BY <4>1, <4>2
      <4>4. \A i \in 1 .. k - 1 : rest'[i] = rest[i + 1] /\ i + 1 \in j + 1 .. (k + d) - 1
        BY <1>1, <4>3
      <4>5. CASE rest[1] \in {"askAll", "confirm"}
        <5>1. AgreedToAll(k)'
          BY <4>2, <4>3, <4>4, <4>5 DEF AgreedToAll
        <5> QED
          BY <4>2, <5>1 DEF Cleared
      <4>6. CASE rest[1] = "ask"
        <5>1. confirmed' = targets /\ targets' = targets
          BY <4>3, <4>6 DEF Retarget
        <5>2. AgreedToTargets(k)'
          BY <1>1, <4>2, <4>3, <4>4, <4>6, <5>1 DEF AgreedToTargets
        <5> QED
          BY <4>2, <5>2 DEF Cleared
      <4> QED
        BY <4>2, <4>3, <4>5, <4>6
    <3> QED
      BY <1>1, <3>1, <3>2
  <2>4. CASE ~ inv.agent /\ AgreedToAll(k + d)
    <3>1. confirmed' = Items
      BY <1>1, <2>4 DEF AgreedToAll
    <3>2. \A i \in 1 .. k - 1 : rest'[i] = rest[i + d] /\ i + d \in 1 .. (k + d) - 1
      BY <1>1
    <3> QED
      BY <2>4, <3>1, <3>2 DEF AgreedToAll, Cleared
  <2>5. CASE ~ inv.agent /\ AgreedToTargets(k + d)
    <3>1. \A j \in 1 .. d : j \in 1 .. (k + d) - 1
      BY <1>1
    <3>2. targets' = targets
      BY <2>5, <3>1 DEF AgreedToTargets
    <3>3. targets' \subseteq confirmed'
      BY <2>5, <3>2 DEF AgreedToTargets
    <3>4. \A i \in 1 .. k - 1 : rest'[i] = rest[i + d] /\ i + d \in 1 .. (k + d) - 1
      BY <1>1
    <3>5. rest'[k] = rest[k + d]
      BY <1>1
    <3> QED
      BY <2>5, <3>3, <3>4, <3>5 DEF AgreedToTargets, Cleared
  <2> QED
    BY <2>1, <2>2, <2>3, <2>4, <2>5 DEF Cleared
<1>3. rest' \in Seq(StepNames) /\ WorksLast(rest') /\ SkipsLook(rest')
  BY <1>1, RulesDrop DEF RestInv
<1>4. (\E k \in 1 .. Len(rest') : rest'[k] = "pickSome") => PicksOrderly'
  BY <1>1, RulesDrop DEF RestInv, PicksOrderly
<1> QED
  BY <1>2, <1>3, <1>4 DEF RestInv

LEMMA DropDone ==
    ASSUME RestInv, DoneInv, NEW d \in 1 .. Len(rest), Drops(rest', rest, d),
           UNCHANGED <<taken, made>> \/ rest[1] \in Work
    PROVE  DoneInv'
<1>1. /\ rest \in Seq(StepNames) /\ Len(rest) \in Nat /\ d \in Nat /\ Len(rest') = Len(rest) - d
      /\ Len(rest') \in Nat /\ WorksLast(rest)
      /\ \A k \in 1 .. Len(rest') : rest'[k] = rest[k + d] /\ k + d \in 1 .. Len(rest) /\ k + d > 1
  BY DEF RestInv, Drops
<1>2. CASE UNCHANGED <<taken, made>>
  BY <1>1, <1>2 DEF DoneInv
<1>3. CASE rest[1] \in Work
  <2>1. \A k \in 1 .. Len(rest) : k > 1 => rest[k] \notin Work \cup Retarget \cup Questions
    <3>1. 1 \in 1 .. Len(rest)
      BY <1>1
    <3> QED
      BY <1>1, <1>3, <3>1 DEF WorksLast
  <2> QED
    BY <1>1, <2>1 DEF DoneInv
<1> QED
  BY <1>2, <1>3

-----------------------------------------------------------------------------
(* The steps that answer nothing.                                            *)

LEMMA AtHead ==
    ASSUME RestInv, NEW s \in StepNames, At(s)
    PROVE  rest # <<>> /\ rest[1] = s /\ 1 \in 1 .. Len(rest)
  BY HeadIs DEF At, RestInv

\* A step that is no answer of the user: it is the last, or the next one follows, or
\* it is not over yet.
LEMMA AdvanceRest ==
    ASSUME ConsentInv, rest # <<>>, rest[1] \notin Clearing, UNCHANGED <<inv, confirmed>>,
           targets' = targets \/ rest[1] \in Retarget, targets' \subseteq Items,
           UNCHANGED <<taken, made>> \/ rest[1] \in Work,
           \/ rest' = <<>>
           \/ rest' = Tail(rest)
           \/ rest' = rest /\ UNCHANGED <<targets, made>> /\ rest[1] # "create"
    PROVE  RestInv' /\ DoneInv'
<1>1. RestInv /\ DoneInv /\ rest \in Seq(StepNames) /\ Len(rest) \in Nat /\ 1 \in 1 .. Len(rest)
  BY HeadIs DEF ConsentInv, RestInv
<1>2. CASE rest' = <<>>
  BY <1>2, FinishRest
<1>3. CASE rest' = Tail(rest)
  <2>1. Drops(rest', rest, 1)
    BY <1>1, <1>3, TailDrops
  <2>2. RestInv'
    BY <1>1, <2>1, DropRest DEF Clearing
  <2> QED
    BY <1>1, <2>1, <2>2, DropDone
<1>4. CASE rest' = rest /\ UNCHANGED <<targets, made>> /\ rest[1] # "create"
  <2>1. RestInv'
    BY <1>1, <1>4 DEF RestInv, Cleared, AgreedToAll, AgreedToTargets, PicksOrderly
  <2>2. DoneInv'
    <3>1. CASE UNCHANGED <<taken, made>>
      BY <1>1, <1>4, <3>1 DEF DoneInv
    <3>2. CASE rest[1] \in Work
      <4>1. \A k \in 1 .. Len(rest) : k > 1 => rest[k] \notin Work \cup Retarget \cup Questions
        BY <1>1, <3>2 DEF RestInv, WorksLast
      <4>2. rest[1] \notin Retarget \cup Questions
        BY <1>4, <3>2 DEF Work, Retarget, Questions
      <4>3. made = {}
        BY <1>1, <3>2 DEF DoneInv
      <4> QED
        BY <1>1, <1>4, <4>1, <4>2, <4>3 DEF DoneInv
    <3> QED
      BY <3>1, <3>2
  <2> QED
    BY <2>1, <2>2
<1> QED
  BY <1>2, <1>3, <1>4

\* Work at hand has the user's consent.
LEMMA WorkAgreed ==
    ASSUME ConsentInv, rest # <<>>, rest[1] \in Work
    PROVE  /\ made = {} /\ todo \subseteq targets /\ targets \subseteq Items
           /\ rest[1] # "create" => \A i \in targets : Consented(i)
           /\ rest[1] = "wipe" \/ (rest[1] = "create" /\ AsksToCreate) => \A i \in Items : Consented(i)
<1>1. rest \in Seq(StepNames) /\ Len(rest) \in Nat /\ 1 \in 1 .. Len(rest) /\ 1 .. 1 - 1 = {}
  BY HeadIs DEF ConsentInv, RestInv
<1>2. made = {} /\ todo \subseteq targets /\ targets \subseteq Items
  BY <1>1 DEF ConsentInv, DoneInv, HandInv
<1>3. (rest[1] = "create" => AsksToCreate) => inv.yes \/ (~ inv.agent /\ (confirmed = Items \/
            (targets \subseteq confirmed /\ rest[1] \notin {"wipe", "create"})))
  BY <1>1 DEF ConsentInv, RestInv, Guarded, AsksToCreate, Cleared, AgreedToAll, AgreedToTargets
<1> QED
  BY <1>2, <1>3 DEF Consented

LEMMA TakeAgreed ==
    ASSUME ConsentInv, NEW S, Take(S), made = {}, \A i \in S \cap world : Consented(i), UNCHANGED <<inv, consent>>
    PROVE  NothingWithoutConsent' /\ world' \subseteq Items /\ made' = made
<1>1. /\ taken' = taken \cup (S \cap world) /\ volumes' = volumes \cup (S \cap world \cap doomed)
      /\ world' = world \ S /\ made' = made /\ UNCHANGED <<inv, confirmed, doomed>>
  BY DEF Take, consent
<1>2. \A i : Consented(i)' = Consented(i)
  BY <1>1 DEF Consented
<1> QED
  BY <1>1, <1>2 DEF ConsentInv, HandInv, NothingWithoutConsent

\* Nothing is taken or made, and the user is not asked.
LEMMA Untouched ==
    ASSUME ConsentInv, UNCHANGED <<inv, consent, taken, volumes, made>>
    PROVE  NothingWithoutConsent'
  BY DEF ConsentInv, NothingWithoutConsent, Consented, AsksToCreate, CreatesOnConsent, consent

\* The steps that read or check, and the waits.
LEMMA ReadKeeps ==
    ASSUME ConsentInv,
           Bound \/ List \/ Fetch \/ Read \/ Try \/ InTime \/ Check \/ Wait \/ RefuseStep
    PROVE  ConsentInv'
<1>1. /\ UNCHANGED <<inv, consent, service>> /\ rest # <<>>
      /\ rest' \in {<<>>, Tail(rest)}
      /\ \E s \in {"bound", "unbound", "list", "scan", "fetch", "read", "try", "inTime", "check", "wait",
                  "waitTold", "refuse"} : At(s) /\ (s = "refuse" => rest' = <<>>)
      /\ \/ UNCHANGED <<targets, todo>>
         \/ (At("list") \/ At("scan")) /\ targets' = world /\ todo' = world
  BY DEF Bound, List, Fetch, Read, Try, InTime, Check, Wait, RefuseStep, Go, Finish, At
<1>2. /\ UNCHANGED <<confirmed, taken, made, world, volumes>> /\ RestInv
      /\ targets' \subseteq Items /\ (made' = {} => todo' \subseteq targets')
  BY <1>1 DEF consent, service, ConsentInv, HandInv
<1>3. PICK s \in {"bound", "unbound", "list", "scan", "fetch", "read", "try", "inTime", "check", "wait",
                  "waitTold", "refuse"} : At(s) /\ (s = "refuse" => rest' = <<>>)
  BY <1>1
<1>4. rest[1] = s
  BY <1>2, <1>3, AtHead DEF StepNames
<1>5. targets' = targets \/ rest[1] \in Retarget
  BY <1>1, <1>2, AtHead DEF StepNames, Retarget
<1>6. RestInv' /\ DoneInv'
  <2>1. CASE rest' = <<>>
    BY <2>1, FinishRest
  <2>2. CASE rest' # <<>>
    BY <1>1, <1>2, <1>3, <1>4, <1>5, <2>2, AdvanceRest DEF Clearing
  <2> QED
    BY <2>1, <2>2
<1> QED
  BY <1>1, <1>2, <1>6, Untouched DEF ConsentInv, HandInv, service

-----------------------------------------------------------------------------
(* The calls that do work, and the looks.                                    *)

\* The calls that take something away: all targets at once, or the next one.
LEMMA TakeKeeps ==
    ASSUME ConsentInv, Act \/ Batch \/ Each \/ InOrder \/ Refused \/ Container
    PROVE  ConsentInv'
<1> DEFINE T == {"act", "batch", "each", "eachUnbound", "eachOrStop", "chunks", "empty", "remove", "wipe"}
<1>1. /\ UNCHANGED <<inv, consent, targets>> /\ rest # <<>>
      /\ \/ rest' \in {<<>>, Tail(rest)}
         \/ rest' = rest /\ \E s \in {"each", "eachUnbound", "eachOrStop", "chunks", "empty"} : At(s)
      /\ \E s \in T : At(s)
      /\ todo' \subseteq todo
  BY DEF Act, Batch, Each, InOrder, Refused, Container, StopAtFirst, Go, Finish, At
<1>2. RestInv /\ HandInv /\ DoneInv /\ UNCHANGED <<confirmed, doomed>>
  BY <1>1 DEF ConsentInv, consent
<1>3. PICK s \in T : At(s)
  BY <1>1
<1>4. rest[1] = s /\ s \in T
  BY <1>2, <1>3, AtHead DEF StepNames
<1>5. \/ UNCHANGED service
      \/ /\ s # "remove"
         /\ \E S : /\ Take(S)
                   /\ \/ S \subseteq targets \/ (\E t \in todo : S \subseteq {t})
                      \/ s = "wipe" /\ S \subseteq Items
  <2>1. CASE Act
    <3>1. /\ s = "act"
          /\ UNCHANGED service \/ Take(targets) \/ \E S \in SUBSET targets : Take(S)
      BY <1>2, <1>4, <2>1, AtHead DEF Act, MayHaveDone, StepNames
    <3> QED
      BY <3>1
  <2>2. CASE Batch
    <3>1. s = "batch" /\ \E S \in SUBSET targets : Take(S)
      BY <1>2, <1>4, <2>2, AtHead DEF Batch, MayHaveDone, StepNames
    <3> QED
      BY <3>1
  <2>3. CASE Each
    <3>1. s \in {"each", "eachUnbound"}
      BY <1>2, <1>4, <2>3, AtHead DEF Each, StepNames
    <3>2. UNCHANGED service \/ \E t \in todo : Take({t}) \/ \E S \in SUBSET {t} : Take(S)
      BY <2>3 DEF Each, MayHaveDone
    <3> QED
      BY <3>1, <3>2
  <2>4. CASE InOrder
    <3>1. s \in {"eachOrStop", "chunks", "empty"}
      BY <1>2, <1>4, <2>4, AtHead DEF InOrder, StopAtFirst, StepNames
    <3>2. UNCHANGED service \/ \E t \in todo : Take({t}) \/ \E S \in SUBSET {t} : Take(S)
      BY <2>4 DEF InOrder, MayHaveDone
    <3> QED
      BY <3>1, <3>2
  <2>5. CASE Refused
    BY <2>5 DEF Refused
  <2>6. CASE Container
    <3>1. /\ s \in {"remove", "wipe"}
          /\ s = "remove" => ~ At("wipe")
      BY <1>2, <1>4, <2>6, AtHead DEF Container, StepNames
    <3>2. UNCHANGED service \/ (At("wipe") /\ \E S \in SUBSET Items : Take(S))
      BY <2>6 DEF Container, MayHaveDone
    <3>3. At("wipe") => s = "wipe"
      BY <1>2, <1>4, AtHead DEF StepNames
    <3> QED
      BY <3>1, <3>2, <3>3
  <2> QED
    BY <2>1, <2>2, <2>3, <2>4, <2>5, <2>6
<1>6. /\ NothingWithoutConsent' /\ world' \subseteq Items /\ made' = made
      /\ UNCHANGED <<taken, made>> \/ rest[1] \in Work
  <2>1. CASE UNCHANGED service
    BY <1>1, <1>2, <2>1, Untouched DEF service, HandInv
  <2>2. ASSUME NEW S, Take(S), s # "remove",
               \/ S \subseteq targets \/ (\E t \in todo : S \subseteq {t})
               \/ s = "wipe" /\ S \subseteq Items
        PROVE  NothingWithoutConsent' /\ world' \subseteq Items /\ made' = made /\ rest[1] \in Work
    <3>1. rest[1] \in Work /\ rest[1] # "create"
      BY <1>4, <2>2 DEF Work
    <3>2. /\ made = {} /\ todo \subseteq targets
          /\ \A i \in targets : Consented(i)
          /\ s = "wipe" => \A i \in Items : Consented(i)
      BY <1>1, <1>4, <3>1, WorkAgreed
    <3>3. \A i \in S \cap world : Consented(i)
      BY <2>2, <3>2
    <3> QED
      BY <1>1, <2>2, <3>1, <3>2, <3>3, TakeAgreed
  <2> QED
    BY <1>5, <2>1, <2>2
<1>7. RestInv' /\ DoneInv'
  <2>1. rest' = rest => rest[1] \notin {"create"}
    BY <1>4
  <2>2. rest[1] \notin Clearing
    BY <1>4 DEF Clearing
  <2>3. \/ rest' = <<>> \/ rest' = Tail(rest)
        \/ rest' = rest /\ UNCHANGED <<targets, made>> /\ rest[1] # "create"
    BY <1>1, <1>6, <2>1
  <2> QED
    BY <1>1, <1>2, <1>6, <2>2, <2>3, AdvanceRest DEF HandInv
<1> QED
  BY <1>1, <1>2, <1>6, <1>7 DEF ConsentInv, HandInv

\* The call that creates.
LEMMA CreateKeeps ==
    ASSUME ConsentInv, Create
    PROVE  ConsentInv'
<1>1. PICK i \in Fresh :
        \/ Appear({i}) /\ Go /\ targets' = {i}
        \/ Finish("error") /\ UNCHANGED targets /\ \E S \in SUBSET {i} : Appear(S)
  BY DEF Create, MayHaveDone
<1>2. /\ UNCHANGED <<inv, todo, consent, taken, volumes>> /\ rest # <<>> /\ At("create")
      /\ RestInv /\ HandInv /\ i \in Items
  BY DEF Create, At, ConsentInv, Fresh
<1>3. rest[1] = "create" /\ rest[1] \in Work /\ rest[1] \in Retarget
  BY <1>2, AtHead DEF StepNames, Work, Retarget
<1>4. made = {} /\ (AsksToCreate => \A j \in Items : Consented(j))
  BY <1>2, <1>3, WorkAgreed
<1>5. made' \subseteq {i} /\ world' \subseteq Items /\ targets' \subseteq Items
  BY <1>1, <1>2, <1>4 DEF Appear, HandInv
<1>6. NothingWithoutConsent'
  <2>1. (\A j : Consented(j)' = Consented(j)) /\ AsksToCreate' = AsksToCreate
    BY <1>2 DEF Consented, AsksToCreate, CreatesOnConsent, consent
  <2> QED
    BY <1>2, <1>4, <1>5, <2>1 DEF ConsentInv, NothingWithoutConsent, consent
<1>7. rest' \in {<<>>, Tail(rest)}
  BY <1>1 DEF Go, Finish
<1>8. RestInv' /\ DoneInv'
  BY <1>2, <1>3, <1>5, <1>7, AdvanceRest DEF consent, Clearing
<1>9. made' = {} => todo' \subseteq targets'
  BY <1>1, <1>2, <1>4 DEF Appear, HandInv
<1> QED
  BY <1>2, <1>5, <1>6, <1>8, <1>9 DEF ConsentInv, HandInv

\* A look that fails: what depends on it is skipped.
LEMMA PeekSkips ==
    ASSUME RestInv, Peek
    PROVE  \/ rest' = Tail(rest) /\ (At("peek") \/ At("peekFor") \/ At("tryFor"))
           \/ \E d \in 1 .. Len(rest) :
                /\ Drops(rest', rest, d)
                /\ \A j \in 1 .. d : rest[j] \in {"peekFor", "tryFor", "askVolumes", "bound", "peek"}
<1>1. /\ rest # <<>> /\ rest \in Seq(StepNames) /\ SkipsLook(rest)
      /\ Len(rest) \in Nat /\ 1 \in 1 .. Len(rest) /\ Len(rest) >= 1
  BY HeadIs DEF Peek, At, RestInv
<1>2. CASE rest' = AfterLook /\ (At("peekFor") \/ At("tryFor"))
  <2>1. /\ rest[1] \in {"peekFor", "tryFor"} /\ ~ At("peek")
        /\ At("peekFor") <=> rest[1] = "peekFor"
    BY <1>1, <1>2 DEF At
  <2>2. /\ 1 + 1 <= Len(rest)
        /\ \/ rest[1 + 1] = "askVolumes"
           \/ /\ rest[1] = "peekFor" /\ rest[1 + 1] = "bound"
              /\ 1 + 2 <= Len(rest) /\ rest[1 + 2] = "peek"
    BY <1>1, <2>1 DEF SkipsLook
  <2>3. PICK d \in {2, 3} : /\ d \in 1 .. Len(rest) /\ rest' = SubSeq(rest, d + 1, Len(rest))
                            /\ \A j \in 1 .. d : rest[j] \in {"peekFor", "tryFor", "askVolumes", "bound", "peek"}
    <3>1. CASE rest[2] = "bound"
      <4>1. AfterLook = SubSeq(rest, 4, Len(rest))
        BY <2>1, <2>2, <3>1 DEF AfterLook
      <4>2. \A j \in 1 .. 3 : j = 1 \/ j = 2 \/ j = 3
        OBVIOUS
      <4> QED
        BY <1>1, <1>2, <2>1, <2>2, <3>1, <4>1, <4>2
    <3>2. CASE rest[2] # "bound"
      <4>1. AfterLook = SubSeq(rest, 3, Len(rest))
        BY <2>1, <3>2 DEF AfterLook
      <4>2. \A j \in 1 .. 2 : j = 1 \/ j = 2
        OBVIOUS
      <4> QED
        BY <1>1, <1>2, <2>1, <2>2, <3>2, <4>1, <4>2
    <3> QED
      BY <3>1, <3>2
  <2>4. d + 1 \in 1 .. Len(rest) + 1 /\ (d + 1) - 1 = d
    BY <1>1, <2>3
  <2>5. Drops(rest', rest, d)
    BY <1>1, <2>3, <2>4, SubSeqDrops
  <2> QED
    BY <2>3, <2>5
<1>3. CASE At("peek")
  <2>1. ~ At("peekFor") /\ ~ At("tryFor")
    BY <1>3 DEF At
  <2>2. AfterLook = Tail(rest)
    BY <1>3, <2>1 DEF AfterLook
  <2> QED
    BY <1>3, <2>2 DEF Peek, Go
<1>4. CASE rest' = Tail(rest)
  BY <1>4 DEF Peek
<1> QED
  BY <1>2, <1>3, <1>4 DEF Peek, Go

LEMMA PeekKeeps ==
    ASSUME ConsentInv, Peek
    PROVE  ConsentInv'
<1>1. /\ UNCHANGED <<inv, targets, todo, consent, service>> /\ rest # <<>>
      /\ RestInv /\ HandInv /\ DoneInv /\ UNCHANGED <<confirmed, taken, made>>
  BY DEF Peek, At, ConsentInv, consent, service
<1>2. CASE rest' = Tail(rest) /\ (At("peek") \/ At("peekFor") \/ At("tryFor"))
  <2>1. rest[1] \in {"peek", "peekFor", "tryFor"}
    BY <1>1, <1>2, AtHead DEF StepNames
  <2>2. rest[1] \notin Clearing
    BY <2>1 DEF Clearing
  <2> QED
    BY <1>1, <1>2, <2>2, AdvanceRest, Untouched DEF ConsentInv, HandInv, service
<1>3. ASSUME NEW d \in 1 .. Len(rest), Drops(rest', rest, d),
             \A j \in 1 .. d : rest[j] \in {"peekFor", "tryFor", "askVolumes", "bound", "peek"}
      PROVE  ConsentInv'
  <2>1. \A j \in 1 .. d : rest[j] \notin Clearing /\ rest[j] \notin {"ask", "askAll", "confirm"}
    BY <1>3 DEF Clearing
  <2>2. RestInv' /\ DoneInv'
    BY <1>1, <1>3, <2>1, DropRest, DropDone DEF HandInv
  <2> QED
    BY <1>1, <2>2, Untouched DEF ConsentInv, HandInv, service
<1> QED
  BY <1>1, <1>2, <1>3, PeekSkips

-----------------------------------------------------------------------------
(* The answers of the user.                                                  *)

\* What is left, when the user answers at step s and the next one follows.
LEMMA AnswerRest ==
    ASSUME ConsentInv, NEW s \in {"ask", "askAll", "confirm", "stage", "menu", "pickOne"}, At(s),
           rest' = Tail(rest), UNCHANGED <<inv, taken, made>>,
           s \notin {"confirm", "stage"} => ~ inv.agent,
           s \in {"askAll", "confirm"} => confirmed' = Items,
           s = "ask" => confirmed' = targets,
           s \notin {"ask", "askAll", "confirm"} => confirmed' = confirmed,
           targets' = targets \/ s = "pickOne", targets' \subseteq Items
    PROVE  RestInv' /\ DoneInv'
<1>1. /\ RestInv /\ DoneInv /\ rest \in Seq(StepNames) /\ rest # <<>> /\ rest[1] = s
      /\ Len(rest) \in Nat /\ 1 \in 1 .. Len(rest)
  BY HeadIs, AtHead DEF ConsentInv, RestInv, StepNames
<1>2. Drops(rest', rest, 1) /\ \A j \in 1 .. 1 : j = 1
  BY <1>1, TailDrops
<1>4. RestInv'
  <2>1. \A j \in 1 .. 1 : rest[j] \notin Clearing \ {"confirm"} \/ (~ inv.agent /\ rest[j] # "refuse")
    BY <1>1, <1>2 DEF Clearing
  <2>2. \/ confirmed' = confirmed /\ \A j \in 1 .. 1 : rest[j] \notin {"ask", "askAll", "confirm"}
        \/ rest[1] \in {"askAll", "confirm"} /\ confirmed' = Items
        \/ rest[1] = "ask" /\ confirmed' = targets
    BY <1>1, <1>2
  <2>3. targets' = targets \/ \E j \in 1 .. 1 : rest[j] \in Retarget \ {"ask"}
    BY <1>1, <1>2 DEF Retarget
  <2> QED
    BY <1>1, <1>2, <2>1, <2>2, <2>3, DropRest
<1> QED
  BY <1>1, <1>2, <1>4, DropDone

\* Before a question nothing was taken or made.
LEMMA QuestionFirst ==
    ASSUME ConsentInv, NEW s \in Questions, At(s)
    PROVE  taken \cup made = {}
<1>1. s \in StepNames
  BY DEF Questions, StepNames
<1>2. rest[1] = s /\ 1 \in 1 .. Len(rest)
  BY <1>1, AtHead DEF ConsentInv
<1> QED
  BY <1>2 DEF ConsentInv, DoneInv

\* A run in which nothing was taken or made.
LEMMA NothingYet ==
    ASSUME ConsentInv, taken \cup made = {}, UNCHANGED <<inv, taken, volumes, made>>
    PROVE  NothingWithoutConsent'
  BY DEF ConsentInv, NothingWithoutConsent

\* Questions.
LEMMA AskKeeps ==
    ASSUME ConsentInv, Ask \/ AskVolumes \/ FlagVolumes \/ Menu
    PROVE  ConsentInv'
<1>1. /\ UNCHANGED <<inv, targets, todo, service>> /\ RestInv /\ HandInv /\ DoneInv
      /\ UNCHANGED <<taken, made, world, volumes>> /\ targets' \subseteq Items
  BY DEF Ask, AskVolumes, FlagVolumes, Menu, ConsentInv, HandInv, service, consent
<1>2. HandInv'
  BY <1>1 DEF HandInv
<1>3. CASE Ask
  <2>1. PICK s \in {"ask", "askAll"} : At(s)
    BY <1>3 DEF Ask
  <2>2. NothingWithoutConsent'
    BY <1>1, <2>1, QuestionFirst, NothingYet DEF Questions
  <2>3. CASE rest' = <<>>
    BY <1>2, <2>2, <2>3, FinishRest DEF ConsentInv
  <2>4. CASE ~ inv.agent /\ Go /\ confirmed' = IF At("askAll") THEN Items ELSE targets
    <3>1. s = "askAll" <=> At("askAll")
      BY <2>1 DEF At
    <3>2. RestInv' /\ DoneInv'
      BY <1>1, <2>1, <2>4, <3>1, AnswerRest DEF Go
    <3> QED
      BY <1>2, <2>2, <3>2 DEF ConsentInv
  <2> QED
    BY <1>3, <2>3, <2>4 DEF Ask, Finish
<1>4. CASE AskVolumes \/ FlagVolumes
  <2>1. PICK s \in {"askVolumes", "flagVolumes"} : At(s)
    BY <1>4 DEF AskVolumes, FlagVolumes
  <2>2. NothingWithoutConsent'
    BY <1>1, <2>1, QuestionFirst, NothingYet DEF Questions
  <2>3. rest # <<>> /\ rest[1] = s /\ rest' \in {<<>>, Tail(rest)} /\ confirmed' = confirmed
    BY <1>1, <1>4, <2>1, AtHead DEF AskVolumes, FlagVolumes, Go, Finish, StepNames
  <2>4. RestInv' /\ DoneInv'
    BY <1>1, <2>1, <2>3, AdvanceRest DEF Clearing
  <2> QED
    BY <1>2, <2>2, <2>4 DEF ConsentInv
<1>5. CASE Menu
  <2>1. UNCHANGED consent /\ At("menu") /\ confirmed' = confirmed
    BY <1>5 DEF Menu, consent
  <2>2. NothingWithoutConsent'
    BY <1>1, <2>1, Untouched
  <2>3. CASE rest' = <<>>
    BY <1>2, <2>2, <2>3, FinishRest DEF ConsentInv
  <2>4. CASE ~ inv.agent /\ Go
    <3>1. RestInv' /\ DoneInv'
      BY <1>1, <2>1, <2>4, AnswerRest DEF Go
    <3> QED
      BY <1>2, <2>2, <3>1 DEF ConsentInv
  <2> QED
    BY <1>5, <2>3, <2>4 DEF Menu, Finish
<1> QED
  BY <1>3, <1>4, <1>5

LEMMA PickKeeps ==
    ASSUME ConsentInv, Pick
    PROVE  ConsentInv'
<1>1. /\ UNCHANGED <<inv, consent, service>> /\ RestInv /\ HandInv /\ DoneInv
      /\ UNCHANGED <<taken, made, world, volumes, confirmed>>
  BY DEF Pick, ConsentInv, HandInv, service, consent
<1>2. NothingWithoutConsent'
  BY <1>1, Untouched
<1>3. CASE rest' = <<>> /\ UNCHANGED <<targets, todo>>
  BY <1>1, <1>2, <1>3, FinishRest DEF ConsentInv, HandInv
<1>4. CASE /\ ~ inv.agent
           /\ \E S \in SUBSET targets \ {{}} :
                /\ targets' = S /\ todo' = S
                /\ rest' = IF At("pickOne") THEN Tail(rest) ELSE PickedPlan(inv, Cardinality(S) > 1)
  <2>1. targets' \subseteq Items /\ todo' = targets' /\ HandInv'
    BY <1>1, <1>4 DEF HandInv
  <2>2. CASE At("pickOne")
    <3>1. RestInv' /\ DoneInv'
      BY <1>1, <1>4, <2>1, <2>2, AnswerRest
    <3> QED
      BY <1>2, <2>1, <3>1 DEF ConsentInv
  <2>3. CASE At("pickSome") /\ ~ At("pickOne")
    <3>1. rest[1] = "pickSome" /\ 1 \in 1 .. Len(rest) /\ taken \cup made = {}
      BY <1>1, <2>3, AtHead, QuestionFirst DEF StepNames, Questions
    <3>2. PicksOrderly
      BY <1>1, <3>1 DEF RestInv
    <3>3. PICK S \in SUBSET targets : rest' = PickedPlan(inv, Cardinality(S) > 1)
      BY <1>4, <2>3
    <3>4. rest' = PickedPlan(inv, TRUE) \/ rest' = PickedPlan(inv, FALSE)
      BY <3>3 DEF PickedPlan
    <3>5. Orderly(inv, rest')
      BY <1>4, <3>2, <3>4 DEF PicksOrderly
    <3>6. RestInv' /\ DoneInv'
      BY <1>1, <3>1, <3>2, <3>5, OrderlyRest
    <3> QED
      BY <1>2, <2>1, <3>6 DEF ConsentInv
  <2> QED
    BY <2>2, <2>3 DEF Pick
<1> QED
  BY <1>3, <1>4 DEF Pick, Finish

\* A stage of a wizard: on, out, or back to the stage before.
\* Where Esc leads: to a part of the plan that keeps to the rules as the plan does.
LEMMA RewindGoes ==
    ASSUME RestInv, rest # <<>>, inv \in Invocations(Commands), NEW k \in StagesBefore, Rewind(k)
    PROVE  /\ PlanOrderly(inv) /\ Orderly(inv, rest') /\ Tells(inv, rest') /\ StartsSteady(inv, rest')
           /\ \A S : Has(rest', S) => Has(Plan(inv), S)
<1>1. PlanOrderly(inv) /\ Plan(inv) \in Seq(StepNames) /\ Len(Plan(inv)) \in Nat
  <2>1. PlanOrderly(inv)
    BY PlansAreOrderly
  <2>2. Orderly(inv, Plan(inv))
    BY <2>1 DEF PlanOrderly
  <2> QED
    BY <2>1, <2>2 DEF Orderly
<1>2. Before \in Int /\ Before < Len(Plan(inv)) + 1
  BY <1>1, HeadIs DEF Before, RestInv
<1>3. k \in 1 .. Len(Plan(inv)) /\ Plan(inv)[k] = "stage"
  BY <1>1, <1>2 DEF StagesBefore
<1>4. PICK from \in {k, k - 1} \ {0} : rest' = GoesOnAt(Plan(inv), from)
  BY <1>3 DEF Rewind, GoesOnAt
<1>5. Orderly(inv, rest') /\ Tells(inv, rest') /\ StartsSteady(inv, rest')
  BY <1>1, <1>3, <1>4 DEF PlanOrderly
<1>6. from \in 1 .. Len(Plan(inv)) + 1
  BY <1>1, <1>3
<1>7. Drops(rest', Plan(inv), from - 1)
  BY <1>1, <1>4, <1>6, SubSeqDrops DEF GoesOnAt
<1>8. \A m \in 1 .. Len(rest') : m + (from - 1) \in 1 .. Len(Plan(inv)) /\ rest'[m] = Plan(inv)[m + (from - 1)]
  BY <1>1, <1>6, <1>7 DEF Drops
<1>9. \A S : Has(rest', S) => Has(Plan(inv), S)
  BY <1>8 DEF Has
<1> QED
  BY <1>1, <1>5, <1>9

LEMMA StageKeeps ==
    ASSUME ConsentInv, Stage
    PROVE  ConsentInv'
<1>1. /\ UNCHANGED <<inv, targets, todo, doomed, service>> /\ RestInv /\ HandInv /\ DoneInv
      /\ UNCHANGED <<taken, made, world, volumes>> /\ targets' \subseteq Items
  BY DEF Stage, ConsentInv, HandInv, service
<1>2. PICK s \in {"stage", "confirm"} : At(s)
  BY DEF Stage
<1>3. taken \cup made = {} /\ NothingWithoutConsent' /\ HandInv'
  BY <1>1, <1>2, QuestionFirst, NothingYet DEF Questions, HandInv
<1>4. CASE rest' = <<>>
  BY <1>3, <1>4, FinishRest DEF ConsentInv
<1>5. CASE Go /\ confirmed' = IF At("confirm") THEN Items ELSE confirmed
  <2>1. s = "confirm" <=> At("confirm")
    BY <1>2 DEF At
  <2>2. RestInv' /\ DoneInv'
    BY <1>1, <1>2, <1>5, <2>1, AnswerRest DEF Go
  <2> QED
    BY <1>3, <2>2 DEF ConsentInv
<1>6. CASE \E k \in StagesBefore : Rewind(k)
  <2>1. PICK k \in StagesBefore : Rewind(k)
    BY <1>6
  <2>2. /\ PlanOrderly(inv) /\ Orderly(inv, rest')
        /\ \A S : Has(rest', S) => Has(Plan(inv), S)
    BY <1>1, <1>2, <2>1, RewindGoes DEF HandInv, At
  <2>3. (\E m \in 1 .. Len(rest') : rest'[m] = "pickSome") => PicksOrderly
    <3>1. (\E m \in 1 .. Len(rest') : rest'[m] = "pickSome") => Has(Plan(inv), {"pickSome"})
      BY <2>2 DEF Has
    <3> QED
      BY <2>2, <3>1 DEF PlanOrderly, PicksOrderly, Has
  <2> QED
    BY <1>1, <1>3, <2>2, <2>3, OrderlyRest DEF ConsentInv
<1> QED
  BY <1>4, <1>5, <1>6 DEF Stage, Esc, Finish

-----------------------------------------------------------------------------
(* The theorem.                                                              *)

\* A plan is orderly from its start.
LEMMA InitConsents ==
    ASSUME Init
    PROVE  ConsentInv
<1>1. /\ inv \in Invocations(Commands) /\ rest = Plan(inv) /\ 1 \in Items
      /\ targets \subseteq {1} /\ todo = targets /\ world \subseteq Items
      /\ taken = {} /\ made = {} /\ volumes = {}
  BY CommandInputs DEF Init
<1>2. Orderly(inv, rest) /\ PlanOrderly(inv)
  BY <1>1, PlansAreOrderly DEF PlanOrderly
<1>3. (\E k \in 1 .. Len(rest) : rest[k] = "pickSome") => PicksOrderly
  BY <1>1, <1>2 DEF PlanOrderly, PicksOrderly
<1>4. \A k \in 1 .. Len(rest) : Guarded(inv, rest[k]) => Cleared(k)
  BY <1>2 DEF Orderly, AsksFirst, Cleared
<1>5. RestInv
  BY <1>2, <1>3, <1>4 DEF RestInv, Orderly
<1> QED
  BY <1>1, <1>5 DEF ConsentInv, DoneInv, HandInv, NothingWithoutConsent

\* The steps that leave the plan alone.
LEMMA WaitKeeps ==
    ASSUME ConsentInv, Return \/ Others \/ Wedge \/ Settle \/ UNCHANGED vars
    PROVE  ConsentInv'
<1>1. /\ UNCHANGED <<inv, rest, targets, todo, confirmed, consent, taken, volumes, made>>
      /\ RestInv /\ DoneInv /\ HandInv
  BY DEF Return, Others, Wedge, Settle, vars, command, consent, service, ConsentInv
<1>2. world' \subseteq Items
  BY <1>1 DEF HandInv, Return, Others, Wedge, Settle, vars, service
<1>3. RestInv'
  BY <1>1 DEF RestInv, Cleared, AgreedToAll, AgreedToTargets, PicksOrderly
<1>4. DoneInv' /\ HandInv'
  BY <1>1, <1>2 DEF DoneInv, HandInv
<1> QED
  BY <1>1, <1>3, <1>4, Untouched DEF ConsentInv

LEMMA ConsentStep ==
    ASSUME ConsentInv, [Next]_vars
    PROVE  ConsentInv'
<1>1. CASE Step
  <2>1. CASE Bound \/ List \/ Fetch \/ Read \/ Try \/ InTime \/ Check \/ Wait \/ RefuseStep
    BY <2>1, ReadKeeps
  <2>2. CASE Act \/ Batch \/ Each \/ InOrder \/ Refused \/ Container
    BY <2>2, TakeKeeps
  <2>3. CASE Create
    BY <2>3, CreateKeeps
  <2>4. CASE Peek
    BY <2>4, PeekKeeps
  <2>5. CASE Ask \/ AskVolumes \/ FlagVolumes \/ Menu
    BY <2>5, AskKeeps
  <2>6. CASE Pick
    BY <2>6, PickKeeps
  <2>7. CASE Stage
    BY <2>7, StageKeeps
  <2>8. CASE Return
    BY <2>8, WaitKeeps
  <2> QED
    BY <1>1, <2>1, <2>2, <2>3, <2>4, <2>5, <2>6, <2>7, <2>8 DEF Step, Call, Answer
<1>2. CASE Others \/ Wedge \/ Settle \/ UNCHANGED vars
  BY <1>2, WaitKeeps
<1> QED
  BY <1>1, <1>2 DEF Next

\* Consent comes first, whatever the commands, the number of items, the failures
\* and what others do at the same time: nothing is taken away, nor created where
\* that asks for consent, before the user agreed to it or --yes said so, and to an
\* agent only --yes does.  Checked on two items by the run Commands.
THEOREM ConsentFirst == Spec => []NothingWithoutConsent
<1>1. ConsentInv => NothingWithoutConsent
  BY DEF ConsentInv
<1> QED
  BY <1>1, InitConsents, ConsentStep, PTL DEF Spec

-----------------------------------------------------------------------------
(* What is printed is so.                                                    *)

\* What is in hand is, or was, there; what is said to be done is done, or made; and
\* a target is said, or a loop has not come to it.
InHandIsReal ==
    /\ todo \subseteq Items
    /\ targets \cup todo \subseteq world \cup removed
    /\ said \in [Items -> {"none", "done", "failed"}]
    /\ \A i \in Items : said[i] = "done" => i \in removed \cup made
    /\ unread => inv.cmd \in FillsGaps

PicksTell ==
    ~ inv.agent => TellsOfMany(inv, PickedPlan(inv, TRUE)) /\ Tells(inv, PickedPlan(inv, FALSE))

\* While the command runs, what it has to say or to wait for is ahead of it, or
\* behind, and then what is in hand stays.
AllSaid == \A i \in targets : said[i] # "none"
SaysAhead == AccountsForEach(inv) =>
    /\ Has(rest, Sayers \cup {"pickSome"}) \/ (AllSaid /\ ~ Has(rest, Retarget))
    /\ \A i \in targets : i \in todo \/ said[i] # "none"
WaitsAhead == WaitsForOne(inv) =>
    \/ Has(rest, Waits \cup {"pickSome"})
    \/ settled = "reached"
    \/ Cardinality(targets) # 1 /\ ~ Has(rest, Retarget)
InTimeAhead == inv.cmd = "get_running_costs" =>
    IF rest = <<>> THEN deadline # "lapsed" ELSE rest[Len(rest)] = "inTime"

Underway ==
    /\ Candid(inv, rest)
    /\ Has(rest, {"pickSome"}) => PicksTell
    /\ SaysAhead /\ WaitsAhead /\ InTimeAhead

TruthInv == InHandIsReal /\ (exit = "none" => Underway) /\ PrintsTheTruth

\* The steps that leave alone what is in hand and what there is.
LEMMA HandKeeps ==
    ASSUME InHandIsReal, UNCHANGED <<inv, targets, todo, service, said, unread>>
    PROVE  InHandIsReal'
  BY DEF InHandIsReal, service

\* More or less of what is in hand, all of it there.
LEMMA HandChanges ==
    ASSUME InHandIsReal, UNCHANGED <<inv, said, unread>>,
           targets' \cup todo' \subseteq world' \cup removed', todo' \subseteq Items,
           removed \subseteq removed', made \subseteq made'
    PROVE  InHandIsReal'
  BY DEF InHandIsReal

\* Calls that take something away and say of it what happened.
LEMMA HandTaken ==
    ASSUME InHandIsReal, NEW S, Take(S), UNCHANGED <<inv, targets, unread>>, todo' \subseteq todo,
           said' \in [Items -> {"none", "done", "failed"}],
           \A i \in Items : said'[i] = "done" => said[i] = "done" \/ i \in S \cap (world \cup removed)
    PROVE  InHandIsReal'
<1>1. world' = world \ S /\ removed' = removed \cup (S \cap world) /\ made' = made
  BY DEF Take
<1>2. \A i \in Items : said'[i] = "done" => i \in removed' \cup made'
  BY <1>1 DEF InHandIsReal
<1>3. targets' \cup todo' \subseteq world' \cup removed'
  BY <1>1 DEF InHandIsReal
<1> QED
  BY <1>2, <1>3 DEF InHandIsReal

LEMMA TakeHand ==
    ASSUME InHandIsReal, Act \/ Batch \/ Each \/ InOrder \/ Refused \/ Container
    PROVE  InHandIsReal'
<1> DEFINE Words == {"none", "done", "failed"}
<1>1. /\ UNCHANGED <<inv, targets, unread>> /\ todo' \subseteq todo
      /\ said \in [Items -> Words] /\ Nothing \in [Items -> Words]
      /\ targets \cup todo \subseteq world \cup removed /\ todo \subseteq Items
      /\ \A t \in todo, w \in Words :
            /\ [said EXCEPT ![t] = w] \in [Items -> Words]
            /\ \A i \in Items : [said EXCEPT ![t] = w][i] = IF i = t THEN w ELSE said[i]
      /\ \A i \in Items : Nothing[i] = "none"
  BY DEF Act, Batch, Each, InOrder, Refused, Container, InHandIsReal, Nothing
<1>2. CASE UNCHANGED <<service, said>>
  BY <1>1, <1>2, HandChanges DEF service, InHandIsReal
<1>3. CASE UNCHANGED said /\ \E S : Take(S)
  BY <1>1, <1>3, HandTaken
<1>4. CASE Act
  <2>1. CASE /\ Take(targets) /\ said' = [i \in Items |-> IF i \in targets THEN "done" ELSE said[i]]
    <3>1. said' \in [Items -> Words]
      BY <1>1, <2>1
    <3>2. \A i \in Items : said'[i] = "done" => said[i] = "done" \/ i \in targets \cap (world \cup removed)
      BY <1>1, <2>1
    <3> QED
      BY <1>1, <2>1, <3>1, <3>2, HandTaken
  <2> QED
    BY <1>2, <1>3, <1>4, <2>1 DEF Act
<1>5. CASE Batch
  <2>1. ASSUME NEW S \in SUBSET (targets \cap world), Take(S),
               said' = [i \in Items |-> IF i \notin targets THEN said[i]
                                        ELSE IF i \in S THEN "done" ELSE "failed"]
        PROVE  InHandIsReal'
    <3>1. said' \in [Items -> Words]
      BY <1>1, <2>1
    <3>2. \A i \in Items : said'[i] = "done" => said[i] = "done" \/ i \in S \cap (world \cup removed)
      BY <1>1, <2>1
    <3> QED
      BY <1>1, <2>1, <3>1, <3>2, HandTaken
  <2> QED
    BY <1>3, <1>5, <2>1 DEF Batch
<1>6. CASE Each
  <2>1. ASSUME NEW t \in todo, Take({t}), Say(t, IF t \in world THEN "done" ELSE "failed")
        PROVE  InHandIsReal'
    <3> DEFINE w == IF t \in world THEN "done" ELSE "failed"
    <3>1. said' = [said EXCEPT ![t] = w] /\ w \in Words
      BY <2>1 DEF Say
    <3>2. said' \in [Items -> Words] /\ \A i \in Items : said'[i] = IF i = t THEN w ELSE said[i]
      BY <1>1, <3>1
    <3> QED
      BY <1>1, <2>1, <3>2, HandTaken
  <2>2. ASSUME NEW t \in todo, NEW S, Take(S), Say(t, "failed")
        PROVE  InHandIsReal'
    <3>1. said' = [said EXCEPT ![t] = "failed"]
      BY <2>2 DEF Say
    <3>2. said' \in [Items -> Words] /\ \A i \in Items : said'[i] = IF i = t THEN "failed" ELSE said[i]
      BY <1>1, <3>1
    <3> QED
      BY <1>1, <2>2, <3>2, HandTaken
  <2> QED
    BY <1>2, <1>6, <2>1, <2>2 DEF Each
<1>7. CASE InOrder
  <2>1. ASSUME NEW t \in todo, Take({t}), Say(t, "done")
        PROVE  InHandIsReal'
    <3>1. said' = [said EXCEPT ![t] = "done"]
      BY <2>1 DEF Say
    <3>2. said' \in [Items -> Words] /\ \A i \in Items : said'[i] = IF i = t THEN "done" ELSE said[i]
      BY <1>1, <3>1
    <3> QED
      BY <1>1, <2>1, <3>2, HandTaken
  <2>2. ASSUME NEW S, Take(S), said' = Nothing
        PROVE  InHandIsReal'
    <3>1. said' \in [Items -> Words] /\ \A i \in Items : said'[i] # "done"
      BY <1>1, <2>2
    <3> QED
      BY <1>1, <2>2, <3>1, HandTaken
  <2> QED
    BY <1>2, <1>7, <2>1, <2>2 DEF InOrder
<1>8. CASE Refused
  <2>1. UNCHANGED <<world, removed, made>>
    BY <1>8 DEF Refused, service
  <2>2. said' \in [Items -> Words] /\ \A i \in Items : said'[i] = "done" => said[i] = "done"
    <3>1. PICK t \in todo : said' = Nothing \/ Say(t, IF inv.agent THEN "failed" ELSE "none")
      BY <1>8 DEF Refused
    <3>2. CASE said' = Nothing
      BY <1>1, <3>2
    <3>3. CASE Say(t, IF inv.agent THEN "failed" ELSE "none")
      <4> DEFINE w == IF inv.agent THEN "failed" ELSE "none"
      <4>1. said' = [said EXCEPT ![t] = w] /\ w \in Words /\ w # "done"
        BY <3>3 DEF Say
      <4> QED
        BY <1>1, <4>1
    <3> QED
      BY <3>1, <3>2, <3>3
  <2> QED
    BY <1>1, <2>1, <2>2 DEF InHandIsReal
<1>9. CASE Container
  BY <1>2, <1>3, <1>9 DEF Container
<1> QED
  BY <1>4, <1>5, <1>6, <1>7, <1>8, <1>9

LEMMA HandStep ==
    ASSUME ConsentInv, InHandIsReal, exit = "none" => Candid(inv, rest), [Next]_vars
    PROVE  InHandIsReal'
<1>1. world \subseteq Items /\ RestInv
  BY DEF ConsentInv, HandInv
<1>2. CASE \/ Return \/ RefuseStep \/ Bound \/ Fetch \/ Read \/ InTime \/ Check \/ Wait
           \/ Ask \/ AskVolumes \/ FlagVolumes \/ Menu \/ Stage \/ Wedge \/ Settle \/ UNCHANGED vars
  <2>1. UNCHANGED <<inv, targets, todo, service, said, unread>>
    BY <1>2 DEF Return, RefuseStep, Bound, Fetch, Read, InTime, Check, Wait, Ask, AskVolumes,
                FlagVolumes, Menu, Stage, Wedge, Settle, vars, command
  <2> QED
    BY <2>1, HandKeeps
<1>3. CASE Try \/ Peek
  <2>1. /\ UNCHANGED <<inv, targets, todo, service, said>> /\ exit = "none"
        /\ At("try") \/ At("tryFor") \/ UNCHANGED unread
    BY <1>3 DEF Try, Peek, At
  <2>2. At("try") \/ At("tryFor") => inv.cmd \in FillsGaps
    BY <1>1, <2>1, AtHead DEF StepNames, Candid, Has
  <2> QED
    BY <2>1, <2>2 DEF InHandIsReal, service
<1>4. CASE List
  <2>1. /\ UNCHANGED <<inv, service, said, unread>>
        /\ targets' \cup todo' \subseteq targets \cup todo \cup world
        /\ todo' \subseteq todo \cup world
    BY <1>4 DEF List
  <2> QED
    BY <1>1, <2>1 DEF InHandIsReal, service
<1>5. CASE Pick
  <2>1. /\ UNCHANGED <<inv, service, said, unread>>
        /\ targets' \subseteq targets /\ todo' \subseteq targets \cup todo
    BY <1>5 DEF Pick
  <2> QED
    BY <1>1, <2>1 DEF InHandIsReal, service, ConsentInv, HandInv
<1>6. CASE Create
  <2>1. PICK i \in Fresh :
          \/ Appear({i}) /\ targets' = {i} /\ said' = [said EXCEPT ![i] = "done"]
          \/ UNCHANGED <<targets, said>> /\ \E S \in SUBSET {i} : Appear(S)
    BY <1>6 DEF Create, MayHaveDone
  <2>2. UNCHANGED <<inv, todo, removed, unread>> /\ i \in Items /\ said \in [Items -> {"none", "done", "failed"}]
    BY <1>6 DEF Create, Fresh, InHandIsReal
  <2>3. CASE Appear({i}) /\ targets' = {i} /\ said' = [said EXCEPT ![i] = "done"]
    <3>1. /\ said' \in [Items -> {"none", "done", "failed"}]
          /\ \A j \in Items : said'[j] = IF j = i THEN "done" ELSE said[j]
      BY <2>2, <2>3
    <3>2. world' = world \cup {i} /\ made' = made \cup {i}
      BY <2>3 DEF Appear
    <3>3. \A j \in Items : said'[j] = "done" => j \in removed' \cup made'
      BY <2>2, <3>1, <3>2 DEF InHandIsReal
    <3> QED
      BY <2>2, <2>3, <3>1, <3>2, <3>3 DEF InHandIsReal
  <2>4. CASE UNCHANGED <<targets, said>> /\ \E S \in SUBSET {i} : Appear(S)
    BY <2>2, <2>4, HandChanges DEF Appear, InHandIsReal
  <2> QED
    BY <2>1, <2>3, <2>4
<1>7. CASE Others
  <2>1. /\ UNCHANGED <<inv, targets, todo, made, said, unread>>
        /\ world \cup removed \subseteq world' \cup removed' /\ removed \subseteq removed'
    BY <1>7 DEF Others, command
  <2> QED
    BY <2>1, HandChanges DEF InHandIsReal
<1> QED
  BY <1>2, <1>3, <1>4, <1>5, <1>6, <1>7, TakeHand DEF Next, Step, Call, Answer

-----------------------------------------------------------------------------
(* What is ahead.                                                            *)

\* Steps go that are none of S: what is ahead of them stays ahead.
LEMMA AheadDrops ==
    ASSUME NEW s \in Seq(StepNames), NEW r, NEW d \in 1 .. Len(s), Drops(r, s, d), NEW S
    PROVE  /\ Has(r, S) => Has(s, S)
           /\ (\A j \in 1 .. d : s[j] \notin S) => (Has(s, S) => Has(r, S))
<1>1. /\ Len(s) \in Nat /\ Len(r) = Len(s) - d /\ Len(r) \in Nat /\ d \in Nat
      /\ \A k \in 1 .. Len(r) : r[k] = s[k + d] /\ k + d \in 1 .. Len(s)
  BY DEF Drops
<1>2. Has(r, S) => Has(s, S)
  BY <1>1 DEF Has
<1>3. ASSUME \A j \in 1 .. d : s[j] \notin S, NEW k \in 1 .. Len(s), s[k] \in S
      PROVE  Has(r, S)
  <2>1. k > d
    BY <1>1, <1>3
  <2>2. k - d \in 1 .. Len(r) /\ r[k - d] = s[k]
    BY <1>1, <2>1
  <2> QED
    BY <1>3, <2>2 DEF Has
<1> QED
  BY <1>2, <1>3 DEF Has

\* The command goes on: what it leaves behind it has said, or waited for.
LEMMA MovesOn ==
    ASSUME ConsentInv, Underway, NEW d \in 1 .. Len(rest), Drops(rest', rest, d), UNCHANGED inv,
           \A j \in 1 .. d : /\ rest[j] # "pickSome"
                             /\ rest[j] \in Waits => settled = "reached"
                             /\ rest[j] = "inTime" => deadline' # "lapsed"
                             /\ rest[j] \in Sayers => d = 1 /\ (AccountsForEach(inv) => AllSaid'),
           said' = said \/ rest[1] \in Sayers,
           targets' = targets \/ rest[1] \in Retarget,
           settled' = settled,
           AccountsForEach(inv) => \A i \in targets' : i \in todo' \/ said'[i] # "none"
    PROVE  Underway'
<1>1. /\ rest \in Seq(StepNames) /\ WorksLast(rest) /\ Len(rest) \in Nat /\ 1 \in 1 .. Len(rest) /\ d \in Nat
      /\ Len(rest') = Len(rest) - d /\ Len(rest') \in Nat /\ rest' \in Seq(StepNames)
      /\ \A k \in 1 .. Len(rest') : rest'[k] = rest[k + d] /\ k + d \in 1 .. Len(rest)
      /\ 1 \in 1 .. d
  BY DEF ConsentInv, RestInv, Drops
<1>2. /\ \A S : Has(rest', S) => Has(rest, S)
      /\ \A S : (\A j \in 1 .. d : rest[j] \notin S) => (Has(rest, S) => Has(rest', S))
  BY <1>1, AheadDrops
<1>3. Candid(inv, rest') /\ (Has(rest', {"pickSome"}) => PicksTell)
  BY <1>2 DEF Underway, Candid
<1>4. ~ Has(rest, Retarget) => targets' = targets
  BY <1>1 DEF Has
<1>5. SaysAhead'
  <2> SUFFICES ASSUME AccountsForEach(inv)
               PROVE  Has(rest', Sayers \cup {"pickSome"}) \/ (AllSaid' /\ ~ Has(rest', Retarget))
    BY DEF SaysAhead
  <2>1. CASE \E j \in 1 .. d : rest[j] \in Sayers
    <3>1. d = 1 /\ rest[1] \in Sayers /\ AllSaid'
      BY <2>1
    <3>2. rest[1] \in Work
      BY <3>1 DEF Sayers, Work
    <3>3. \A k \in 1 .. Len(rest) : 1 < k => rest[k] \notin Retarget
      BY <1>1, <3>2 DEF WorksLast
    <3>4. ~ Has(rest', Retarget)
      BY <1>1, <3>1, <3>3 DEF Has
    <3> QED
      BY <3>1, <3>4
  <2>2. CASE \A j \in 1 .. d : rest[j] \notin Sayers
    <3>1. CASE Has(rest, Sayers \cup {"pickSome"})
      <4>1. \A j \in 1 .. d : rest[j] \notin Sayers \cup {"pickSome"}
        BY <2>2
      <4> QED
        BY <1>2, <3>1, <4>1
    <3>2. CASE AllSaid /\ ~ Has(rest, Retarget)
      <4>1. said' = said /\ targets' = targets
        BY <1>1, <1>4, <2>2, <3>2
      <4> QED
        BY <1>2, <3>2, <4>1 DEF AllSaid
    <3> QED
      BY <3>1, <3>2 DEF Underway, SaysAhead
  <2> QED
    BY <2>1, <2>2
<1>6. WaitsAhead'
  <2> SUFFICES ASSUME WaitsForOne(inv), settled # "reached"
               PROVE  \/ Has(rest', Waits \cup {"pickSome"})
                      \/ Cardinality(targets') # 1 /\ ~ Has(rest', Retarget)
    BY DEF WaitsAhead
  <2>1. \A j \in 1 .. d : rest[j] \notin Waits \cup {"pickSome"}
    OBVIOUS
  <2>2. CASE Has(rest, Waits \cup {"pickSome"})
    BY <1>2, <2>1, <2>2
  <2>3. CASE Cardinality(targets) # 1 /\ ~ Has(rest, Retarget)
    BY <1>2, <1>4, <2>3
  <2> QED
    BY <2>2, <2>3 DEF Underway, WaitsAhead
<1>7. InTimeAhead'
  <2> SUFFICES ASSUME inv.cmd = "get_running_costs"
               PROVE  IF rest' = <<>> THEN deadline' # "lapsed" ELSE rest'[Len(rest')] = "inTime"
    BY DEF InTimeAhead
  <2>1. rest # <<>> /\ rest[Len(rest)] = "inTime"
    BY <1>1 DEF Underway, InTimeAhead
  <2>2. CASE rest' = <<>>
    <3>1. d = Len(rest) /\ d \in 1 .. d
      BY <1>1, <2>2
    <3> QED
      BY <2>1, <2>2, <3>1
  <2>3. CASE rest' # <<>>
    <3>1. Len(rest') \in 1 .. Len(rest') /\ Len(rest') + d = Len(rest)
      BY <1>1, <2>3
    <3> QED
      BY <1>1, <2>1, <2>3, <3>1
  <2> QED
    BY <2>2, <2>3
<1>8. Candid(inv, rest)' /\ (Has(rest, {"pickSome"})' => PicksTell')
  BY <1>3 DEF PicksTell
<1> QED
  BY <1>5, <1>6, <1>7, <1>8 DEF Underway

\* The command stays where it is.
LEMMA StaysOn ==
    ASSUME Underway, UNCHANGED <<inv, rest, targets>>,
           settled' = settled \/ settled # "reached",
           deadline' = deadline \/ rest # <<>>,
           AccountsForEach(inv) => \A i \in targets : /\ said[i] # "none" => said'[i] # "none"
                                                      /\ i \in todo => i \in todo' \/ said'[i] # "none"
    PROVE  Underway'
<1>1. SaysAhead'
  BY DEF Underway, SaysAhead, AllSaid
<1>2. WaitsAhead'
  BY DEF Underway, WaitsAhead
<1>3. InTimeAhead'
  BY DEF Underway, InTimeAhead
<1> QED
  BY <1>1, <1>2, <1>3 DEF Underway, PicksTell

\* A plan from its start.
LEMMA StartsOver ==
    ASSUME Tells(inv, rest'), UNCHANGED inv, Has(rest', {"pickSome"}) => PicksTell,
           AccountsForEach(inv) => \A i \in targets' : i \in todo' \/ said'[i] # "none"
    PROVE  Underway'
  BY DEF Underway, Tells, SaysAhead, WaitsAhead, InTimeAhead, PicksTell

\* One step is done, and the next one follows.
LEMMA GoesOn ==
    ASSUME ConsentInv, Underway, rest # <<>>, rest' = Tail(rest), UNCHANGED <<inv, settled>>,
           rest[1] # "pickSome",
           rest[1] \in Waits => settled = "reached",
           rest[1] = "inTime" => deadline' # "lapsed",
           rest[1] \in Sayers /\ AccountsForEach(inv) => AllSaid',
           said' = said \/ rest[1] \in Sayers,
           targets' = targets \/ rest[1] \in Retarget,
           AccountsForEach(inv) => \A i \in targets' : i \in todo' \/ said'[i] # "none"
    PROVE  Underway'
<1>1. rest \in Seq(StepNames) /\ 1 \in 1 .. Len(rest) /\ \A j \in 1 .. 1 : j = 1
  BY HeadIs DEF ConsentInv, RestInv
<1>2. Drops(rest', rest, 1)
  BY <1>1, TailDrops
<1>3. \A j \in 1 .. 1 : /\ rest[j] # "pickSome"
                        /\ rest[j] \in Waits => settled = "reached"
                        /\ rest[j] = "inTime" => deadline' # "lapsed"
                        /\ rest[j] \in Sayers => 1 = 1 /\ (AccountsForEach(inv) => AllSaid')
  BY <1>1
<1> QED
  BY <1>1, <1>2, <1>3, MovesOn

\* A step that ends the command does not leave it under way.
LEMMA QuietGoes ==
    ASSUME ConsentInv, Underway, exit = "none", exit' = "none",
           \/ Bound \/ Fetch \/ Read \/ Peek \/ Try \/ InTime \/ Check \/ Wait \/ RefuseStep
           \/ Ask \/ AskVolumes \/ FlagVolumes \/ Menu \/ Container \/ (Stage /\ Go)
    PROVE  Underway'
<1> DEFINE Quiet == {"bound", "unbound", "fetch", "read", "peek", "peekFor", "try", "tryFor", "inTime", "check",
                     "wait", "waitTold", "refuse", "ask", "askAll", "askVolumes", "flagVolumes",
                     "menu", "stage", "confirm", "remove", "wipe"}
<1>1. /\ UNCHANGED <<inv, targets, todo, said, settled>> /\ RestInv /\ rest # <<>>
      /\ \E s \in Quiet : At(s)
  BY DEF Bound, Fetch, Read, Peek, Try, InTime, Check, Wait, RefuseStep, Ask, AskVolumes,
         FlagVolumes, Menu, Container, Stage, ConsentInv, At
<1>2. PICK s \in Quiet : At(s) /\ rest[1] = s
  BY <1>1, AtHead DEF StepNames
<1>3. AccountsForEach(inv) => \A i \in targets' : i \in todo' \/ said'[i] # "none"
  BY <1>1 DEF Underway, SaysAhead
<1>4. s \in Waits => settled = "reached"
  <2>1. ~ At("wait") /\ ~ At("waitTold") => s \notin Waits
    BY <1>2 DEF Waits
  <2>2. At("wait") \/ At("waitTold") => Wait
    BY DEF At, Bound, Fetch, Read, Peek, Try, InTime, Check, RefuseStep, Ask, AskVolumes,
           FlagVolumes, Menu, Container, Stage
  <2>3. Wait => settled = "reached"
    BY DEF Wait, Finish
  <2> QED
    BY <2>1, <2>2, <2>3
<1>5. s = "inTime" => deadline' # "lapsed"
  <2>1. At("inTime") => InTime
    BY DEF At, Bound, Fetch, Read, Peek, Try, Wait, Check, RefuseStep, Ask, AskVolumes,
           FlagVolumes, Menu, Container, Stage
  <2>2. InTime => deadline' # "lapsed"
    BY DEF InTime, Finish
  <2> QED
    BY <1>2, <2>1, <2>2
<1>6. s # "pickSome" /\ s \notin Sayers
  BY DEF Sayers
<1>7. CASE rest' = Tail(rest)
  BY <1>1, <1>2, <1>3, <1>4, <1>5, <1>6, <1>7, GoesOn
<1>8. CASE Peek
  <2>1. ASSUME NEW d \in 1 .. Len(rest), Drops(rest', rest, d),
               \A j \in 1 .. d : rest[j] \in {"peekFor", "tryFor", "askVolumes", "bound", "peek"}
        PROVE  Underway'
    <3>1. \A j \in 1 .. d : /\ rest[j] # "pickSome"
                            /\ rest[j] \in Waits => settled = "reached"
                            /\ rest[j] = "inTime" => deadline' # "lapsed"
                            /\ rest[j] \in Sayers => d = 1 /\ (AccountsForEach(inv) => AllSaid')
      BY <2>1 DEF Waits, Sayers
    <3> QED
      BY <1>1, <1>3, <2>1, <3>1, MovesOn
  <2> QED
    BY <1>1, <1>7, <1>8, <2>1, PeekSkips
<1>9. rest' = Tail(rest) \/ Peek
  BY DEF Bound, Fetch, Read, Try, InTime, Check, Wait, RefuseStep, Ask, AskVolumes,
         FlagVolumes, Menu, Container, Go, Finish
<1> QED
  BY <1>7, <1>8, <1>9

\* The calls that name what they acted upon.
LEMMA SayerGoes ==
    ASSUME ConsentInv, InHandIsReal, Underway, exit = "none", exit' = "none",
           Create \/ Act \/ Batch \/ Each \/ InOrder \/ Refused
    PROVE  Underway'
<1> DEFINE Speaking == {"create", "act", "batch", "each", "eachUnbound", "eachOrStop", "chunks", "empty"}
<1>1. /\ UNCHANGED <<inv, settled>> /\ RestInv /\ rest # <<>> /\ \E s \in Speaking : At(s)
      /\ said \in [Items -> {"none", "done", "failed"}] /\ targets \subseteq Items /\ todo \subseteq Items
  BY DEF Create, Act, Batch, Each, InOrder, Refused, StopAtFirst, ConsentInv, HandInv, At, InHandIsReal
<1>2. PICK s \in Speaking : At(s) /\ rest[1] = s
  BY <1>1, AtHead DEF StepNames
<1>3. s # "pickSome" /\ s \notin Waits /\ s # "inTime" /\ (s # "empty" => s \in Sayers)
  BY DEF Sayers, Waits
<1>4. AccountsForEach(inv) => \A i \in targets : i \in todo \/ said[i] # "none"
  BY DEF Underway, SaysAhead
<1>5. ASSUME Go, targets' = targets \/ s = "create", UNCHANGED said \/ s # "empty",
             AccountsForEach(inv) => AllSaid'
      PROVE  Underway'
  <2>1. targets' = targets \/ rest[1] \in Retarget
    BY <1>2, <1>5 DEF Retarget
  <2>2. AccountsForEach(inv) => \A i \in targets' : i \in todo' \/ said'[i] # "none"
    BY <1>5 DEF AllSaid
  <2> QED
    BY <1>1, <1>2, <1>3, <1>5, <2>1, <2>2, GoesOn DEF Go
<1>6. ASSUME UNCHANGED <<rest, targets>>, NEW t \in todo, todo' = todo \ {t},
             NEW w \in {"none", "done", "failed"}, Say(t, w), AccountsForEach(inv) => w # "none"
      PROVE  Underway'
  <2>1. \A i \in Items : said'[i] = IF i = t THEN w ELSE said[i]
    BY <1>1, <1>6 DEF Say
  <2>2. AccountsForEach(inv) => \A i \in targets : /\ said[i] # "none" => said'[i] # "none"
                                                   /\ i \in todo => i \in todo' \/ said'[i] # "none"
    BY <1>1, <1>6, <2>1
  <2> QED
    BY <1>1, <1>6, <2>2, StaysOn
<1>7. ASSUME todo = {}, UNCHANGED <<targets, said>>, Go
      PROVE  Underway'
  <2>1. AccountsForEach(inv) => AllSaid'
    BY <1>4, <1>7 DEF AllSaid
  <2> QED
    BY <1>5, <1>7, <2>1
<1>8. CASE Create
  <2>1. PICK i \in Items : Go /\ targets' = {i} /\ said' = [said EXCEPT ![i] = "done"]
    BY <1>8 DEF Create, Finish, Fresh
  <2>2. AllSaid'
    BY <1>1, <2>1 DEF AllSaid
  <2>3. s = "create"
    BY <1>1, <1>2, <1>8, AtHead DEF Create, StepNames
  <2> QED
    BY <1>5, <2>1, <2>2, <2>3
<1>9. CASE Act
  <2>1. Go /\ targets' = targets /\ said' = [i \in Items |-> IF i \in targets THEN "done" ELSE said[i]]
    BY <1>9 DEF Act, Finish
  <2>2. AllSaid'
    BY <1>1, <2>1 DEF AllSaid
  <2>3. s = "act"
    BY <1>1, <1>2, <1>9, AtHead DEF Act, StepNames
  <2> QED
    BY <1>5, <2>1, <2>2, <2>3
<1>10. CASE Batch
  <2>1. PICK S \in SUBSET (targets \cap world) :
          /\ Go /\ targets' = targets
          /\ said' = [i \in Items |-> IF i \notin targets THEN said[i]
                                      ELSE IF i \in S THEN "done" ELSE "failed"]
    BY <1>10 DEF Batch, Finish
  <2>2. AllSaid'
    BY <1>1, <2>1 DEF AllSaid
  <2>3. s = "batch"
    BY <1>1, <1>2, <1>10, AtHead DEF Batch, StepNames
  <2> QED
    BY <1>5, <2>1, <2>2, <2>3
<1>11. CASE Each
  <2>1. ASSUME NEW t \in todo, UNCHANGED <<rest, targets>>, todo' = todo \ {t},
               Say(t, IF t \in world THEN "done" ELSE "failed") \/ Say(t, "failed")
        PROVE  Underway'
    <3>1. PICK w \in {"done", "failed"} : Say(t, w)
      BY <2>1
    <3> QED
      BY <1>6, <2>1, <3>1
  <2> QED
    BY <1>7, <1>11, <2>1 DEF Each
<1>12. CASE InOrder
  <2>1. \/ todo = {} /\ Go /\ UNCHANGED <<targets, said>>
        \/ \E t \in todo : UNCHANGED <<rest, targets>> /\ todo' = todo \ {t} /\ Say(t, "done")
    BY <1>12 DEF InOrder, Finish
  <2> QED
    BY <1>6, <1>7, <2>1
<1>13. CASE Refused
  <2>1. PICK t \in todo : /\ UNCHANGED <<rest, targets>> /\ todo' = todo \ {t} /\ ~ At("empty")
                          /\ Say(t, IF inv.agent THEN "failed" ELSE "none")
    BY <1>13 DEF Refused, Finish
  <2>2. rest[1] = "chunks" /\ 1 \in 1 .. Len(rest)
    BY <1>1, <1>13, <2>1, AtHead DEF Refused, StepNames
  <2>3. AccountsForEach(inv) => inv.agent
    BY <2>2 DEF Underway, Candid, Has
  <2> DEFINE w == IF inv.agent THEN "failed" ELSE "none"
  <2>4. w \in {"none", "done", "failed"} /\ Say(t, w) /\ (AccountsForEach(inv) => w # "none")
    BY <2>1, <2>3
  <2> QED
    BY <1>6, <2>1, <2>4
<1> QED
  BY <1>8, <1>9, <1>10, <1>11, <1>12, <1>13

\* The steps that change what is in hand or what is left: a listing, a pick, Esc.
LEMMA HandGoes ==
    ASSUME ConsentInv, Underway, exit = "none", exit' = "none", List \/ Pick \/ Stage
    PROVE  Underway'
<1>1. /\ UNCHANGED <<inv, said, settled>> /\ RestInv /\ rest # <<>> /\ targets \subseteq Items
      /\ AccountsForEach(inv) => \A i \in targets : i \in todo \/ said[i] # "none"
      /\ PlanOrderly(inv) /\ inv \in Invocations(Commands)
  BY PlansAreOrderly DEF List, Pick, Stage, ConsentInv, HandInv, At, Underway, SaysAhead
<1>2. CASE List
  <2>1. rest' = Tail(rest) /\ targets' = todo'
    BY <1>2 DEF List, Go, Finish
  <2>2. rest[1] \in {"list", "scan"}
    BY <1>1, <1>2, AtHead DEF List, StepNames
  <2>3. rest[1] \in Retarget /\ rest[1] \notin Sayers \cup Waits \cup {"pickSome", "inTime"}
    BY <2>2 DEF Retarget, Sayers, Waits
  <2> QED
    BY <1>1, <2>1, <2>3, GoesOn
<1>3. CASE Pick
  <2>1. PICK S \in SUBSET targets :
          /\ ~ inv.agent /\ targets' = S /\ todo' = S
          /\ rest' = IF At("pickOne") THEN Tail(rest) ELSE PickedPlan(inv, Cardinality(S) > 1)
    BY <1>3 DEF Pick, Finish
  <2>2. CASE At("pickOne")
    <3>1. rest[1] = "pickOne"
      BY <1>1, <2>2, AtHead DEF StepNames
    <3>2. rest[1] \in Retarget /\ rest[1] \notin Sayers \cup Waits \cup {"pickSome", "inTime"}
      BY <3>1 DEF Retarget, Sayers, Waits
    <3> QED
      BY <1>1, <2>1, <2>2, <3>2, GoesOn
  <2>3. CASE ~ At("pickOne")
    <3>1. Has(rest, {"pickSome"})
      BY <1>1, <1>3, <2>3, AtHead DEF Pick, StepNames, Has
    <3>2. PicksTell /\ TellsOfMany(inv, PickedPlan(inv, TRUE)) /\ Tells(inv, PickedPlan(inv, FALSE))
      BY <2>1, <3>1 DEF Underway, PicksTell
    <3>3. CASE Cardinality(S) > 1
      <4>1. IsFiniteSet(S)
        BY <1>1, CommandInputs, FS_Subset
      <4>2. Cardinality(S) # 1
        BY <3>3, <4>1, FS_CardinalityType
      <4>3. rest' = PickedPlan(inv, TRUE) /\ TellsOfMany(inv, rest')
        BY <2>1, <2>3, <3>2, <3>3 DEF PickedPlan
      <4>4. inv.cmd # "get_running_costs"
        BY <3>1 DEF Underway, Candid, Has
      <4> QED
        BY <1>1, <2>1, <3>2, <4>2, <4>3, <4>4 DEF Underway, TellsOfMany, SaysAhead, WaitsAhead, InTimeAhead, PicksTell, Has
    <3>4. CASE ~ (Cardinality(S) > 1)
      <4>1. rest' = PickedPlan(inv, FALSE)
        BY <2>1, <2>3, <3>4 DEF PickedPlan
      <4> QED
        BY <1>1, <2>1, <3>2, <4>1, StartsOver
    <3> QED
      BY <3>3, <3>4
  <2> QED
    BY <2>2, <2>3
<1>4. CASE Stage
  <2>1. Go \/ \E k \in StagesBefore : Rewind(k)
    BY <1>4 DEF Stage, Esc, Finish
  <2>2. UNCHANGED <<targets, todo>>
    BY <1>4 DEF Stage
  <2>3. ASSUME NEW k \in StagesBefore, Rewind(k) PROVE Underway'
    <3>1. Tells(inv, rest') /\ \A S : Has(rest', S) => Has(Plan(inv), S)
      BY <1>1, <2>3, RewindGoes
    <3>2. Has(rest', {"pickSome"}) => PicksTell
      BY <1>1, <3>1 DEF PlanOrderly, PicksTell, Has
    <3> QED
      BY <1>1, <2>2, <3>1, <3>2, StartsOver
  <2> QED
    BY <1>4, <2>1, <2>3, QuietGoes
<1> QED
  BY <1>2, <1>3, <1>4

-----------------------------------------------------------------------------

LEMMA InitTells ==
    ASSUME Init
    PROVE  TruthInv
<1>1. /\ inv \in Invocations(Commands) /\ rest = Plan(inv) /\ exit = "none"
      /\ targets \subseteq {1} /\ todo = targets /\ (targets # {} => 1 \in world) /\ 1 \in Items
      /\ said = Nothing /\ removed = {} /\ unread = FALSE
  BY CommandInputs DEF Init
<1>2. PlanOrderly(inv)
  BY <1>1, PlansAreOrderly
<1>3. Tells(inv, rest) /\ (Has(rest, {"pickSome"}) => PicksTell)
  BY <1>1, <1>2 DEF PlanOrderly, PicksTell, Has
<1>4. InHandIsReal /\ PrintsTheTruth
  BY <1>1 DEF InHandIsReal, PrintsTheTruth, Nothing
<1>5. Underway
  BY <1>1, <1>3 DEF Underway, Tells, SaysAhead, WaitsAhead, InTimeAhead
<1> QED
  BY <1>4, <1>5 DEF TruthInv

LEMMA TruthStep ==
    ASSUME ConsentInv, TruthInv, [Next]_vars
    PROVE  TruthInv'
<1>1. InHandIsReal'
  BY HandStep DEF TruthInv, Underway
<1>2. exit # "none" => UNCHANGED vars
  BY DEF Next, Step, Call, Answer, At, Return, RefuseStep, Bound, Check, InTime, FlagVolumes, List, Fetch,
         Read, Peek, Try, Create, Act, Batch, Each, InOrder, StopAtFirst, Refused, Container, Wait, Pick,
         Ask, AskVolumes, Menu, Stage
<1>3. ASSUME exit' = "none" PROVE Underway'
  <2>1. exit = "none" /\ Underway
    BY <1>2, <1>3 DEF vars, command, TruthInv
  <2>2. CASE Others \/ Wedge \/ Settle \/ UNCHANGED vars
    <3>1. /\ UNCHANGED <<inv, rest, targets, todo, deadline, said>>
          /\ settled' = settled \/ settled # "reached"
      BY <2>2 DEF Others, Wedge, Settle, vars, command
    <3> QED
      BY <2>1, <3>1, StaysOn
  <2>3. ~ Return
    BY <1>3 DEF Return
  <2> QED
    BY <1>3, <2>1, <2>2, <2>3, QuietGoes, SayerGoes, HandGoes DEF Next, Step, Call, Answer, TruthInv
<1>4. PrintsTheTruth'
  <2>1. \A i \in Items : said'[i] = "done" => i \in removed' \cup made'
    BY <1>1 DEF InHandIsReal
  <2>2. unread' => inv'.cmd \in FillsGaps
    BY <1>1 DEF InHandIsReal
  <2>3. CASE exit = "ok"
    <3>1. UNCHANGED vars
      BY <1>2, <2>3
    <3> QED
      BY <3>1 DEF TruthInv, PrintsTheTruth, vars, command, service
  <2>4. CASE exit = "none" /\ exit' = "ok"
    <3>1. Underway /\ RestInv
      BY <2>4 DEF TruthInv, ConsentInv
    <3>2. Return \/ (List /\ Finish("ok"))
      BY <2>4 DEF Next, Step, Call, Answer, RefuseStep, Bound, Check, InTime, FlagVolumes, List, Fetch,
                  Read, Peek, Try, Create, Act, Batch, Each, InOrder, Refused, Container, Wait, Pick,
                  Ask, AskVolumes, Menu, Stage, Esc, Rewind, Go, Finish, Others, Wedge, Settle, vars, command
    <3>3. CASE Return
      <4>1. rest = <<>> /\ UNCHANGED <<inv, targets, deadline, said, settled>> /\ \A S : ~ Has(rest, S)
        BY <3>3 DEF Return, Has
      <4> QED
        BY <2>1, <2>2, <3>1, <4>1 DEF Underway, SaysAhead, WaitsAhead, InTimeAhead, AllSaid, PrintsTheTruth
    <3>4. CASE List /\ Finish("ok")
      <4>1. targets' = {} /\ At("list") /\ inv' = inv
        BY <2>4, <3>4 DEF List, Go, Finish
      <4>2. Has(rest, {"list"})
        BY <3>1, <4>1, AtHead DEF StepNames, Has
      <4>3. inv.cmd # "get_running_costs"
        BY <3>1, <4>2 DEF Underway, Candid, Has
      <4>4. Cardinality(targets') # 1
        BY <4>1, FS_EmptySet
      <4> QED
        BY <2>1, <2>2, <4>1, <4>3, <4>4 DEF PrintsTheTruth
    <3> QED
      BY <3>2, <3>3, <3>4
  <2>5. CASE exit' # "ok"
    BY <2>1, <2>5 DEF PrintsTheTruth
  <2>6. exit' = "ok" => exit = "none" \/ exit = "ok"
    BY <1>2 DEF vars, command
  <2> QED
    BY <2>3, <2>4, <2>5, <2>6
<1> QED
  BY <1>1, <1>3, <1>4 DEF TruthInv

\* Every command says what is so, whatever fails, hangs or changes under its hands:
\* what it says it did is done; of what it had in hand nothing goes unmentioned; if
\* it was to wait, success is what it waited for; and what it could not read it
\* passes over only where it may.  Checked on two items by the run Commands.
THEOREM SaysWhatIsSo == Spec => []PrintsTheTruth
<1>1. Init => ConsentInv /\ TruthInv
  BY InitConsents, InitTells
<1>2. ConsentInv /\ TruthInv /\ [Next]_vars => ConsentInv' /\ TruthInv'
  BY ConsentStep, TruthStep
<1>3. TruthInv => PrintsTheTruth
  BY DEF TruthInv
<1> QED
  BY <1>1, <1>2, <1>3, PTL DEF Spec

-----------------------------------------------------------------------------
(* What the user agreed to is done.                                          *)

PicksSteady ==
    ~ inv.agent => StartsSteady(inv, PickedPlan(inv, TRUE)) /\ StartsSteady(inv, PickedPlan(inv, FALSE))

\* What is left keeps to the rules, and only a loop goes on after it has begun.
SteadyInv ==
    /\ Steady(inv, rest)
    /\ Has(rest, {"pickSome"}) => PicksSteady
    /\ Has(rest, {"stage", "confirm", "pickSome"}) => deadline = "none"
    /\ taken \cup made # {} => ~ Has(rest, {"fetch", "act", "batch"})

\* As long as nothing disturbs the run: what is in hand is there, or was taken; a
\* loop has yet to come to what is there; and what was created is all there is.
HandsFull ==
    /\ targets \subseteq world \cup taken
    /\ made = {} => targets \cap world \subseteq todo
    /\ inv.cmd \in Creations => world \subseteq made

\* What the user agreed to is made or gone, or what is ahead sees to it.
Fulfils ==
    \/ confirmed \cap world \subseteq made
    \/ Has(rest, {"wipe", "remove"})
    \/ confirmed \subseteq targets /\ ~ Has(rest, Retarget) /\ Has(rest, {"act", "batch"})
    \/ confirmed \cap world \subseteq todo /\ ~ Has(rest, Retarget) /\ Has(rest, Finishing \ {"act", "batch"})

\* A bucket that is removed with all it holds will be empty.
Empties ==
    inv.cmd = "rb" /\ inv.extra =>
        Has(rest, {"scan"}) \/ world = {} \/ (world \subseteq todo /\ Has(rest, {"empty"}))

Unhurried == ~ inv.agent => CallsInTime(rest, deadline)

EaseInv ==
    /\ faults \in Nat /\ others \in Nat
    /\ inv.agent => confirmed = {}
    /\ exit = "none" => SteadyInv
    /\ Undisturbed /\ exit = "none" => HandsFull /\ Fulfils /\ Empties /\ Unhurried
    /\ ThinkTimeIsFree

LEMMA SteadyDrops ==
    ASSUME NEW i, NEW s \in Seq(StepNames), NEW r, NEW d \in 1 .. Len(s), Drops(r, s, d), Steady(i, s)
    PROVE  Steady(i, r)
<1>1. /\ Len(s) \in Nat /\ Len(r) = Len(s) - d /\ Len(r) \in Nat /\ d \in Nat
      /\ \A k \in 1 .. Len(r) : r[k] = s[k + d] /\ k + d \in 1 .. Len(s)
  BY DEF Drops
<1>2. \A S : Has(r, S) => Has(s, S)
  BY AheadDrops
<1>3. ASSUME NEW k \in 1 .. Len(r), NEW S, \E j \in (k + d) + 1 .. Len(s) : s[j] \in S
      PROVE  \E j \in k + 1 .. Len(r) : r[j] \in S
  <2>1. PICK j \in (k + d) + 1 .. Len(s) : s[j] \in S
    BY <1>3
  <2>2. j - d \in k + 1 .. Len(r) /\ j - d \in 1 .. Len(r) /\ (j - d) + d = j
    BY <1>1, <2>1
  <2> QED
    BY <1>1, <2>1, <2>2
<1>4. Follows(i, r)
  <2> SUFFICES ASSUME NEW k \in 1 .. Len(r)
               PROVE  /\ r[k] = "ask" => /\ \E j \in k + 1 .. Len(r) : r[j] \in Finishing
                                         /\ \A j \in k + 1 .. Len(r) : r[j] \notin Retarget
                      /\ r[k] \in {"askAll", "confirm"} =>
                          i.cmd \in Creations \/ \E j \in k + 1 .. Len(r) : r[j] \in {"wipe", "remove"}
    BY DEF Follows
  <2>1. /\ s[k + d] = "ask" => /\ \E j \in (k + d) + 1 .. Len(s) : s[j] \in Finishing
                               /\ \A j \in (k + d) + 1 .. Len(s) : s[j] \notin Retarget
        /\ s[k + d] \in {"askAll", "confirm"} =>
            i.cmd \in Creations \/ \E j \in (k + d) + 1 .. Len(s) : s[j] \in {"wipe", "remove"}
    BY <1>1 DEF Steady, Follows
  <2>2. \A j \in k + 1 .. Len(r) : j + d \in (k + d) + 1 .. Len(s) /\ r[j] = s[j + d]
    BY <1>1
  <2> QED
    BY <1>1, <1>3, <2>1, <2>2
<1>5. RemovesLast(i, r)
  <2>1. ASSUME NEW k \in 1 .. Len(r)
        PROVE  /\ r[k] = "remove" => i.cmd = "rb" /\ k = Len(r)
               /\ r[k] = "scan" /\ i.cmd = "rb" => \E j \in k + 1 .. Len(r) : r[j] = "empty"
    <3>1. /\ s[k + d] = "remove" => i.cmd = "rb" /\ k + d = Len(s)
          /\ s[k + d] = "scan" /\ i.cmd = "rb" => \E j \in (k + d) + 1 .. Len(s) : s[j] \in {"empty"}
      BY <1>1 DEF Steady, RemovesLast
    <3>2. r[k] = "scan" /\ i.cmd = "rb" => \E j \in k + 1 .. Len(r) : r[j] \in {"empty"}
      BY <1>1, <1>3, <3>1
    <3> QED
      BY <1>1, <3>1, <3>2
  <2> QED
    BY <1>2, <2>1 DEF Steady, RemovesLast
<1>6. Plain(i, r)
  <2>1. ASSUME NEW j \in 1 .. Len(r), NEW k \in 1 .. Len(r), j < k, r[j] \in Work
        PROVE  r[k] # "fetch"
    <3>1. j + d \in 1 .. Len(s) /\ k + d \in 1 .. Len(s) /\ j + d < k + d /\ s[j + d] \in Work
      BY <1>1, <2>1
    <3>2. s[k + d] # "fetch"
      BY <3>1 DEF Steady, Plain
    <3> QED
      BY <1>1, <3>2
  <2> QED
    BY <1>2, <2>1 DEF Steady, Plain
<1> QED
  BY <1>4, <1>5, <1>6 DEF Steady

\* The deadline that runs when a step is done.
LEMMA TimelyGoesOn ==
    ASSUME rest \in Seq(StepNames), rest # <<>>, rest' = Tail(rest), CallsInTime(rest, deadline),
           \/ rest[1] = "bound" /\ deadline' = "live"
           \/ rest[1] = "unbound" /\ deadline' = "none"
           \/ rest[1] \notin Thinking \cup {"bound", "unbound"} /\ deadline' = deadline
           \/ rest[1] \in Thinking /\ (deadline = "none" => deadline' = "none")
    PROVE  CallsInTime(rest', deadline')
<1>1. /\ Len(rest) \in Nat /\ Len(rest') = Len(rest) - 1 /\ Len(rest') \in Nat
      /\ \A k \in 1 .. Len(rest') : rest'[k] = rest[k + 1] /\ k + 1 \in 1 .. Len(rest)
  BY TailDrops DEF Drops
<1> SUFFICES ASSUME NEW m \in 1 .. Len(rest'), rest'[m] \in Calls
             PROVE  Timely(rest', m, deadline')
  BY DEF CallsInTime
<1>2. Timely(rest, m + 1, deadline)
  BY <1>1 DEF CallsInTime
<1>3. \A i \in 1 .. m - 1 : /\ rest'[i] = rest[i + 1] /\ i + 1 \in 1 .. (m + 1) - 1
  BY <1>1
<1>4. m \in Nat /\ 1 \in 1 .. (m + 1) - 1
  BY <1>1
<1>5. CASE deadline # "lapsed" /\ \A i \in 1 .. (m + 1) - 1 : rest[i] \notin Thinking
  <2>1. deadline' # "lapsed"
    BY <1>4, <1>5
  <2> QED
    BY <1>3, <1>5, <2>1 DEF Timely
<1>6. CASE deadline = "none" /\ \A i \in 1 .. (m + 1) - 1 : rest[i] # "bound"
  <2>1. deadline' = "none"
    BY <1>4, <1>6
  <2> QED
    BY <1>3, <1>6, <2>1 DEF Timely
<1>7. ASSUME NEW n \in 1 .. (m + 1) - 1, rest[n] \in {"bound", "unbound"},
             \A i \in n + 1 .. (m + 1) - 1 : rest[i] \notin Thinking
      PROVE  Timely(rest', m, deadline')
  <2>1. CASE n = 1
    <3>1. deadline' # "lapsed"
      BY <1>7, <2>1 DEF Thinking
    <3>2. \A i \in 1 .. m - 1 : i + 1 \in n + 1 .. (m + 1) - 1
      BY <1>4, <2>1
    <3> QED
      BY <1>3, <1>7, <3>1, <3>2 DEF Timely
  <2>2. CASE n # 1
    <3>1. n - 1 \in 1 .. m - 1 /\ (n - 1) + 1 = n
      BY <1>4, <2>2
    <3>2. \A i \in (n - 1) + 1 .. m - 1 : i \in 1 .. m - 1 /\ i + 1 \in n + 1 .. (m + 1) - 1
      BY <1>4, <2>2
    <3> QED
      BY <1>3, <1>7, <3>1, <3>2 DEF Timely
  <2> QED
    BY <2>1, <2>2
<1>8. ASSUME NEW n \in 1 .. (m + 1) - 1, rest[n] = "unbound",
             \A i \in n + 1 .. (m + 1) - 1 : rest[i] # "bound"
      PROVE  Timely(rest', m, deadline')
  <2>1. CASE n = 1
    <3>1. deadline' = "none" \/ deadline' = deadline
      BY <1>8, <2>1 DEF Thinking
    <3>2. deadline' = "none"
      BY <1>8, <2>1, <3>1 DEF Thinking
    <3>3. \A i \in 1 .. m - 1 : i + 1 \in n + 1 .. (m + 1) - 1
      BY <1>4, <2>1
    <3> QED
      BY <1>3, <1>8, <3>2, <3>3 DEF Timely
  <2>2. CASE n # 1
    <3>1. n - 1 \in 1 .. m - 1 /\ (n - 1) + 1 = n
      BY <1>4, <2>2
    <3>2. \A i \in (n - 1) + 1 .. m - 1 : i \in 1 .. m - 1 /\ i + 1 \in n + 1 .. (m + 1) - 1
      BY <1>4, <2>2
    <3> QED
      BY <1>3, <1>8, <3>1, <3>2 DEF Timely
  <2> QED
    BY <2>1, <2>2
<1> QED
  BY <1>2, <1>5, <1>6, <1>7, <1>8 DEF Timely

\* What is left keeps to the rules when steps go.
LEMMA SteadyGoes ==
    ASSUME ConsentInv, SteadyInv, NEW d \in 1 .. Len(rest), Drops(rest', rest, d), UNCHANGED inv,
           deadline = "none" /\ (\A j \in 1 .. d : rest[j] # "bound") => deadline' = "none",
           UNCHANGED <<taken, made>> \/ rest[1] \in Work
    PROVE  SteadyInv'
<1>1. /\ rest \in Seq(StepNames) /\ WorksLast(rest) /\ Len(rest) \in Nat /\ 1 \in 1 .. Len(rest)
      /\ Len(rest') = Len(rest) - d /\ Len(rest') \in Nat /\ d \in Nat
      /\ \A k \in 1 .. Len(rest') : rest'[k] = rest[k + d] /\ k + d \in 1 .. Len(rest) /\ 1 < k + d
  BY DEF ConsentInv, RestInv, Drops
<1>2. \A S : Has(rest', S) => Has(rest, S)
  BY <1>1, AheadDrops
<1>3. Steady(inv, rest')
  BY <1>1, SteadyDrops DEF SteadyInv
<1>4. Has(rest', {"stage", "confirm", "pickSome"}) => deadline' = "none"
  <2> SUFFICES ASSUME Has(rest', {"stage", "confirm", "pickSome"}) PROVE deadline' = "none"
    OBVIOUS
  <2>1. deadline = "none" /\ ~ Has(rest, {"bound", "wipe", "remove"})
    BY <1>2 DEF SteadyInv, Steady, Plain
  <2>2. \A j \in 1 .. d : j \in 1 .. Len(rest)
    BY <1>1
  <2> QED
    BY <2>1, <2>2 DEF Has
<1>5. taken' \cup made' # {} => ~ Has(rest', {"fetch", "act", "batch"})
  <2>1. CASE UNCHANGED <<taken, made>>
    BY <1>2, <2>1 DEF SteadyInv
  <2>2. CASE rest[1] \in Work
    <3>1. \A k \in 1 .. Len(rest') : rest[k + d] \notin Work /\ rest[k + d] # "fetch"
      BY <1>1, <2>2 DEF WorksLast, SteadyInv, Steady, Plain
    <3> QED
      BY <1>1, <3>1 DEF Has, Work
  <2> QED
    BY <2>1, <2>2
<1>6. (Has(rest, {"pickSome"}) => PicksSteady)'
  BY <1>2 DEF SteadyInv, PicksSteady
<1>7. Steady(inv, rest)'
  BY <1>3
<1> QED
  BY <1>4, <1>5, <1>6, <1>7 DEF SteadyInv

\* The command stays where it is: only a loop takes something then.
LEMMA SteadyStays ==
    ASSUME ConsentInv, SteadyInv, UNCHANGED <<inv, rest>>, deadline = "none" => deadline' = "none",
           UNCHANGED <<taken, made>> \/ (rest # <<>> /\ rest[1] \in Work \ {"act", "batch"})
    PROVE  SteadyInv'
<1>1. taken' \cup made' # {} => ~ Has(rest, {"fetch", "act", "batch"})
  <2>1. CASE UNCHANGED <<taken, made>>
    BY <2>1 DEF SteadyInv
  <2>2. CASE rest # <<>> /\ rest[1] \in Work \ {"act", "batch"}
    <3>1. rest \in Seq(StepNames) /\ WorksLast(rest) /\ Len(rest) \in Nat /\ 1 \in 1 .. Len(rest)
      BY <2>2, HeadIs DEF ConsentInv, RestInv
    <3>2. \A k \in 1 .. Len(rest) : 1 < k => rest[k] \notin Work /\ rest[k] # "fetch"
      BY <2>2, <3>1 DEF WorksLast, SteadyInv, Steady, Plain
    <3>3. \A k \in 1 .. Len(rest) : k = 1 \/ 1 < k
      BY <3>1
    <3>4. rest[1] # "fetch"
      BY <2>2 DEF Work
    <3> QED
      BY <2>2, <3>2, <3>3, <3>4 DEF Has, Work
  <2> QED
    BY <2>1, <2>2
<1> QED
  BY <1>1 DEF SteadyInv, PicksSteady

\* A plan from its start.
LEMMA SteadyStarts ==
    ASSUME UNCHANGED inv, StartsSteady(inv, rest'), Has(rest', {"pickSome"}) => PicksSteady,
           deadline' = "none", taken' \cup made' = {}
    PROVE  SteadyInv'
  BY DEF SteadyInv, StartsSteady, PicksSteady

-----------------------------------------------------------------------------
(* A run that nothing disturbs.                                              *)

LEMMA StillCalm ==
    ASSUME EaseInv, [Next]_vars
    PROVE  /\ faults' \in Nat /\ others' \in Nat
           /\ Undisturbed' => Undisturbed /\ UNCHANGED <<wedged, faults, others>>
<1>1. faults' \in {faults, faults + 1} /\ others' \in {others, others + 1} /\ (wedged => wedged' = wedged)
  BY DEF Next, Step, Call, Answer, Return, RefuseStep, Bound, Check, InTime, FlagVolumes, List, Fetch,
         Read, Peek, Try, Create, Act, Batch, Each, InOrder, Refused, Container, Wait, Pick,
         Ask, AskVolumes, Menu, Stage, Unserved, Others, Wedge, Settle, vars, counters
<1>2. faults \in Nat /\ others \in Nat
  BY DEF EaseInv
<1>3. (wedged' <=> FALSE) => wedged' = wedged
  BY <1>1 DEF Next, Step, Call, Answer, Return, RefuseStep, Bound, Check, InTime, FlagVolumes, List, Fetch,
         Read, Peek, Try, Create, Act, Batch, Each, InOrder, Refused, Container, Wait, Pick,
         Ask, AskVolumes, Menu, Stage, Others, Wedge, Settle, vars, counters
<1> QED
  BY <1>1, <1>2, <1>3 DEF Undisturbed

\* Then only a lapsed deadline makes a call fail; and at a terminal none has lapsed.
LEMMA CalmCalls ==
    ASSUME EaseInv, Undisturbed, Undisturbed', Unserved
    PROVE  Ctx = "lapsed" /\ deadline' = deadline /\ ~ At("each") /\ ~ At("eachUnbound")
<1>1. Ctx = "lapsed" /\ deadline' = deadline
  BY DEF Unserved, Undisturbed, EaseInv
<1> QED
  BY <1>1 DEF Ctx, At

LEMMA TerminalCalls ==
    ASSUME ConsentInv, EaseInv, Undisturbed, Undisturbed', exit = "none", ~ inv.agent,
           NEW s \in Calls, At(s)
    PROVE  ~ Unserved /\ deadline # "lapsed"
<1>1. s \in StepNames /\ s # "each" /\ s # "eachUnbound"
  BY DEF Calls, StepNames
<1>2. rest[1] = s /\ 1 \in 1 .. Len(rest)
  BY <1>1, AtHead DEF ConsentInv
<1>3. Timely(rest, 1, deadline)
  BY <1>2 DEF EaseInv, Unhurried, CallsInTime
<1>4. deadline # "lapsed"
  BY <1>3 DEF Timely
<1>5. Ctx = deadline
  BY <1>1 DEF Ctx, At
<1> QED
  BY <1>4, <1>5, CalmCalls

\* Only "bound" sets a deadline where there was none.
LEMMA EndlessStays ==
    ASSUME Step, deadline = "none", ~ At("bound")
    PROVE  deadline' = "none"
<1>1. Unserved => deadline' = "none"
  BY DEF Unserved, Ctx
<1> QED
  BY <1>1 DEF Step, Call, Answer, Return, RefuseStep, Bound, Check, InTime, FlagVolumes, List, Fetch,
         Read, Peek, Try, Create, Act, Batch, Each, InOrder, Refused, Container, Wait, Pick,
         Ask, AskVolumes, Menu, Stage, Thinks

\* How a step that does not end the command goes on: the next ones follow; a loop is
\* not over; or a pick or Esc leads to another plan.
LoopSteps == {"each", "eachUnbound", "eachOrStop", "chunks", "empty"}
GoesTo(i, s) == StartsSteady(i, s) /\ (Has(s, {"pickSome"}) => PicksSteady)

LEMMA PlanGoesOn ==
    ASSUME ConsentInv, SteadyInv, exit = "none", exit' = "none", Pick \/ Stage
    PROVE  rest' = Tail(rest) \/ (GoesTo(inv, rest') /\ deadline' = "none")
<1>1. /\ RestInv /\ rest # <<>> /\ rest \in Seq(StepNames) /\ UNCHANGED inv /\ PlanOrderly(inv)
      /\ inv \in Invocations(Commands)
  BY PlansAreOrderly DEF Pick, Stage, At, ConsentInv, HandInv, RestInv
<1>2. CASE Pick /\ rest' # Tail(rest)
  <2>1. ~ inv.agent /\ At("pickSome") /\ rest' \in {PickedPlan(inv, TRUE), PickedPlan(inv, FALSE)}
    BY <1>2 DEF Pick, Finish, PickedPlan
  <2>2. rest[1] = "pickSome" /\ 1 \in 1 .. Len(rest)
    BY <1>1, <2>1, AtHead DEF StepNames
  <2>3. Has(rest, {"pickSome"})
    BY <2>2 DEF Has
  <2>4. deadline = "none" /\ PicksSteady
    BY <2>3 DEF SteadyInv, Has
  <2>5. deadline' = "none"
    BY <1>2, <2>4 DEF Pick, Thinks
  <2> QED
    BY <2>1, <2>4, <2>5 DEF GoesTo, PicksSteady
<1>3. CASE Stage /\ rest' # Tail(rest)
  <2>1. PICK k \in StagesBefore : Rewind(k)
    BY <1>3 DEF Stage, Esc, Finish, Go
  <2>2. deadline' = deadline /\ deadline = "none"
    <3>1. rest[1] \in {"stage", "confirm"} /\ 1 \in 1 .. Len(rest)
      BY <1>1, <1>3, AtHead DEF Stage, StepNames
    <3> QED
      BY <1>3, <3>1 DEF Stage, SteadyInv, Has
  <2>3. StartsSteady(inv, rest') /\ \A S : Has(rest', S) => Has(Plan(inv), S)
    BY <1>1, <2>1, RewindGoes
  <2>4. Has(rest', {"pickSome"}) => PicksSteady
    BY <1>1, <2>3 DEF PlanOrderly, PicksSteady, Has
  <2> QED
    BY <2>2, <2>3, <2>4 DEF GoesTo
<1> QED
  BY <1>2, <1>3

LEMMA SteadyStep ==
    ASSUME ConsentInv, SteadyInv, exit = "none", exit' = "none", Next
    PROVE  SteadyInv'
<1>1. CASE Others \/ Wedge \/ Settle
  <2>1. UNCHANGED <<inv, rest, deadline, taken, made>>
    BY <1>1 DEF Others, Wedge, Settle, command, service
  <2> QED
    BY <2>1, SteadyStays
<1>2. ASSUME Step PROVE SteadyInv'
  <2>1. /\ RestInv /\ rest # <<>> /\ rest \in Seq(StepNames) /\ UNCHANGED inv
        /\ Len(rest) \in Nat /\ 1 \in 1 .. Len(rest)
    <3>1. rest # <<>> /\ UNCHANGED inv
      BY <1>2 DEF Step, Call, Answer, Return, RefuseStep, Bound, Check, InTime, FlagVolumes, List, Fetch,
         Read, Peek, Try, Create, Act, Batch, Each, InOrder, StopAtFirst, Refused, Container, Wait, Pick,
         Ask, AskVolumes, Menu, Stage, At
    <3> QED
      BY <3>1, HeadIs DEF ConsentInv, RestInv
  <2>2. deadline = "none" /\ rest[1] # "bound" => deadline' = "none"
    BY <1>2, <2>1, EndlessStays, AtHead DEF StepNames
  <2>3. UNCHANGED <<taken, made>> \/ rest[1] \in Work
    <3>1. UNCHANGED <<taken, made>> \/ \E s \in Work : At(s)
      BY <1>2 DEF Step, Call, Answer, Return, RefuseStep, Bound, Check, InTime, FlagVolumes, List, Fetch,
         Read, Peek, Try, Create, Act, Batch, Each, InOrder, StopAtFirst, Refused, Container, Wait, Pick,
         Ask, AskVolumes, Menu, Stage, service, Work
    <3>2. \A s \in Work : s \in StepNames
      BY DEF Work, StepNames
    <3> QED
      BY <2>1, <3>1, <3>2, AtHead
  <2>4. ASSUME NEW d \in 1 .. Len(rest), Drops(rest', rest, d)
        PROVE  SteadyInv'
    <3>1. 1 \in 1 .. d
      BY <2>1
    <3> QED
      BY <2>1, <2>2, <2>3, <2>4, <3>1, SteadyGoes
  <2>5. CASE rest' = Tail(rest)
    BY <2>1, <2>4, <2>5, TailDrops
  <2>6. CASE Peek
    BY <2>1, <2>4, <2>5, <2>6, PeekSkips
  <2>7. CASE rest' = rest /\ (Each \/ InOrder \/ Refused)
    <3>1. \E s \in LoopSteps : At(s)
      BY <2>7 DEF Each, InOrder, StopAtFirst, Refused, LoopSteps
    <3>2. rest[1] \in LoopSteps
      BY <2>1, <3>1, AtHead DEF LoopSteps, StepNames
    <3>3. rest[1] \in Work \ {"act", "batch"} /\ rest[1] # "bound"
      BY <3>2 DEF LoopSteps, Work
    <3> QED
      BY <2>1, <2>2, <2>3, <2>7, <3>3, SteadyStays
  <2>8. CASE Pick \/ Stage
    <3>1. taken' \cup made' = {}
      <4>1. taken \cup made = {}
        BY <2>8, QuestionFirst DEF Pick, Stage, Questions
      <4> QED
        BY <2>8, <4>1 DEF Pick, Stage, service
    <3> QED
      BY <2>1, <2>5, <2>8, <3>1, PlanGoesOn, SteadyStarts DEF GoesTo
  <2>9. rest' = Tail(rest) \/ Peek \/ Pick \/ Stage \/ (rest' = rest /\ (Each \/ InOrder \/ Refused))
    BY <1>2 DEF Step, Call, Answer, Return, RefuseStep, Bound, Check, InTime, FlagVolumes, List, Fetch,
         Read, Try, Create, Act, Batch, Each, InOrder, Refused, Container, Wait,
         Ask, AskVolumes, Menu, Go, Finish
  <2> QED
    BY <2>5, <2>6, <2>7, <2>8, <2>9
<1> QED
  BY <1>1, <1>2 DEF Next

-----------------------------------------------------------------------------

\* What the user agreed to stays ahead when a step is done, or is done by it.
LEMMA FulfilsGoes ==
    ASSUME rest \in Seq(StepNames), rest # <<>>, rest' = Tail(rest), Fulfils, confirmed' = confirmed,
           world' \subseteq world \/ rest[1] = "create", world' \ world \subseteq made', made \subseteq made',
           UNCHANGED <<targets, todo>> \/ rest[1] \in Retarget,
           rest[1] \in {"act", "batch"} => targets \cap world' = {},
           rest[1] \in Finishing \ {"act", "batch"} => todo = {},
           rest[1] \in {"wipe", "remove"} => world' = {}
    PROVE  Fulfils'
<1>1. /\ Drops(rest', rest, 1) /\ 1 \in 1 .. Len(rest) /\ \A j \in 1 .. 1 : j = 1
  BY HeadIs, TailDrops
<1>2. /\ \A S : Has(rest', S) => Has(rest, S)
      /\ \A S : rest[1] \notin S => (Has(rest, S) => Has(rest', S))
  BY <1>1, AheadDrops
<1>3. ~ Has(rest, Retarget) => rest[1] \notin Retarget /\ rest[1] # "create"
  BY <1>1 DEF Has, Retarget
<1>4. CASE confirmed \cap world \subseteq made
  BY <1>4 DEF Fulfils
<1>5. CASE Has(rest, {"wipe", "remove"})
  BY <1>2, <1>5 DEF Fulfils
<1>6. CASE confirmed \subseteq targets /\ ~ Has(rest, Retarget) /\ Has(rest, {"act", "batch"})
  <2>1. targets' = targets /\ confirmed' \subseteq targets' /\ ~ Has(rest', Retarget)
    BY <1>2, <1>3, <1>6
  <2>2. CASE rest[1] \in {"act", "batch"}
    BY <1>6, <2>2 DEF Fulfils
  <2>3. CASE rest[1] \notin {"act", "batch"}
    BY <1>2, <1>6, <2>1, <2>3 DEF Fulfils
  <2> QED
    BY <2>2, <2>3
<1>7. CASE confirmed \cap world \subseteq todo /\ ~ Has(rest, Retarget) /\ Has(rest, Finishing \ {"act", "batch"})
  <2>1. todo' = todo /\ world' \subseteq world /\ ~ Has(rest', Retarget)
    BY <1>2, <1>3, <1>7
  <2>2. CASE rest[1] \in Finishing \ {"act", "batch"}
    BY <1>7, <2>1, <2>2 DEF Fulfils
  <2>3. CASE rest[1] \notin Finishing \ {"act", "batch"}
    BY <1>2, <1>7, <2>1, <2>3 DEF Fulfils
  <2> QED
    BY <2>2, <2>3
<1> QED
  BY <1>4, <1>5, <1>6, <1>7 DEF Fulfils

\* When the user agrees, what sees to it is ahead.
LEMMA FulfilsAgreed ==
    ASSUME ConsentInv, SteadyInv, HandsFull, NEW s \in {"ask", "askAll", "confirm"}, At(s), rest' = Tail(rest),
           UNCHANGED <<inv, targets, todo, world, made>>, s = "ask" => confirmed' = targets
    PROVE  Fulfils'
<1>1. rest \in Seq(StepNames) /\ rest # <<>> /\ rest[1] = s /\ Len(rest) \in Nat /\ 1 \in 1 .. Len(rest)
  BY HeadIs, AtHead DEF ConsentInv, RestInv, StepNames
<1>2. /\ Len(rest') = Len(rest) - 1 /\ Len(rest') \in Nat
      /\ \A k \in 1 .. Len(rest') : rest'[k] = rest[k + 1] /\ k + 1 \in 1 + 1 .. Len(rest)
  BY <1>1, TailDrops DEF Drops
<1>3. \A j \in 1 + 1 .. Len(rest) : j - 1 \in 1 .. Len(rest') /\ rest'[j - 1] = rest[j]
  BY <1>1, <1>2
<1>4. made = {}
  BY QuestionFirst DEF Questions
<1>5. CASE s = "ask"
  <2>1. /\ \E j \in 1 + 1 .. Len(rest) : rest[j] \in Finishing
        /\ \A j \in 1 + 1 .. Len(rest) : rest[j] \notin Retarget
    BY <1>1, <1>5 DEF SteadyInv, Steady, Follows
  <2>2. Has(rest', Finishing) /\ ~ Has(rest', Retarget)
    BY <1>2, <1>3, <2>1 DEF Has
  <2>3. confirmed' \subseteq targets' /\ confirmed' \cap world' \subseteq todo'
    BY <1>4, <1>5 DEF HandsFull
  <2>4. Has(rest', {"act", "batch"}) \/ Has(rest', Finishing \ {"act", "batch"})
    BY <2>2 DEF Has
  <2> QED
    BY <2>2, <2>3, <2>4 DEF Fulfils
<1>6. CASE s # "ask"
  <2>1. inv.cmd \in Creations \/ \E j \in 1 + 1 .. Len(rest) : rest[j] \in {"wipe", "remove"}
    BY <1>1, <1>6 DEF SteadyInv, Steady, Follows
  <2>2. inv.cmd \in Creations => world' \subseteq made'
    BY DEF HandsFull
  <2>3. (\E j \in 1 + 1 .. Len(rest) : rest[j] \in {"wipe", "remove"}) => Has(rest', {"wipe", "remove"})
    BY <1>3 DEF Has
  <2> QED
    BY <2>1, <2>2, <2>3 DEF Fulfils
<1> QED
  BY <1>5, <1>6

\* A bucket that is to be empty: its objects are in hand once they were listed.
LEMMA EmptiesGoes ==
    ASSUME rest \in Seq(StepNames), rest # <<>>, rest' = Tail(rest), UNCHANGED inv, RemovesLast(inv, rest),
           Empties, world' \subseteq world \/ rest[1] = "create",
           todo' = todo \/ rest[1] = "pickOne" \/ (rest[1] \in {"list", "scan"} /\ todo' = world /\ world' = world),
           rest[1] = "scan" => todo' = world /\ world' = world,
           rest[1] = "empty" => todo = {}
    PROVE  Empties'
<1>1. /\ Drops(rest', rest, 1) /\ Len(rest) \in Nat /\ 1 \in 1 .. Len(rest) /\ \A j \in 1 .. 1 : j = 1
      /\ \A k \in 1 .. Len(rest') : rest'[k] = rest[k + 1]
      /\ Len(rest') = Len(rest) - 1
  BY HeadIs, TailDrops DEF Drops
<1>2. \A S : rest[1] \notin S => (Has(rest, S) => Has(rest', S))
  BY <1>1, AheadDrops
<1> SUFFICES ASSUME inv.cmd = "rb", inv.extra
             PROVE  Has(rest', {"scan"}) \/ world' = {} \/ (world' \subseteq todo' /\ Has(rest', {"empty"}))
  BY DEF Empties
<1>3. rest[1] \notin {"pickOne", "create"} /\ world' \subseteq world
  BY <1>1 DEF RemovesLast, Has
<1>4. CASE rest[1] = "scan"
  <2>1. \E j \in 1 + 1 .. Len(rest) : rest[j] = "empty"
    BY <1>1, <1>4 DEF RemovesLast
  <2>2. \A j \in 1 + 1 .. Len(rest) : j - 1 \in 1 .. Len(rest') /\ (j - 1) + 1 = j
    BY <1>1
  <2>3. Has(rest', {"empty"})
    BY <1>1, <2>1, <2>2 DEF Has
  <2> QED
    BY <1>4, <2>3
<1>5. CASE rest[1] # "scan"
  <2>1. CASE Has(rest, {"scan"})
    BY <1>2, <1>5, <2>1
  <2>2. CASE world = {}
    BY <1>3, <2>2
  <2>3. CASE world \subseteq todo /\ Has(rest, {"empty"})
    <3>1. CASE rest[1] = "empty"
      BY <1>3, <2>3, <3>1
    <3>2. CASE rest[1] # "empty"
      BY <1>2, <1>3, <2>3, <3>2
    <3> QED
      BY <3>1, <3>2
  <2> QED
    BY <2>1, <2>2, <2>3 DEF Empties
<1> QED
  BY <1>4, <1>5

\* A terminal's calls stay in time.
LEMMA UnhurriedStep ==
    ASSUME ConsentInv, EaseInv, Undisturbed, Undisturbed', exit = "none", exit' = "none", Step
    PROVE  Unhurried'
<1>1. /\ SteadyInv /\ RestInv /\ rest # <<>> /\ rest \in Seq(StepNames) /\ UNCHANGED inv
      /\ Len(rest) \in Nat /\ 1 \in 1 .. Len(rest)
  <2>1. rest # <<>> /\ UNCHANGED inv
    BY DEF Step, Call, Answer, Return, RefuseStep, Bound, Check, InTime, FlagVolumes, List, Fetch,
       Read, Peek, Try, Create, Act, Batch, Each, InOrder, StopAtFirst, Refused, Container, Wait, Pick,
       Ask, AskVolumes, Menu, Stage, At
  <2> QED
    BY <2>1, HeadIs DEF ConsentInv, RestInv, EaseInv
<1>2. Unserved => deadline' = deadline
  BY CalmCalls
<1>3. \/ At("bound") /\ deadline' = "live"
      \/ At("unbound") /\ deadline' = "none"
      \/ ~ At("bound") /\ ~ At("unbound") /\ (\A s \in Thinking : ~ At(s)) /\ deadline' = deadline
      \/ (\E s \in Thinking : At(s)) /\ (deadline = "none" => deadline' = "none")
  <2>1. CASE Bound
    BY <2>1 DEF Bound, At
  <2>2. CASE Pick \/ Ask \/ AskVolumes \/ Menu
    BY <2>2 DEF Pick, Ask, AskVolumes, Menu, Thinks, Thinking
  <2>3. CASE ~ Bound /\ ~ Pick /\ ~ Ask /\ ~ AskVolumes /\ ~ Menu
    <3>1. deadline' = deadline
      BY <1>2, <2>3 DEF Step, Call, Answer, Return, RefuseStep, Check, InTime, FlagVolumes, List, Fetch,
         Read, Peek, Try, Create, Act, Batch, Each, InOrder, Refused, Container, Wait, Stage
    <3>2. \A s \in {"bound", "unbound"} \cup Thinking : ~ At(s)
      BY <2>3 DEF Step, Call, Answer, Return, RefuseStep, Check, InTime, FlagVolumes, List, Fetch,
         Read, Peek, Try, Create, Act, Batch, Each, InOrder, StopAtFirst, Refused, Container, Wait, Stage,
         At, Thinking
    <3> QED
      BY <3>1, <3>2
  <2> QED
    BY <2>1, <2>2, <2>3
<1>4. \/ rest[1] = "bound" /\ deadline' = "live"
      \/ rest[1] = "unbound" /\ deadline' = "none"
      \/ rest[1] \notin Thinking \cup {"bound", "unbound"} /\ deadline' = deadline
      \/ rest[1] \in Thinking /\ (deadline = "none" => deadline' = "none")
  <2>1. \A s \in StepNames : At(s) <=> rest[1] = s
    BY <1>1, HeadIs DEF At
  <2>2. "bound" \in StepNames /\ "unbound" \in StepNames /\ \A s \in Thinking : s \in StepNames
    BY DEF StepNames, Thinking
  <2> QED
    BY <1>1, <1>3, <2>1, <2>2
<1> SUFFICES ASSUME ~ inv.agent PROVE CallsInTime(rest', deadline')
  BY <1>1 DEF Unhurried
<1>5. CallsInTime(rest, deadline)
  BY DEF EaseInv, Unhurried
<1>6. CASE rest' = Tail(rest)
  BY <1>1, <1>4, <1>5, <1>6, TimelyGoesOn
<1>7. CASE rest' = rest /\ (Each \/ InOrder \/ Refused)
  <2>1. deadline' = deadline
    BY <1>2, <1>7 DEF Each, InOrder, Refused
  <2> QED
    BY <1>5, <1>7, <2>1
<1>8. CASE Pick \/ Stage
  BY <1>1, <1>6, <1>8, PlanGoesOn DEF GoesTo, StartsSteady
<1>9. CASE Peek
  <2>1. ~ Unserved
    BY <1>9, TerminalCalls DEF Peek, Calls
  <2> QED
    BY <1>6, <1>9, <2>1 DEF Peek, Go
<1>10. rest' = Tail(rest) \/ Peek \/ Pick \/ Stage \/ (rest' = rest /\ (Each \/ InOrder \/ Refused))
  BY DEF Step, Call, Answer, Return, RefuseStep, Bound, Check, InTime, FlagVolumes, List, Fetch,
     Read, Try, Create, Act, Batch, Each, InOrder, Refused, Container, Wait,
     Ask, AskVolumes, Menu, Go, Finish
<1> QED
  BY <1>6, <1>7, <1>8, <1>9, <1>10

\* The steps that take and make nothing, when nothing disturbs the run.
LEMMA QuietEase ==
    ASSUME ConsentInv, EaseInv, Undisturbed, Undisturbed', exit = "none", exit' = "none",
           \/ Bound \/ Fetch \/ Read \/ Peek \/ Try \/ InTime \/ Check \/ Wait \/ RefuseStep
           \/ Ask \/ AskVolumes \/ FlagVolumes \/ Menu \/ (Stage /\ Go)
    PROVE  HandsFull' /\ Fulfils' /\ Empties'
<1> DEFINE Quiet == {"bound", "unbound", "fetch", "read", "peek", "peekFor", "try", "tryFor", "inTime", "check",
                     "wait", "waitTold", "refuse", "ask", "askAll", "askVolumes", "flagVolumes",
                     "menu", "stage", "confirm"}
<1>1. /\ UNCHANGED <<inv, targets, todo, world, taken, made>> /\ RestInv /\ rest # <<>>
      /\ rest \in Seq(StepNames)
      /\ HandsFull /\ Fulfils /\ Empties /\ SteadyInv
      /\ \E s \in Quiet : At(s)
  BY DEF Bound, Fetch, Read, Peek, Try, InTime, Check, Wait, RefuseStep, Ask, AskVolumes,
         FlagVolumes, Menu, Stage, ConsentInv, RestInv, EaseInv, At, service
<1>2. PICK s \in Quiet : At(s) /\ rest[1] = s
  BY <1>1, AtHead DEF StepNames
<1>3. HandsFull'
  BY <1>1 DEF HandsFull
<1>4. CASE rest' = Tail(rest)
  <2>1. rest[1] \notin Finishing \cup {"wipe", "remove", "scan", "empty"}
    BY <1>2 DEF Finishing
  <2>2. Empties'
    BY <1>1, <1>4, <2>1, EmptiesGoes DEF SteadyInv, Steady
  <2>3. CASE confirmed' = confirmed
    <3>1. /\ rest[1] \notin {"act", "batch"} /\ rest[1] \notin Finishing \ {"act", "batch"}
          /\ rest[1] \notin {"wipe", "remove"}
      BY <2>1 DEF Finishing
    <3>2. world' \subseteq world /\ world' \ world \subseteq made' /\ made \subseteq made'
      BY <1>1
    <3>3. UNCHANGED <<targets, todo>> /\ Fulfils /\ rest \in Seq(StepNames) /\ rest # <<>>
      BY <1>1
    <3> QED
      BY <1>3, <1>4, <2>2, <2>3, <3>1, <3>2, <3>3, FulfilsGoes
  <2>4. CASE confirmed' # confirmed
    <3>1. s \in {"ask", "askAll", "confirm"} /\ (s = "ask" => confirmed' = targets)
      <4>1. \/ Ask /\ confirmed' = IF At("askAll") THEN Items ELSE targets
            \/ Stage /\ At("confirm")
        BY <2>4 DEF Bound, Fetch, Read, Peek, Try, InTime, Check, Wait, RefuseStep, Ask, AskVolumes,
                    FlagVolumes, Menu, Stage, Finish, consent
      <4>2. s = "ask" => ~ At("askAll") /\ ~ At("confirm")
        BY <1>2 DEF At
      <4>3. At("ask") \/ At("askAll") \/ At("confirm") => s \in {"ask", "askAll", "confirm"}
        BY <1>2 DEF At
      <4> QED
        BY <4>1, <4>2, <4>3 DEF Ask
    <3>2. PICK t \in {"ask", "askAll", "confirm"} : At(t) /\ (t = "ask" => confirmed' = targets)
      BY <1>2, <3>1
    <3>3. UNCHANGED <<inv, targets, todo, world, made>> /\ SteadyInv /\ HandsFull
      BY <1>1
    <3> QED
      BY <1>3, <1>4, <2>2, <3>2, <3>3, FulfilsAgreed
  <2> QED
    BY <1>3, <2>2, <2>3, <2>4
<1>5. CASE Peek
  <2>1. ASSUME NEW d \in 1 .. Len(rest), Drops(rest', rest, d),
               \A j \in 1 .. d : rest[j] \in {"peekFor", "tryFor", "askVolumes", "bound", "peek"}
        PROVE  Fulfils' /\ Empties'
    <3>1. confirmed' = confirmed
      BY <1>5 DEF Peek, consent
    <3>2. /\ \A S : Has(rest', S) => Has(rest, S)
          /\ \A S : (\A j \in 1 .. d : rest[j] \notin S) => (Has(rest, S) => Has(rest', S))
      BY <1>1, <2>1, AheadDrops
    <3>3. \A S \in {{"wipe", "remove"}, {"act", "batch"}, Finishing \ {"act", "batch"}, {"scan"}, {"empty"}} :
            \A j \in 1 .. d : rest[j] \notin S
      BY <2>1 DEF Finishing
    <3>4. Fulfils'
      BY <1>1, <3>1, <3>2, <3>3 DEF Fulfils
    <3>5. Empties'
      BY <1>1, <3>2, <3>3 DEF Empties
    <3> QED
      BY <3>4, <3>5
  <2> QED
    BY <1>1, <1>3, <1>4, <1>5, <2>1, PeekSkips
<1>6. rest' = Tail(rest) \/ Peek
  BY DEF Bound, Fetch, Read, Try, InTime, Check, Wait, RefuseStep, Ask, AskVolumes,
         FlagVolumes, Menu, Go, Finish
<1> QED
  BY <1>3, <1>4, <1>5, <1>6

\* A listing, and a pick or Esc, which may lead to another plan.
LEMMA HandEase ==
    ASSUME ConsentInv, EaseInv, Undisturbed, Undisturbed', exit = "none", exit' = "none",
           List \/ Pick \/ Stage
    PROVE  HandsFull' /\ Fulfils' /\ Empties'
<1>1. /\ UNCHANGED <<inv, world, taken, made>> /\ RestInv /\ rest # <<>> /\ rest \in Seq(StepNames)
      /\ HandsFull /\ Fulfils /\ Empties /\ SteadyInv /\ Plain(inv, rest) /\ RemovesLast(inv, rest)
      /\ \E s \in {"list", "scan", "pickOne", "pickSome", "stage", "confirm"} : At(s)
  BY DEF List, Pick, Stage, ConsentInv, RestInv, EaseInv, At, service, SteadyInv, Steady
<1>2. PICK s \in {"list", "scan", "pickOne", "pickSome", "stage", "confirm"} : At(s) /\ rest[1] = s
  BY <1>1, AtHead DEF StepNames
<1>3. 1 \in 1 .. Len(rest) /\ \A t \in StepNames : At(t) <=> t = s
  BY <1>1, <1>2, HeadIs DEF At
<1>4. HandsFull'
  <2>1. CASE List
    BY <1>1, <2>1 DEF List, HandsFull, Finish
  <2>2. CASE Pick
    BY <1>1, <2>2 DEF Pick, HandsFull, Finish
  <2>3. CASE Stage
    BY <1>1, <2>3 DEF Stage, HandsFull
  <2> QED
    BY <2>1, <2>2, <2>3
<1>5. CASE s \in {"list", "scan", "pickOne"}
  <2>1. rest' = Tail(rest) /\ confirmed' = confirmed
    BY <1>2, <1>3, <1>5 DEF List, Pick, Stage, Go, Finish, consent, StepNames
  <2>2. s \in {"list", "scan"} => todo' = world
    BY <1>3 DEF List, Pick, Stage, Finish, StepNames
  <2>3. rest[1] \in Retarget /\ rest[1] \notin Finishing \cup {"wipe", "remove", "empty", "act", "batch"}
    BY <1>2, <1>5 DEF Retarget, Finishing
  <2>4. world' \subseteq world /\ world' \ world \subseteq made' /\ made \subseteq made'
    BY <1>1
  <2>5. Fulfils'
    BY <1>1, <2>1, <2>3, <2>4, FulfilsGoes
  <2>6. todo' = todo \/ rest[1] = "pickOne" \/ (rest[1] \in {"list", "scan"} /\ todo' = world /\ world' = world)
    BY <1>1, <1>2, <1>5, <2>2
  <2>7. rest[1] = "scan" => todo' = world /\ world' = world
    BY <1>1, <1>2, <2>2
  <2>8. Empties'
    BY <1>1, <2>1, <2>3, <2>4, <2>6, <2>7, EmptiesGoes
  <2> QED
    BY <1>4, <2>5, <2>8
<1>6. CASE s \in {"pickSome", "stage", "confirm"}
  <2>1. /\ Has(rest, {"stage", "confirm", "pickSome"}) /\ Has(rest, {"pickOne", "pickSome", "create", "stage", "confirm"})
        /\ s \in {"stage", "confirm"} => Has(rest, {"stage", "confirm"})
        /\ s = "pickSome" => Has(rest, Retarget)
    BY <1>2, <1>3, <1>6 DEF Has, Retarget
  <2>2. inv.cmd # "rb" /\ ~ Has(rest, {"wipe", "remove"})
    BY <1>1, <2>1 DEF Plain, RemovesLast, Has
  <2>3. CASE s = "pickSome"
    <3>1. confirmed' = confirmed
      BY <1>3, <2>3 DEF List, Pick, Stage, consent, StepNames
    <3>2. confirmed \cap world \subseteq made
      BY <1>1, <2>1, <2>2, <2>3 DEF Fulfils
    <3> QED
      BY <1>1, <1>4, <2>2, <3>1, <3>2 DEF Fulfils, Empties
  <2>4. CASE s \in {"stage", "confirm"}
    <3>1. world \subseteq made
      BY <1>1, <2>1, <2>4 DEF Plain, HandsFull
    <3> QED
      BY <1>1, <1>4, <2>2, <3>1 DEF Fulfils, Empties
  <2> QED
    BY <1>6, <2>3, <2>4
<1> QED
  BY <1>2, <1>5, <1>6

\* The steps that take or make something.
LEMMA WorkEase ==
    ASSUME ConsentInv, EaseInv, Undisturbed, Undisturbed', exit = "none", exit' = "none", Next,
           Create \/ Act \/ Batch \/ Each \/ InOrder \/ Refused \/ Container
    PROVE  HandsFull' /\ Fulfils' /\ Empties'
<1> DEFINE Working == LoopSteps \cup {"create", "act", "batch", "remove", "wipe"}
<1>1. /\ UNCHANGED <<inv, confirmed>> /\ RestInv /\ rest # <<>> /\ rest \in Seq(StepNames)
      /\ HandsFull /\ Fulfils /\ Empties /\ SteadyInv /\ Plain(inv, rest) /\ RemovesLast(inv, rest)
      /\ \E s \in Working : At(s)
      /\ UNCHANGED <<wedged, faults>> /\ faults \in Nat
  BY StillCalm DEF Create, Act, Batch, Each, InOrder, StopAtFirst, Refused, Container, ConsentInv, RestInv,
                   EaseInv, At, consent, SteadyInv, Steady, LoopSteps
<1>2. PICK s \in Working : At(s) /\ rest[1] = s
  BY <1>1, AtHead DEF StepNames, LoopSteps
<1>3. /\ 1 \in 1 .. Len(rest) /\ \A t \in StepNames : At(t) <=> t = s
  BY <1>1, <1>2, HeadIs DEF At
<1>4. At("each") \/ At("eachUnbound") => ~ Unserved
  BY CalmCalls
<1>5. ASSUME UNCHANGED rest, s \in LoopSteps, NEW t \in todo, Take({t}), todo' = todo \ {t}, UNCHANGED targets
      PROVE  HandsFull' /\ Fulfils' /\ Empties'
  <2>1. /\ world' = world \ {t} /\ made' = made /\ taken' = taken \cup ({t} \cap world)
        /\ confirmed' = confirmed /\ inv' = inv /\ rest' = rest
    BY <1>1, <1>5 DEF Take
  <2>2. HandsFull'
    BY <1>1, <1>5, <2>1 DEF HandsFull
  <2>3. Fulfils'
    BY <1>1, <1>5, <2>1 DEF Fulfils
  <2>4. Empties'
    BY <1>1, <1>5, <2>1 DEF Empties
  <2> QED
    BY <2>2, <2>3, <2>4
<1>6. ASSUME rest' = Tail(rest), s \in LoopSteps, todo = {}, UNCHANGED <<targets, todo, world, taken, made>>
      PROVE  HandsFull' /\ Fulfils' /\ Empties'
  <2>1. HandsFull'
    BY <1>1, <1>6 DEF HandsFull
  <2>2. rest[1] \notin {"act", "batch"} /\ rest[1] \notin {"wipe", "remove"} /\ rest[1] # "scan"
    BY <1>2, <1>6 DEF LoopSteps
  <2>3. world' \subseteq world /\ world' \ world \subseteq made' /\ made \subseteq made'
    BY <1>6
  <2>4. Fulfils'
    BY <1>1, <1>6, <2>2, <2>3, FulfilsGoes
  <2>5. Empties'
    BY <1>1, <1>6, <2>2, <2>3, EmptiesGoes
  <2> QED
    BY <2>1, <2>4, <2>5
<1>7. ASSUME rest' = Tail(rest), s \in {"act", "batch", "remove", "wipe"}, UNCHANGED <<targets, todo, made>>,
             world' \subseteq world, targets \subseteq world' \cup taken',
             s \in {"act", "batch"} => targets \cap world' = {},
             s \in {"remove", "wipe"} => world' = {}
      PROVE  HandsFull' /\ Fulfils' /\ Empties'
  <2>1. HandsFull'
    BY <1>1, <1>7 DEF HandsFull
  <2>2. rest[1] \notin Finishing \ {"act", "batch"} /\ rest[1] \notin {"scan", "empty"}
    BY <1>2, <1>7 DEF Finishing
  <2>3. world' \ world \subseteq made' /\ made \subseteq made'
    BY <1>7
  <2>4. Fulfils'
    BY <1>1, <1>2, <1>7, <2>2, <2>3, FulfilsGoes
  <2>5. Empties'
    BY <1>1, <1>7, <2>2, <2>3, EmptiesGoes
  <2> QED
    BY <2>1, <2>4, <2>5
<1>8. CASE Create
  <2>1. PICK i \in Fresh : rest' = Tail(rest) /\ Appear({i}) /\ targets' = {i}
    BY <1>8 DEF Create, Go, Finish
  <2>2. world' = world \cup {i} /\ made' = made \cup {i} /\ UNCHANGED <<todo, taken>>
    BY <1>8, <2>1 DEF Create, Appear
  <2>3. rest[1] = "create"
    BY <1>2, <1>3, <1>8 DEF Create, StepNames
  <2>4. HandsFull'
    BY <1>1, <2>1, <2>2 DEF HandsFull
  <2>5. /\ rest[1] \in Retarget /\ rest[1] \notin {"act", "batch"} /\ rest[1] \notin {"wipe", "remove"}
        /\ rest[1] \notin Finishing \ {"act", "batch"} /\ rest[1] # "scan" /\ rest[1] # "empty"
    BY <2>3 DEF Retarget, Finishing
  <2>6. world' \ world \subseteq made' /\ made \subseteq made'
    BY <2>2
  <2>7. Fulfils'
    BY <1>1, <2>1, <2>3, <2>5, <2>6, FulfilsGoes
  <2>8. Empties'
    BY <1>1, <2>1, <2>2, <2>3, <2>5, EmptiesGoes
  <2> QED
    BY <2>4, <2>7, <2>8
<1>9. CASE Act
  <2>1. rest' = Tail(rest) /\ Take(targets) /\ UNCHANGED <<targets, todo>> /\ s = "act"
    BY <1>3, <1>9 DEF Act, Go, Finish, StepNames
  <2>2. /\ world' = world \ targets /\ made' = made /\ taken' = taken \cup (targets \cap world)
    BY <2>1 DEF Take
  <2>3. targets \subseteq world' \cup taken'
    BY <1>1, <2>2 DEF HandsFull
  <2> QED
    BY <1>7, <2>1, <2>2, <2>3
<1>10. CASE Batch
  <2>1. /\ rest' = Tail(rest) /\ UNCHANGED <<targets, todo>> /\ s = "batch"
        /\ \E S \in SUBSET (targets \cap world) :
              Take(S) /\ IF S = targets \cap world THEN UNCHANGED faults ELSE faults' = faults + 1
    BY <1>3, <1>10 DEF Batch, Go, Finish, StepNames
  <2>0. PICK S \in SUBSET (targets \cap world) :
          Take(S) /\ IF S = targets \cap world THEN UNCHANGED faults ELSE faults' = faults + 1
    BY <2>1
  <2>5. S = targets \cap world
    <3>1. faults' # faults + 1
      BY <1>1
    <3> QED
      BY <2>0, <3>1
  <2>2. Take(targets \cap world)
    BY <2>0, <2>5
  <2>3. /\ world' = world \ (targets \cap world) /\ made' = made
        /\ taken' = taken \cup ((targets \cap world) \cap world)
    BY <2>2 DEF Take
  <2>4. targets \subseteq world' \cup taken' /\ targets \cap world' = {} /\ world' \subseteq world
    BY <1>1, <2>3 DEF HandsFull
  <2> QED
    BY <1>7, <2>1, <2>3, <2>4
<1>11. CASE Each
  <2>1. /\ UNCHANGED targets /\ s \in LoopSteps
        /\ \/ todo = {} /\ rest' = Tail(rest) /\ UNCHANGED <<todo, service>>
           \/ \E t \in todo : UNCHANGED rest /\ Take({t}) /\ todo' = todo \ {t}
    BY <1>2, <1>3, <1>4, <1>11 DEF Each, Go, LoopSteps, StepNames
  <2> QED
    BY <1>5, <1>6, <2>1 DEF service
<1>12. CASE InOrder
  <2>1. /\ UNCHANGED targets /\ s \in LoopSteps
        /\ \/ todo = {} /\ rest' = Tail(rest) /\ UNCHANGED <<todo, service>>
           \/ \E t \in todo : UNCHANGED rest /\ Take({t}) /\ todo' = todo \ {t}
    BY <1>2, <1>3, <1>12 DEF InOrder, StopAtFirst, Go, Finish, LoopSteps, StepNames
  <2> QED
    BY <1>5, <1>6, <2>1 DEF service
<1>13. CASE Refused
  <2>1. faults' = faults + 1
    BY <1>13 DEF Refused
  <2> QED
    BY <1>1, <2>1
<1>14. CASE Container
  <2>1. /\ rest' = Tail(rest) /\ UNCHANGED <<targets, todo>> /\ s \in {"remove", "wipe"}
        /\ \/ s = "wipe" /\ Take(Items)
           \/ s = "remove" /\ world = {} /\ UNCHANGED service
    BY <1>2, <1>3, <1>14 DEF Container, Go, Finish, StepNames
  <2>2. CASE s = "wipe" /\ Take(Items)
    <3>1. world' = world \ Items /\ made' = made /\ taken' = taken \cup (Items \cap world) /\ world \subseteq Items
      BY <2>2 DEF Take, ConsentInv, HandInv
    <3>2. world' = {} /\ targets \subseteq world' \cup taken'
      BY <1>1, <3>1 DEF HandsFull
    <3> QED
      BY <1>7, <2>1, <2>2, <3>1, <3>2
  <2>3. CASE s = "remove" /\ world = {} /\ UNCHANGED service
    BY <1>1, <1>7, <2>1, <2>3 DEF HandsFull, service
  <2> QED
    BY <2>1, <2>2, <2>3
<1> QED
  BY <1>8, <1>9, <1>10, <1>11, <1>12, <1>13, <1>14

-----------------------------------------------------------------------------
(* How a run that nothing disturbs ends.                                     *)

\* At a terminal the command then ends with an error only where that is meant.
LEMMA NoErrorAtTerminal ==
    ASSUME ConsentInv, EaseInv, Undisturbed, Undisturbed', exit = "none", exit' = "error", Next,
           ~ inv.agent, ~ inv.wait
    PROVE  inv.cmd = "rb" /\ ~ inv.extra /\ UNCHANGED world /\ world # {}
<1>1. /\ RestInv /\ SteadyInv /\ HandsFull /\ Empties
      /\ UNCHANGED faults /\ faults \in Nat
  BY StillCalm DEF ConsentInv, EaseInv
<1>2. /\ \A s \in StepNames : At(s) => rest[1] = s /\ 1 \in 1 .. Len(rest)
      /\ \A S : \A s \in S \cap StepNames : At(s) => Has(rest, S)
  <2>1. \A s \in StepNames : At(s) => rest[1] = s /\ 1 \in 1 .. Len(rest)
    BY <1>1, AtHead
  <2> QED
    BY <2>1 DEF Has
<1>3. ~ At("refuse") /\ ~ At("wait")
  <2>1. (At("refuse") => Has(rest, {"refuse"})) /\ (At("wait") => Has(rest, Waits))
    BY <1>2 DEF StepNames, Waits
  <2> QED
    BY <1>1, <2>1 DEF SteadyInv, Steady, Plain
<1>4. \A s \in Calls : At(s) => ~ Unserved /\ deadline # "lapsed"
  BY TerminalCalls
<1>5. At("fetch") \/ At("act") \/ At("batch") => targets \subseteq world
  <2>1. At("fetch") \/ At("act") \/ At("batch") => Has(rest, {"fetch", "act", "batch"})
    BY <1>2 DEF StepNames
  <2> QED
    BY <1>1, <2>1 DEF SteadyInv, HandsFull
<1>6. CASE List \/ Read \/ Create \/ Batch \/ InOrder \/ InTime
  BY <1>4, <1>6 DEF List, Read, Create, Batch, InOrder, StopAtFirst, InTime, Go, Finish, Calls
<1>7. CASE Fetch \/ Act
  BY <1>4, <1>5, <1>7 DEF Fetch, Act, Go, Finish, Calls
<1>8. CASE Refused
  BY <1>1, <1>8 DEF Refused
<1>9. CASE Check
  BY <1>1, <1>9 DEF Check, Go
<1>10. CASE Container
  <2>1. At("remove") /\ world # {} /\ UNCHANGED world
    BY <1>4, <1>10 DEF Container, Go, Finish, Calls, service
  <2>2. rest[1] = "remove" /\ 1 \in 1 .. Len(rest)
    BY <1>2, <2>1 DEF StepNames
  <2>3. inv.cmd = "rb" /\ Len(rest) = 1
    BY <1>1, <2>2 DEF SteadyInv, Steady, RemovesLast
  <2>4. ~ Has(rest, {"scan"}) /\ ~ Has(rest, {"empty"})
    BY <2>2, <2>3 DEF Has
  <2> QED
    BY <1>1, <2>1, <2>3, <2>4 DEF Empties
<1>11. CASE Wait \/ RefuseStep
  BY <1>3, <1>11 DEF Wait, RefuseStep, Go, Finish
<1>12. CASE Pick \/ Ask \/ AskVolumes \/ Menu \/ Stage
  BY <1>12 DEF Pick, Ask, AskVolumes, Menu, Stage, Esc, Rewind, Go, Finish
<1>13. CASE Return \/ Bound \/ FlagVolumes \/ Peek \/ Try \/ Each
  BY <1>13 DEF Return, Bound, FlagVolumes, Peek, Try, Each, Go, Finish
<1>14. CASE Others \/ Wedge \/ Settle
  BY <1>14 DEF Others, Wedge, Settle, command
<1> QED
  BY <1>6, <1>7, <1>8, <1>9, <1>10, <1>11, <1>12, <1>13, <1>14 DEF Next, Step, Call, Answer

\* And where it succeeds what was agreed to is made or gone.
LEMMA AllDoneAtEnd ==
    ASSUME ConsentInv, EaseInv, Undisturbed, exit = "none", exit' = "ok", Next
    PROVE  confirmed' \cap world' \subseteq made'
<1>1. CASE Return
  <2>1. rest = <<>> /\ UNCHANGED <<confirmed, world, made>> /\ \A S : ~ Has(rest, S)
    BY <1>1 DEF Return, consent, service, Has
  <2> QED
    BY <2>1 DEF EaseInv, Fulfils
<1>2. CASE List
  <2>1. world' = {}
    BY <1>2 DEF List, Go, Finish, service
  <2> QED
    BY <2>1
<1> QED
  BY <1>1, <1>2 DEF Next, Step, Call, Answer, RefuseStep, Bound, Check, InTime, FlagVolumes, Fetch,
                  Read, Peek, Try, Create, Act, Batch, Each, InOrder, Refused, Container, Wait, Pick,
                  Ask, AskVolumes, Menu, Stage, Esc, Rewind, Go, Finish, Others, Wedge, Settle, command

LEMMA InitEase ==
    ASSUME Init
    PROVE  EaseInv
<1>1. /\ inv \in Invocations(Commands) /\ rest = Plan(inv) /\ exit = "none" /\ confirmed = {}
      /\ todo = targets /\ targets \subseteq world /\ (inv.cmd \in Creations => world = {})
      /\ deadline = "none" /\ taken = {} /\ made = {} /\ faults = 0 /\ others = 0
  BY DEF Init
<1>2. PlanOrderly(inv)
  BY <1>1, PlansAreOrderly
<1>3. SteadyInv
  BY <1>1, <1>2 DEF PlanOrderly, SteadyInv, StartsSteady, PicksSteady, Has
<1>4. HandsFull /\ Fulfils
  BY <1>1 DEF HandsFull, Fulfils
<1>5. Empties /\ Unhurried
  BY <1>1, <1>2 DEF PlanOrderly, StartsSteady, Empties, Unhurried
<1>6. ThinkTimeIsFree
  BY <1>1 DEF ThinkTimeIsFree
<1> QED
  BY <1>1, <1>3, <1>4, <1>5, <1>6 DEF EaseInv

\* An agent agrees to nothing: it is asked in vain.
LEMMA AgentAgreesToNothing ==
    ASSUME ConsentInv, EaseInv, exit = "none", Next, inv'.agent
    PROVE  confirmed' = {}
<1>1. UNCHANGED inv
  BY DEF Next, Step, Call, Answer, Return, RefuseStep, Bound, Check, InTime, FlagVolumes, List, Fetch,
         Read, Peek, Try, Create, Act, Batch, Each, InOrder, Refused, Container, Wait, Pick,
         Ask, AskVolumes, Menu, Stage, Others, Wedge, Settle, command
<1>2. confirmed = {} /\ SteadyInv /\ RestInv
  BY <1>1 DEF EaseInv, ConsentInv
<1>3. ~ Stage
  <2>1. \A s \in {"stage", "confirm"} : At(s) => rest[1] = s /\ 1 \in 1 .. Len(rest)
    BY <1>2, AtHead DEF StepNames
  <2>2. At("stage") \/ At("confirm") => Has(rest, {"stage", "confirm"})
    BY <2>1 DEF Has
  <2> QED
    BY <1>1, <1>2, <2>2 DEF Stage, SteadyInv, Steady, Plain
<1> QED
  BY <1>1, <1>2, <1>3 DEF Next, Step, Call, Answer, Return, RefuseStep, Bound, Check, InTime, FlagVolumes,
         List, Fetch, Read, Peek, Try, Create, Act, Batch, Each, InOrder, Refused, Container, Wait, Pick,
         Ask, AskVolumes, Menu, Others, Wedge, Settle, consent

LEMMA EaseStep ==
    ASSUME ConsentInv, EaseInv, [Next]_vars
    PROVE  EaseInv'
<1>1. CASE UNCHANGED vars
  <2>1. /\ UNCHANGED <<inv, rest, targets, todo, deadline, exit, confirmed, world, taken, made>>
        /\ UNCHANGED <<wedged, faults, others>>
    BY <1>1 DEF vars, command, consent, service, counters
  <2>2. SteadyInv' <=> SteadyInv
    BY <2>1 DEF SteadyInv, PicksSteady
  <2>3. (HandsFull' <=> HandsFull) /\ (Fulfils' <=> Fulfils) /\ (Empties' <=> Empties) /\ (Unhurried' <=> Unhurried)
    BY <2>1 DEF HandsFull, Fulfils, Empties, Unhurried
  <2>4. (Undisturbed' <=> Undisturbed) /\ (ThinkTimeIsFree' <=> ThinkTimeIsFree)
    BY <2>1 DEF Undisturbed, ThinkTimeIsFree
  <2> QED
    BY <2>1, <2>2, <2>3, <2>4 DEF EaseInv
<1>2. CASE Next
  <2>1. CASE exit # "none"
    <3>1. UNCHANGED vars
      BY <1>2, <2>1 DEF Next, Step, Call, Answer, At, Return, RefuseStep, Bound, Check, InTime, FlagVolumes,
         List, Fetch, Read, Peek, Try, Create, Act, Batch, Each, InOrder, StopAtFirst, Refused, Container,
         Wait, Pick, Ask, AskVolumes, Menu, Stage
    <3> QED
      BY <1>1, <3>1
  <2>2. CASE exit = "none"
    <3>1. faults' \in Nat /\ others' \in Nat /\ (Undisturbed' => Undisturbed)
      BY StillCalm
    <3>2. inv'.agent => confirmed' = {}
      BY <1>2, <2>2, AgentAgreesToNothing
    <3>3. exit' = "none" => SteadyInv'
      BY <1>2, <2>2, SteadyStep DEF EaseInv
    <3>4. ASSUME Undisturbed', exit' = "none"
          PROVE  HandsFull' /\ Fulfils' /\ Empties' /\ Unhurried'
      <4>1. Undisturbed /\ UNCHANGED <<wedged, others>> /\ others \in Nat
        BY <3>4, StillCalm DEF EaseInv
      <4>2. ~ Others /\ ~ Wedge
        BY <4>1 DEF Others, Wedge
      <4>3. CASE Settle
        <5>1. UNCHANGED <<inv, rest, targets, todo, deadline, confirmed, world, taken, made>>
          BY <4>3 DEF Settle, command, consent, service
        <5> QED
          BY <2>2, <4>1, <5>1 DEF EaseInv, HandsFull, Fulfils, Empties, Unhurried
      <4>4. CASE Step
        <5>1. Unhurried'
          BY <2>2, <3>4, <4>1, <4>4, UnhurriedStep
        <5>2. ~ Return
          BY <3>4 DEF Return
        <5>3. HandsFull' /\ Fulfils' /\ Empties'
          BY <1>2, <2>2, <3>4, <4>1, <4>4, <5>2, QuietEase, HandEase, WorkEase DEF Step, Call, Answer
        <5> QED
          BY <5>1, <5>3
      <4> QED
        BY <1>2, <4>2, <4>3, <4>4 DEF Next
    <3>5. ThinkTimeIsFree'
      <4>1. ASSUME Undisturbed', exit' = "error"
            PROVE  inv'.agent \/ inv'.wait \/ (inv'.cmd = "rb" /\ ~ inv'.extra /\ world' # {})
        <5>1. UNCHANGED inv
          BY <1>2 DEF Next, Step, Call, Answer, Return, RefuseStep, Bound, Check, InTime, FlagVolumes, List,
             Fetch, Read, Peek, Try, Create, Act, Batch, Each, InOrder, Refused, Container, Wait, Pick,
             Ask, AskVolumes, Menu, Stage, Others, Wedge, Settle, command
        <5> QED
          BY <1>2, <2>2, <3>1, <4>1, <5>1, NoErrorAtTerminal
      <4>2. Undisturbed' /\ exit' = "ok" => confirmed' \cap world' \subseteq made'
        BY <1>2, <2>2, <3>1, AllDoneAtEnd
      <4> QED
        BY <4>1, <4>2 DEF ThinkTimeIsFree
    <3> QED
      BY <3>1, <3>2, <3>3, <3>4, <3>5 DEF EaseInv
  <2> QED
    BY <2>1, <2>2
<1> QED
  BY <1>1, <1>2

\* A run at a terminal that nothing disturbs does what the user agreed to, however
\* long the answers take: no call is left with a deadline that ran while the user
\* was thinking.  Checked on two items by the run Commands.
THEOREM ThinkingIsFree == Spec => []ThinkTimeIsFree
<1>1. Init => ConsentInv /\ EaseInv
  BY InitConsents, InitEase
<1>2. ConsentInv /\ EaseInv /\ [Next]_vars => ConsentInv' /\ EaseInv'
  BY ConsentStep, EaseStep
<1>3. EaseInv => ThinkTimeIsFree
  BY DEF EaseInv
<1> QED
  BY <1>1, <1>2, <1>3, PTL DEF Spec

=============================================================================

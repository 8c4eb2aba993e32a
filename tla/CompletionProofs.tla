--------------------------- MODULE CompletionProofs --------------------------
(***************************************************************************)
(* Two facts about completion, for every vocabulary, every question and    *)
(* every number of keys.                                                   *)
(*                                                                         *)
(* The cache: what an engine remembers under a question was answered to    *)
(* it.  The answer is filed under engine.key when it is polled, long after *)
(* the request that set the key, so the induction follows every request    *)
(* through the queue, the worker and the results: ids are fresh (IdsUsed), *)
(* and what carries the id in flight carries the key's question (KeyFits). *)
(*                                                                         *)
(* Typing: once the keys have changed the line, what is pending was asked  *)
(* for by the live filter, whose answers are never accepted.               *)
(***************************************************************************)
EXTENDS Completion, WellFoundedInduction, TLAPS

\* The queue and the results are sequences, the engine is a record.
Shapes ==
  /\ \E S : jobs \in Seq(S)
  /\ \E S : results \in Seq(S)
  /\ DOMAIN engine = {"inflight", "key", "ready", "next", "cache"}
  /\ engine.next \in Nat /\ engine.inflight \in Nat

Used(id) == id \in Nat /\ id < engine.next
Fits(r) == engine.key # Nothing /\ r.id = engine.inflight => r.q = engine.key.q

IdsUsed ==
  /\ Used(engine.inflight)
  /\ \A i \in DOMAIN jobs : Used(jobs[i].id)
  /\ running # Nothing => Used(running.id)
  /\ \A i \in DOMAIN results : Used(results[i].id)

KeyFits ==
  /\ \A i \in DOMAIN jobs : Fits(jobs[i])
  /\ running # Nothing => Fits(running)
  /\ \A i \in DOMAIN results : Fits(results[i])

CacheInv == Shapes /\ IdsUsed /\ KeyFits /\ CacheFitsTheQuestion

-----------------------------------------------------------------------------
(* The newest of some results: a bounded set of numbers has a largest.     *)

\* The naturals are well-ordered.
LEMMA LeastOf ==
  ASSUME NEW T \in SUBSET Nat, T # {}
  PROVE  \E t \in T : \A u \in T : t <= u
<1> DEFINE R == OpToRel(<, Nat)
<1>1. \A x, y \in Nat : <<x, y>> \in R <=> x < y
  BY DEF OpToRel
<1>2. IsWellFoundedOn(R, Nat)
  BY NatLessThanWellFounded
<1> HIDE DEF R
<1>3. PICK t \in T : \A u \in T : ~(<<u, t>> \in R)
  BY <1>2, WFMin
<1>4. ASSUME NEW u \in T PROVE t <= u
  <2>1. <<u, t>> \in R <=> u < t
    BY <1>1
  <2>2. ~(u < t)
    BY <1>3, <2>1
  <2>3. QED BY <2>2
<1>5. QED BY <1>4

\* The greatest of some of the first numbers is one of them.
LEMMA MaxIsThere ==
  ASSUME NEW n \in Nat, NEW S \in SUBSET (1..n), S # {}
  PROVE  Max(S) \in S
<1> DEFINE T == {m \in 0..n : n - m \in S}
<1>1. T \in SUBSET Nat
  OBVIOUS
<1>2. T # {}
  <2>1. PICK k \in S : TRUE
    OBVIOUS
  <2>2. n - k \in T
    BY <2>1
  <2>3. QED BY <2>2
<1>3. PICK t \in T : \A u \in T : t <= u
  <2> HIDE DEF T
  <2>1. QED BY <1>1, <1>2, LeastOf
<1>4. \A k \in S : k <= n - t
  <2> TAKE k \in S
  <2>1. n - k \in T
    OBVIOUS
  <2>2. t <= n - k
    BY <1>3, <2>1
  <2>3. QED BY <2>2
<1>5. n - t \in S
  OBVIOUS
<1>6. QED BY <1>4, <1>5 DEF Max

\* What appending does to a sequence, whatever its elements.
LEMMA AppendAny ==
  ASSUME NEW S, NEW s \in Seq(S), NEW x
  PROVE  /\ Append(s, x) \in Seq(S \cup {x})
         /\ DOMAIN Append(s, x) = 1..Len(s) + 1
         /\ DOMAIN s = 1..Len(s) /\ Len(s) \in Nat
         /\ \A i \in DOMAIN s : Append(s, x)[i] = s[i]
         /\ Append(s, x)[Len(s) + 1] = x
<1>1. s \in Seq(S \cup {x}) /\ x \in S \cup {x}
  OBVIOUS
<1>2. QED BY <1>1

-----------------------------------------------------------------------------
(* Each way the engine, its queue and its worker may change.               *)

engineQueues == <<engine, jobs, running, results>>

\* Steps that leave the engine's queues alone keep what the cache holds right.
LEMMA EngineIdle ==
  ASSUME CacheInv, UNCHANGED engineQueues
  PROVE  CacheInv'
BY DEF CacheInv, Shapes, IdsUsed, KeyFits, Used, Fits, CacheFitsTheQuestion, engineQueues

\* A request takes a new id; on a miss it becomes the key.
LEMMA AskEngineKeeps ==
  ASSUME CacheInv, NEW q, AskEngine(q)
  PROVE  CacheInv'
<1>1. UNCHANGED <<running, results>> /\ engine' = Requested(engine, q)
  BY DEF AskEngine
<1>2. /\ DOMAIN engine = {"inflight", "key", "ready", "next", "cache"}
      /\ engine.next \in Nat /\ engine.inflight \in Nat
  BY DEF CacheInv, Shapes
<1>3. /\ DOMAIN engine' = DOMAIN engine /\ engine'.next = engine.next + 1
      /\ engine'.inflight = engine.next /\ engine'.cache = engine.cache
  BY <1>1, <1>2 DEF Requested
<1>4. CacheFitsTheQuestion' /\ Used(engine.inflight)'
  BY <1>2, <1>3 DEF CacheInv, CacheFitsTheQuestion, Used
<1>5. \A id : Used(id) => Used(id)' /\ id # engine'.inflight
  BY <1>2, <1>3 DEF Used
<1>6. /\ running' # Nothing => Used(running.id)' /\ Fits(running)'
      /\ \A i \in DOMAIN results' : Used(results[i].id)' /\ Fits(results[i])'
  BY <1>1, <1>5 DEF CacheInv, IdsUsed, Fits
<1>7. CASE q \in DOMAIN engine.cache
  <2>1. jobs' = jobs
    BY <1>7 DEF AskEngine
  <2>2. \A i \in DOMAIN jobs' : Used(jobs[i].id)' /\ Fits(jobs[i])'
    BY <2>1, <1>5 DEF CacheInv, IdsUsed, Fits
  <2>3. QED BY <2>1, <2>2, <1>1, <1>2, <1>3, <1>4, <1>6
            DEF CacheInv, Shapes, IdsUsed, KeyFits
<1>8. CASE q \notin DOMAIN engine.cache
  <2> DEFINE job == [id |-> engine.next, q |-> q]
  <2>1. jobs' = Append(jobs, job) /\ engine'.key = [q |-> q]
    BY <1>1, <1>2, <1>8 DEF AskEngine, Requested
  <2>2. PICK S : jobs \in Seq(S)
    BY DEF CacheInv, Shapes
  <2>3. /\ jobs' \in Seq(S \cup {job})
        /\ DOMAIN jobs' = 1..Len(jobs) + 1 /\ DOMAIN jobs = 1..Len(jobs) /\ Len(jobs) \in Nat
        /\ \A i \in DOMAIN jobs : jobs'[i] = jobs[i]
        /\ jobs'[Len(jobs) + 1] = job
    <3> HIDE DEF job
    <3>1. QED BY <2>1, <2>2, AppendAny
  <2>4. \A i \in DOMAIN jobs' : Used(jobs[i].id)' /\ Fits(jobs[i])'
    <3> SUFFICES ASSUME NEW i \in DOMAIN jobs' PROVE Used(jobs[i].id)' /\ Fits(jobs[i])'
      OBVIOUS
    <3>1. CASE i \in DOMAIN jobs
      BY <3>1, <2>3, <1>5 DEF CacheInv, IdsUsed, Fits
    <3>2. CASE i = Len(jobs) + 1
      BY <3>2, <2>1, <2>3, <1>2, <1>3 DEF Used, Fits
    <3>3. QED BY <3>1, <3>2, <2>3
  <2>5. QED BY <2>3, <2>4, <1>1, <1>2, <1>3, <1>4, <1>6
            DEF CacheInv, Shapes, IdsUsed, KeyFits
<1>9. QED BY <1>7, <1>8

\* The worker takes the newest job and drops the others.
LEMMA WorkerTakesKeeps ==
  ASSUME CacheInv, WorkerTakes
  PROVE  CacheInv'
<1>1. jobs # <<>> /\ running' = Last(jobs) /\ jobs' = <<>> /\ UNCHANGED <<engine, results>>
  BY DEF WorkerTakes
<1>2. PICK S : jobs \in Seq(S)
  BY DEF CacheInv, Shapes
<1>3. Last(jobs) = jobs[Len(jobs)] /\ Len(jobs) \in DOMAIN jobs
  BY <1>1, <1>2 DEF Last
<1>4. Used(running.id)' /\ Fits(running)'
  BY <1>1, <1>3 DEF CacheInv, IdsUsed, KeyFits, Used, Fits
<1>5. jobs' \in Seq(S) /\ DOMAIN jobs' = {}
  BY <1>1
<1>6. QED BY <1>1, <1>4, <1>5
          DEF CacheInv, Shapes, IdsUsed, KeyFits, CacheFitsTheQuestion, Used, Fits

\* Its answer keeps the id and the question of the job.
LEMMA WorkerAnswersKeeps ==
  ASSUME CacheInv, WorkerAnswers
  PROVE  CacheInv'
<1>1. running # Nothing /\ running' = Nothing /\ UNCHANGED <<engine, jobs>>
  BY DEF WorkerAnswers
<1>2. PICK a : results' = Append(results, [id |-> running.id, q |-> running.q, items |-> a])
  BY DEF WorkerAnswers
<1> DEFINE result == [id |-> running.id, q |-> running.q, items |-> a]
<1>3. PICK S : results \in Seq(S)
  BY DEF CacheInv, Shapes
<1>4. /\ results' \in Seq(S \cup {result})
      /\ DOMAIN results' = 1..Len(results) + 1
      /\ DOMAIN results = 1..Len(results) /\ Len(results) \in Nat
      /\ \A i \in DOMAIN results : results'[i] = results[i]
      /\ results'[Len(results) + 1] = result
  <2>1. results' = Append(results, result)
    BY <1>2
  <2> HIDE DEF result
  <2>2. QED BY <2>1, <1>3, AppendAny
<1>5. result.id = running.id /\ result.q = running.q
  OBVIOUS
<1>6. \A i \in DOMAIN results' : Used(results[i].id)' /\ Fits(results[i])'
  <2> HIDE DEF result
  <2> SUFFICES ASSUME NEW i \in DOMAIN results'
               PROVE  Used(results[i].id)' /\ Fits(results[i])'
    OBVIOUS
  <2>1. CASE i \in DOMAIN results
    BY <2>1, <1>1, <1>4 DEF CacheInv, IdsUsed, KeyFits, Used, Fits
  <2>2. CASE i = Len(results) + 1
    BY <2>2, <1>1, <1>4, <1>5 DEF CacheInv, IdsUsed, KeyFits, Used, Fits
  <2>3. QED BY <2>1, <2>2, <1>4
<1>7. QED BY <1>1, <1>4, <1>6
          DEF CacheInv, Shapes, IdsUsed, KeyFits, CacheFitsTheQuestion, Used, Fits

\* An answer that expires is forgotten, the others stay.
LEMMA ExpiresKeeps ==
  ASSUME CacheInv, Expires
  PROVE  CacheInv'
<1>1. UNCHANGED <<jobs, running, results>>
  BY DEF Expires
<1>2. PICK q \in DOMAIN engine.cache :
        engine' = [engine EXCEPT !.cache = Restrict(@, DOMAIN @ \ {q})]
  BY DEF Expires
<1>3. DOMAIN engine = {"inflight", "key", "ready", "next", "cache"}
  BY DEF CacheInv, Shapes
<1>4. /\ DOMAIN engine' = DOMAIN engine /\ engine'.next = engine.next
      /\ engine'.inflight = engine.inflight /\ engine'.key = engine.key
      /\ engine'.cache = Restrict(engine.cache, DOMAIN engine.cache \ {q})
  BY <1>2, <1>3
<1>5. CacheFitsTheQuestion'
  BY <1>4 DEF CacheInv, CacheFitsTheQuestion, Restrict
<1>6. QED BY <1>1, <1>3, <1>4, <1>5 DEF CacheInv, Shapes, IdsUsed, KeyFits, Used, Fits

\* A poll files the newest answer to the request in flight under the key.
LEMMA PollKeeps ==
  ASSUME CacheInv, Poll, UNCHANGED <<jobs, running>>
  PROVE  CacheInv'
<1>1. DOMAIN engine = {"inflight", "key", "ready", "next", "cache"}
  BY DEF CacheInv, Shapes
<1>2. CASE engine.ready # Nothing
  <2>1. engine' = [engine EXCEPT !.ready = Nothing] /\ UNCHANGED results
    BY <1>2 DEF Poll
  <2>2. /\ DOMAIN engine' = DOMAIN engine /\ engine'.next = engine.next
        /\ engine'.inflight = engine.inflight /\ engine'.key = engine.key
        /\ engine'.cache = engine.cache
    BY <2>1, <1>1
  <2>3. QED BY <2>1, <2>2
            DEF CacheInv, Shapes, IdsUsed, KeyFits, CacheFitsTheQuestion, Used, Fits
<1>3. CASE engine.ready = Nothing
  <2>1. results' = <<>>
    BY <1>3 DEF Poll
  <2>2. results' \in Seq({}) /\ DOMAIN results' = {}
    BY <2>1
  <2>3. CASE FreshAt = {} \/ Newest.items = {} \/ engine.key = Nothing
    <3>1. engine' = engine
      BY <1>3, <2>3 DEF Poll
    <3>2. QED BY <3>1, <2>2
              DEF CacheInv, Shapes, IdsUsed, KeyFits, CacheFitsTheQuestion, Used, Fits
  <2>4. CASE ~(FreshAt = {} \/ Newest.items = {} \/ engine.key = Nothing)
    <3> DEFINE answer == [q |-> Newest.q, items |-> Newest.items]
    <3>1. engine' = [engine EXCEPT !.key = Nothing,
                                   !.cache = Remembered(@, engine.key.q, answer)]
      BY <1>3, <2>4 DEF Poll
    <3>2. /\ DOMAIN engine' = DOMAIN engine /\ engine'.next = engine.next
          /\ engine'.inflight = engine.inflight /\ engine'.key = Nothing
          /\ engine'.cache = Remembered(engine.cache, engine.key.q, answer)
      <4> HIDE DEF answer
      <4>1. QED BY <3>1, <1>1
    <3>3. Newest.q = engine.key.q
      <4>1. PICK S : results \in Seq(S)
        BY DEF CacheInv, Shapes
      <4>2. FreshAt \in SUBSET (1..Len(results)) /\ Len(results) \in Nat
        BY <4>1 DEF FreshAt
      <4>3. Max(FreshAt) \in FreshAt
        BY <4>2, <2>4, MaxIsThere
      <4>4. QED BY <4>3, <2>4 DEF Newest, FreshAt, CacheInv, KeyFits, Fits
    <3>4. CacheFitsTheQuestion'
      <4>1. answer.q = engine.key.q
        BY <3>3
      <4> HIDE DEF answer
      <4>2. \A q \in DOMAIN engine'.cache :
              engine'.cache[q] = IF q = engine.key.q THEN answer ELSE engine.cache[q]
        BY <3>2 DEF Remembered
      <4>3. \A q \in DOMAIN engine'.cache : q = engine.key.q \/ q \in DOMAIN engine.cache
        BY <3>2 DEF Remembered
      <4>4. QED BY <4>1, <4>2, <4>3 DEF CacheInv, CacheFitsTheQuestion
    <3>5. QED BY <2>2, <3>2, <3>4 DEF CacheInv, Shapes, IdsUsed, KeyFits, Used, Fits
  <2>5. QED BY <2>3, <2>4
<1>4. QED BY <1>2, <1>3

\* An answer taken is filed under its own question.
LEMMA TakeAnswerKeeps ==
  ASSUME CacheInv, TakeAnswer, UNCHANGED <<jobs, running>>
  PROVE  CacheInv'
<1>1. CASE reply # Nothing
  BY <1>1, EngineIdle DEF TakeAnswer, engineQueues
<1>2. CASE reply = Nothing
  BY <1>2, PollKeeps DEF TakeAnswer
<1>3. QED BY <1>1, <1>2

-----------------------------------------------------------------------------

\* A request asked under a new id keeps the ids apart.
LEMMA AskKeeps ==
  ASSUME CacheInv, NEW q, Ask(q)
  PROVE  CacheInv'
<1>1. CASE ToTool(q)
  <2>1. CASE AskEngine(q)
    BY <2>1, AskEngineKeeps
  <2>2. CASE AskNothing
    BY <2>2, EngineIdle DEF AskNothing, engineVars, engineQueues
  <2>3. QED BY <1>1, <2>1, <2>2 DEF Ask
<1>2. CASE ~ToTool(q)
  BY <1>2, EngineIdle DEF Ask, AskShell, engineVars, engineQueues
<1>3. QED BY <1>1, <1>2

\* Every step keeps the cache right.
LEMMA CacheStep == CacheInv /\ [CompletionNext]_completionVars => CacheInv'
<1> SUFFICES ASSUME CacheInv, [CompletionNext]_completionVars PROVE CacheInv'
  OBVIOUS
<1>1. CASE \/ ReplyLands \/ TimesOut \/ PromptReturns \/ ClickRow \/ PressText \/ Look
           \/ Escape \/ Enter \/ TabOnPopup \/ Turn \/ Type \/ Submit
  <2>1. UNCHANGED engineQueues
    BY <1>1 DEF ReplyLands, TimesOut, PromptReturns, ClickRow, PressText, Mouse, Look, Escape,
                Enter, TabOnPopup, Turn, Type, Submit, AskNothing, engineVars, engineQueues
  <2>2. QED BY <2>1, EngineIdle
<1>2. CASE WorkerTakes
  BY <1>2, WorkerTakesKeeps
<1>3. CASE WorkerAnswers
  BY <1>3, WorkerAnswersKeeps
<1>4. CASE Expires
  BY <1>4, ExpiresKeeps
<1>5. CASE Paint
  <2>1. UNCHANGED <<jobs, running>>
    BY <1>5 DEF Paint
  <2>2. TakeAnswer \/ UNCHANGED <<engine, results>>
    BY <1>5 DEF Paint, PaintResolves
  <2>3. QED BY <2>1, <2>2, TakeAnswerKeeps, EngineIdle DEF engineQueues
<1>6. CASE Tab
  <2>1. Ask(Question(buf)) \/ UNCHANGED engineQueues
    BY <1>6 DEF Tab, AskNothing, engineVars, engineQueues
  <2>2. QED BY <2>1, AskKeeps, EngineIdle
<1>7. CASE EndFrame
  <2>1. Ask(Question(buf)) \/ UNCHANGED engineQueues
    BY <1>7 DEF EndFrame, LiveFilter, AskNothing, engineVars, engineQueues
  <2>2. QED BY <2>1, AskKeeps, EngineIdle
<1>8. CASE UNCHANGED completionVars
  BY <1>8, EngineIdle DEF completionVars, engineVars, engineQueues
<1>9. QED BY <1>1, <1>2, <1>3, <1>4, <1>5, <1>6, <1>7, <1>8 DEF CompletionNext

\* It is empty at first.
LEMMA CacheStarts == CompletionInit => CacheInv
<1> SUFFICES ASSUME CompletionInit PROVE CacheInv
  OBVIOUS
<1>1. /\ engine = [inflight |-> 0, key |-> Nothing, ready |-> Nothing, next |-> 1, cache |-> << >>]
      /\ jobs = <<>> /\ running = Nothing /\ results = <<>>
  BY DEF CompletionInit
<1>2. <<>> \in Seq({}) /\ DOMAIN <<>> = {}
  OBVIOUS
<1>3. QED BY <1>1, <1>2
          DEF CacheInv, Shapes, IdsUsed, KeyFits, CacheFitsTheQuestion, Used, Fits

\* What the engine remembers for a question is an answer to that question,
\* however requests, hits, coalesced jobs and late results interleave
\* (CompletionDriverEngine::request and poll).
THEOREM CacheHoldsAnswers == CompletionSpec => []CacheFitsTheQuestion
<1>1. CacheInv => CacheFitsTheQuestion
  BY DEF CacheInv
<1>2. QED BY <1>1, CacheStarts, CacheStep, PTL DEF CompletionSpec

-----------------------------------------------------------------------------
(* What typing asks for is never accepted by itself.                       *)

\* After the keys have changed the line at the prompt, nothing that Tab asked
\* for is pending.
TypingInv == typed /\ mode = "prompt" /\ pending # Nothing => pending.tab = FALSE

\* Every step keeps what is typed from being accepted.
LEMMA TypingStep ==
  ASSUME ~Uses("fast"), TypingInv, [CompletionNext]_completionVars
  PROVE  TypingInv'
<1>1. CASE \/ ReplyLands \/ TimesOut \/ WorkerTakes \/ WorkerAnswers \/ Expires \/ ClickRow
           \/ PressText \/ Look \/ Escape \/ Enter \/ TabOnPopup \/ Turn \/ Type
           \/ UNCHANGED completionVars
  <2>1. UNCHANGED <<mode, typed>> /\ (pending' = pending \/ pending' = Nothing)
    BY <1>1 DEF ReplyLands, TimesOut, WorkerTakes, WorkerAnswers, Expires, ClickRow, PressText,
                Mouse, Look, Escape, Enter, TabOnPopup, Turn, Type, completionVars
  <2>2. QED BY <2>1 DEF TypingInv
<1>2. CASE PromptReturns
  <2>1. pending' = Nothing
    BY <1>2 DEF PromptReturns
  <2>2. QED BY <2>1 DEF TypingInv
<1>3. CASE Paint
  <2>1. UNCHANGED <<mode, typed>> /\ (pending' = pending \/ pending' = Nothing)
    BY <1>3 DEF Paint, PaintResolves
  <2>2. QED BY <2>1 DEF TypingInv
<1>4. CASE Tab
  BY <1>4 DEF Tab, TypingInv
<1>5. CASE Submit
  BY <1>5 DEF Submit, TypingInv
<1>6. CASE EndFrame
  <2>1. CASE pending' = pending /\ buf = frame.before
    BY <1>6, <2>1 DEF EndFrame, TypingInv
  <2>2. CASE pending' = pending /\ buf # frame.before /\ ~(mode = "prompt" /\ pending # Nothing)
    BY <1>6, <2>2 DEF EndFrame, TypingInv
  <2>3. CASE pending' = Nothing \/ pending' = PendingFor(Question(buf), FALSE)
    BY <2>3 DEF PendingFor, TypingInv
  <2>4. QED BY <1>6, <2>1, <2>2, <2>3 DEF EndFrame, LiveFilter
<1>7. QED BY <1>1, <1>2, <1>3, <1>4, <1>5, <1>6 DEF CompletionNext

\* For every run in which a command takes at least a frame: no answer is put
\* into the line once the keys have changed it since Tab (show_or_autoaccept).
THEOREM TypingIsSafe ==
  ASSUME ~Uses("fast")
  PROVE  CompletionSpec => TypingNeverAccepts
<1>1. CompletionInit => TypingInv
  BY DEF CompletionInit, TypingInv
<1>2. TypingInv /\ [CompletionNext]_completionVars => TypingInv'
  BY TypingStep
<1>3. TypingInv /\ [CompletionNext]_completionVars
        => [Paint /\ buf' # buf => ~typed]_completionVars
  <2> SUFFICES ASSUME TypingInv, Paint, buf' # buf PROVE ~typed
    OBVIOUS
  <2>1. mode = "prompt" /\ pending # Nothing /\ PaintResolves
    BY DEF Paint
  <2>2. pending.tab # FALSE
    BY <2>1 DEF PaintResolves, Show, AutoAccepts
  <2>3. QED BY <2>1, <2>2 DEF TypingInv
<1>4. QED BY <1>1, <1>2, <1>3, PTL DEF CompletionSpec, TypingNeverAccepts
=============================================================================

--------------------------- MODULE FeedbackProofs ---------------------------
(***************************************************************************)
(* Theorems about Feedback, for any clients, threads and jobs and any      *)
(* limits: the rate limit, the feedback table, the feedback window and the *)
(* windows and slices of the telemetry.                                    *)
(***************************************************************************)
EXTENDS Feedback, NumberLemmas, FiniteSetTheorems

(* RateBound *)

Ages == 0 .. RateWindow + 1

\* The deque holds the last of the requests that were let in, with their ages,
\* and whatever is no longer in it is out of the window.
Suffix(deque, history) ==
    LET gone == Len(history) - Len(deque) IN
    /\ gone \in Nat
    /\ \A i \in 1 .. Len(deque) : deque[i] = history[gone + i]
    /\ \A i \in 1 .. gone : history[i] > RateWindow

RateInvariant ==
    /\ recent \in Seq(Ages) /\ Len(recent) <= RateLimit
    /\ admitted \in Seq(Ages) /\ Len(admitted) <= RateLimit + 1
    /\ Suffix(recent, admitted)

\* The popleft loop ends: there is a first entry that stays, or none does.
LEMMA PopOldIs ==
    ASSUME NEW ages \in Seq(Ages), NEW limit \in Int
    PROVE  \E first \in 1 .. Len(ages) + 1 :
              /\ PopOld(ages, limit) = SubSeq(ages, first, Len(ages))
              /\ \A k \in 1 .. first - 1 : ages[k] > limit
  <1> DEFINE n == Len(ages)
             T == {i \in 1 .. n + 1 : i <= n => ages[i] <= limit}
             Stops(i) == /\ \A k \in 1 .. i - 1 : ages[k] > limit
                         /\ i <= n => ages[i] <= limit
  <1>1. /\ n \in Nat
        /\ \A i \in 1 .. n : ages[i] \in Int
    BY FeedbackAssumption DEF Ages
  <1>2. T \subseteq Nat /\ n + 1 \in T
    BY <1>1
  <1>3. PICK first \in T : \A i \in T : first <= i
    <2> HIDE DEF T
    <2> QED
      BY <1>2, LeastNatural
  <1>4. \A k \in 1 .. first - 1 : ages[k] > limit
    <2> SUFFICES ASSUME NEW k \in 1 .. first - 1 PROVE ages[k] > limit
      OBVIOUS
    <2>1. k \in 1 .. n /\ ~ (first <= k)
      BY <1>1, <1>3
    <2>2. k \notin T
      BY <1>3, <2>1
    <2> QED
      BY <1>1, <2>1, <2>2
  <1>5. first \in 1 .. n + 1 /\ Stops(first)
    BY <1>3, <1>4
  <1> DEFINE chosen == CHOOSE i \in 1 .. n + 1 : Stops(i)
  <1>6. chosen \in 1 .. n + 1 /\ Stops(chosen)
    BY <1>5
  <1>7. PopOld(ages, limit) = SubSeq(ages, chosen, n)
    BY DEF PopOld
  <1> QED
    BY <1>6, <1>7

\* What the loop leaves is still the end of the history.
LEMMA KeptIsSuffix ==
    ASSUME RateInvariant
    PROVE  LET kept == KeepRecent(recent) IN
              /\ kept \in Seq(Ages)
              /\ Len(kept) <= Len(recent)
              /\ Suffix(kept, admitted)
  <1>1. RateWindow \in Int
    BY FeedbackAssumption
  <1>2. PICK first \in 1 .. Len(recent) + 1 :
           /\ PopOld(recent, RateWindow) = SubSeq(recent, first, Len(recent))
           /\ \A k \in 1 .. first - 1 : recent[k] > RateWindow
    BY <1>1, PopOldIs DEF RateInvariant
  <1> DEFINE kept == KeepRecent(recent)
             gone == Len(admitted) - Len(recent)
  <1>3. /\ recent \in Seq(Ages) /\ admitted \in Seq(Ages)
        /\ Len(recent) \in Nat /\ Len(admitted) \in Nat
        /\ gone \in Nat
        /\ \A i \in 1 .. Len(recent) : recent[i] = admitted[gone + i]
        /\ \A i \in 1 .. gone : admitted[i] > RateWindow
    BY DEF RateInvariant, Suffix
  <1>4. kept = SubSeq(recent, first, Len(recent))
    BY <1>2 DEF KeepRecent
  <1>5. /\ kept \in Seq(Ages)
        /\ Len(kept) = Len(recent) + 1 - first
        /\ \A i \in 1 .. Len(kept) : kept[i] = recent[first - 1 + i]
    BY <1>3, <1>4
  <1> HIDE DEF kept
  <1> DEFINE more == Len(admitted) - Len(kept)
  <1>6. more = gone + first - 1 /\ more \in Nat
    BY <1>3, <1>5
  <1>7. ASSUME NEW i \in 1 .. Len(kept) PROVE kept[i] = admitted[more + i]
    <2>1. first - 1 + i \in 1 .. Len(recent)
      BY <1>3, <1>5
    <2>2. gone + (first - 1 + i) = more + i
      BY <1>3, <1>5, <1>6
    <2>3. recent[first - 1 + i] = admitted[gone + (first - 1 + i)]
      BY <1>3, <2>1
    <2>4. kept[i] = recent[first - 1 + i]
      BY <1>5
    <2> QED
      BY <2>2, <2>3, <2>4
  <1>8. ASSUME NEW i \in 1 .. more PROVE admitted[i] > RateWindow
    <2>1. CASE i <= gone
      BY <1>3, <1>6, <2>1
    <2>2. CASE i > gone
      <3>1. i - gone \in 1 .. first - 1 /\ i - gone \in 1 .. Len(recent)
        BY <1>3, <1>6, <2>2
      <3>2. admitted[gone + (i - gone)] = recent[i - gone]
        BY <1>3, <3>1
      <3>3. gone + (i - gone) = i
        BY <1>3, <1>6
      <3> QED
        BY <1>2, <3>1, <3>2, <3>3
    <2> QED
      BY <1>3, <1>6, <2>1, <2>2
  <1>9. Suffix(kept, admitted)
    BY <1>6, <1>7, <1>8 DEF Suffix
  <1>10. Len(kept) <= Len(recent)
    BY <1>3, <1>5
  <1> QED
    BY <1>5, <1>9, <1>10 DEF kept

\* A request that is let in is the last of both.
LEMMA LetInKeepsRate ==
    ASSUME RateInvariant, NEW c \in Clients, LetIn(c)
    PROVE  RateInvariant'
  <1> DEFINE kept == KeepRecent(recent)
             past == IF Len(admitted) > RateLimit THEN Tail(admitted) ELSE admitted
  <1>1. /\ kept \in Seq(Ages) /\ Len(kept) < RateLimit /\ Len(kept) \in Nat
        /\ Suffix(kept, admitted)
    BY KeptIsSuffix DEF LetIn
  <1>2. recent' = Append(kept, 0) /\ admitted' = Append(past, 0)
    BY DEF LetIn, Remember
  <1> HIDE DEF kept
  <1>3. /\ RateLimit \in Nat /\ RateWindow \in Nat
        /\ 0 \in Ages
        /\ admitted \in Seq(Ages) /\ Len(admitted) <= RateLimit + 1 /\ Len(admitted) \in Nat
    BY FeedbackAssumption DEF RateInvariant, Ages
  <1>4. /\ past \in Seq(Ages) /\ Len(past) \in Nat /\ Len(past) <= RateLimit
        /\ Suffix(kept, past)
    <2>1. CASE Len(admitted) > RateLimit
      <3>1. /\ past \in Seq(Ages) /\ Len(past) = Len(admitted) - 1
            /\ \A i \in 1 .. Len(past) : past[i] = admitted[i + 1]
        BY <1>3, <2>1
      <3> HIDE DEF past
      <3> DEFINE gone == Len(admitted) - Len(kept)
                 left == Len(past) - Len(kept)
      <3>2. left = gone - 1 /\ left \in Nat /\ gone \in Nat
        BY <1>1, <1>3, <2>1, <3>1
      <3>3. ASSUME NEW i \in 1 .. Len(kept) PROVE kept[i] = past[left + i]
        <4>1. left + i \in 1 .. Len(past) /\ (left + i) + 1 = gone + i
          BY <1>1, <1>3, <3>1, <3>2
        <4>2. kept[i] = admitted[gone + i]
          BY <1>1 DEF Suffix
        <4> QED
          BY <3>1, <4>1, <4>2
      <3>4. ASSUME NEW i \in 1 .. left PROVE past[i] > RateWindow
        <4>1. i + 1 \in 1 .. gone /\ i \in 1 .. Len(past)
          BY <1>1, <1>3, <3>1, <3>2
        <4>2. admitted[i + 1] > RateWindow
          BY <1>1, <4>1 DEF Suffix
        <4> QED
          BY <3>1, <4>1, <4>2
      <3> QED
        BY <1>3, <2>1, <3>1, <3>2, <3>3, <3>4 DEF Suffix
    <2>2. CASE ~ (Len(admitted) > RateLimit)
      BY <1>1, <1>3, <2>2
    <2> QED
      BY <2>1, <2>2
  <1> HIDE DEF past
  <1>5. /\ recent' \in Seq(Ages) /\ Len(recent') = Len(kept) + 1
        /\ \A i \in 1 .. Len(recent') : recent'[i] = IF i <= Len(kept) THEN kept[i] ELSE 0
    BY <1>1, <1>2, <1>3
  <1>6. /\ admitted' \in Seq(Ages) /\ Len(admitted') = Len(past) + 1
        /\ \A i \in 1 .. Len(admitted') : admitted'[i] = IF i <= Len(past) THEN past[i] ELSE 0
    BY <1>2, <1>3, <1>4
  <1>7. Suffix(recent', admitted')
    <2> DEFINE gone == Len(past) - Len(kept)
    <2>1. Len(admitted') - Len(recent') = gone /\ gone \in Nat
      BY <1>1, <1>4, <1>5, <1>6 DEF Suffix
    <2>2. ASSUME NEW i \in 1 .. Len(recent') PROVE recent'[i] = admitted'[gone + i]
      <3>1. gone + i \in 1 .. Len(admitted') /\ (gone + i <= Len(past) <=> i <= Len(kept))
        BY <1>1, <1>4, <1>5, <1>6, <2>1
      <3>2. i <= Len(kept) => kept[i] = past[gone + i]
        BY <1>4 DEF Suffix
      <3> QED
        BY <1>5, <1>6, <3>1, <3>2
    <2>3. ASSUME NEW i \in 1 .. gone PROVE admitted'[i] > RateWindow
      <3>1. i \in 1 .. Len(admitted') /\ i <= Len(past)
        BY <1>1, <1>4, <1>6, <2>1
      <3>2. past[i] > RateWindow
        BY <1>4 DEF Suffix
      <3> QED
        BY <1>6, <3>1, <3>2
    <2> QED
      BY <2>1, <2>2, <2>3 DEF Suffix
  <1> QED
    BY <1>1, <1>3, <1>4, <1>5, <1>6, <1>7 DEF RateInvariant

\* A tick ages both alike, and takes nothing back into the window.
LEMMA TickKeepsRate ==
    ASSUME RateInvariant, Tick
    PROVE  RateInvariant'
  <1> DEFINE O(age) == Older(age, RateWindow + 1)
  <1>1. RateWindow \in Nat
    BY FeedbackAssumption
  <1>2. \A age \in Ages : O(age) \in Ages /\ (age > RateWindow => O(age) > RateWindow)
    BY <1>1 DEF Ages, Older
  <1>3. /\ recent \in Seq(Ages) /\ admitted \in Seq(Ages)
        /\ Len(recent) \in Nat /\ Len(admitted) \in Nat
        /\ Suffix(recent, admitted)
    BY DEF RateInvariant
  <1>4. /\ recent' = [i \in 1 .. Len(recent) |-> O(recent[i])]
        /\ admitted' = [i \in 1 .. Len(admitted) |-> O(admitted[i])]
    BY <1>3 DEF Tick
  <1>5. /\ \A i \in 1 .. Len(recent) : recent[i] \in Ages
        /\ \A i \in 1 .. Len(admitted) : admitted[i] \in Ages
    BY <1>3
  <1> HIDE DEF O
  <1>6. /\ recent' \in Seq(Ages) /\ Len(recent') = Len(recent)
        /\ admitted' \in Seq(Ages) /\ Len(admitted') = Len(admitted)
    BY <1>2, <1>3, <1>4, <1>5
  <1>7. Suffix(recent', admitted')
    <2> DEFINE gone == Len(admitted) - Len(recent)
    <2>1. gone \in Nat
      BY <1>3 DEF Suffix
    <2>2. ASSUME NEW i \in 1 .. Len(recent) PROVE recent'[i] = admitted'[gone + i]
      <3>1. gone + i \in 1 .. Len(admitted)
        BY <1>3, <2>1
      <3>2. recent[i] = admitted[gone + i]
        BY <1>3 DEF Suffix
      <3> QED
        BY <1>4, <3>1, <3>2
    <2>3. ASSUME NEW i \in 1 .. gone PROVE admitted'[i] > RateWindow
      <3>1. i \in 1 .. Len(admitted)
        BY <1>3, <2>1
      <3>2. admitted[i] > RateWindow
        BY <1>3 DEF Suffix
      <3> QED
        BY <1>2, <1>4, <1>5, <3>1, <3>2
    <2> QED
      BY <1>6, <2>1, <2>2, <2>3 DEF Suffix
  <1> QED
    BY <1>6, <1>7 DEF RateInvariant

\* Every step keeps the deque the end of the history.
LEMMA StepRate ==
    ASSUME RateInvariant, [Next]_vars
    PROVE  RateInvariant'
  <1>1. ASSUME NEW c \in Clients, RateLimited(c) PROVE RateInvariant'
    <2>1. recent' = KeepRecent(recent) /\ admitted' = admitted
      BY <1>1 DEF RateLimited
    <2>2. /\ recent' \in Seq(Ages) /\ Len(recent') <= Len(recent)
          /\ Suffix(recent', admitted)
      BY <2>1, KeptIsSuffix
    <2>3. RateLimit \in Nat /\ Len(recent) \in Nat /\ Len(recent') \in Nat
      BY <2>2, FeedbackAssumption DEF RateInvariant
    <2> QED
      BY <2>1, <2>2, <2>3 DEF RateInvariant
  <1>2. ASSUME NEW c \in Clients, TooLarge(c) \/ Submit(c) PROVE RateInvariant'
    BY <1>2, LetInKeepsRate DEF TooLarge, Submit
  <1>3. ASSUME UNCHANGED <<recent, admitted>> PROVE RateInvariant'
    BY <1>3 DEF RateInvariant, Suffix
  <1>4. ASSUME NEW c \in Clients, TimeOut(c) PROVE RateInvariant'
    BY <1>3, <1>4 DEF TimeOut
  <1>5. ASSUME NEW h \in Handlers, HandlerStep(h) \/ Raise(h) PROVE RateInvariant'
    BY <1>3, <1>5 DEF HandlerStep, Look, Window, Insert, Raise
  <1>6. ASSUME NEW j \in Jobs, JobStep(j) PROVE RateInvariant'
    BY <1>3, <1>6
    DEF JobStep, ClaimAgain, Settle, BeginReview, Decide, BreakOff, Expire, Move
  <1>7. CASE Crash
    <2>1. recent' = <<>> /\ admitted' = <<>>
      BY <1>7 DEF Crash
    <2>2. /\ <<>> \in Seq(Ages) /\ Len(<<>>) = 0
          /\ RateLimit \in Nat
      BY FeedbackAssumption
    <2> QED
      BY <2>1, <2>2 DEF RateInvariant, Suffix
  <1>8. CASE UNCHANGED vars
    BY <1>3, <1>8 DEF vars
  <1> QED
    BY <1>1, <1>2, <1>4, <1>5, <1>6, <1>7, <1>8, TickKeepsRate DEF Next

\* For any limit and any window: of RateLimit + 1 successive requests that pass
\* the guardrails the first is more than the window older than the last, because
\* one that is still in the window of the deque is still in the deque.
THEOREM RateIsBounded == Spec => []RateBound
  <1>1. ASSUME Init PROVE RateInvariant
    BY <1>1, FeedbackAssumption DEF Init, RateInvariant, Suffix
  <1>2. ASSUME RateInvariant PROVE RateBound
    <2>1. /\ RateLimit \in Nat /\ Len(admitted) \in Nat /\ Len(recent) \in Nat
          /\ Len(recent) <= RateLimit
      BY <1>2, FeedbackAssumption DEF RateInvariant
    <2>2. Len(admitted) > RateLimit => 1 \in 1 .. Len(admitted) - Len(recent)
      BY <2>1
    <2> QED
      BY <1>2, <2>2 DEF RateInvariant, Suffix, RateBound
  <1> QED
    BY <1>1, <1>2, StepRate, PTL DEF Spec

----------------------------------------------------------------------------
(* TypeOK *)

CallState == [state  : Final \cup {"out", "waiting"},
              age    : 0 .. Timeout,
              thread : Handlers \cup {None}]

Held(state) == state.state = "waiting" <=> state.thread \in Handlers

WorkState == [pc     : {"free", "look", "window", "insert"},
              client : Clients \cup {None},
              closed : BOOLEAN]

\* A thread that has begun has a client.
Serving(state) == state.pc # "free" => state.client \in Clients

JobState == [status : {"awaiting_review", "running", "failed", "approved", "rejected"},
             window : {"unset", "open", "over"},
             second : {"unclaimed", "executing", "done"},
             reviews : SUBSET {"approved", "rejected"}]

TypeInvariant ==
    /\ payload \in Submissions
    /\ call \in [Clients -> CallState]
    /\ \A c \in Clients : Held(call[c])
    /\ decided \subseteq Clients /\ lost \subseteq Clients
    /\ work \in [Handlers -> WorkState]
    /\ \A h \in Handlers : Serving(work[h])
    /\ jobs \in [Jobs -> JobState]
    /\ table \subseteq {RowOf(payload[c]) : c \in Clients}

\* What the calls become when there is no thread to wait for.
LEMMA NoCallIs ==
    ASSUME NEW state \in Final \cup {"out"}
    PROVE  NoCall(state) \in CallState /\ Held(NoCall(state))
  BY FeedbackAssumption DEF NoCall, CallState, Held, Final

\* A step of the middleware or of a client that changes one call and no thread.
LEMMA CallTyped ==
    ASSUME TypeInvariant, NEW c \in Clients, NEW state \in CallState, Held(state),
           call' = [call EXCEPT ![c] = state],
           UNCHANGED <<payload, decided, lost, work, jobs, table>>
    PROVE  TypeInvariant'
  BY DEF TypeInvariant

\* Only the thread that makes a step and the call it answers change.
LEMMA WorkTyped ==
    ASSUME TypeInvariant, NEW h \in Handlers, NEW state \in WorkState, Serving(state),
           work' = [work EXCEPT ![h] = state],
           \/ call' = call
           \/ \E outcome \in Final \cup {"out"} :
                 call' = [call EXCEPT ![work[h].client] = NoCall(outcome)],
           decided' \subseteq Clients, lost' \subseteq Clients,
           table' \subseteq {RowOf(payload[c]) : c \in Clients},
           UNCHANGED <<payload, jobs>>
    PROVE  TypeInvariant'
  <1>1. call' \in [Clients -> CallState] /\ \A c \in Clients : Held(call'[c])
    BY NoCallIs DEF TypeInvariant
  <1>2. work' \in [Handlers -> WorkState] /\ \A g \in Handlers : Serving(work'[g])
    BY DEF TypeInvariant
  <1> QED
    BY <1>1, <1>2 DEF TypeInvariant

\* An answer frees the thread and decides its client.
LEMMA AnswerIs ==
    ASSUME TypeInvariant, NEW h \in Handlers, work[h].pc # "free", NEW outcome \in Final,
           Answer(h, outcome)
    PROVE  /\ Free \in WorkState /\ Serving(Free)
           /\ work' = [work EXCEPT ![h] = Free]
           /\ \/ call' = call
              \/ call' = [call EXCEPT ![work[h].client] = NoCall(outcome)]
           /\ decided' \subseteq Clients /\ lost' \subseteq Clients
  <1>1. work[h].client \in Clients
    BY DEF TypeInvariant, Serving
  <1> QED
    BY <1>1 DEF Answer, Free, WorkState, Serving, TypeInvariant

\* A step that goes on keeps client and closed.
LEMMA GoOnIs ==
    ASSUME TypeInvariant, NEW h \in Handlers, work[h].pc # "free",
           NEW pc \in {"window", "insert"}, GoOn(h, pc)
    PROVE  \E state \in WorkState :
              /\ Serving(state)
              /\ state.pc = pc /\ state.client = work[h].client
              /\ state.closed = work[h].closed
              /\ work' = [work EXCEPT ![h] = state]
              /\ call' = call /\ decided' = decided /\ lost' = lost
  <1> DEFINE state == [work[h] EXCEPT !.pc = pc]
  <1>1. work[h] \in WorkState /\ work[h].client \in Clients
    BY DEF TypeInvariant, Serving
  <1>2. /\ state \in WorkState /\ state.pc = pc /\ state.client = work[h].client
        /\ state.closed = work[h].closed
    BY <1>1 DEF WorkState
  <1>3. work' = [work EXCEPT ![h] = state]
    BY DEF GoOn, TypeInvariant
  <1> HIDE DEF state
  <1> QED
    BY <1>1, <1>2, <1>3 DEF GoOn, Serving

\* A raising call frees the thread and decides nothing.
LEMMA RaiseIs ==
    ASSUME TypeInvariant, NEW h \in Handlers, Raise(h)
    PROVE  /\ Free \in WorkState /\ Serving(Free)
           /\ work[h].pc # "free" /\ work[h].client \in Clients
           /\ work' = [work EXCEPT ![h] = Free]
           /\ \/ call' = call
              \/ call' = [call EXCEPT ![work[h].client] = NoCall("out")]
           /\ decided' = decided /\ lost' \subseteq Clients
           /\ table' \in {table, table \cup {RowOf(Sent(h))}}
           /\ UNCHANGED <<payload, jobs>>
  <1>1. work[h].client \in Clients
    BY DEF TypeInvariant, Serving, Raise
  <1> QED
    BY <1>1 DEF Raise, Free, WorkState, Serving, TypeInvariant

\* A crash frees every thread, and leaves each call as it is or lost.
LEMMA CrashIs ==
    ASSUME TypeInvariant, Crash
    PROVE  /\ \A h \in Handlers : work'[h] = Free
           /\ \A c \in Clients : call'[c] = call[c] \/ call'[c] = NoCall("out")
           /\ TypeInvariant'
  <1>1. \A h \in Handlers : work'[h] = Free
    BY DEF Crash
  <1>2. \A c \in Clients : call'[c] = call[c] \/ call'[c] = NoCall("out")
    BY DEF Crash
  <1>3. Free \in WorkState /\ Serving(Free)
    BY DEF Free, WorkState, Serving
  <1>4. work' \in [Handlers -> WorkState] /\ \A h \in Handlers : Serving(work'[h])
    BY <1>1, <1>3 DEF Crash
  <1>5. /\ call' = [c \in Clients |-> call'[c]]
        /\ \A c \in Clients : call'[c] \in CallState /\ Held(call'[c])
    BY <1>2, NoCallIs DEF Crash, TypeInvariant
  <1>6. jobs' \in [Jobs -> JobState]
    <2>1. \A j \in Jobs : [jobs[j] EXCEPT !.second = "done", !.reviews = {}] \in JobState
      BY DEF TypeInvariant, JobState
    <2> QED
      BY <2>1 DEF Crash
  <1>7. \A h \in Handlers \ FreeHandlers : work[h].client \in Clients
    BY DEF TypeInvariant, Serving, FreeHandlers
  <1>8. lost' \subseteq Clients /\ UNCHANGED <<payload, decided, table>>
    BY <1>7 DEF Crash, TypeInvariant
  <1>9. call' \in [Clients -> CallState]
    BY <1>5
  <1> QED
    BY <1>1, <1>2, <1>4, <1>5, <1>6, <1>8, <1>9 DEF TypeInvariant

\* The jobs move among their states, and none that is closed for good moves.
LEMMA JobsMove ==
    ASSUME TypeInvariant, NEW j \in Jobs, JobStep(j)
    PROVE  /\ \E row \in JobState :
                /\ jobs' = [jobs EXCEPT ![j] = row]
                /\ ClosedForGood(jobs[j]) => ClosedForGood(row) /\ row.status = jobs[j].status
           /\ UNCHANGED <<payload, recent, admitted, call, decided, lost, work, table>>
  <1>1. PICK old \in JobState : old = jobs[j]
    BY DEF TypeInvariant
  <1>2. ASSUME NEW row \in JobState, Move(j, row),
               ClosedForGood(old) => ClosedForGood(row) /\ row.status = old.status
        PROVE  /\ \E new \in JobState :
                    /\ jobs' = [jobs EXCEPT ![j] = new]
                    /\ ClosedForGood(jobs[j]) =>
                           ClosedForGood(new) /\ new.status = jobs[j].status
               /\ UNCHANGED <<payload, recent, admitted, call, decided, lost, work, table>>
    BY <1>1, <1>2 DEF Move
  <1>4. CASE ClaimAgain(j)
    <2>1. ~ ClosedForGood(old)
      BY <1>1, <1>4 DEF ClaimAgain, ClosedForGood
    <2>2. [old EXCEPT !.status = "running", !.second = "executing"] \in JobState
      BY DEF JobState
    <2> QED
      BY <1>1, <1>2, <1>4, <2>1, <2>2 DEF ClaimAgain
  <1>5. CASE Settle(j)
    <2>1. ~ ClosedForGood(old)
      BY <1>1, <1>5 DEF Settle, ClosedForGood
    <2>2. \A status \in {"awaiting_review", "failed"} :
             [old EXCEPT !.second = "done", !.status = status] \in JobState
      BY DEF JobState
    <2> QED
      BY <1>1, <1>2, <1>5, <2>1, <2>2 DEF Settle
  <1>6. CASE BeginReview(j)
    <2>1. ~ ClosedForGood(old)
      BY <1>1, <1>6 DEF BeginReview, ClosedForGood
    <2>2. \A verdict \in {"approved", "rejected"} :
             [old EXCEPT !.reviews = @ \cup {verdict}] \in JobState
      BY DEF JobState
    <2> QED
      BY <1>1, <1>2, <1>6, <2>1, <2>2 DEF BeginReview
  <1>7. CASE Decide(j)
    <2>1. ~ ClosedForGood(old)
      BY <1>1, <1>7 DEF Decide, ClosedForGood
    <2>2. \A verdict \in old.reviews : \A left \in {old.reviews, old.reviews \ {verdict}} :
             [old EXCEPT !.status = verdict, !.window = "open", !.reviews = left] \in JobState
      BY DEF JobState
    <2> QED
      BY <1>1, <1>2, <1>7, <2>1, <2>2 DEF Decide
  <1>8. CASE BreakOff(j)
    <2>1. ~ ClosedForGood(old)
      BY <1>1, <1>8 DEF BreakOff, ClosedForGood
    <2>2. /\ \A verdict \in old.reviews :
                [old EXCEPT !.reviews = @ \ {verdict}] \in JobState
          /\ [old EXCEPT !.second = "done"] \in JobState
      BY DEF JobState
    <2> QED
      BY <1>1, <1>2, <1>8, <2>1, <2>2 DEF BreakOff
  <1>9. CASE Expire(j)
    <2>1. PICK row : row = [old EXCEPT !.window = "over", !.second = "done"]
      OBVIOUS
    <2>2. /\ row \in JobState
          /\ row.status = old.status /\ row.window = "over" /\ row.second = "done"
          /\ row.reviews = old.reviews
      BY <2>1 DEF JobState
    <2>3. ClosedForGood(old) => ClosedForGood(row)
      BY <2>2 DEF ClosedForGood
    <2>4. Move(j, row)
      BY <1>1, <1>9, <2>1 DEF Expire
    <2> QED
      BY <1>2, <2>2, <2>3, <2>4
  <1> QED
    BY <1>4, <1>5, <1>6, <1>7, <1>8, <1>9 DEF JobStep

\* A feedback that is let in gets a free thread and a client to answer.
LEMMA SubmitIs ==
    ASSUME TypeInvariant, NEW c \in Clients, Submit(c)
    PROVE  \E h \in FreeHandlers, state \in WorkState, waiting \in CallState :
              /\ Serving(state) /\ Held(waiting)
              /\ state.pc = "look" /\ state.client = c
              /\ state.closed <=> ClosedForGood(jobs[payload[c].job])
              /\ waiting.state = "waiting"
              /\ work' = [work EXCEPT ![h] = state]
              /\ call' = [call EXCEPT ![c] = waiting]
              /\ decided' \subseteq Clients /\ lost' \subseteq Clients
              /\ UNCHANGED <<payload, jobs, table>>
  <1> DEFINE h == CHOOSE h \in FreeHandlers : TRUE
             state == [pc |-> "look", client |-> c,
                       closed |-> ClosedForGood(jobs[payload[c].job])]
             waiting == [state |-> "waiting", age |-> 0, thread |-> h]
  <1>1. h \in FreeHandlers /\ h \in Handlers
    BY DEF Submit, FreeHandlers
  <1>2. state \in WorkState /\ Serving(state)
    BY DEF WorkState, Serving, ClosedForGood
  <1>3. waiting \in CallState /\ Held(waiting)
    BY <1>1, FeedbackAssumption DEF CallState, Held
  <1>4. /\ work' = [work EXCEPT ![h] = state]
        /\ call' = [call EXCEPT ![c] = waiting]
        /\ decided' \subseteq Clients /\ lost' \subseteq Clients
        /\ UNCHANGED <<payload, jobs, table>>
    BY DEF Submit, TypeInvariant
  <1> QED
    BY <1>1, <1>2, <1>3, <1>4

\* Time passes for the calls that wait, and for nothing else but the ages.
LEMMA TickIs ==
    ASSUME TypeInvariant, Tick
    PROVE  /\ call' \in [Clients -> CallState]
           /\ \A c \in Clients : call'[c].state = call[c].state /\ call'[c].thread = call[c].thread
           /\ UNCHANGED <<payload, decided, lost, work, jobs, table>>
  <1>1. \A c \in Clients : call[c] \in CallState
    BY DEF TypeInvariant
  <1>2. \A age \in 0 .. Timeout : Older(age, Timeout) \in 0 .. Timeout
    BY FeedbackAssumption DEF Older
  <1>3. \A c \in Clients : \E age \in 0 .. Timeout : call'[c] = [call[c] EXCEPT !.age = age]
    BY <1>1, <1>2 DEF Tick, CallState
  <1>4. \A c \in Clients : /\ call'[c] \in CallState
                           /\ call'[c].state = call[c].state
                           /\ call'[c].thread = call[c].thread
    BY <1>1, <1>3 DEF CallState
  <1>5. call' = [c \in Clients |-> call'[c]]
    BY DEF Tick
  <1> QED
    BY <1>4, <1>5 DEF Tick

\* A thread past its look either goes on or answers.
LEMMA HandlerStepIs ==
    ASSUME TypeInvariant, NEW h \in Handlers, HandlerStep(h)
    PROVE  /\ work[h].pc # "free"
           /\ \/ \E pc \in {"window", "insert"} : GoOn(h, pc) /\ table' = table
              \/ \E outcome \in Final :
                    /\ Answer(h, outcome)
                    /\ table' \in {table, table \cup {RowOf(Sent(h))}}
           /\ UNCHANGED <<payload, recent, admitted, jobs>>
  BY DEF HandlerStep, Look, Window, Insert, Final

\* Every step keeps the types.
LEMMA StepTyped ==
    ASSUME TypeInvariant, [Next]_vars
    PROVE  TypeInvariant'
  <1>1. ASSUME NEW c \in Clients, RateLimited(c) \/ TooLarge(c) \/ TimeOut(c)
        PROVE  TypeInvariant'
    <2>1. PICK state \in {"out", "refused"} :
             /\ call' = [call EXCEPT ![c] = NoCall(state)]
             /\ UNCHANGED <<payload, decided, lost, work, jobs, table>>
      BY <1>1 DEF RateLimited, TooLarge, TimeOut
    <2>2. NoCall(state) \in CallState /\ Held(NoCall(state))
      BY NoCallIs DEF Final
    <2> QED
      BY <2>1, <2>2, CallTyped
  <1>2. ASSUME NEW c \in Clients, Submit(c) PROVE TypeInvariant'
    <2>1. PICK h \in FreeHandlers, state \in WorkState, waiting \in CallState :
              /\ Serving(state) /\ Held(waiting)
              /\ work' = [work EXCEPT ![h] = state]
              /\ call' = [call EXCEPT ![c] = waiting]
              /\ decided' \subseteq Clients /\ lost' \subseteq Clients
              /\ UNCHANGED <<payload, jobs, table>>
      BY <1>2, SubmitIs
    <2> QED
      BY <2>1 DEF TypeInvariant, FreeHandlers
  <1>3. ASSUME NEW h \in Handlers, HandlerStep(h) PROVE TypeInvariant'
    <2>1. work[h].pc # "free" /\ UNCHANGED <<payload, recent, admitted, jobs>>
      BY <1>3, HandlerStepIs
    <2>2. ASSUME NEW pc \in {"window", "insert"}, GoOn(h, pc), table' = table
          PROVE  TypeInvariant'
      <3>1. PICK state \in WorkState :
              /\ Serving(state)
              /\ work' = [work EXCEPT ![h] = state]
              /\ call' = call /\ decided' = decided /\ lost' = lost
        BY <2>1, <2>2, GoOnIs
      <3> QED
        BY <2>1, <2>2, <3>1, WorkTyped DEF TypeInvariant
    <2>3. ASSUME NEW outcome \in Final, Answer(h, outcome),
                 table' \in {table, table \cup {RowOf(Sent(h))}}
          PROVE  TypeInvariant'
      <3>1. /\ Free \in WorkState /\ Serving(Free)
            /\ work' = [work EXCEPT ![h] = Free]
            /\ \/ call' = call
               \/ call' = [call EXCEPT ![work[h].client] = NoCall(outcome)]
            /\ decided' \subseteq Clients /\ lost' \subseteq Clients
        BY <2>1, <2>3, AnswerIs
      <3>2. table' \subseteq {RowOf(payload[c]) : c \in Clients}
        BY <2>1, <2>3 DEF TypeInvariant, Serving, Sent
      <3> QED
        BY <2>1, <3>1, <3>2, WorkTyped
    <2> QED
      BY <1>3, <2>2, <2>3, HandlerStepIs
  <1>4. ASSUME NEW h \in Handlers, Raise(h) PROVE TypeInvariant'
    <2>1. table' \subseteq {RowOf(payload[c]) : c \in Clients}
      BY <1>4, RaiseIs DEF TypeInvariant, Sent
    <2>2. decided' \subseteq Clients
      BY <1>4, RaiseIs DEF TypeInvariant
    <2> QED
      BY <1>4, <2>1, <2>2, RaiseIs, WorkTyped
  <1>5. ASSUME NEW j \in Jobs, JobStep(j) PROVE TypeInvariant'
    <2>1. PICK row \in JobState : jobs' = [jobs EXCEPT ![j] = row]
      BY <1>5, JobsMove
    <2>2. UNCHANGED <<payload, recent, admitted, call, decided, lost, work, table>>
      BY <1>5, JobsMove
    <2> QED
      BY <2>1, <2>2 DEF TypeInvariant
  <1>6. CASE Tick
    BY <1>6, TickIs DEF TypeInvariant, Held
  <1>7. CASE UNCHANGED vars
    BY <1>7 DEF vars, TypeInvariant
  <1> QED
    BY <1>1, <1>2, <1>3, <1>4, <1>5, <1>6, <1>7, CrashIs DEF Next

\* The variables are of their types at first.
LEMMA InitTyped ==
    ASSUME Init PROVE TypeInvariant
  <1>1. \A c \in Clients : call[c] \in CallState /\ Held(call[c])
    BY NoCallIs DEF Init
  <1>2. Free \in WorkState /\ Serving(Free)
    BY DEF Free, WorkState, Serving
  <1>3. jobs \in [Jobs -> JobState]
    BY DEF Init, JobState
  <1>4. call \in [Clients -> CallState]
    BY <1>1 DEF Init
  <1> QED
    BY <1>1, <1>2, <1>3, <1>4 DEF Init, TypeInvariant

\* The types and the rate hold in every reachable state.
LEMMA AlwaysTyped == Spec => [](TypeInvariant /\ RateInvariant)
  <1>1. Init => TypeInvariant /\ RateInvariant
    BY InitTyped, FeedbackAssumption DEF Init, RateInvariant, Suffix
  <1>2. (TypeInvariant /\ RateInvariant) /\ [Next]_vars => (TypeInvariant /\ RateInvariant)'
    BY StepTyped, StepRate
  <1> QED
    BY <1>1, <1>2, PTL DEF Spec

\* Every reachable state is of its types: ages stay in their bounds, a client that
\* waits has a thread, and every row is some client's feedback.
THEOREM TypeCorrect == Spec => []TypeOK
  <1>1. TypeInvariant /\ RateInvariant => TypeOK
    BY DEF TypeInvariant, RateInvariant, TypeOK, CallState, Held, WorkState, Ages
  <1> QED
    BY <1>1, AlwaysTyped, PTL

----------------------------------------------------------------------------
(* OneRowPerIdentity *)

\* A row says who reports.
Signed(row) == row.reviewer # None \/ row.source # None

\* Two rows clash on one of the two indexes exactly if the same reviewer, or the
\* same source without one, reports on the same job.
LEMMA ClashIsIdentity ==
    ASSUME NEW row, NEW other, Signed(row), Signed(other)
    PROVE  Clashes(row, other) <=> Identity(row) = Identity(other)
  BY DEF Signed, Clashes, Identity

TableInvariant ==
    /\ OneRowPerIdentity
    /\ \A row \in table : Signed(row)
    /\ IsFiniteSet(table)

\* A step that stores nothing tells no client that its feedback is stored.
LEMMA QuietKeepsTable ==
    ASSUME TableInvariant, UNCHANGED <<payload, table>>,
           \A c \in Clients : call'[c].state \in {"recorded", "duplicate"} =>
                                 call[c].state = call'[c].state
    PROVE  TableInvariant'
  BY DEF TableInvariant, OneRowPerIdentity

\* add_feedback stores a row that clashes with none, and tells its client of a row
\* that is there.
LEMMA InsertKeepsTable ==
    ASSUME TypeInvariant, TableInvariant, NEW h \in Handlers, Insert(h)
    PROVE  TableInvariant'
  <1> DEFINE row == RowOf(Sent(h))
             c == work[h].client
  <1>1. /\ c \in Clients
        /\ row = RowOf(payload[c])
        /\ payload' = payload
    BY DEF Insert, TypeInvariant, Serving, Sent
  <1>2. ASSUME NEW outcome \in Final, Answer(h, outcome), NEW d \in Clients
        PROVE  call'[d].state = call[d].state \/ (d = c /\ call'[d].state = outcome)
    BY <1>1, <1>2 DEF Answer, TypeInvariant, NoCall
  <1>3. CASE Answer(h, "refused") /\ table' = table
    <2>1. \A d \in Clients : call'[d].state \in {"recorded", "duplicate"} =>
                                call[d].state = call'[d].state
      BY <1>2, <1>3 DEF Final
    <2> QED
      BY <1>1, <1>3, <2>1, QuietKeepsTable
  <1>4. CASE /\ Signed(row)
             /\ \E other \in table : Clashes(row, other)
             /\ Answer(h, "duplicate") /\ table' = table
    <2>1. \E other \in table : Identity(other) = Identity(row)
      BY <1>4, ClashIsIdentity DEF TableInvariant
    <2>2. \A d \in Clients : call'[d].state \in {"recorded", "duplicate"} =>
                                call[d].state = call'[d].state \/ d = c
      BY <1>2, <1>4 DEF Final
    <2>3. \A d \in Clients : call'[d].state \in {"recorded", "duplicate"} =>
             \E other \in table : Identity(other) = Identity(RowOf(payload[d]))
      BY <1>1, <2>1, <2>2 DEF TableInvariant, OneRowPerIdentity
    <2> QED
      BY <1>1, <1>4, <2>3 DEF TableInvariant, OneRowPerIdentity
  <1>5. CASE /\ Signed(row)
             /\ ~ \E other \in table : Clashes(row, other)
             /\ Answer(h, "recorded") /\ table' = table \cup {row}
    <2>1. \A other \in table : Identity(other) # Identity(row)
      BY <1>5, ClashIsIdentity DEF TableInvariant
    <2>2. \A one, other \in table' : Identity(one) = Identity(other) => one = other
      BY <1>5, <2>1 DEF TableInvariant, OneRowPerIdentity
    <2>3. \A d \in Clients : call'[d].state \in {"recorded", "duplicate"} =>
                                call[d].state = call'[d].state \/ d = c
      BY <1>2, <1>5 DEF Final
    <2>4. \A d \in Clients : call'[d].state \in {"recorded", "duplicate"} =>
             \E other \in table' : Identity(other) = Identity(RowOf(payload[d]))
      BY <1>1, <1>5, <2>3 DEF TableInvariant, OneRowPerIdentity
    <2>5. IsFiniteSet(table')
      BY <1>5, FS_AddElement DEF TableInvariant
    <2>6. \A other \in table' : Signed(other)
      BY <1>5 DEF TableInvariant
    <2> QED
      BY <1>1, <2>2, <2>4, <2>5, <2>6 DEF TableInvariant, OneRowPerIdentity
  <1> QED
    BY <1>3, <1>4, <1>5 DEF Insert, Signed

\* So does one that raises, though nobody is told of the row it may have stored.
LEMMA RaiseKeepsTable ==
    ASSUME TypeInvariant, TableInvariant, NEW h \in Handlers, Raise(h)
    PROVE  TableInvariant'
  <1> DEFINE row == RowOf(Sent(h))
  <1>1. payload' = payload
    BY RaiseIs
  <1>2. \A d \in Clients : call'[d].state \in {"recorded", "duplicate"} =>
                              call[d].state = call'[d].state
    BY RaiseIs DEF TypeInvariant, NoCall
  <1>3. CASE table' = table
    BY <1>1, <1>2, <1>3, QuietKeepsTable
  <1>4. CASE /\ Signed(row)
             /\ ~ \E other \in table : Clashes(row, other)
             /\ table' = table \cup {row}
    <2>1. \A other \in table : Identity(other) # Identity(row)
      BY <1>4, ClashIsIdentity DEF TableInvariant
    <2>2. \A one, other \in table' : Identity(one) = Identity(other) => one = other
      BY <1>4, <2>1 DEF TableInvariant, OneRowPerIdentity
    <2>3. \A d \in Clients : call'[d].state \in {"recorded", "duplicate"} =>
             \E other \in table' : Identity(other) = Identity(RowOf(payload[d]))
      BY <1>2, <1>4 DEF TableInvariant, OneRowPerIdentity
    <2>4. IsFiniteSet(table') /\ \A other \in table' : Signed(other)
      BY <1>4, FS_AddElement DEF TableInvariant
    <2> QED
      BY <1>1, <2>2, <2>3, <2>4 DEF TableInvariant, OneRowPerIdentity
  <1> QED
    BY <1>3, <1>4 DEF Raise, Signed

\* Every step keeps the table: only add_feedback writes it.
LEMMA StepTable ==
    ASSUME TypeInvariant, TableInvariant, [Next]_vars
    PROVE  TableInvariant'
  <1>1. ASSUME NEW c \in Clients, NEW state \in {"out", "refused"},
               call' = [call EXCEPT ![c] = NoCall(state)], UNCHANGED <<payload, table>>
        PROVE  TableInvariant'
    <2>1. \A d \in Clients : call'[d].state \in {"recorded", "duplicate"} =>
                                call[d].state = call'[d].state
      BY <1>1 DEF TypeInvariant, NoCall
    <2> QED
      BY <1>1, <2>1, QuietKeepsTable
  <1>2. ASSUME NEW c \in Clients, RateLimited(c) \/ TooLarge(c) \/ TimeOut(c)
        PROVE  TableInvariant'
    BY <1>1, <1>2 DEF RateLimited, TooLarge, TimeOut
  <1>3. ASSUME NEW c \in Clients, Submit(c) PROVE TableInvariant'
    <2>1. PICK waiting \in CallState :
             /\ waiting.state = "waiting"
             /\ call' = [call EXCEPT ![c] = waiting]
             /\ UNCHANGED <<payload, jobs, table>>
      BY <1>3, SubmitIs
    <2>2. \A d \in Clients : call'[d].state \in {"recorded", "duplicate"} =>
                                call[d].state = call'[d].state
      BY <2>1 DEF TypeInvariant
    <2> QED
      BY <2>1, <2>2, QuietKeepsTable
  <1>4. ASSUME NEW h \in Handlers, Look(h) \/ Window(h) PROVE TableInvariant'
    <2>1. work[h].client \in Clients /\ UNCHANGED <<payload, table>>
      BY <1>4 DEF Look, Window, TypeInvariant, Serving
    <2>2. \/ call' = call
          \/ call' = [call EXCEPT ![work[h].client] = NoCall("refused")]
      BY <1>4 DEF Look, Window, GoOn, Answer
    <2> QED
      BY <1>1, <2>1, <2>2, QuietKeepsTable
  <1>5. ASSUME NEW j \in Jobs, JobStep(j) PROVE TableInvariant'
    BY <1>5, JobsMove, QuietKeepsTable
  <1>6. CASE Tick
    BY <1>6, TickIs, QuietKeepsTable
  <1>7. CASE Crash
    <2>1. \A c \in Clients : call'[c].state \in {"recorded", "duplicate"} =>
                                call[c].state = call'[c].state
      BY <1>7, CrashIs DEF NoCall
    <2> QED
      BY <1>7, <2>1, QuietKeepsTable DEF Crash
  <1>8. CASE UNCHANGED vars
    BY <1>8, QuietKeepsTable DEF vars
  <1> QED
    BY <1>2, <1>3, <1>4, <1>5, <1>6, <1>7, <1>8, InsertKeepsTable, RaiseKeepsTable
    DEF Next, HandlerStep

\* The table keeps its rows apart in every reachable state.
LEMMA AlwaysStored == Spec => [](TypeInvariant /\ TableInvariant)
  <1>1. ASSUME Init PROVE TableInvariant
    <2>1. \A c \in Clients : call[c].state = "out"
      BY <1>1 DEF Init, NoCall
    <2> QED
      BY <1>1, <2>1, FS_EmptySet DEF Init, TableInvariant, OneRowPerIdentity
  <1>2. TableInvariant /\ TypeInvariant /\ [Next]_vars => TableInvariant'
    BY StepTable
  <1> QED
    BY <1>1, <1>2, AlwaysTyped, PTL DEF Spec

\* Retries, timeouts and threads that outlive their answers leave at most one row
\* for each reporter of a job, and whoever is told that a row is there has one.
THEOREM RowsAreApart == Spec => []OneRowPerIdentity
  BY AlwaysStored, PTL DEF TableInvariant

----------------------------------------------------------------------------
(* ClosedJobsStayClosed *)

\* The job a thread was let in for is still closed if it was then; beyond its look
\* the thread has seen it approved, and so the window refuses it.
ClosedInvariant ==
    \A h \in Handlers : work[h].pc # "free" /\ work[h].closed =>
        /\ ClosedForGood(jobs[payload[work[h].client].job])
        /\ work[h].pc = "window" => jobs[payload[work[h].client].job].status = "approved"
        /\ work[h].pc # "insert"

\* Every step keeps closed jobs closed to the threads that came too late.
LEMMA StepClosed ==
    ASSUME TypeInvariant, ClosedInvariant, [Next]_vars
    PROVE  ClosedInvariant'
  <1>1. ASSUME UNCHANGED <<payload, work, jobs>> PROVE ClosedInvariant'
    BY <1>1 DEF ClosedInvariant
  <1>2. ASSUME NEW c \in Clients, RateLimited(c) \/ TooLarge(c) \/ TimeOut(c)
        PROVE  ClosedInvariant'
    BY <1>1, <1>2 DEF RateLimited, TooLarge, TimeOut
  <1>3. ASSUME NEW c \in Clients, Submit(c) PROVE ClosedInvariant'
    <2>1. PICK h \in FreeHandlers, state \in WorkState :
             /\ state.pc = "look" /\ state.client = c
             /\ state.closed <=> ClosedForGood(jobs[payload[c].job])
             /\ work' = [work EXCEPT ![h] = state]
             /\ UNCHANGED <<payload, jobs>>
      BY <1>3, SubmitIs
    <2> QED
      BY <2>1 DEF TypeInvariant, ClosedInvariant, FreeHandlers
  <1>4. ASSUME NEW h \in Handlers, HandlerStep(h) PROVE ClosedInvariant'
    <2>1. /\ work[h].pc # "free" /\ UNCHANGED <<payload, jobs>>
          /\ \A g \in Handlers : g # h => work'[g] = work[g]
      BY <1>4, HandlerStepIs DEF GoOn, Answer, TypeInvariant
    <2> DEFINE job == jobs[Sent(h).job]
    <2>2. ASSUME NEW outcome, Answer(h, outcome) PROVE ClosedInvariant'
      <3>1. work'[h].pc = "free"
        BY <2>2 DEF Answer, Free, TypeInvariant
      <3> QED
        BY <2>1, <3>1 DEF ClosedInvariant
    <2>3. ASSUME NEW pc \in {"window", "insert"}, GoOn(h, pc),
                 work[h].closed => pc = "window" /\ job.status = "approved"
          PROVE  ClosedInvariant'
      <3>1. PICK state \in WorkState :
              /\ state.pc = pc /\ state.client = work[h].client
              /\ state.closed = work[h].closed
              /\ work' = [work EXCEPT ![h] = state]
        BY <2>1, <2>3, GoOnIs
      <3>2. work'[h] = state
        BY <3>1 DEF TypeInvariant
      <3> QED
        BY <2>1, <2>3, <3>1, <3>2 DEF ClosedInvariant, Sent
    <2>4. CASE Look(h)
      <3>1. CASE Answer(h, "refused")
        BY <2>2, <3>1
      <3>2. CASE GoOn(h, "window") /\ job.status \in Allowed
        <4>1. work[h].closed => job.status = "approved"
          BY <2>1, <3>2 DEF ClosedInvariant, ClosedForGood, Sent, Allowed
        <4> QED
          BY <2>3, <3>2, <4>1
      <3> QED
        BY <2>4, <3>1, <3>2 DEF Look
    <2>5. CASE Window(h)
      <3>1. CASE Answer(h, "refused")
        BY <2>2, <3>1
      <3>2. CASE GoOn(h, "insert") /\ WindowOpen(job)
        <4>1. ~ work[h].closed
          <5> SUFFICES ASSUME work[h].closed PROVE FALSE
            OBVIOUS
          <5>1. job.status = "approved" /\ job.window = "over"
            BY <2>1, <2>5 DEF ClosedInvariant, ClosedForGood, Window, Sent
          <5> QED
            BY <3>2, <5>1 DEF WindowOpen
        <4> QED
          BY <2>3, <3>2, <4>1
      <3> QED
        BY <2>5, <3>1, <3>2 DEF Window
    <2>6. CASE Insert(h)
      BY <2>2, <2>6 DEF Insert
    <2> QED
      BY <1>4, <2>4, <2>5, <2>6 DEF HandlerStep
  <1>5. ASSUME NEW j \in Jobs, JobStep(j) PROVE ClosedInvariant'
    <2>1. PICK row \in JobState :
             /\ jobs' = [jobs EXCEPT ![j] = row]
             /\ ClosedForGood(jobs[j]) => ClosedForGood(row) /\ row.status = jobs[j].status
      BY <1>5, JobsMove
    <2>2. UNCHANGED <<payload, work>>
      BY <1>5, JobsMove
    <2>3. ASSUME NEW h \in Handlers, work[h].pc # "free"
          PROVE  payload[work[h].client].job \in Jobs
      BY <2>3, FeedbackAssumption DEF TypeInvariant, Serving
    <2> QED
      BY <2>1, <2>2, <2>3 DEF ClosedInvariant, TypeInvariant
  <1>6. CASE Tick
    BY <1>1, <1>6 DEF Tick
  <1>7. CASE UNCHANGED vars
    BY <1>1, <1>7 DEF vars
  <1>8. ASSUME NEW h \in Handlers, Raise(h) PROVE ClosedInvariant'
    <2>1. /\ work'[h].pc = "free"
          /\ \A g \in Handlers : g # h => work'[g] = work[g]
          /\ UNCHANGED <<payload, jobs>>
      BY <1>8, RaiseIs DEF Free, TypeInvariant
    <2> QED
      BY <2>1 DEF ClosedInvariant
  <1>9. CASE Crash
    <2>1. \A h \in Handlers : work'[h].pc = "free"
      BY <1>9, CrashIs DEF Free
    <2> QED
      BY <2>1 DEF ClosedInvariant
  <1> QED
    BY <1>2, <1>3, <1>4, <1>5, <1>6, <1>7, <1>8, <1>9 DEF Next

\* No thread that was let in for a job already closed for good comes to store its
\* feedback, although status and window are read one after the other while the
\* job moves, and reviewers write what they read a status for earlier: what is
\* closed for good has none of them left, so it stays closed.
THEOREM ClosedStaysClosed == Spec => []ClosedJobsStayClosed
  <1>1. Init => ClosedInvariant
    BY DEF Init, Free, ClosedInvariant
  <1>2. TypeInvariant /\ ClosedInvariant /\ [Next]_vars => ClosedInvariant'
    BY StepClosed
  <1>3. ClosedInvariant => ClosedJobsStayClosed
    BY DEF ClosedInvariant, ClosedJobsStayClosed
  <1> QED
    BY <1>1, <1>2, <1>3, AlwaysTyped, PTL DEF Spec

----------------------------------------------------------------------------
(* WindowsAddUp *)

\* What the drift windows count is apart and together fills the days they span,
\* however long they are.
LEMMA DriftSplits ==
    ASSUME NEW rows, IsFiniteSet(rows), \A row \in rows : ObservedDay(row) \in Int,
           NEW r \in Nat, NEW b \in Nat
    PROVE  Drift(rows, r, b).recent + Drift(rows, r, b).baseline =
               Cardinality({row \in rows : ObservedDay(row) \in (Today - r - b) .. Today})
  <1> DEFINE late == Recent(rows, r)
             early == Baseline(rows, r, b)
             all == {row \in rows : ObservedDay(row) \in (Today - r - b) .. Today}
  <1>1. Today \in Int
    BY FeedbackAssumption
  <1>2. late \cup early = all /\ late \cap early = {}
    BY <1>1 DEF Recent, Baseline
  <1>3. late \in SUBSET rows /\ early \in SUBSET rows
    BY DEF Recent, Baseline
  <1> HIDE DEF late, early, all
  <1>4. IsFiniteSet(late) /\ IsFiniteSet(early)
    BY <1>3, FS_Subset
  <1>5. Cardinality(late) \in Nat /\ Cardinality(early) \in Nat
    BY <1>4, FS_CardinalityType
  <1>6. Cardinality(late \cap early) = 0
    BY <1>2, FS_EmptySet
  <1>7. Cardinality(late \cup early) = Cardinality(late) + Cardinality(early)
    <2>1. Cardinality(late \cup early) =
              Cardinality(late) + Cardinality(early) - Cardinality(late \cap early)
      BY <1>4, FS_Union
    <2> QED
      BY <1>5, <1>6, <2>1
  <1>8. Drift(rows, r, b) = [recent |-> Cardinality(late), baseline |-> Cardinality(early)]
    BY DEF Drift, late, early
  <1> QED
    BY <1>2, <1>7, <1>8 DEF all

\* The Monday before, or on, a day is the period_start of the seven days it opens.
LEMMA WeekOf ==
    ASSUME NEW row, NEW other, ObservedDay(row) \in Int, ObservedDay(other) \in Int
    PROVE  PeriodStart(row, "weekly") = PeriodStart(other, "weekly") <=>
               ObservedDay(row) \in PeriodStart(other, "weekly") .. PeriodStart(other, "weekly") + 6
  <1> DEFINE d == ObservedDay(row)
             e == ObservedDay(other)
  <1>1. /\ d \in Int /\ e \in Int
        /\ PeriodStart(row, "weekly") = d - (d % 7)
        /\ PeriodStart(other, "weekly") = e - (e % 7)
    BY DEF PeriodStart
  <1> HIDE DEF d, e
  <1>2. d - (d % 7) = e - (e % 7) <=> d \in (e - (e % 7)) .. ((e - (e % 7)) + 6)
    BY <1>1, SMT
  <1> QED
    BY <1>1, <1>2 DEF d

\* A weekly slice holds the rows of its topology from its seven days.
LEMMA SlicesHoldTheirWeek ==
    ASSUME NEW rows, \A row \in rows : ObservedDay(row) \in Int,
           NEW key \in DOMAIN Slices(rows, "weekly", TopologyOf)
    PROVE  Slices(rows, "weekly", TopologyOf)[key] =
               Cardinality({row \in rows : /\ ObservedDay(row) \in key[1] .. key[1] + 6
                                           /\ TopologyOf[row.job] = key[2]})
  <1>1. /\ key \in {SliceKey(row, "weekly", TopologyOf) : row \in rows}
        /\ Slices(rows, "weekly", TopologyOf)[key] =
               Cardinality({row \in rows : SliceKey(row, "weekly", TopologyOf) = key})
    BY DEF Slices
  <1>2. PICK other \in rows : key = <<PeriodStart(other, "weekly"), TopologyOf[other.job]>>
    BY <1>1 DEF SliceKey
  <1>3. ASSUME NEW row \in rows
        PROVE  SliceKey(row, "weekly", TopologyOf) = key <=>
                   /\ ObservedDay(row) \in key[1] .. key[1] + 6
                   /\ TopologyOf[row.job] = key[2]
    <2>1. PeriodStart(row, "weekly") = key[1] <=> ObservedDay(row) \in key[1] .. key[1] + 6
      BY <1>2, WeekOf
    <2> QED
      BY <1>2, <2>1 DEF SliceKey
  <1>4. {row \in rows : SliceKey(row, "weekly", TopologyOf) = key} =
          {row \in rows : /\ ObservedDay(row) \in key[1] .. key[1] + 6
                          /\ TopologyOf[row.job] = key[2]}
    BY <1>3
  <1> QED
    BY <1>1, <1>4

\* The two windows of telemetry_drift share no row and miss none between them, of
\* whatever lengths they are, and a weekly slice of telemetry_slices holds what
\* was observed on the seven days from its period_start: in every reachable table.
THEOREM TelemetryWindows ==
    Spec => [](/\ WindowsAddUp
               /\ \A r, b \in Nat :
                     Drift(table, r, b).recent + Drift(table, r, b).baseline =
                         Cardinality({row \in table :
                                         ObservedDay(row) \in (Today - r - b) .. Today}))
  <1>1. TypeInvariant /\ TableInvariant =>
            /\ IsFiniteSet(table)
            /\ \A row \in table : ObservedDay(row) \in Int
    BY FeedbackAssumption DEF TypeInvariant, TableInvariant, RowOf, ObservedDay
  <1>2. TypeInvariant /\ TableInvariant =>
            \A r, b \in Nat :
                Drift(table, r, b).recent + Drift(table, r, b).baseline =
                    Cardinality({row \in table : ObservedDay(row) \in (Today - r - b) .. Today})
    BY <1>1, DriftSplits
  <1>3. TypeInvariant /\ TableInvariant => WindowsAddUp
    <2>1. 1 .. 2 \subseteq Nat
      OBVIOUS
    <2> QED
      BY <1>1, <1>2, <2>1, SlicesHoldTheirWeek DEF WindowsAddUp
  <1> QED
    BY <1>2, <1>3, AlwaysStored, PTL

----------------------------------------------------------------------------
(* TelemetryAddsUp *)

\* One round of the sum over the members of every set in D, in the order in which
\* CHOOSE takes them.
Round(fun, D, g) ==
    [s \in D |-> IF s = {} THEN 0
                 ELSE fun[CHOOSE x \in s : TRUE] + g[s \ {CHOOSE x \in s : TRUE}]]

\* The sum is well defined: sets of at most n members have one, for any n.
LEMMA SumsExist ==
    ASSUME NEW fun, NEW S, IsFiniteSet(S)
    PROVE  \E g : g = Round(fun, SUBSET S, g)
  <1> DEFINE D(n) == {s \in SUBSET S : Cardinality(s) <= n}
             T == {n \in Nat : \E g : g = Round(fun, D(n), g)}
  <1>1. \A s \in SUBSET S : IsFiniteSet(s) /\ Cardinality(s) \in Nat /\ Cardinality(s) <= Cardinality(S)
    BY FS_Subset, FS_CardinalityType
  <1>2. 0 \in T
    <2>1. \A s \in D(0) : s = {}
      BY <1>1, FS_EmptySet
    <2>2. PICK g : g = [s \in D(0) |-> 0]
      OBVIOUS
    <2>3. g = Round(fun, D(0), g)
      BY <2>1, <2>2 DEF Round
    <2> QED
      BY <2>3
  <1>3. ASSUME NEW n \in Nat, n \in T PROVE n + 1 \in T
    <2>1. PICK g : g = Round(fun, D(n), g)
      BY <1>3
    <2>2. PICK C : C = D(n)
      OBVIOUS
    <2>3. PICK E : E = D(n + 1)
      OBVIOUS
    <2>4. PICK next : next = Round(fun, E, g)
      OBVIOUS
    <2>5. C \subseteq E
      BY <1>1, <1>3, <2>2, <2>3
    <2>6. \A s \in E : s # {} => s \ {CHOOSE x \in s : TRUE} \in C
      <3> SUFFICES ASSUME NEW s \in E, s # {} PROVE s \ {CHOOSE x \in s : TRUE} \in C
        OBVIOUS
      <3>1. PICK x \in s : x = CHOOSE y \in s : TRUE
        OBVIOUS
      <3>2. s \in SUBSET S /\ Cardinality(s) <= n + 1
        BY <2>3
      <3>3. Cardinality(s \ {x}) = Cardinality(s) - 1
        BY <1>1, <3>2, FS_RemoveElement
      <3>4. Cardinality(s \ {x}) <= n
        BY <1>1, <1>3, <3>2, <3>3
      <3>5. s \ {x} \in C
        BY <2>2, <3>2, <3>4
      <3> QED
        BY <3>1, <3>5
    <2>7. \A s \in C : next[s] = g[s]
      <3>1. \A s \in C : g[s] = Round(fun, C, g)[s]
        BY <2>1, <2>2
      <3> QED
        BY <2>4, <2>5, <3>1 DEF Round
    <2>8. next = Round(fun, E, next)
      <3>1. \A s \in E : s # {} => next[s \ {CHOOSE x \in s : TRUE}] = g[s \ {CHOOSE x \in s : TRUE}]
        BY <2>6, <2>7
      <3>2. Round(fun, E, g) = Round(fun, E, next)
        BY <3>1 DEF Round
      <3> QED
        BY <2>4, <3>2
    <2>9. \E h : h = Round(fun, D(n + 1), h)
      <3> HIDE DEF D
      <3> QED
        BY <2>3, <2>8
    <2>10. n + 1 \in Nat
      BY <1>3
    <2> HIDE DEF D
    <2> QED
      BY <2>9, <2>10
  <1>4. Cardinality(S) \in T
    <2> HIDE DEF T
    <2>1. \A n \in Nat : n \in T => n + 1 \in T
      BY <1>3
    <2>2. Nat \subseteq T
      BY <1>2, <2>1, Induction
    <2> QED
      BY <2>2, FS_CardinalityType
  <1>5. D(Cardinality(S)) = SUBSET S
    BY <1>1
  <1> QED
    BY <1>4, <1>5

\* The sum of how often each key occurs is how many there are.
LEMMA OccurrencesAddUp ==
    ASSUME NEW rows, IsFiniteSet(rows), NEW keyOf, DOMAIN keyOf = rows,
           keyOf = [row \in rows |-> keyOf[row]]
    PROVE  SumFunction([key \in {keyOf[row] : row \in rows} |->
                           Cardinality({row \in rows : keyOf[row] = key})]) = Cardinality(rows)
  <1> DEFINE With(s) == {row \in rows : keyOf[row] \in s}
  <1>1. PICK keys : keys = {keyOf[row] : row \in rows}
    OBVIOUS
  <1>2. PICK fun : fun = [key \in keys |-> Cardinality({row \in rows : keyOf[row] = key})]
    OBVIOUS
  <1>3. DOMAIN fun = keys /\ \A key \in keys : fun[key] = Cardinality(With({key}))
    <2>1. \A key \in keys : With({key}) = {row \in rows : keyOf[row] = key}
      OBVIOUS
    <2> QED
      BY <1>2, <2>1
  <1>4. IsFiniteSet(keys)
    <2>1. keyOf \in Surjection(rows, keys)
      BY <1>1 DEF Surjection
    <2> QED
      BY <2>1, FS_Surjection
  <1>5. \A s : IsFiniteSet(With(s)) /\ Cardinality(With(s)) \in Nat
    <2>1. \A s : With(s) \in SUBSET rows
      OBVIOUS
    <2> HIDE DEF With
    <2> QED
      BY <2>1, FS_Subset, FS_CardinalityType
  <1>6. PICK sum : sum = Round(fun, SUBSET keys, sum) /\ SumFunction(fun) = sum[keys]
    <2>1. PICK sum : sum = CHOOSE g : g = Round(fun, SUBSET keys, g)
      OBVIOUS
    <2>2. sum = Round(fun, SUBSET keys, sum)
      BY <1>4, <2>1, SumsExist
    <2>3. SumFunction(fun) = (CHOOSE g : g = Round(fun, SUBSET DOMAIN fun, g))[DOMAIN fun]
      BY DEF SumFunction, SumFunctionOnSet, FoldFunctionOnSet, MapThenFoldSet, Round
    <2> QED
      BY <1>3, <2>1, <2>2, <2>3
  <1> DEFINE T == {n \in Nat : \A s \in SUBSET keys :
                      Cardinality(s) = n => sum[s] = Cardinality(With(s))}
  <1>7. \A s \in SUBSET keys : IsFiniteSet(s) /\ Cardinality(s) \in Nat
    BY <1>4, FS_Subset, FS_CardinalityType
  <1>8. 0 \in T
    <2>1. \A s \in SUBSET keys : Cardinality(s) = 0 => s = {}
      BY <1>7, FS_EmptySet
    <2>2. sum[{}] = 0
      <3>1. {} \in SUBSET keys
        OBVIOUS
      <3> QED
        BY <1>6, <3>1 DEF Round
    <2>3. Cardinality(With({})) = 0
      <3>1. With({}) = {}
        OBVIOUS
      <3> QED
        BY <3>1, FS_EmptySet
    <2> HIDE DEF With
    <2> QED
      BY <2>1, <2>2, <2>3
  <1>9. ASSUME NEW n \in Nat, n \in T PROVE n + 1 \in T
    <2> SUFFICES ASSUME NEW s \in SUBSET keys, Cardinality(s) = n + 1
                 PROVE  sum[s] = Cardinality(With(s))
      BY <1>9
    <2>1. s # {}
      BY <1>9, FS_EmptySet
    <2>2. PICK x \in s : x = CHOOSE y \in s : TRUE
      BY <2>1
    <2>3. sum[s] = fun[x] + sum[s \ {x}]
      <3>1. sum[s] = Round(fun, SUBSET keys, sum)[s]
        BY <1>6
      <3>2. Round(fun, SUBSET keys, sum)[s] =
              fun[CHOOSE y \in s : TRUE] + sum[s \ {CHOOSE y \in s : TRUE}]
        BY <2>1 DEF Round
      <3> QED
        BY <2>2, <3>1, <3>2
    <2>4. sum[s \ {x}] = Cardinality(With(s \ {x}))
      <3>1. Cardinality(s \ {x}) = n /\ s \ {x} \in SUBSET keys
        BY <1>7, <1>9, FS_RemoveElement
      <3> QED
        BY <1>9, <3>1
    <2>5. fun[x] = Cardinality(With({x}))
      BY <1>3
    <2>6. Cardinality(With(s)) = Cardinality(With({x})) + Cardinality(With(s \ {x}))
      <3>1. /\ With(s) = With({x}) \cup With(s \ {x})
            /\ With({x}) \cap With(s \ {x}) = {}
        OBVIOUS
      <3> HIDE DEF With
      <3>2. Cardinality(With({x}) \cup With(s \ {x})) =
              Cardinality(With({x})) + Cardinality(With(s \ {x}))
                - Cardinality(With({x}) \cap With(s \ {x}))
        BY <1>5, FS_Union
      <3>3. Cardinality(With({x}) \cap With(s \ {x})) = 0
        BY <3>1, FS_EmptySet
      <3>4. /\ Cardinality(With({x})) \in Nat /\ Cardinality(With(s \ {x})) \in Nat
            /\ Cardinality(With(s)) = Cardinality(With({x}) \cup With(s \ {x}))
        BY <1>5, <3>1
      <3> QED
        BY ONLY <3>2, <3>3, <3>4
    <2> QED
      BY <2>3, <2>4, <2>5, <2>6
  <1>10. sum[keys] = Cardinality(With(keys))
    <2> HIDE DEF T
    <2>1. \A n \in Nat : n \in T => n + 1 \in T
      BY <1>9
    <2>2. Nat \subseteq T
      BY <1>8, <2>1, Induction
    <2>3. Cardinality(keys) \in T
      BY <1>7, <2>2
    <2> QED
      BY <2>3 DEF T
  <1>11. With(keys) = rows
    BY <1>1
  <1> QED
    BY <1>1, <1>2, <1>6, <1>10, <1>11

\* The daily slices share no row and hold every one.
LEMMA DailyAddUp ==
    ASSUME NEW rows, IsFiniteSet(rows)
    PROVE  SumFunction(Slices(rows, "daily", TopologyOf)) = Summary(rows)
  <1>1. PICK keyOf : keyOf = [row \in rows |-> SliceKey(row, "daily", TopologyOf)]
    OBVIOUS
  <1>2. /\ DOMAIN keyOf = rows /\ keyOf = [row \in rows |-> keyOf[row]]
        /\ \A row \in rows : keyOf[row] = SliceKey(row, "daily", TopologyOf)
    BY <1>1
  <1>3. Slices(rows, "daily", TopologyOf) =
          [key \in {keyOf[row] : row \in rows} |-> Cardinality({row \in rows : keyOf[row] = key})]
    <2>1. {SliceKey(row, "daily", TopologyOf) : row \in rows} = {keyOf[row] : row \in rows}
      BY <1>2
    <2>2. \A key : {row \in rows : SliceKey(row, "daily", TopologyOf) = key} =
                     {row \in rows : keyOf[row] = key}
      BY <1>2
    <2> QED
      BY <2>1, <2>2 DEF Slices
  <1> QED
    BY <1>2, <1>3, OccurrencesAddUp DEF Summary

\* What telemetry tells of a table adds up, whatever it holds: the daily slices to the
\* summary, and the windows and weeks as above.
THEOREM TelemetryIsWhole == Spec => []TelemetryAddsUp
  <1>1. TypeInvariant /\ TableInvariant =>
            /\ IsFiniteSet(table)
            /\ SumFunction(Slices(table, "daily", TopologyOf)) = Summary(table)
    BY DailyAddUp DEF TableInvariant
  <1> QED
    BY <1>1, TelemetryWindows, AlwaysStored, PTL DEF TelemetryAddsUp
=============================================================================

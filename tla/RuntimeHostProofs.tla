------------------------- MODULE RuntimeHostProofs -------------------------
(***************************************************************************)
(* The runtime host implements CallOutcomes: whatever process, thread,     *)
(* queue or timer a call gets lost in, its window is never told that it    *)
(* was not performed when it was, or will be, nor that it was when it was  *)
(* not.  The invariant is CallsAreTracked; from OwnerInv follows that one  *)
(* process at most owns the data, from KindInv, ActiveInv and ServedInv    *)
(* that a commit is answered by the process that made it, and from         *)
(* QueueInv that the threads' queues keep their order.                     *)
(***************************************************************************)
EXTENDS RuntimeHost, TLAPS

(* Sequences that hold every call once at most. *)
Holds(s, c) == \E n \in 1..Len(s) : s[n] = c
Once(s) == \A m, n \in 1..Len(s) : s[m] = s[n] /\ s[m] \in Call => m = n

LEMMA AppendHolds ==
    ASSUME NEW S, NEW s \in Seq(S), NEW x \in S
    PROVE  /\ Append(s, x) \in Seq(S)
           /\ \A c : Holds(Append(s, x), c) => Holds(s, c) \/ c = x
           /\ Once(s) /\ (x \in Call => ~Holds(s, x)) => Once(Append(s, x))
<1>1. /\ Append(s, x) \in Seq(S) /\ Len(s) \in Nat /\ Len(Append(s, x)) = Len(s) + 1
      /\ \A n \in 1..Len(s) : Append(s, x)[n] = s[n]
      /\ Append(s, x)[Len(s) + 1] = x
  OBVIOUS
<1> DEFINE t == Append(s, x)
<1> HIDE DEF t
<1>2. \A n \in 1..Len(t) : n \in 1..Len(s) \/ n = Len(s) + 1
  BY <1>1 DEF t
<1>3. \A c : Holds(t, c) => Holds(s, c) \/ c = x
  BY <1>1, <1>2 DEF Holds, t
<1>4. ASSUME Once(s), x \in Call => ~Holds(s, x), NEW m \in 1..Len(t), NEW n \in 1..Len(t),
             t[m] = t[n], t[m] \in Call
      PROVE  m = n
  BY <1>1, <1>2, <1>4 DEF Holds, Once, t
<1> QED BY <1>1, <1>3, <1>4 DEF Once, t

LEMMA TailHolds ==
    ASSUME NEW S, NEW s \in Seq(S), s # <<>>
    PROVE  /\ Tail(s) \in Seq(S) /\ Head(s) \in S /\ Holds(s, Head(s))
           /\ \A c : Holds(Tail(s), c) => Holds(s, c)
           /\ Once(s) => Once(Tail(s)) /\ (Head(s) \in Call => ~Holds(Tail(s), Head(s)))
<1>1. /\ Tail(s) \in Seq(S) /\ Head(s) \in S /\ Len(s) \in Nat \ {0}
      /\ Len(Tail(s)) = Len(s) - 1 /\ Head(s) = s[1]
      /\ \A n \in 1..Len(Tail(s)) : Tail(s)[n] = s[n+1]
  OBVIOUS
<1> DEFINE t == Tail(s)
           x == Head(s)
<1> HIDE DEF t, x
<1>2. \A n \in 1..Len(t) : n + 1 \in 1..Len(s)
  BY <1>1 DEF t
<1>3. 1 \in 1..Len(s)
  BY <1>1
<1>4. Holds(s, x) /\ \A c : Holds(t, c) => Holds(s, c)
  BY <1>1, <1>2, <1>3 DEF Holds, t, x
<1>5. ASSUME Once(s), NEW m \in 1..Len(t), NEW n \in 1..Len(t), t[m] = t[n], t[m] \in Call
      PROVE  m = n
  <2>1. s[m+1] = s[n+1] /\ s[m+1] \in Call
    BY <1>1, <1>5 DEF t
  <2>2. m + 1 = n + 1
    BY <1>2, <1>5, <2>1 DEF Once
  <2> QED BY <2>2
<1>6. ASSUME Once(s), x \in Call PROVE ~Holds(t, x)
  <2> SUFFICES ASSUME NEW n \in 1..Len(t), t[n] = x PROVE FALSE
    BY DEF Holds
  <2>1. s[n+1] = s[1]
    BY <1>1 DEF t, x
  <2>2. n + 1 = 1
    BY <1>1, <1>2, <1>3, <1>6, <2>1 DEF Once, x
  <2> QED BY <2>2
<1> QED BY <1>1, <1>4, <1>5, <1>6 DEF Once, t, x

(* The empty queue holds nothing. *)
LEMMA EmptyHolds ==
    /\ \A c : ~Holds(<<>>, c)
    /\ Once(<<>>)
    /\ \A S : <<>> \in Seq(S)
BY DEF Holds, Once

-----------------------------------------------------------------------------
(* The worker client                                                       *)

(* The job is still to be performed; the client knows of it. *)
ToPerform(w, c) == Holds(w.queue, c) \/ w.thread = c
KnowsOf(w, c) == ToPerform(w, c) \/ w.active = c
Settled(w, c) == w.replied /\ w.active = c

(* A call waits once at most, and the thread performs the active job. *)
Tidy(w) ==
    /\ Once(w.queue)
    /\ \A c \in Call : Holds(w.queue, c) => w.thread # c
    /\ w.thread # Nil /\ w.active # Nil => w.thread = w.active
    /\ w.replied => w.active # Nil

(* What an operation of the client does to calls: it may forget some. *)
Forgets(w, v) ==
    /\ v \in W!WorkerState /\ Tidy(v)
    /\ \A c \in Call : /\ ToPerform(v, c) => ToPerform(w, c)
                       /\ KnowsOf(v, c) => KnowsOf(w, c)
                       /\ Settled(v, c) => Settled(w, c)

(* Nothing else is needed of two clients that differ in their flags only. *)
LEMMA FlagsForget ==
    ASSUME NEW w \in W!WorkerState, Tidy(w), NEW v \in W!WorkerState,
           v.queue = w.queue, v.thread = w.thread, v.active = w.active,
           v.replied => w.replied
    PROVE  Forgets(w, v)
BY DEF Forgets, Tidy, ToPerform, KnowsOf, Settled

LEMMA ForgetsFollows ==
    ASSUME NEW u, NEW w, NEW v, Forgets(u, w), Forgets(w, v)
    PROVE  Forgets(u, v)
BY DEF Forgets

(* An empty queue and no active job: whatever the thread still does. *)
LEMMA IdleForgets ==
    ASSUME NEW w \in W!WorkerState, Tidy(w), NEW v \in W!WorkerState,
           v.queue = <<>>, v.active = Nil, v.replied = FALSE, v.thread \in {w.thread, Nil}
    PROVE  Forgets(w, v)
<1>1. Once(v.queue) /\ \A c : ~Holds(v.queue, c)
  BY EmptyHolds
<1>2. Tidy(v)
  BY <1>1 DEF Tidy
<1>3. Nil \notin Call
  BY HostAssumption
<1> QED BY <1>1, <1>2, <1>3 DEF Forgets, ToPerform, KnowsOf, Settled

LEMMA NewWorkerForgets ==
    ASSUME NEW w \in W!WorkerState, Tidy(w)
    PROVE  Forgets(w, W!NewWorker) /\ W!NewWorker \in W!WorkerState /\ Tidy(W!NewWorker)
           /\ \A c \in Call : ~KnowsOf(W!NewWorker, c)
<1>1. /\ W!NewWorker \in W!WorkerState /\ W!NewWorker.queue = <<>> /\ W!NewWorker.active = Nil
      /\ W!NewWorker.replied = FALSE /\ W!NewWorker.thread = Nil
  BY EmptyHolds DEF W!NewWorker, W!WorkerState
<1>2. Forgets(w, W!NewWorker)
  BY <1>1, IdleForgets
<1>3. \A c \in Call : ~KnowsOf(W!NewWorker, c)
  BY <1>1, EmptyHolds, HostAssumption DEF KnowsOf, ToPerform
<1> QED BY <1>1, <1>2, <1>3 DEF Forgets

LEMMA PumpForgets ==
    ASSUME NEW w \in W!WorkerState, Tidy(w)
    PROVE  Forgets(w, W!Pump(w))
<1>1. CASE w.closed \/ w.active # Nil \/ w.queue = <<>>
  <2>1. W!Pump(w) = w
    BY <1>1 DEF W!Pump
  <2> QED BY <2>1, FlagsForget
<1>2. CASE ~(w.closed \/ w.active # Nil \/ w.queue = <<>>)
  <2> DEFINE v == W!Pump(w)
             s == w.queue
             t == Tail(w.queue)
             x == Head(w.queue)
  <2>1. v = [w EXCEPT !.active = x, !.queue = t, !.cancelled = FALSE, !.thread = x, !.replied = FALSE]
    BY <1>2 DEF W!Pump
  <2>2. s \in Seq(Job \cup {Close}) /\ s # <<>>
    BY <1>2 DEF W!WorkerState
  <2>3. Once(s)
    BY DEF Tidy
  <2>4. /\ t \in Seq(Job \cup {Close}) /\ x \in Job \cup {Close} /\ Holds(s, x)
        /\ \A c : Holds(t, c) => Holds(s, c)
        /\ Once(t) /\ (x \in Call => ~Holds(t, x))
    BY <2>2, <2>3, TailHolds
  <2> HIDE DEF s, t, x
  <2>5. /\ v \in W!WorkerState /\ v.active = x /\ v.queue = t /\ v.thread = x /\ v.replied = FALSE
    BY <2>1, <2>4, Zenon DEF W!WorkerState
  <2> HIDE DEF v
  <2>6. Tidy(v)
    BY <2>4, <2>5 DEF Tidy
  <2>7. \A c \in Call : /\ ToPerform(v, c) => Holds(s, c)
                        /\ KnowsOf(v, c) => Holds(s, c)
                        /\ ~Settled(v, c)
    BY <2>4, <2>5 DEF ToPerform, KnowsOf, Settled
  <2>8. Forgets(w, v)
    BY <2>5, <2>6, <2>7 DEF Forgets, ToPerform, KnowsOf, s
  <2> QED BY <2>8 DEF v
<1> QED BY <1>1, <1>2

(* The thread's death, a timeout, the end of close(). *)
LEMMA RejectAllForgets ==
    ASSUME NEW w \in W!WorkerState, Tidy(w)
    PROVE  Forgets(w, W!RejectAll(w))
<1> DEFINE v == W!RejectAll(w)
<1>1. /\ v \in W!WorkerState /\ v.active = Nil /\ v.queue = <<>> /\ v.thread = w.thread
      /\ v.replied = FALSE
  BY EmptyHolds, Zenon DEF W!RejectAll, W!WorkerState
<1> HIDE DEF v
<1>2. Forgets(w, v)
  BY <1>1, IdleForgets
<1> QED BY <1>2 DEF v

LEMMA TerminateForgets ==
    ASSUME NEW w \in W!WorkerState, Tidy(w)
    PROVE  Forgets(w, W!Terminate(w))
<1> DEFINE u == W!RejectAll(w)
           v == W!Terminate(w)
<1>1. Forgets(w, u)
  BY RejectAllForgets
<1>2. u \in W!WorkerState /\ Tidy(u)
  BY <1>1 DEF Forgets
<1>3. u.active = Nil /\ u.queue = <<>> /\ u.replied = FALSE
  BY Zenon DEF W!RejectAll, W!WorkerState
<1>4. v = [u EXCEPT !.thread = Nil, !.down = TRUE]
  BY DEF W!Terminate
<1> HIDE DEF u, v
<1>5. /\ v \in W!WorkerState /\ v.active = Nil /\ v.queue = <<>> /\ v.thread = Nil
      /\ v.replied = FALSE
  BY <1>2, <1>3, <1>4, Zenon DEF W!WorkerState
<1>6. Forgets(u, v)
  BY <1>2, <1>5, IdleForgets
<1>7. Forgets(w, v)
  BY <1>1, <1>6, ForgetsFollows
<1> QED BY <1>7 DEF v

(* The answer is taken: the next job starts. *)
LEMMA SettleForgets ==
    ASSUME NEW w \in W!WorkerState, Tidy(w)
    PROVE  Forgets(w, W!Settle(w))
<1> DEFINE u == [w EXCEPT !.active = Nil, !.cancelled = FALSE, !.replied = FALSE]
<1>1. /\ u \in W!WorkerState /\ u.active = Nil /\ u.queue = w.queue /\ u.thread = w.thread
      /\ u.replied = FALSE
  BY Zenon DEF W!WorkerState
<1>2. W!Settle(w) = W!Pump(u)
  BY DEF W!Settle
<1> HIDE DEF u
<1>3. Tidy(u)
  BY <1>1 DEF Tidy
<1>4. Nil \notin Call
  BY HostAssumption
<1>5. Forgets(w, u)
  BY <1>1, <1>3, <1>4 DEF Forgets, ToPerform, KnowsOf, Settled
<1>6. Forgets(u, W!Pump(u))
  BY <1>1, <1>3, PumpForgets
<1> QED BY <1>2, <1>5, <1>6, ForgetsFollows

(* A new job may be added; nothing else changes. *)
Takes(w, v, job) ==
    /\ v \in W!WorkerState /\ Tidy(v)
    /\ \A c \in Call : /\ ToPerform(v, c) => ToPerform(w, c) \/ c = job
                       /\ KnowsOf(v, c) => KnowsOf(w, c) \/ c = job
                       /\ Settled(v, c) => Settled(w, c)

LEMMA EnqueueTakes ==
    ASSUME NEW w \in W!WorkerState, Tidy(w), NEW job \in Job \cup {Close},
           job \in Call => ~ToPerform(w, job)
    PROVE  Takes(w, W!Enqueue(w, job), job)
<1> DEFINE s == w.queue
           t == Append(w.queue, job)
           u == [w EXCEPT !.queue = t]
<1>1. s \in Seq(Job \cup {Close}) /\ Once(s) /\ (job \in Call => ~Holds(s, job))
  BY DEF W!WorkerState, Tidy, ToPerform
<1>2. /\ t \in Seq(Job \cup {Close}) /\ \A c : Holds(t, c) => Holds(s, c) \/ c = job
      /\ Once(t)
  BY <1>1, AppendHolds
<1>3. W!Enqueue(w, job) = W!Pump(u)
  BY DEF W!Enqueue
<1> HIDE DEF s, t
<1>4. /\ u \in W!WorkerState /\ u.queue = t /\ u.thread = w.thread /\ u.active = w.active
      /\ u.replied = w.replied
  BY <1>2, Zenon DEF W!WorkerState
<1> HIDE DEF u
<1>5. \A c \in Call : Holds(t, c) => w.thread # c
  BY <1>2 DEF Tidy, ToPerform, s
<1>6. Tidy(u)
  BY <1>2, <1>4, <1>5 DEF Tidy
<1>7. \A c \in Call : /\ ToPerform(u, c) => ToPerform(w, c) \/ c = job
                      /\ KnowsOf(u, c) => KnowsOf(w, c) \/ c = job
                      /\ Settled(u, c) => Settled(w, c)
  BY <1>2, <1>4 DEF ToPerform, KnowsOf, Settled, s
<1>8. Forgets(u, W!Pump(u))
  BY <1>4, <1>6, PumpForgets
<1> QED BY <1>3, <1>7, <1>8 DEF Takes, Forgets

(* close(): its barrier is no call. *)
LEMMA BeginCloseForgets ==
    ASSUME NEW w \in W!WorkerState, Tidy(w)
    PROVE  Forgets(w, W!BeginClose(w))
<1> DEFINE u == [w EXCEPT !.closing = TRUE]
<1>1. /\ u \in W!WorkerState /\ u.queue = w.queue /\ u.thread = w.thread /\ u.active = w.active
      /\ u.replied = w.replied
  BY Zenon DEF W!WorkerState
<1>2. W!BeginClose(w) = IF w.closed THEN u ELSE W!Enqueue(u, Close)
  BY Zenon DEF W!BeginClose
<1> HIDE DEF u
<1>3. Forgets(w, u)
  BY <1>1, FlagsForget
<1>4. Tidy(u) /\ Close \notin Call
  BY <1>3, HostAssumption DEF Forgets
<1>5. Takes(u, W!Enqueue(u, Close), Close)
  BY <1>1, <1>4, EnqueueTakes
<1>6. Forgets(u, W!Enqueue(u, Close))
  BY <1>4, <1>5 DEF Takes, Forgets
<1> QED BY <1>2, <1>3, <1>6, ForgetsFollows

(* The scope's abort: the waiting jobs go, the active one is cancelled. *)
LEMMA AbortForgets ==
    ASSUME NEW w \in W!WorkerState, Tidy(w)
    PROVE  LET left == [w EXCEPT !.queue = <<>>]
           IN  Forgets(w, W!BeginClose(IF w.active = Nil THEN left ELSE W!Abort(left, w.active)))
<1> DEFINE left == [w EXCEPT !.queue = <<>>]
           u == IF w.active = Nil THEN left ELSE W!Abort(left, w.active)
<1>1. /\ left \in W!WorkerState /\ left.queue = <<>> /\ left.thread = w.thread
      /\ left.active = w.active /\ left.replied = w.replied
  BY EmptyHolds, Zenon DEF W!WorkerState
<1>2. w.active # Nil => u = [left EXCEPT !.cancelled = TRUE]
  BY <1>1 DEF W!Abort
<1> HIDE DEF left
<1>3. /\ u \in W!WorkerState /\ u.queue = <<>> /\ u.thread = w.thread
      /\ u.active = w.active /\ u.replied = w.replied
  <2>1. CASE w.active = Nil
    BY <1>1, <2>1
  <2>2. CASE w.active # Nil
    BY <1>1, <1>2, <2>2, Zenon DEF W!WorkerState
  <2> QED BY <2>1, <2>2
<1> HIDE DEF u
<1>4. Tidy(u)
  BY <1>3, EmptyHolds DEF Tidy
<1>5. Forgets(w, u)
  BY <1>3, <1>4, EmptyHolds DEF Forgets, ToPerform, KnowsOf, Settled
<1>6. Forgets(u, W!BeginClose(u))
  BY <1>3, <1>4, BeginCloseForgets
<1> QED BY <1>5, <1>6, ForgetsFollows DEF u, left

(* The thread has performed its job: what is settled now is that job. *)
LEMMA PerformMoves ==
    ASSUME NEW w \in W!WorkerState, Tidy(w), w.thread # Nil
    PROVE  /\ W!Perform(w) \in W!WorkerState /\ Tidy(W!Perform(w))
           /\ \A c \in Call : /\ ToPerform(W!Perform(w), c) => ToPerform(w, c) /\ c # w.thread
                              /\ KnowsOf(W!Perform(w), c) => KnowsOf(w, c)
                              /\ Settled(W!Perform(w), c) => c = w.thread
<1> DEFINE v == W!Perform(w)
<1>1. v = [w EXCEPT !.thread = Nil, !.replied = (w.active # Nil)]
  BY DEF W!Perform
<1> HIDE DEF v
<1>2. /\ v \in W!WorkerState /\ v.queue = w.queue /\ v.active = w.active /\ v.thread = Nil
      /\ v.replied => w.active # Nil
  BY <1>1, Zenon DEF W!WorkerState
<1>3. Nil \notin Call
  BY HostAssumption
<1>4. Tidy(v)
  BY <1>2, <1>3 DEF Tidy
<1>5. \A c \in Call : /\ ToPerform(v, c) => ToPerform(w, c) /\ c # w.thread
                      /\ KnowsOf(v, c) => KnowsOf(w, c)
                      /\ Settled(v, c) => c = w.thread
  BY <1>2, <1>3 DEF Tidy, ToPerform, KnowsOf, Settled
<1> QED BY <1>2, <1>4, <1>5 DEF v

-----------------------------------------------------------------------------
(* The invariant                                                           *)

Answers == [job : Job, result : {"value", "refused", "failed"}]

Shape ==
    /\ outcome \in [Call -> Outcome]
    /\ asked = [c \in Call |-> asked[c]]
    /\ written = [c \in Call |-> written[c]]
    /\ created \in Nat
    /\ space = [h \in Host |-> space[h]]
    /\ process = [h \in Host |-> process[h]]
    /\ pending \in [Host -> SUBSET Job]
    /\ inbox \in [Host -> Seq(Job \cup {Shutdown})]
    /\ outbox \in [Host -> SUBSET Answers]
    /\ worker \in [Host -> [Thread -> W!WorkerState]]

(* Where a call is: the process has something of it; it may yet be performed *)
(* there; it has been; it was turned away.                                   *)
Held(h, c) ==
    \/ c \in pending[h] \/ Holds(inbox[h], c)
    \/ \E k \in Thread : KnowsOf(worker[h][k], c)
    \/ \E r \in outbox[h] : r.job = c
ToDo(h, c) == Holds(inbox[h], c) \/ \E k \in Thread : ToPerform(worker[h][k], c)
Done(h, c) ==
    \/ \E k \in Thread : Settled(worker[h][k], c)
    \/ \E r \in outbox[h] : r.job = c /\ r.result = "value"
TurnedAway(h, c) == \E r \in outbox[h] : r.job = c /\ r.result = "refused"

(* What is still to be performed in a process is unwritten, there once and *)
(* not yet answered; what is answered is written or never will be.         *)
Followed(c, h) ==
    /\ Held(h, c) => h <= created /\ outcome[c] # "unsent" /\ asked[c] = space[h]
    /\ c \in pending[h] => outcome[c] = "open"
    /\ ToDo(h, c) => /\ written[c] = <<>> /\ outcome[c] \in {"open", "failed"}
                     /\ ~TurnedAway(h, c)
    /\ Done(h, c) => written[c] # <<>>
    /\ TurnedAway(h, c) => written[c] = <<>>
    /\ Holds(inbox[h], c) => \A k \in Thread : ~ToPerform(worker[h][k], c)
    /\ \A k \in Thread : ToPerform(worker[h][k], c) => k = ThreadOf(c)

CallsAreTracked ==
    /\ \A h \in Host : /\ Once(inbox[h]) /\ (Alive(h) => h <= created)
                       /\ \A k \in Thread : Tidy(worker[h][k])
    /\ \A c \in Call, h \in Host : Followed(c, h)
    /\ \A c \in Call, h, i \in Host : Held(h, c) /\ Held(i, c) => h = i
    /\ \A c \in Call : /\ written[c] \in {<<>>, <<asked[c]>>}
                       /\ outcome[c] = "unsent" => written[c] = <<>>

HInv == Shape /\ CallsAreTracked

(* Nothing arises in a process that was not there: most steps only lose.   *)
PendingFalls == \A h \in Host : pending'[h] \cap Call \subseteq pending[h]
InboxFalls ==
    \A h \in Host : Once(inbox'[h]) /\ \A c \in Call : Holds(inbox'[h], c) => Holds(inbox[h], c)
WorkersForget == \A h \in Host, k \in Thread : Forgets(worker[h][k], worker'[h][k])
OutboxFalls ==
    \A h \in Host : \A r \in outbox'[h] :
       r.job \in Call =>
          \/ r \in outbox[h]
          \/ r.result = "failed" /\ \E k \in Thread : KnowsOf(worker[h][k], r.job)
          \/ r.result = "value" /\ \E k \in Thread : Settled(worker[h][k], r.job)
SpacesStay ==
    /\ created' >= created
    /\ \A h \in Host : /\ h <= created => space'[h] = space[h]
                       /\ Alive(h)' => h <= created'

(* A call is answered by what is no longer waited for.                     *)
AnswersHold ==
    \A c \in Call :
       \/ outcome'[c] = outcome[c]
       \/ /\ outcome'[c] # "unsent"
          /\ \A h \in Host : c \notin pending'[h]
          /\ outcome'[c] = "failed" \/ \A h \in Host : ~ToDo(h, c)

Loses ==
    /\ PendingFalls /\ InboxFalls /\ WorkersForget /\ OutboxFalls
    /\ SpacesStay /\ AnswersHold /\ asked' = asked /\ written' = written

LEMMA LosingHolds ==
    HInv /\ Shape' /\ Loses =>
    \A c \in Call, h \in Host : /\ Held(h, c)' => Held(h, c)
                                /\ ToDo(h, c)' => ToDo(h, c)
                                /\ Done(h, c)' => Done(h, c)
                                /\ TurnedAway(h, c)' => TurnedAway(h, c)
<1> SUFFICES ASSUME HInv, Shape', Loses, NEW c \in Call, NEW h \in Host
             PROVE  /\ Held(h, c)' => Held(h, c)
                    /\ ToDo(h, c)' => ToDo(h, c)
                    /\ Done(h, c)' => Done(h, c)
                    /\ TurnedAway(h, c)' => TurnedAway(h, c)
  OBVIOUS
<1>1. /\ c \in pending'[h] => c \in pending[h]
      /\ Holds(inbox'[h], c) => Holds(inbox[h], c)
  BY DEF Loses, PendingFalls, InboxFalls
<1>2. \A k \in Thread : /\ ToPerform(worker'[h][k], c) => ToPerform(worker[h][k], c)
                        /\ KnowsOf(worker'[h][k], c) => KnowsOf(worker[h][k], c)
                        /\ Settled(worker'[h][k], c) => Settled(worker[h][k], c)
  BY DEF Loses, WorkersForget, Forgets
<1>3. \A r \in outbox'[h] : r.job = c =>
          \/ r \in outbox[h]
          \/ r.result = "failed" /\ \E k \in Thread : KnowsOf(worker[h][k], c)
          \/ r.result = "value" /\ \E k \in Thread : Settled(worker[h][k], c)
  BY DEF Loses, OutboxFalls
<1>4. \A k \in Thread : Settled(worker[h][k], c) => KnowsOf(worker[h][k], c)
  BY DEF Settled, KnowsOf
<1>5. Held(h, c)' => Held(h, c)
  BY <1>1, <1>2, <1>3, <1>4 DEF Held
<1>6. ToDo(h, c)' => ToDo(h, c)
  BY <1>1, <1>2 DEF ToDo
<1>7. Done(h, c)' => Done(h, c)
  BY <1>2, <1>3 DEF Done
<1>8. TurnedAway(h, c)' => TurnedAway(h, c)
  BY <1>3 DEF TurnedAway
<1> QED BY <1>5, <1>6, <1>7, <1>8

LEMMA LosingKeeps == HInv /\ Shape' /\ Loses => HInv'
<1> SUFFICES ASSUME HInv, Shape', Loses PROVE CallsAreTracked'
  BY DEF HInv
<1> USE DEF HInv, CallsAreTracked
<1>1. \A c \in Call, h \in Host : /\ Held(h, c)' => Held(h, c)
                                  /\ ToDo(h, c)' => ToDo(h, c)
                                  /\ Done(h, c)' => Done(h, c)
                                  /\ TurnedAway(h, c)' => TurnedAway(h, c)
  BY LosingHolds
<1>2. \A h \in Host : /\ Once(inbox'[h]) /\ (Alive(h)' => h <= created')
                      /\ \A k \in Thread : Tidy(worker'[h][k])
  BY DEF Loses, InboxFalls, SpacesStay, WorkersForget, Forgets
<1>3. \A c \in Call : /\ written'[c] \in {<<>>, <<asked'[c]>>}
                      /\ outcome'[c] = "unsent" => written'[c] = <<>>
  BY DEF Loses, AnswersHold
<1>4. ASSUME NEW c \in Call, NEW h \in Host PROVE Followed(c, h)'
  <2>1. Followed(c, h)
    OBVIOUS
  <2>2. Held(h, c)' => h <= created' /\ outcome'[c] # "unsent" /\ asked'[c] = space'[h]
    <3>1. Held(h, c) => h <= created /\ outcome[c] # "unsent" /\ asked[c] = space[h]
      BY <2>1 DEF Followed
    <3>2. h <= created => h <= created' /\ space'[h] = space[h]
      BY DEF Loses, SpacesStay, Shape, Host
    <3>3. outcome[c] # "unsent" => outcome'[c] # "unsent"
      BY DEF Loses, AnswersHold
    <3> QED BY <1>1, <3>1, <3>2, <3>3 DEF Loses
  <2>3. c \in pending'[h] => outcome'[c] = "open"
    <3>1. c \in pending'[h] => c \in pending[h]
      BY DEF Loses, PendingFalls
    <3>2. c \in pending'[h] => outcome'[c] = outcome[c]
      BY DEF Loses, AnswersHold
    <3> QED BY <2>1, <3>1, <3>2 DEF Followed
  <2>4. ToDo(h, c)' => /\ written'[c] = <<>> /\ outcome'[c] \in {"open", "failed"}
                       /\ ~TurnedAway(h, c)'
    <3>1. ToDo(h, c)' => written'[c] = <<>> /\ ~TurnedAway(h, c)'
      BY <1>1, <2>1 DEF Followed, Loses
    <3>2. ToDo(h, c) => outcome'[c] \in {"open", "failed"}
      BY <2>1 DEF Followed, Loses, AnswersHold
    <3> QED BY <1>1, <3>1, <3>2
  <2>5. /\ Done(h, c)' => written'[c] # <<>>
        /\ TurnedAway(h, c)' => written'[c] = <<>>
    BY <1>1, <2>1 DEF Followed, Loses
  <2>6. \A k \in Thread : ToPerform(worker'[h][k], c) => ToPerform(worker[h][k], c)
    BY DEF Loses, WorkersForget, Forgets
  <2>7. Holds(inbox'[h], c) => Holds(inbox[h], c)
    BY DEF Loses, InboxFalls
  <2>8. Holds(inbox'[h], c) => \A k \in Thread : ~ToPerform(worker'[h][k], c)
    BY <2>1, <2>6, <2>7 DEF Followed
  <2>9. \A k \in Thread : ToPerform(worker'[h][k], c) => k = ThreadOf(c)
    BY <2>1, <2>6 DEF Followed
  <2> QED BY <2>2, <2>3, <2>4, <2>5, <2>8, <2>9 DEF Followed
<1>5. \A c \in Call, h, i \in Host : Held(h, c)' /\ Held(i, c)' => h = i
  BY <1>1
<1> QED BY <1>2, <1>3, <1>4, <1>5

-----------------------------------------------------------------------------
(* One piece of state at a time                                            *)

(* What becomes of the outcomes in a step that gives up on calls.          *)
OutcomesFail ==
    \E C \in SUBSET {c \in Call : outcome[c] = "open"} :
       outcome' = [c \in Call |-> IF c \in C THEN "failed" ELSE outcome[c]]

InboxGood == inbox' \in [Host -> Seq(Job \cup {Shutdown})] /\ InboxFalls
WorkersGood == worker' \in [Host -> [Thread -> W!WorkerState]] /\ WorkersForget
OutboxGood == outbox' \in [Host -> SUBSET Answers] /\ OutboxFalls
PendingGood == pending' \in [Host -> SUBSET Job] /\ PendingFalls
OutcomeGood == outcome' \in [Call -> Outcome] /\ AnswersHold
SpacesGood ==
    /\ created' \in Nat
    /\ space' = [h \in Host |-> space'[h]]
    /\ process' = [h \in Host |-> process'[h]]
    /\ SpacesStay
HistoryGood == asked' = asked /\ written' = written

Good ==
    /\ InboxGood /\ WorkersGood /\ OutboxGood /\ PendingGood
    /\ OutcomeGood /\ SpacesGood /\ HistoryGood

LEMMA GoodKeeps == HInv /\ Good => HInv'
<1> SUFFICES ASSUME HInv, Good PROVE HInv'
  OBVIOUS
<1>1. Shape'
  BY DEF HInv, Shape, Good, InboxGood, WorkersGood, OutboxGood, PendingGood, OutcomeGood,
         SpacesGood, HistoryGood
<1>2. Loses
  BY DEF Loses, Good, InboxGood, WorkersGood, OutboxGood, PendingGood, OutcomeGood,
         SpacesGood, HistoryGood
<1> QED BY <1>1, <1>2, LosingKeeps

(* What a step leaves alone. *)
LEMMA Frames ==
    HInv => /\ inbox' = inbox => InboxGood
            /\ worker' = worker => WorkersGood
            /\ outbox' = outbox => OutboxGood
            /\ pending' = pending => PendingGood
            /\ outcome' = outcome => OutcomeGood /\ OutcomesFail
            /\ created' = created /\ space' = space /\ process' = process => SpacesGood
<1> SUFFICES ASSUME HInv
             PROVE  /\ inbox' = inbox => InboxGood
                    /\ worker' = worker => WorkersGood
                    /\ outbox' = outbox => OutboxGood
                    /\ pending' = pending => PendingGood
                    /\ outcome' = outcome => OutcomeGood /\ OutcomesFail
                    /\ created' = created /\ space' = space /\ process' = process => SpacesGood
  OBVIOUS
<1> USE DEF HInv, Shape, CallsAreTracked
<1>1. inbox' = inbox => InboxGood
  BY DEF InboxGood, InboxFalls
<1>2. ASSUME worker' = worker PROVE WorkersGood
  <2>1. \A h \in Host, k \in Thread : Forgets(worker[h][k], worker[h][k])
    <3> TAKE h \in Host, k \in Thread
    <3>1. worker[h][k] \in W!WorkerState /\ Tidy(worker[h][k])
      OBVIOUS
    <3> QED BY <3>1, FlagsForget
  <2> QED BY <1>2, <2>1 DEF WorkersGood, WorkersForget
<1>3. outbox' = outbox => OutboxGood
  BY DEF OutboxGood, OutboxFalls
<1>4. pending' = pending => PendingGood
  BY DEF PendingGood, PendingFalls
<1>5. ASSUME outcome' = outcome PROVE OutcomeGood /\ OutcomesFail
  <2>1. outcome' = [c \in Call |-> IF c \in {} THEN "failed" ELSE outcome[c]]
    BY <1>5
  <2>2. {} \in SUBSET {c \in Call : outcome[c] = "open"}
    OBVIOUS
  <2> QED BY <1>5, <2>1, <2>2 DEF OutcomeGood, AnswersHold, OutcomesFail
<1>6. created' = created /\ space' = space /\ process' = process => SpacesGood
  BY DEF SpacesGood, SpacesStay, Alive
<1> QED BY <1>1, <1>2, <1>3, <1>4, <1>5, <1>6

(* One queue of messages is emptied, read or given a message that is no call. *)
LEMMA InboxMoves ==
    HInv => \A h \in Host :
      /\ inbox' = [inbox EXCEPT ![h] = <<>>] => InboxGood
      /\ inbox[h] # <<>> /\ inbox' = [inbox EXCEPT ![h] = Tail(@)] => InboxGood
      /\ \A x \in {Shutdown, Commit} : inbox' = [inbox EXCEPT ![h] = Append(@, x)] => InboxGood
<1> SUFFICES ASSUME HInv, NEW h \in Host
             PROVE  /\ inbox' = [inbox EXCEPT ![h] = <<>>] => InboxGood
                    /\ inbox[h] # <<>> /\ inbox' = [inbox EXCEPT ![h] = Tail(@)] => InboxGood
                    /\ \A x \in {Shutdown, Commit} :
                          inbox' = [inbox EXCEPT ![h] = Append(@, x)] => InboxGood
  OBVIOUS
<1> DEFINE S == Seq(Job \cup {Shutdown})
<1>1. inbox \in [Host -> S] /\ \A i \in Host : Once(inbox[i])
  BY DEF HInv, Shape, CallsAreTracked
<1>2. ASSUME NEW s \in S, Once(s), \A c \in Call : Holds(s, c) => Holds(inbox[h], c),
             inbox' = [inbox EXCEPT ![h] = s]
      PROVE  InboxGood
  <2> HIDE DEF S
  <2>1. inbox' \in [Host -> S] /\ inbox'[h] = s /\ \A i \in Host : i # h => inbox'[i] = inbox[i]
    BY <1>1, <1>2
  <2> QED BY <1>1, <1>2, <2>1 DEF InboxGood, InboxFalls, S
<1>3. inbox' = [inbox EXCEPT ![h] = <<>>] => InboxGood
  BY <1>2, EmptyHolds
<1>4. ASSUME inbox[h] # <<>>, inbox' = [inbox EXCEPT ![h] = Tail(@)] PROVE InboxGood
  <2>1. /\ Tail(inbox[h]) \in S /\ Once(Tail(inbox[h]))
        /\ \A c : Holds(Tail(inbox[h]), c) => Holds(inbox[h], c)
    BY <1>1, <1>4, TailHolds
  <2> QED BY <1>2, <1>4, <2>1
<1>5. ASSUME NEW x \in {Shutdown, Commit}, inbox' = [inbox EXCEPT ![h] = Append(@, x)]
      PROVE  InboxGood
  <2>1. x \in Job \cup {Shutdown} /\ x \notin Call
    BY HostAssumption DEF Job
  <2>2. /\ Append(inbox[h], x) \in S /\ Once(Append(inbox[h], x))
        /\ \A c : Holds(Append(inbox[h], x), c) => Holds(inbox[h], c) \/ c = x
    BY <1>1, <2>1, AppendHolds
  <2> QED BY <1>2, <1>5, <2>1, <2>2
<1> QED BY <1>3, <1>4, <1>5

(* One client forgets. *)
LEMMA WorkerMoves ==
    HInv => \A h \in Host, k \in Thread, v \in W!WorkerState :
               worker' = [worker EXCEPT ![h][k] = v] /\ Forgets(worker[h][k], v) => WorkersGood
<1> SUFFICES ASSUME HInv, NEW h \in Host, NEW k \in Thread, NEW v \in W!WorkerState,
                    worker' = [worker EXCEPT ![h][k] = v], Forgets(worker[h][k], v)
             PROVE  WorkersGood
  OBVIOUS
<1>1. worker \in [Host -> [Thread -> W!WorkerState]]
  BY DEF HInv, Shape
<1>2. /\ worker' \in [Host -> [Thread -> W!WorkerState]] /\ worker'[h][k] = v
      /\ \A i \in Host, j \in Thread : i # h \/ j # k => worker'[i][j] = worker[i][j]
  BY <1>1
<1>3. \A i \in Host, j \in Thread : Forgets(worker[i][j], worker[i][j])
  <2> TAKE i \in Host, j \in Thread
  <2>1. worker[i][j] \in W!WorkerState /\ Tidy(worker[i][j])
    BY DEF HInv, Shape, CallsAreTracked
  <2> QED BY <2>1, FlagsForget
<1> QED BY <1>2, <1>3 DEF WorkersGood, WorkersForget

(* Answers go out: failures of calls that are known, values of settled ones. *)
LEMMA OutboxMoves ==
    HInv => \A h \in Host, R \in SUBSET Answers :
      /\ outbox' = [outbox EXCEPT ![h] = @ \cup R]
      /\ \A r \in R : r.job \in Call =>
            \/ r.result = "failed" /\ \E k \in Thread : KnowsOf(worker[h][k], r.job)
            \/ r.result = "value" /\ \E k \in Thread : Settled(worker[h][k], r.job)
      => OutboxGood
<1> SUFFICES ASSUME HInv, NEW h \in Host, NEW R \in SUBSET Answers,
                    outbox' = [outbox EXCEPT ![h] = @ \cup R],
                    \A r \in R : r.job \in Call =>
                       \/ r.result = "failed" /\ \E k \in Thread : KnowsOf(worker[h][k], r.job)
                       \/ r.result = "value" /\ \E k \in Thread : Settled(worker[h][k], r.job)
             PROVE  OutboxGood
  OBVIOUS
<1>1. outbox \in [Host -> SUBSET Answers]
  BY DEF HInv, Shape
<1>2. /\ outbox' \in [Host -> SUBSET Answers] /\ outbox'[h] = outbox[h] \cup R
      /\ \A i \in Host : i # h => outbox'[i] = outbox[i]
  BY <1>1
<1> QED BY <1>2 DEF OutboxGood, OutboxFalls

(* rejectPending(): the calls a process was waited for are given up.       *)
LEMMA RejectPendingMoves ==
    HInv => \A h \in Host : RejectPending(h) => PendingGood /\ OutcomeGood /\ OutcomesFail
<1> SUFFICES ASSUME HInv, NEW h \in Host, RejectPending(h)
             PROVE  PendingGood /\ OutcomeGood /\ OutcomesFail
  OBVIOUS
<1>1. pending \in [Host -> SUBSET Job] /\ outcome \in [Call -> Outcome]
  BY DEF HInv, Shape
<1>2. /\ pending' \in [Host -> SUBSET Job] /\ pending'[h] = {}
      /\ \A i \in Host : i # h => pending'[i] = pending[i]
  BY <1>1 DEF RejectPending
<1>3. \A c \in Call : c \in pending[h] => outcome[c] = "open" /\ \A i \in Host : c \notin pending'[i]
  <2> SUFFICES ASSUME NEW c \in Call, c \in pending[h]
               PROVE  outcome[c] = "open" /\ \A i \in Host : c \notin pending'[i]
    OBVIOUS
  <2>1. outcome[c] = "open" /\ Held(h, c)
    BY DEF HInv, CallsAreTracked, Followed, Held
  <2>2. \A i \in Host : c \in pending[i] => i = h
    BY <2>1 DEF HInv, CallsAreTracked, Held
  <2> QED BY <1>2, <2>1, <2>2
<1>4. outcome' = [c \in Call |-> IF c \in pending[h] THEN "failed" ELSE outcome[c]]
  BY DEF RejectPending
<1>5. AnswersHold /\ outcome' \in [Call -> Outcome]
  BY <1>1, <1>3, <1>4 DEF AnswersHold, Outcome
<1>6. OutcomesFail
  <2> DEFINE C == pending[h] \cap Call
  <2>1. C \in SUBSET {c \in Call : outcome[c] = "open"}
    BY <1>3
  <2>2. outcome' = [c \in Call |-> IF c \in C THEN "failed" ELSE outcome[c]]
    BY <1>4
  <2> QED BY <2>1, <2>2 DEF OutcomesFail
<1> QED BY <1>2, <1>5, <1>6 DEF PendingGood, PendingFalls, OutcomeGood

-----------------------------------------------------------------------------
(* The steps that only lose                                                *)

Quietly == Good /\ OutcomesFail
ProcessAlone == created' = created /\ space' = space /\ process' = process

(* Main's own bookkeeping.                                                 *)
LEMMA MainQuiet ==
    HInv /\ (\/ \E target \in Workspace : ChangeAccount(target)
             \/ ChangeRefused \/ ActivateRestarted \/ SwitchFails)
    => Quietly
<1> SUFFICES ASSUME HInv,
                    UNCHANGED <<calls, written, created, space, process, pending, inbox, outbox, worker>>
             PROVE  Quietly
  BY DEF ChangeAccount, ChangeRefused, ActivateRestarted, SwitchFails
<1> QED BY Frames DEF Quietly, Good, HistoryGood, calls

(* The shutdown message is no call. *)
LEMMA BeginStopGood == HInv => \A h : BeginStop(h) => InboxGood
<1> SUFFICES ASSUME HInv, NEW h, BeginStop(h) PROVE InboxGood
  OBVIOUS
<1>1. CASE inbox' = inbox
  BY <1>1, Frames
<1>2. CASE inbox' # inbox
  <2>1. inbox' = [inbox EXCEPT ![h] = Append(@, Shutdown)]
    BY <1>2 DEF BeginStop
  <2>2. inbox = [i \in Host |-> inbox[i]]
    BY DEF HInv, Shape
  <2>3. h \in Host
    BY <1>2, <2>1, <2>2
  <2> QED BY <2>1, <2>3, InboxMoves
<1> QED BY <1>1, <1>2

LEMMA StopsQuiet ==
    HInv /\ (ChangeBegins \/ RestartRuntime \/ StartFails \/ ActivationFails) => Quietly
<1> SUFFICES ASSUME HInv, ChangeBegins \/ RestartRuntime \/ StartFails \/ ActivationFails
             PROVE  Quietly
  OBVIOUS
<1>1. /\ UNCHANGED <<calls, written, created, space, pending, outbox, worker>>
      /\ \E h : BeginStop(h)
      /\ \/ process' = process
         \/ \E h : process' = [process EXCEPT ![h] = IF @ = "starting" THEN "killed" ELSE @]
  BY DEF ChangeBegins, RestartRuntime, StartFails, ActivationFails, Release
<1>2. InboxGood
  BY <1>1, BeginStopGood
<1>3. SpacesGood
  <2>1. CASE process' = process
    BY <1>1, <2>1, Frames
  <2>2. CASE \E h : process' = [process EXCEPT ![h] = IF @ = "starting" THEN "killed" ELSE @]
    <3>1. /\ process = [i \in Host |-> process[i]] /\ space = [i \in Host |-> space[i]]
          /\ created \in Nat
      BY DEF HInv, Shape
    <3>2. /\ process' = [i \in Host |-> process'[i]]
          /\ \A i \in Host : process'[i] = process[i] \/ process[i] = "starting"
      BY <2>2, <3>1
    <3>3. \A i \in Host : Alive(i)' => Alive(i)
      BY <3>2 DEF Alive
    <3>4. \A i \in Host : Alive(i) => i <= created
      BY DEF HInv, CallsAreTracked
    <3> QED BY <1>1, <3>1, <3>2, <3>3, <3>4 DEF SpacesGood, SpacesStay
  <2> QED BY <1>1, <2>1, <2>2
<1> QED BY <1>1, <1>2, <1>3, Frames DEF Quietly, Good, HistoryGood, calls

(* The process that is forked holds nothing yet. *)
LEMMA CreateQuiet == HInv /\ (StartCandidate \/ RollBack) => Quietly
<1> SUFFICES ASSUME HInv, StartCandidate \/ RollBack PROVE Quietly
  OBVIOUS
<1>1. /\ UNCHANGED <<calls, written, pending, inbox, outbox, worker>>
      /\ created' = created + 1
      /\ \E w : space' = [space EXCEPT ![created + 1] = w]
      /\ process' = [process EXCEPT ![created + 1] = "starting"]
  BY DEF StartCandidate, RollBack, Create
<1>2. /\ process = [i \in Host |-> process[i]] /\ space = [i \in Host |-> space[i]]
      /\ created \in Nat
  BY DEF HInv, Shape
<1>3. /\ process' = [i \in Host |-> process'[i]] /\ space' = [i \in Host |-> space'[i]]
      /\ \A i \in Host : i # created + 1 => process'[i] = process[i] /\ space'[i] = space[i]
  BY <1>1, <1>2
<1>4. \A i \in Host : Alive(i)' => i <= created'
  <2> TAKE i \in Host
  <2>1. Alive(i) => i <= created
    BY DEF HInv, CallsAreTracked
  <2> QED BY <1>1, <1>2, <1>3, <2>1 DEF Alive, Host
<1>5. \A i \in Host : i <= created => space'[i] = space[i]
  BY <1>2, <1>3 DEF Host
<1>6. SpacesGood
  BY <1>1, <1>2, <1>3, <1>4, <1>5 DEF SpacesGood, SpacesStay
<1> QED BY <1>1, <1>6, Frames DEF Quietly, Good, HistoryGood, calls

(* Nor is the commit of a switch a window's call. *)
LEMMA ReadyQuiet == HInv /\ Ready => Quietly
<1> SUFFICES ASSUME HInv, Ready PROVE Quietly
  OBVIOUS
<1>1. /\ UNCHANGED <<calls, written, created, space, outbox, worker>>
      /\ \E h : /\ process[h] = "starting" /\ process' = [process EXCEPT ![h] = "ready"]
                /\ \/ UNCHANGED <<pending, inbox>>
                   \/ /\ pending' = [pending EXCEPT ![h] = @ \cup {Commit}]
                      /\ inbox' = [inbox EXCEPT ![h] = Append(@, Commit)]
  BY DEF Ready
<1>2. PICK h : /\ process[h] = "starting" /\ process' = [process EXCEPT ![h] = "ready"]
               /\ \/ UNCHANGED <<pending, inbox>>
                  \/ /\ pending' = [pending EXCEPT ![h] = @ \cup {Commit}]
                     /\ inbox' = [inbox EXCEPT ![h] = Append(@, Commit)]
  BY <1>1
<1>3. /\ process = [i \in Host |-> process[i]] /\ space = [i \in Host |-> space[i]]
      /\ created \in Nat /\ pending \in [Host -> SUBSET Job] /\ inbox = [i \in Host |-> inbox[i]]
  BY DEF HInv, Shape
<1>4. SpacesGood
  <2>1. process' = [i \in Host |-> process'[i]] /\ \A i \in Host : i # h => process'[i] = process[i]
    BY <1>2, <1>3
  <2>2. \A i \in Host : Alive(i)' => Alive(i)
    BY <1>2, <2>1 DEF Alive
  <2>3. \A i \in Host : Alive(i) => i <= created
    BY DEF HInv, CallsAreTracked
  <2> QED BY <1>1, <1>3, <2>1, <2>2, <2>3 DEF SpacesGood, SpacesStay
<1>5. PendingGood /\ InboxGood
  <2>1. CASE UNCHANGED <<pending, inbox>>
    BY <2>1, Frames
  <2>2. CASE h \notin Host
    BY <1>2, <1>3, <2>1, <2>2, Frames
  <2>3. CASE h \in Host /\ ~UNCHANGED <<pending, inbox>>
    <3>1. InboxGood
      BY <1>2, <2>3, InboxMoves
    <3>2. PendingGood
      <4>1. Commit \in Job /\ Commit \notin Call
        BY HostAssumption DEF Job
      <4>2. /\ pending' \in [Host -> SUBSET Job] /\ pending'[h] = pending[h] \cup {Commit}
            /\ \A i \in Host : i # h => pending'[i] = pending[i]
        BY <1>2, <1>3, <2>3, <4>1
      <4> QED BY <2>3, <4>1, <4>2 DEF PendingGood, PendingFalls
    <3> QED BY <3>1, <3>2
  <2> QED BY <2>1, <2>2, <2>3
<1> QED BY <1>1, <1>4, <1>5, Frames DEF Quietly, Good, HistoryGood, calls

(* A process is gone, with all it held. *)
LEMMA LeavesQuiet == HInv => \A h \in Host : Leaves(h) => Quietly
<1> SUFFICES ASSUME HInv, NEW h \in Host, Leaves(h) PROVE Quietly
  OBVIOUS
<1>1. /\ process' = [process EXCEPT ![h] = "exited"]
      /\ RejectPending(h)
      /\ inbox' = [inbox EXCEPT ![h] = <<>>]
      /\ outbox' = [outbox EXCEPT ![h] = {}]
      /\ worker' = [worker EXCEPT ![h] = [k \in Thread |-> W!NewWorker]]
      /\ UNCHANGED <<asked, written, created, space>>
  BY DEF Leaves
<1>2. /\ process = [i \in Host |-> process[i]] /\ space = [i \in Host |-> space[i]]
      /\ created \in Nat /\ outbox \in [Host -> SUBSET Answers]
      /\ worker \in [Host -> [Thread -> W!WorkerState]]
  BY DEF HInv, Shape
<1>3. SpacesGood
  <2>1. process' = [i \in Host |-> process'[i]] /\ \A i \in Host : process'[i] # "exited" => process'[i] = process[i]
    BY <1>1, <1>2
  <2>2. \A i \in Host : Alive(i)' => Alive(i)
    BY <2>1 DEF Alive
  <2>3. \A i \in Host : Alive(i) => i <= created
    BY DEF HInv, CallsAreTracked
  <2> QED BY <1>1, <1>2, <2>1, <2>2, <2>3 DEF SpacesGood, SpacesStay
<1>4. InboxGood
  BY <1>1, InboxMoves
<1>5. OutboxGood
  BY <1>1, <1>2 DEF OutboxGood, OutboxFalls
<1>6. WorkersGood
  <2>1. \A i \in Host, k \in Thread : worker[i][k] \in W!WorkerState /\ Tidy(worker[i][k])
    BY DEF HInv, Shape, CallsAreTracked
  <2>2. \A i \in Host, k \in Thread : Forgets(worker[i][k], worker[i][k])
    BY <2>1, FlagsForget
  <2>3. \A k \in Thread : Forgets(worker[h][k], W!NewWorker)
    BY <2>1, NewWorkerForgets
  <2>4. W!NewWorker \in W!WorkerState
    BY <2>3 DEF Forgets, Thread
  <2> HIDE DEF W!NewWorker
  <2>5. /\ worker' \in [Host -> [Thread -> W!WorkerState]]
        /\ \A k \in Thread : worker'[h][k] = W!NewWorker
        /\ \A i \in Host : i # h => worker'[i] = worker[i]
    BY <1>1, <1>2, <2>4
  <2> QED BY <2>2, <2>3, <2>5 DEF WorkersGood, WorkersForget
<1> QED BY <1>1, <1>3, <1>4, <1>5, <1>6, RejectPendingMoves DEF Quietly, Good, HistoryGood

LEMMA DeathQuiet ==
    HInv => \A h \in Host : Exit(h) \/ Crash(h) \/ GraceTimeout(h) \/ StopFails(h) => Quietly
<1> SUFFICES ASSUME HInv, NEW h \in Host, Exit(h) \/ Crash(h) \/ GraceTimeout(h) \/ StopFails(h)
             PROVE  Quietly
  OBVIOUS
<1>1. CASE Exit(h) \/ Crash(h)
  BY <1>1, LeavesQuiet DEF Exit, Crash
<1>2. CASE GraceTimeout(h)
  <2>1. /\ UNCHANGED <<calls, written, created, space, pending, inbox, outbox, worker>>
        /\ Alive(h) /\ process' = [process EXCEPT ![h] = "killed"]
    BY <1>2 DEF GraceTimeout, main
  <2>2. /\ process = [i \in Host |-> process[i]] /\ space = [i \in Host |-> space[i]]
        /\ created \in Nat
    BY DEF HInv, Shape
  <2>3. process' = [i \in Host |-> process'[i]] /\ \A i \in Host : i # h => process'[i] = process[i]
    BY <2>1, <2>2
  <2>4. \A i \in Host : Alive(i)' => Alive(i)
    BY <2>1, <2>3 DEF Alive
  <2>5. \A i \in Host : Alive(i) => i <= created
    BY DEF HInv, CallsAreTracked
  <2>6. SpacesGood
    BY <2>1, <2>2, <2>3, <2>4, <2>5 DEF SpacesGood, SpacesStay
  <2> QED BY <2>1, <2>6, Frames DEF Quietly, Good, HistoryGood, calls
<1>3. CASE StopFails(h)
  <2>1. /\ UNCHANGED <<asked, written, created, space, process, inbox, outbox, worker>>
        /\ RejectPending(h)
    BY <1>3 DEF StopFails, main
  <2> QED BY <2>1, RejectPendingMoves, Frames DEF Quietly, Good, HistoryGood
<1> QED BY <1>1, <1>2, <1>3

(* The answers to a set of jobs. *)
LEMMA ResponsesAre ==
    ASSUME NEW jobs \in SUBSET Job, NEW e \in {"value", "refused", "failed"}
    PROVE  /\ Responses(jobs, e) \in SUBSET Answers
           /\ \A r \in Responses(jobs, e) : r.job \in jobs /\ r.result = e
BY DEF Responses, Response, Answers

(* The jobs whose callers wait are known to the client. *)
LEMMA WaitingAre ==
    ASSUME NEW w \in W!WorkerState
    PROVE  /\ W!Waiting(w) \in SUBSET Job
           /\ \A c \in W!Waiting(w) : KnowsOf(w, c)
<1>1. w.queue \in Seq(Job \cup {Close}) /\ w.active \in Job \cup {Close, Nil}
  BY DEF W!WorkerState
<1>2. DOMAIN w.queue = 1..Len(w.queue)
      /\ \A n \in DOMAIN w.queue : w.queue[n] \in Job \cup {Close}
  BY <1>1
<1>3. \A c \in ToSet(w.queue) : c \in Job \cup {Close} /\ Holds(w.queue, c)
  BY <1>2 DEF ToSet, Holds
<1>4. W!Waiting(w) = (ToSet(w.queue) \cup {w.active}) \ {Nil, Close}
  BY DEF W!Waiting, ToSet, W!ToSet
<1> QED BY <1>1, <1>3, <1>4 DEF KnowsOf, ToPerform

(* Client and answers of one thread. *)
LEMMA ThreadQuiet ==
    HInv => \A h \in Host, k \in Thread :
              Settle(h, k) \/ WorkerTimeout(h, k) \/ WorkerTerminates(h, k) => Quietly
<1> SUFFICES ASSUME HInv, NEW h \in Host, NEW k \in Thread,
                    Settle(h, k) \/ WorkerTimeout(h, k) \/ WorkerTerminates(h, k)
             PROVE  Quietly
  OBVIOUS
<1> DEFINE w == worker[h][k]
<1>1. w \in W!WorkerState /\ Tidy(w)
  BY DEF HInv, Shape, CallsAreTracked
<1>2. UNCHANGED <<calls, written, created, space, process, pending, inbox>>
  BY DEF Settle, WorkerTimeout, WorkerTerminates, main
<1>3. Forgets(w, W!RejectAll(w)) /\ Forgets(w, W!Settle(w)) /\ Forgets(w, W!Terminate(w))
  BY <1>1, RejectAllForgets, SettleForgets, TerminateForgets
<1>4. WorkersGood
  <2>1. \E v : v \in {W!RejectAll(w), W!Settle(w), W!Terminate(w)} /\ worker' = [worker EXCEPT ![h][k] = v]
    <3>1. CASE Settle(h, k)
      BY <3>1 DEF Settle
    <3>2. CASE WorkerTimeout(h, k)
      BY <3>2 DEF WorkerTimeout
    <3>3. CASE WorkerTerminates(h, k)
      BY <3>3 DEF WorkerTerminates
    <3> QED BY <3>1, <3>2, <3>3
  <2>2. PICK v : v \in {W!RejectAll(w), W!Settle(w), W!Terminate(w)}
                 /\ worker' = [worker EXCEPT ![h][k] = v]
    BY <2>1
  <2>3. Forgets(w, v)
    BY <1>3, <2>2
  <2>4. v \in W!WorkerState
    BY <2>3 DEF Forgets
  <2> QED BY <2>2, <2>3, <2>4, WorkerMoves
<1>5. OutboxGood
  <2>1. CASE Settle(h, k)
    <3> DEFINE e == IF w.cancelled THEN "failed" ELSE "value"
               jobs == {w.active} \ {Close}
    <3>1. w.replied /\ outbox' = [outbox EXCEPT ![h] = @ \cup Responses(jobs, e)]
      BY <2>1 DEF Settle
    <3>2. jobs \in SUBSET Job /\ e \in {"value", "refused", "failed"}
      BY <1>1, <3>1 DEF W!WorkerState, Tidy
    <3>3. /\ e \in {"value", "failed"}
          /\ \A c \in jobs : Settled(w, c) /\ KnowsOf(w, c)
      BY <3>1 DEF Settled, KnowsOf
    <3> HIDE DEF e, jobs
    <3>4. /\ Responses(jobs, e) \in SUBSET Answers
          /\ \A r \in Responses(jobs, e) : r.job \in jobs /\ r.result = e
      BY <3>2, ResponsesAre
    <3> QED BY <3>1, <3>3, <3>4, OutboxMoves
  <2>2. CASE WorkerTimeout(h, k)
    <3> DEFINE jobs == W!Waiting(w)
    <3>1. outbox' = [outbox EXCEPT ![h] = @ \cup Responses(jobs, "failed")]
      BY <2>2 DEF WorkerTimeout
    <3>2. jobs \in SUBSET Job /\ \A c \in jobs : KnowsOf(w, c)
      BY <1>1, WaitingAre
    <3> HIDE DEF jobs
    <3>3. /\ Responses(jobs, "failed") \in SUBSET Answers
          /\ \A r \in Responses(jobs, "failed") : r.job \in jobs /\ r.result = "failed"
      BY <3>2, ResponsesAre
    <3> QED BY <3>1, <3>2, <3>3, OutboxMoves
  <2>3. CASE WorkerTerminates(h, k)
    BY <2>3, Frames DEF WorkerTerminates
  <2> QED BY <2>1, <2>2, <2>3
<1> QED BY <1>2, <1>4, <1>5, Frames DEF Quietly, Good, HistoryGood, calls

LEMMA ShutdownQuiet ==
    HInv => \A h \in Host : HandleShutdown(h) \/ CloseDatabase(h) => Quietly
<1> SUFFICES ASSUME HInv, NEW h \in Host, HandleShutdown(h) \/ CloseDatabase(h) PROVE Quietly
  OBVIOUS
<1>1. \A k \in Thread : worker[h][k] \in W!WorkerState /\ Tidy(worker[h][k])
  BY DEF HInv, Shape, CallsAreTracked
<1>2. CASE CloseDatabase(h)
  <2> DEFINE w == worker[h]["database"]
             v == W!BeginClose(w)
  <2>1. Forgets(w, v) /\ "database" \in Thread
    BY <1>1, BeginCloseForgets DEF Thread
  <2>2. /\ worker' = [worker EXCEPT ![h]["database"] = v]
        /\ UNCHANGED <<calls, written, created, space, process, pending, inbox, outbox>>
    BY <1>2 DEF CloseDatabase, main
  <2> HIDE DEF v
  <2>3. WorkersGood
    BY <2>1, <2>2, WorkerMoves DEF Forgets
  <2> QED BY <2>2, <2>3, Frames DEF Quietly, Good, HistoryGood, calls
<1>3. CASE HandleShutdown(h)
  <2> DEFINE w == worker[h]["compute"]
             left == [w EXCEPT !.queue = <<>>]
             v == W!BeginClose(IF w.active = Nil THEN left ELSE W!Abort(left, w.active))
             jobs == W!Waiting(w) \ {w.active}
  <2>1. /\ inbox[h] # <<>> /\ inbox' = [inbox EXCEPT ![h] = Tail(@)]
        /\ UNCHANGED <<calls, written, created, space, process, pending>>
        /\ \/ UNCHANGED <<worker, outbox>>
           \/ /\ worker' = [worker EXCEPT ![h]["compute"] = v]
              /\ outbox' = [outbox EXCEPT ![h] = @ \cup Responses(jobs, "failed")]
    BY <1>3 DEF HandleShutdown, main
  <2>2. Forgets(w, v) /\ "compute" \in Thread
    BY <1>1, AbortForgets DEF Thread
  <2>3. jobs \in SUBSET Job /\ \A c \in jobs : KnowsOf(w, c)
    BY <1>1, WaitingAre DEF Thread
  <2> HIDE DEF v, jobs, w
  <2>4. /\ Responses(jobs, "failed") \in SUBSET Answers
        /\ \A r \in Responses(jobs, "failed") : r.job \in jobs /\ r.result = "failed"
    BY <2>3, ResponsesAre
  <2>5. CASE UNCHANGED <<worker, outbox>>
    BY <2>1, <2>5, InboxMoves, Frames DEF Quietly, Good, HistoryGood, calls
  <2>6. CASE /\ worker' = [worker EXCEPT ![h]["compute"] = v]
             /\ outbox' = [outbox EXCEPT ![h] = @ \cup Responses(jobs, "failed")]
    <3>1. WorkersGood
      BY <2>2, <2>6, WorkerMoves DEF Forgets, w
    <3>2. OutboxGood
      BY <2>2, <2>3, <2>4, <2>6, OutboxMoves DEF w
    <3> QED BY <2>1, <3>1, <3>2, InboxMoves, Frames DEF Quietly, Good, HistoryGood, calls
  <2> QED BY <2>1, <2>5, <2>6
<1> QED BY <1>2, <1>3

(* The request's own deadline: one call is given up. *)
LEMMA RequestTimeoutQuiet ==
    HInv => \A h \in Host, job \in Job : RequestTimeout(h, job) => Quietly
<1> SUFFICES ASSUME HInv, NEW h \in Host, NEW job \in Job, RequestTimeout(h, job) PROVE Quietly
  OBVIOUS
<1>1. /\ job \in pending[h] /\ pending' = [pending EXCEPT ![h] = @ \ {job}]
      /\ outcome' = IF job \in Call THEN [outcome EXCEPT ![job] = "failed"] ELSE outcome
      /\ UNCHANGED <<asked, written, created, space, process, inbox, outbox, worker>>
  BY DEF RequestTimeout, main
<1>2. pending \in [Host -> SUBSET Job] /\ outcome \in [Call -> Outcome]
  BY DEF HInv, Shape
<1>3. /\ pending' \in [Host -> SUBSET Job] /\ pending'[h] = pending[h] \ {job}
      /\ \A i \in Host : i # h => pending'[i] = pending[i]
  BY <1>1, <1>2
<1>4. PendingGood
  BY <1>3 DEF PendingGood, PendingFalls
<1>5. OutcomeGood /\ OutcomesFail
  <2>1. CASE job \notin Call
    BY <1>1, <2>1, Frames
  <2>2. CASE job \in Call
    <3>1. outcome[job] = "open" /\ Held(h, job)
      BY <1>1, <2>2 DEF HInv, CallsAreTracked, Followed, Held
    <3>2. \A i \in Host : job \notin pending'[i]
      BY <1>3, <2>2, <3>1 DEF HInv, CallsAreTracked, Held
    <3>3. outcome' = [c \in Call |-> IF c \in {job} THEN "failed" ELSE outcome[c]]
      BY <1>1, <1>2, <2>2
    <3>4. {job} \in SUBSET {c \in Call : outcome[c] = "open"}
      BY <2>2, <3>1
    <3>5. outcome' \in [Call -> Outcome] /\ AnswersHold
      BY <1>2, <3>2, <3>3 DEF Outcome, AnswersHold
    <3> QED BY <3>3, <3>4, <3>5 DEF OutcomeGood, OutcomesFail
  <2> QED BY <2>1, <2>2
<1> QED BY <1>1, <1>4, <1>5, Frames DEF Quietly, Good, HistoryGood

-----------------------------------------------------------------------------
(* The steps of a call                                                     *)

(* A window gets the value or the refusal that came back for its call, or  *)
(* is told that the runtime has changed instead of the value.              *)
Answered ==
    \E c \in Call :
       /\ outcome[c] = "open"
       /\ \/ written[c] # <<>> /\ outcome' = [outcome EXCEPT ![c] = "value"]
          \/ outcome' = [outcome EXCEPT ![c] = "changed"]
          \/ written[c] = <<>> /\ outcome' = [outcome EXCEPT ![c] = "refused"]

LEMMA DeliverGood ==
    HInv => \A h \in Host : \A r \in outbox[h] : Deliver(h, r) => Good /\ (OutcomesFail \/ Answered)
<1> SUFFICES ASSUME HInv, NEW h \in Host, NEW r \in outbox[h], Deliver(h, r)
             PROVE  Good /\ (OutcomesFail \/ Answered)
  OBVIOUS
<1>1. /\ outbox' = [outbox EXCEPT ![h] = @ \ {r}]
      /\ pending' = [pending EXCEPT ![h] = @ \ {r.job}]
      /\ outcome' = IF r.job \in Call \cap pending[h]
                    THEN [outcome EXCEPT ![r.job] = Told(h, r)] ELSE outcome
      /\ UNCHANGED <<asked, written, created, space, process, inbox, worker>>
  BY DEF Deliver
<1>2. /\ pending \in [Host -> SUBSET Job] /\ outcome \in [Call -> Outcome]
      /\ outbox \in [Host -> SUBSET Answers]
  BY DEF HInv, Shape
<1>3. /\ r.job \in Job /\ r.result \in {"value", "refused", "failed"}
      /\ Told(h, r) = r.result \/ (Told(h, r) = "changed" /\ r.result = "value")
  BY <1>2 DEF Answers, Told
<1>4. /\ pending' \in [Host -> SUBSET Job] /\ pending'[h] = pending[h] \ {r.job}
      /\ \A i \in Host : i # h => pending'[i] = pending[i]
  BY <1>1, <1>2
<1>5. PendingGood
  BY <1>4 DEF PendingGood, PendingFalls
<1>6. OutboxGood
  <2>1. /\ outbox' \in [Host -> SUBSET Answers] /\ outbox'[h] = outbox[h] \ {r}
        /\ \A i \in Host : i # h => outbox'[i] = outbox[i]
    BY <1>1, <1>2
  <2> QED BY <2>1 DEF OutboxGood, OutboxFalls
<1>7. OutcomeGood /\ (OutcomesFail \/ Answered)
  <2>1. CASE r.job \notin Call \cap pending[h]
    BY <1>1, <2>1, Frames
  <2>2. CASE r.job \in Call \cap pending[h]
    <3> DEFINE c == r.job
               told == Told(h, r)
    <3>1. /\ outcome[c] = "open" /\ Held(h, c) /\ \A i \in Host : Held(i, c) => i = h
      BY <2>2 DEF HInv, CallsAreTracked, Followed, Held
    <3>2. \A i \in Host : c \notin pending'[i]
      BY <1>4, <2>2, <3>1 DEF Held
    <3>3. /\ outcome' = [outcome EXCEPT ![c] = told] /\ outcome' \in [Call -> Outcome]
          /\ \A d \in Call : d # c => outcome'[d] = outcome[d]
          /\ outcome'[c] = told
      BY <1>1, <1>2, <1>3, <2>2 DEF Outcome
    <3>4. \A i \in Host : ToDo(i, c) => Held(i, c)
      BY DEF ToDo, Held, KnowsOf
    <3>5. r.result = "value" => written[c] # <<>>
      BY <2>2 DEF HInv, CallsAreTracked, Followed, Done
    <3>6. r.result = "refused" => TurnedAway(h, c)
      BY DEF TurnedAway
    <3>7. r.result = "refused" => written[c] = <<>> /\ \A i \in Host : ~ToDo(i, c)
      BY <2>2, <3>1, <3>4, <3>6 DEF HInv, CallsAreTracked, Followed
    <3>8. written[c] # <<>> => \A i \in Host : ~ToDo(i, c)
      BY <2>2 DEF HInv, CallsAreTracked, Followed
    <3>9. OutcomeGood
      BY <1>3, <3>2, <3>3, <3>5, <3>7, <3>8 DEF OutcomeGood, AnswersHold
    <3>10. CASE r.result = "failed"
      <4>1. outcome' = [d \in Call |-> IF d \in {c} THEN "failed" ELSE outcome[d]]
        BY <1>2, <1>3, <2>2, <3>3, <3>10
      <4>2. {c} \in SUBSET {d \in Call : outcome[d] = "open"}
        BY <2>2, <3>1
      <4> QED BY <3>9, <4>1, <4>2 DEF OutcomesFail
    <3>11. CASE r.result # "failed"
      BY <1>3, <2>2, <3>1, <3>3, <3>5, <3>7, <3>9, <3>11 DEF Answered
    <3> QED BY <3>10, <3>11
  <2> QED BY <2>1, <2>2
<1> QED BY <1>1, <1>5, <1>6, <1>7, Frames DEF Good, HistoryGood

(* The abstract state.                                                     *)
Performed == {c \in Call : written[c] # <<>>}

LEMMA QuietImplements == Quietly => Promised!GiveUp
BY DEF Quietly, Good, HistoryGood, OutcomesFail, Promised!GiveUp

LEMMA AnsweredImplements == Answered /\ written' = written => Promised!Next
<1> SUFFICES ASSUME Answered, written' = written PROVE Promised!Next
  OBVIOUS
<1>1. PICK c \in Call :
       /\ outcome[c] = "open"
       /\ \/ written[c] # <<>> /\ outcome' = [outcome EXCEPT ![c] = "value"]
          \/ outcome' = [outcome EXCEPT ![c] = "changed"]
          \/ written[c] = <<>> /\ outcome' = [outcome EXCEPT ![c] = "refused"]
  BY DEF Answered
<1>2. Promised!Answer(c) \/ Promised!Refuse(c) \/ Promised!Withhold(c)
  BY <1>1 DEF Promised!Answer, Promised!Refuse, Promised!Withhold
<1> QED BY <1>2 DEF Promised!Next

(* Whatever becomes of a call, the process holds it. *)
LEMMA HeldCovers ==
    HInv => \A h \in Host, c \in Call : ToDo(h, c) \/ Done(h, c) \/ TurnedAway(h, c) => Held(h, c)
BY DEF ToDo, Done, TurnedAway, Held, KnowsOf, Settled

LEMMA RequestKeeps ==
    HInv => \A c \in Call, h \in Host : Request(c, h) => HInv' /\ Promised!Next
<1> SUFFICES ASSUME HInv, NEW c \in Call, NEW h \in Host, Request(c, h)
             PROVE  HInv' /\ Promised!Next
  OBVIOUS
<1> DEFINE served == /\ h = runtime /\ healthy /\ Alive(h) /\ stop[h] = "no"
                     /\ ~(switch.pc # "idle" /\ switch.account)
                     /\ Cardinality(pending[h]) < MaxPending
<1>1. /\ outcome[c] = "unsent"
      /\ UNCHANGED <<written, created, space, process, outbox, worker>>
  BY DEF Request, main
<1>2. \A i \in Host : ~Held(i, c) /\ ~ToDo(i, c) /\ ~Done(i, c) /\ ~TurnedAway(i, c)
  BY <1>1, HeldCovers DEF HInv, CallsAreTracked, Followed
<1>3. written[c] = <<>>
  BY <1>1 DEF HInv, CallsAreTracked
<1>4. CASE ~served
  <2> DEFINE said == IF h = runtime THEN "refused" ELSE "changed"
  <2>1. outcome' = [outcome EXCEPT ![c] = said] /\ UNCHANGED <<asked, pending, inbox>>
    BY <1>4 DEF Request
  <2>2. outcome \in [Call -> Outcome]
    BY DEF HInv, Shape
  <2>3. \A i \in Host : c \notin pending'[i] /\ ~ToDo(i, c)
    BY <1>2, <2>1 DEF Held
  <2>4. /\ outcome' \in [Call -> Outcome] /\ outcome'[c] = said /\ said \in {"refused", "changed"}
        /\ \A d \in Call : d # c => outcome'[d] = outcome[d]
    BY <2>1, <2>2 DEF Outcome
  <2>5. OutcomeGood
    BY <2>3, <2>4 DEF OutcomeGood, AnswersHold
  <2>6. Good
    BY <1>1, <2>1, <2>5, Frames DEF Good, HistoryGood
  <2>7. Promised!Refuse(c) \/ Promised!Withhold(c)
    BY <1>1, <1>3, <2>1 DEF Promised!Refuse, Promised!Withhold
  <2> QED BY <2>6, <2>7, GoodKeeps DEF Promised!Next
<1>5. CASE served
  <2>1. /\ outcome' = [outcome EXCEPT ![c] = "open"]
        /\ asked' = [asked EXCEPT ![c] = space[h]]
        /\ pending' = [pending EXCEPT ![h] = @ \cup {c}]
        /\ inbox' = [inbox EXCEPT ![h] = Append(@, c)]
        /\ Alive(h)
    BY <1>5 DEF Request
  <2>2. /\ outcome \in [Call -> Outcome] /\ asked = [d \in Call |-> asked[d]]
        /\ pending \in [Host -> SUBSET Job] /\ inbox \in [Host -> Seq(Job \cup {Shutdown})]
        /\ \A i \in Host : Once(inbox[i])
    BY DEF HInv, Shape, CallsAreTracked
  <2>3. c \in Job /\ c \in Job \cup {Shutdown} /\ ~Holds(inbox[h], c)
    BY <1>2 DEF Job, Held
  <2>4. /\ Append(inbox[h], c) \in Seq(Job \cup {Shutdown}) /\ Once(Append(inbox[h], c))
        /\ \A d : Holds(Append(inbox[h], c), d) => Holds(inbox[h], d) \/ d = c
    BY <2>2, <2>3, AppendHolds
  <2>5. /\ inbox' \in [Host -> Seq(Job \cup {Shutdown})] /\ inbox'[h] = Append(inbox[h], c)
        /\ \A i \in Host : i # h => inbox'[i] = inbox[i]
    BY <2>1, <2>2, <2>4
  <2>6. /\ pending' \in [Host -> SUBSET Job] /\ pending'[h] = pending[h] \cup {c}
        /\ \A i \in Host : i # h => pending'[i] = pending[i]
    BY <2>1, <2>2, <2>3
  <2>7. /\ outcome' \in [Call -> Outcome] /\ outcome'[c] = "open"
        /\ \A d \in Call : d # c => outcome'[d] = outcome[d]
    BY <2>1, <2>2 DEF Outcome
  <2>8. /\ asked' = [d \in Call |-> asked'[d]] /\ asked'[c] = space[h]
        /\ \A d \in Call : d # c => asked'[d] = asked[d]
    BY <2>1, <2>2
  <2>9. Shape'
    BY <1>1, <2>5, <2>6, <2>7, <2>8 DEF HInv, Shape
  <2>10. \A i \in Host : Once(inbox'[i]) /\ \A d \in Call :
            Holds(inbox'[i], d) => Holds(inbox[i], d) \/ (d = c /\ i = h)
    BY <2>2, <2>4, <2>5
  <2>11. \A i \in Host, d \in Call :
            /\ Held(i, d)' => Held(i, d) \/ (d = c /\ i = h)
            /\ ToDo(i, d)' => ToDo(i, d) \/ (d = c /\ i = h)
            /\ Done(i, d)' => Done(i, d)
            /\ TurnedAway(i, d)' => TurnedAway(i, d)
            /\ d \in pending'[i] => d \in pending[i] \/ (d = c /\ i = h)
    BY <1>1, <2>6, <2>10 DEF Held, ToDo, Done, TurnedAway
  <2>12. h <= created
    BY <2>1 DEF HInv, CallsAreTracked
  <2>13. ASSUME NEW d \in Call, NEW i \in Host PROVE Followed(d, i)'
    <3>1. Followed(d, i)
      BY DEF HInv, CallsAreTracked
    <3>2. CASE d # c
      <4>1. outcome'[d] = outcome[d] /\ asked'[d] = asked[d]
        BY <2>7, <2>8, <3>2
      <4>2. /\ Held(i, d)' => Held(i, d)
            /\ ToDo(i, d)' => ToDo(i, d)
            /\ Done(i, d)' => Done(i, d)
            /\ TurnedAway(i, d)' => TurnedAway(i, d)
            /\ d \in pending'[i] => d \in pending[i]
            /\ Holds(inbox'[i], d) => Holds(inbox[i], d)
        BY <2>10, <2>11, <3>2
      <4> QED BY <1>1, <3>1, <4>1, <4>2 DEF Followed
    <3>3. CASE d = c
      <4>1. /\ ~Done(i, c)' /\ ~TurnedAway(i, c)'
            /\ Held(i, c)' => i = h
            /\ ToDo(i, c)' => i = h
        BY <1>2, <2>11
      <4>2. \A k \in Thread : ~ToPerform(worker'[i][k], c)
        BY <1>1, <1>2 DEF ToDo
      <4>3. c \in pending'[i] => outcome'[c] = "open"
        BY <2>7
      <4> QED BY <1>1, <1>3, <2>7, <2>8, <2>12, <3>3, <4>1, <4>2, <4>3 DEF Followed
    <3> QED BY <3>2, <3>3
  <2>14. \A d \in Call, i, j \in Host : Held(i, d)' /\ Held(j, d)' => i = j
    BY <1>2, <2>11 DEF HInv, CallsAreTracked
  <2>15. \A i \in Host : /\ Alive(i)' => i <= created'
                         /\ \A k \in Thread : Tidy(worker'[i][k])
    BY <1>1 DEF HInv, CallsAreTracked, Alive
  <2>16. \A d \in Call : /\ written'[d] \in {<<>>, <<asked'[d]>>}
                         /\ outcome'[d] = "unsent" => written'[d] = <<>>
    <3>1. \A d \in Call : /\ written[d] \in {<<>>, <<asked[d]>>}
                          /\ outcome[d] = "unsent" => written[d] = <<>>
      BY DEF HInv, CallsAreTracked
    <3> QED BY <1>1, <1>3, <2>7, <2>8, <3>1
  <2>17. CallsAreTracked'
    BY <2>10, <2>13, <2>14, <2>15, <2>16 DEF CallsAreTracked
  <2>18. Promised!Issue(c)
    BY <1>1, <2>1 DEF Promised!Issue
  <2> QED BY <2>9, <2>17, <2>18 DEF HInv, Promised!Next
<1> QED BY <1>4, <1>5

LEMMA DispatchKeeps ==
    HInv => \A h \in Host : Dispatch(h) => HInv' /\ outcome' = outcome /\ written' = written
<1> SUFFICES ASSUME HInv, NEW h \in Host, Dispatch(h)
             PROVE  HInv' /\ outcome' = outcome /\ written' = written
  OBVIOUS
<1> DEFINE job == Head(inbox[h])
           t == ThreadOf(job)
           w == worker[h][t]
           v == W!Enqueue(w, job)
           taken == W!Serving(w) /\ ~W!Full(w)
           e == IF W!Serving(w) THEN "refused" ELSE "failed"
<1>1. /\ inbox[h] # <<>> /\ job # Shutdown
      /\ inbox' = [inbox EXCEPT ![h] = Tail(@)]
      /\ worker' = IF taken THEN [worker EXCEPT ![h][t] = v] ELSE worker
      /\ outbox' = IF taken THEN outbox ELSE [outbox EXCEPT ![h] = @ \cup {Response(job, e)}]
      /\ UNCHANGED <<outcome, asked, written, created, space, process, pending>>
  BY DEF Dispatch, calls, main
<1>2. /\ inbox \in [Host -> Seq(Job \cup {Shutdown})] /\ outbox \in [Host -> SUBSET Answers]
      /\ worker \in [Host -> [Thread -> W!WorkerState]]
      /\ \A i \in Host : Once(inbox[i]) /\ \A k \in Thread : Tidy(worker[i][k])
  BY DEF HInv, Shape, CallsAreTracked
<1>3. /\ Tail(inbox[h]) \in Seq(Job \cup {Shutdown}) /\ job \in Job /\ Holds(inbox[h], job)
      /\ \A d : Holds(Tail(inbox[h]), d) => Holds(inbox[h], d)
      /\ Once(Tail(inbox[h])) /\ (job \in Call => ~Holds(Tail(inbox[h]), job))
  BY <1>1, <1>2, TailHolds
<1>4. t \in Thread /\ w \in W!WorkerState /\ Tidy(w)
  BY <1>2 DEF ThreadOf, Thread
<1>5. job \in Call => \A k \in Thread : ~ToPerform(worker[h][k], job)
  BY <1>3 DEF HInv, CallsAreTracked, Followed
<1>6. Takes(w, v, job)
  <2>1. job \in Call => ~ToPerform(w, job)
    BY <1>4, <1>5
  <2>2. job \in Job \cup {Close}
    BY <1>3
  <2> QED BY <1>4, <2>1, <2>2, EnqueueTakes
<1>7. e \in {"refused", "failed"}
  OBVIOUS
<1>8. t = ThreadOf(job)
  OBVIOUS
<1> HIDE DEF job, t, w, v, taken, e
<1>9. /\ inbox' \in [Host -> Seq(Job \cup {Shutdown})] /\ inbox'[h] = Tail(inbox[h])
      /\ \A i \in Host : i # h => inbox'[i] = inbox[i]
  BY <1>1, <1>2, <1>3
<1>10. /\ worker' \in [Host -> [Thread -> W!WorkerState]]
       /\ \A i \in Host, k \in Thread :
             worker'[i][k] = worker[i][k] \/ (i = h /\ k = t /\ worker'[i][k] = v)
  BY <1>1, <1>2, <1>4, <1>6 DEF Takes
<1>11. /\ outbox' \in [Host -> SUBSET Answers]
       /\ \A i \in Host : \A r \in outbox'[i] :
             r \in outbox[i] \/ (i = h /\ r.job = job /\ r.result \in {"refused", "failed"})
       /\ taken \/ worker' = worker
  <2>1. /\ Response(job, e) \in Answers /\ Response(job, e).job = job
        /\ Response(job, e).result = e
    BY <1>3, <1>7 DEF Response, Answers
  <2> HIDE DEF Response
  <2>2. CASE taken
    BY <1>1, <1>2, <2>2
  <2>3. CASE ~taken
    <3>1. /\ outbox' \in [Host -> SUBSET Answers] /\ outbox'[h] = outbox[h] \cup {Response(job, e)}
          /\ \A i \in Host : i # h => outbox'[i] = outbox[i]
      BY <1>1, <1>2, <2>1, <2>3
    <3> QED BY <1>1, <1>7, <2>1, <2>3, <3>1
  <2> QED BY <2>2, <2>3
<1>12. Shape'
  BY <1>1, <1>9, <1>10, <1>11 DEF HInv, Shape
<1>13. \A i \in Host, d \in Call :
          /\ Holds(inbox'[i], d) => Holds(inbox[i], d) /\ ~(i = h /\ d = job)
          /\ Once(inbox'[i])
  BY <1>2, <1>3, <1>9
<1>14. \A i \in Host, k \in Thread :
          /\ Tidy(worker'[i][k])
          /\ \A d \in Call :
                /\ ToPerform(worker'[i][k], d) =>
                      ToPerform(worker[i][k], d) \/ (i = h /\ d = job /\ k = t /\ taken)
                /\ KnowsOf(worker'[i][k], d) => KnowsOf(worker[i][k], d) \/ (i = h /\ d = job)
                /\ Settled(worker'[i][k], d) => Settled(worker[i][k], d)
  <2> TAKE i \in Host, k \in Thread
  <2>1. CASE worker'[i][k] = worker[i][k]
    BY <1>2, <2>1
  <2>2. CASE worker'[i][k] # worker[i][k]
    <3>1. i = h /\ k = t /\ worker'[i][k] = v /\ worker[i][k] = w
      BY <1>10, <2>2 DEF w
    <3>2. taken
      BY <1>11, <2>2
    <3> QED BY <1>6, <3>1, <3>2 DEF Takes
  <2> QED BY <2>1, <2>2
<1>15. ToDo(h, job) /\ Held(h, job)
  BY <1>3 DEF ToDo, Held
<1>16. \A i \in Host, d \in Call :
          /\ Held(i, d)' => Held(i, d)
          /\ ToDo(i, d)' => ToDo(i, d)
          /\ Done(i, d)' => Done(i, d)
  <2> TAKE i \in Host, d \in Call
  <2>1. Held(i, d)' => Held(i, d)
    BY <1>1, <1>11, <1>13, <1>14, <1>15 DEF Held
  <2>2. ToDo(i, d)' => ToDo(i, d)
    BY <1>13, <1>14, <1>15 DEF ToDo
  <2>3. Done(i, d)' => Done(i, d)
    BY <1>11, <1>14 DEF Done
  <2> QED BY <2>1, <2>2, <2>3
<1>17. \A i \in Host, d \in Call :
          TurnedAway(i, d)' => TurnedAway(i, d) \/ (i = h /\ d = job /\ ~ToDo(i, d)')
  <2> SUFFICES ASSUME NEW i \in Host, NEW d \in Call, TurnedAway(i, d)', ~TurnedAway(i, d)
               PROVE  i = h /\ d = job /\ ~ToDo(i, d)'
    OBVIOUS
  <2>1. i = h /\ d = job
    BY <1>11 DEF TurnedAway
  <2>2. worker' = worker
    <3>1. outbox' # outbox
      BY DEF TurnedAway
    <3> QED BY <1>1, <3>1
  <2>3. \A k \in Thread : ~ToPerform(worker'[h][k], job)
    BY <1>5, <2>1, <2>2
  <2>4. ~Holds(inbox'[h], job)
    BY <1>13, <2>1
  <2> QED BY <2>1, <2>3, <2>4 DEF ToDo
<1>18. ASSUME NEW d \in Call, NEW i \in Host PROVE Followed(d, i)'
  <2>1. Followed(d, i)
    BY DEF HInv, CallsAreTracked
  <2>2. Held(i, d)' => i <= created' /\ outcome'[d] # "unsent" /\ asked'[d] = space'[i]
    BY <1>1, <1>16, <2>1 DEF Followed
  <2>3. d \in pending'[i] => outcome'[d] = "open"
    BY <1>1, <2>1 DEF Followed
  <2>4. ToDo(i, d)' => /\ written'[d] = <<>> /\ outcome'[d] \in {"open", "failed"}
                       /\ ~TurnedAway(i, d)'
    BY <1>1, <1>16, <1>17, <2>1 DEF Followed
  <2>5. Done(i, d)' => written'[d] # <<>>
    BY <1>1, <1>16, <2>1 DEF Followed
  <2>6. TurnedAway(i, d)' => written'[d] = <<>>
    BY <1>1, <1>15, <1>17, <2>1 DEF Followed
  <2>7. Holds(inbox'[i], d) => \A k \in Thread : ~ToPerform(worker'[i][k], d)
    BY <1>13, <1>14, <2>1 DEF Followed
  <2>8. \A k \in Thread : ToPerform(worker'[i][k], d) => k = ThreadOf(d)
    BY <1>8, <1>14, <2>1 DEF Followed
  <2> QED BY <2>2, <2>3, <2>4, <2>5, <2>6, <2>7, <2>8 DEF Followed
<1>19. \A d \in Call, i, j \in Host : Held(i, d)' /\ Held(j, d)' => i = j
  BY <1>16 DEF HInv, CallsAreTracked
<1>20. \A i \in Host : Alive(i)' => i <= created'
  BY <1>1 DEF HInv, CallsAreTracked, Alive
<1>21. \A d \in Call : /\ written'[d] \in {<<>>, <<asked'[d]>>}
                       /\ outcome'[d] = "unsent" => written'[d] = <<>>
  BY <1>1 DEF HInv, CallsAreTracked
<1>22. \A i \in Host : Once(inbox'[i]) /\ \A k \in Thread : Tidy(worker'[i][k])
  BY <1>2, <1>3, <1>9, <1>14
<1>23. CallsAreTracked'
  BY <1>18, <1>19, <1>20, <1>21, <1>22 DEF CallsAreTracked
<1> QED BY <1>1, <1>12, <1>23 DEF HInv

LEMMA PerformKeeps ==
    HInv => \A h \in Host, k \in Thread :
              Perform(h, k) => HInv' /\ (Promised!GiveUp \/ Promised!Next)
<1> SUFFICES ASSUME HInv, NEW h \in Host, NEW k \in Thread, Perform(h, k)
             PROVE  HInv' /\ (Promised!GiveUp \/ Promised!Next)
  OBVIOUS
<1> DEFINE w == worker[h][k]
           v == W!Perform(w)
<1>1. /\ w.thread # Nil
      /\ written' = IF w.thread \in Call
                    THEN [written EXCEPT ![w.thread] = Append(@, space[h])] ELSE written
      /\ worker' = [worker EXCEPT ![h][k] = v]
      /\ UNCHANGED <<outcome, asked, created, space, process, pending, inbox, outbox>>
  BY DEF Perform, calls, main
<1>2. w \in W!WorkerState /\ Tidy(w) /\ worker \in [Host -> [Thread -> W!WorkerState]]
  BY DEF HInv, Shape, CallsAreTracked
<1>3. /\ v \in W!WorkerState /\ Tidy(v)
      /\ \A d \in Call : /\ ToPerform(v, d) => ToPerform(w, d) /\ d # w.thread
                         /\ KnowsOf(v, d) => KnowsOf(w, d)
                         /\ Settled(v, d) => d = w.thread
  BY <1>1, <1>2, PerformMoves
<1> HIDE DEF v
<1>4. CASE w.thread \notin Call
  <2>1. Forgets(w, v)
    BY <1>3, <1>4 DEF Forgets
  <2>2. WorkersGood
    BY <1>1, <1>3, <2>1, WorkerMoves
  <2>3. Quietly
    BY <1>1, <1>4, <2>2, Frames DEF Quietly, Good, HistoryGood
  <2> QED BY <2>3, GoodKeeps, QuietImplements DEF Quietly
<1>5. ASSUME NEW c \in Call, c = w.thread
      PROVE  HInv' /\ (Promised!GiveUp \/ Promised!Next)
  <2>1. ToPerform(w, c) /\ ToDo(h, c) /\ Held(h, c)
    BY <1>5, HeldCovers DEF ToPerform, ToDo
  <2>2. /\ written[c] = <<>> /\ outcome[c] \in {"open", "failed"} /\ ~TurnedAway(h, c)
        /\ asked[c] = space[h] /\ k = ThreadOf(c) /\ ~Holds(inbox[h], c)
    BY <1>5, <2>1 DEF HInv, CallsAreTracked, Followed
  <2>3. \A i \in Host : Held(i, c) => i = h
    BY <1>5, <2>1 DEF HInv, CallsAreTracked
  <2>4. \A i \in Host : (ToDo(i, c) \/ TurnedAway(i, c)) => i = h
    BY <1>5, <2>3, HeldCovers
  <2>5. written = [d \in Call |-> written[d]]
    BY DEF HInv, Shape
  <2>6. /\ written' = [d \in Call |-> written'[d]] /\ written'[c] = <<asked[c]>>
        /\ \A d \in Call : d # c => written'[d] = written[d]
    <3>1. Append(<<>>, space[h]) = <<space[h]>>
      OBVIOUS
    <3>2. written' = [written EXCEPT ![c] = Append(@, space[h])]
      BY <1>1, <1>5
    <3> QED BY <1>5, <2>2, <2>5, <3>1, <3>2
  <2>7. /\ worker' \in [Host -> [Thread -> W!WorkerState]] /\ worker'[h][k] = v
        /\ \A i \in Host, j \in Thread : i # h \/ j # k => worker'[i][j] = worker[i][j]
    BY <1>1, <1>2, <1>3
  <2>8. Shape'
    BY <1>1, <2>6, <2>7 DEF HInv, Shape
  <2>9. \A i \in Host, j \in Thread : Tidy(worker[i][j])
    BY DEF HInv, CallsAreTracked
  <2>10. \A i \in Host, j \in Thread :
            /\ Tidy(worker'[i][j])
            /\ \A d \in Call :
                  /\ ToPerform(worker'[i][j], d) => ToPerform(worker[i][j], d)
                  /\ KnowsOf(worker'[i][j], d) => KnowsOf(worker[i][j], d)
                  /\ Settled(worker'[i][j], d) => Settled(worker[i][j], d) \/ d = c
    <3> TAKE i \in Host, j \in Thread
    <3>1. CASE i = h /\ j = k
      BY <1>3, <1>5, <2>7, <3>1
    <3>2. CASE ~(i = h /\ j = k)
      BY <2>7, <2>9, <3>2
    <3> QED BY <3>1, <3>2
  <2>11. \A i \in Host : ~ToDo(i, c)'
    <3> SUFFICES ASSUME NEW i \in Host, ToDo(i, c)' PROVE FALSE
      OBVIOUS
    <3>1. ToDo(i, c)
      BY <1>1, <1>5, <2>10 DEF ToDo
    <3>2. i = h
      BY <2>4, <3>1
    <3>3. PICK j \in Thread : ToPerform(worker'[h][j], c)
      BY <1>1, <2>2, <3>2 DEF ToDo
    <3>4. j # k
      BY <1>3, <1>5, <2>7, <3>3
    <3>5. ToPerform(worker[h][j], c)
      BY <2>10, <1>5, <3>3
    <3>6. j = ThreadOf(c)
      BY <1>5, <3>5 DEF HInv, CallsAreTracked, Followed
    <3> QED BY <2>2, <3>4, <3>6
  <2>12. \A i \in Host, d \in Call :
            /\ Held(i, d)' => Held(i, d)
            /\ ToDo(i, d)' => ToDo(i, d)
            /\ Done(i, d)' => Done(i, d) \/ d = c
            /\ TurnedAway(i, d)' => TurnedAway(i, d)
    BY <1>1, <2>10 DEF Held, ToDo, Done, TurnedAway
  <2>13. ASSUME NEW d \in Call, NEW i \in Host PROVE Followed(d, i)'
    <3>1. Followed(d, i)
      BY DEF HInv, CallsAreTracked
    <3>2. /\ Held(i, d)' => i <= created' /\ outcome'[d] # "unsent" /\ asked'[d] = space'[i]
          /\ d \in pending'[i] => outcome'[d] = "open"
      BY <1>1, <2>12, <3>1 DEF Followed
    <3>3. ToDo(i, d)' => /\ written'[d] = <<>> /\ outcome'[d] \in {"open", "failed"}
                         /\ ~TurnedAway(i, d)'
      BY <1>1, <2>6, <2>11, <2>12, <3>1 DEF Followed
    <3>4. Done(i, d)' => written'[d] # <<>>
      <4>1. <<asked[c]>> # <<>>
        OBVIOUS
      <4> QED BY <2>6, <2>12, <3>1, <4>1 DEF Followed
    <3>5. TurnedAway(i, d)' => written'[d] = <<>>
      BY <2>2, <2>4, <2>6, <2>12, <3>1 DEF Followed
    <3>6. /\ Holds(inbox'[i], d) => \A j \in Thread : ~ToPerform(worker'[i][j], d)
          /\ \A j \in Thread : ToPerform(worker'[i][j], d) => j = ThreadOf(d)
      BY <1>1, <2>10, <3>1 DEF Followed
    <3> QED BY <3>2, <3>3, <3>4, <3>5, <3>6 DEF Followed
  <2>14. \A d \in Call, i, j \in Host : Held(i, d)' /\ Held(j, d)' => i = j
    BY <2>12 DEF HInv, CallsAreTracked
  <2>15. \A i \in Host : /\ Once(inbox'[i]) /\ (Alive(i)' => i <= created')
                         /\ \A j \in Thread : Tidy(worker'[i][j])
    BY <1>1, <2>10 DEF HInv, CallsAreTracked, Alive
  <2>16. \A d \in Call : /\ written'[d] \in {<<>>, <<asked'[d]>>}
                         /\ outcome'[d] = "unsent" => written'[d] = <<>>
    <3>1. \A d \in Call : /\ written[d] \in {<<>>, <<asked[d]>>}
                          /\ outcome[d] = "unsent" => written[d] = <<>>
      BY DEF HInv, CallsAreTracked
    <3> QED BY <1>1, <2>2, <2>6, <3>1
  <2>17. CallsAreTracked'
    BY <2>13, <2>14, <2>15, <2>16 DEF CallsAreTracked
  <2>18. Promised!Perform(c)
    <3>1. Performed' = Performed \cup {c} /\ c \notin Performed
      <4>1. <<asked[c]>> # <<>>
        OBVIOUS
      <4> QED BY <1>5, <2>2, <2>6, <4>1 DEF Performed
    <3> QED BY <1>1, <2>2, <3>1 DEF Promised!Perform, Performed
  <2>19. c \in Call
    BY <1>5
  <2> QED BY <2>8, <2>17, <2>18, <2>19 DEF HInv, Promised!Next
<1> QED BY <1>4, <1>5

-----------------------------------------------------------------------------
(* One owner of the database                                               *)

(* The process that main holds responsible; a switch changes it only when  *)
(* the one before has gone.                                                *)
Current == IF switch.pc \in {"idle", "preparing", "closing"} THEN runtime ELSE switch.candidate

IsSwitch(s) ==
    s \in [pc : {s.pc}, account : {s.account}, target : {s.target}, previous : {s.previous},
           candidate : {s.candidate}, rollback : {s.rollback}]

OwnerInv ==
    /\ stop = [h \in Host |-> stop[h]]
    /\ IsSwitch(switch)
    /\ \A h \in Host \ abandoned : Alive(h) => h = Current
    /\ \A h \in Host : stop[h] = "done" => ~Alive(h)
    /\ runtime \in Nat /\ switch.candidate \in Nat
    /\ runtime <= created /\ switch.candidate <= created
    /\ \A h \in Host : stop[h] # "no" => h <= created
    /\ switch.pc \in {"preparing", "closing"} => switch.previous = runtime
    /\ \A h \in Host : Commit \in pending[h] =>
          switch.pc = "activating" /\ h = switch.candidate /\ switch.account

(* What a step that neither starts nor ends a process must leave alone.    *)
LEMMA OwnerStays ==
    /\ HInv /\ OwnerInv /\ stop' = [h \in Host |-> stop'[h]]
    /\ \A h \in Host : Alive(h)' => Alive(h)
    /\ \A h \in Host : /\ stop'[h] = "done" => stop[h] = "done" \/ ~Alive(h)'
                       /\ stop'[h] # "no" => stop[h] # "no"
    /\ \A h \in Host : Commit \in pending'[h] => Commit \in pending[h]
    /\ UNCHANGED <<runtime, switch, created, abandoned>>
    => OwnerInv'
BY DEF OwnerInv, Current

LEMMA OwnerOfHost ==
    HInv /\ OwnerInv =>
    \A h \in Host : Works(h) \/ Times(h) \/ Crash(h) \/ StopFails(h) => OwnerInv'
<1> SUFFICES ASSUME HInv, OwnerInv, NEW h \in Host, Works(h) \/ Times(h) \/ Crash(h) \/ StopFails(h)
             PROVE  OwnerInv'
  OBVIOUS
<1>1. /\ process = [i \in Host |-> process[i]] /\ stop = [i \in Host |-> stop[i]]
      /\ pending \in [Host -> SUBSET Job]
  BY DEF HInv, Shape, OwnerInv
<1>2. ASSUME \/ Dispatch(h) \/ HandleShutdown(h) \/ CloseDatabase(h)
             \/ \E k \in Thread : Perform(h, k) \/ Settle(h, k) \/ WorkerTerminates(h, k)
      PROVE  OwnerInv'
  <2>1. UNCHANGED <<runtime, switch, created, abandoned, process, stop, pending>>
    BY <1>2 DEF Dispatch, HandleShutdown, CloseDatabase, Perform, Settle, WorkerTerminates,
                main, history
  <2> QED BY <1>1, <2>1, OwnerStays DEF Alive
<1>3. ASSUME Leaves(h) PROVE OwnerInv'
  <2>1. /\ UNCHANGED <<runtime, switch, created, abandoned>>
        /\ process' = [process EXCEPT ![h] = "exited"]
        /\ stop' = [stop EXCEPT ![h] = IF @ = "no" THEN @ ELSE "done"]
        /\ pending' = [pending EXCEPT ![h] = {}]
    BY <1>3 DEF Leaves, RejectPending, history
  <2>2. /\ \A i \in Host : Alive(i)' => Alive(i)
        /\ ~Alive(h)'
    BY <1>1, <2>1 DEF Alive
  <2>3. stop' = [i \in Host |-> stop'[i]] /\ \A i \in Host : i # h => stop'[i] = stop[i]
    BY <1>1, <2>1
  <2>4. \A i \in Host : Commit \in pending'[i] => Commit \in pending[i]
    BY <1>1, <2>1
  <2> QED BY <2>1, <2>2, <2>3, <2>4, OwnerStays
<1>4. CASE GraceTimeout(h)
  <2>1. /\ UNCHANGED <<runtime, switch, created, abandoned, pending>>
        /\ Alive(h) /\ process' = [process EXCEPT ![h] = "killed"]
        /\ stop[h] # "no" /\ stop' = [stop EXCEPT ![h] = "forced"]
    BY <1>4 DEF GraceTimeout, main, history
  <2>2. \A i \in Host : Alive(i)' => Alive(i)
    BY <1>1, <2>1 DEF Alive
  <2>3. /\ stop' = [i \in Host |-> stop'[i]] /\ \A i \in Host : i # h => stop'[i] = stop[i]
        /\ stop'[h] = "forced"
    BY <1>1, <2>1
  <2> QED BY <2>1, <2>2, <2>3, OwnerStays
<1>5. CASE StopFails(h)
  <2>1. /\ UNCHANGED <<runtime, switch, created, abandoned, process>>
        /\ stop' = [stop EXCEPT ![h] = "no"]
        /\ pending' = [pending EXCEPT ![h] = {}]
    BY <1>5 DEF StopFails, RejectPending, main, history
  <2>2. /\ stop' = [i \in Host |-> stop'[i]] /\ \A i \in Host : i # h => stop'[i] = stop[i]
        /\ stop'[h] = "no"
    BY <1>1, <2>1
  <2>3. \A i \in Host : Commit \in pending'[i] => Commit \in pending[i]
    BY <1>1, <2>1
  <2> QED BY <2>1, <2>2, <2>3, OwnerStays DEF Alive
<1>6. CASE \E job \in Job : RequestTimeout(h, job)
  <2>1. /\ UNCHANGED <<runtime, switch, created, abandoned, process, stop>>
        /\ \E job \in Job : pending' = [pending EXCEPT ![h] = @ \ {job}]
    BY <1>6 DEF RequestTimeout, main, history
  <2>2. \A i \in Host : Commit \in pending'[i] => Commit \in pending[i]
    BY <1>1, <2>1
  <2> QED BY <1>1, <2>1, <2>2, OwnerStays DEF Alive
<1>7. ASSUME NEW r \in outbox[h], Deliver(h, r) PROVE OwnerInv'
  <2>1. /\ UNCHANGED <<process, stop, created, abandoned>>
        /\ pending' = [pending EXCEPT ![h] = @ \ {r.job}]
    BY <1>7 DEF Deliver, history
  <2>2. /\ pending'[h] = pending[h] \ {r.job}
        /\ \A i \in Host : i # h => pending'[i] = pending[i]
    BY <1>1, <2>1
  <2>3. CASE r.job = Commit /\ Commit \in pending[h] /\ r.result = "value"
    <3>1. runtime' = h /\ switch' = Idle
      BY <1>7, <2>3 DEF Deliver
    <3>2. switch.pc = "activating" /\ h = switch.candidate
      BY <2>3 DEF OwnerInv
    <3>3. \A i \in Host : Commit \notin pending'[i]
      BY <2>2, <2>3, <3>2 DEF OwnerInv
    <3>4. Current' = Current
      BY <3>1, <3>2 DEF Current, Idle
    <3>5. switch'.pc = "idle" /\ switch'.candidate = 0 /\ runtime' \in Nat
          /\ runtime' <= created /\ 0 <= created
      BY <1>7, <3>1 DEF Idle, Deliver, HInv, Shape, CallsAreTracked, Host
    <3>6. IsSwitch(switch')
      BY <3>1, Zenon DEF Idle, IsSwitch
    <3> QED BY <2>1, <3>3, <3>4, <3>5, <3>6 DEF OwnerInv, Alive
  <2>4. CASE ~(r.job = Commit /\ Commit \in pending[h] /\ r.result = "value")
    <3>1. UNCHANGED <<runtime, switch>>
      BY <1>7, <2>4 DEF Deliver
    <3> QED BY <1>1, <2>1, <2>2, <3>1, OwnerStays DEF Alive
  <2> QED BY <2>3, <2>4
<1> QED BY <1>2, <1>3, <1>4, <1>5, <1>6, <1>7 DEF Works, Times, Exit, Crash

(* Asking a process to stop says "done" only of one that is gone already.  *)
LEMMA BeginStopOwner ==
    OwnerInv => \A h : h <= created /\ BeginStop(h) =>
      /\ stop' = [i \in Host |-> stop'[i]]
      /\ \A i \in Host : /\ stop'[i] = "done" => stop[i] = "done" \/ ~Alive(i)
                         /\ stop'[i] # "no" => i <= created
<1> SUFFICES ASSUME OwnerInv, NEW h, h <= created, BeginStop(h)
             PROVE  /\ stop' = [i \in Host |-> stop'[i]]
                    /\ \A i \in Host : /\ stop'[i] = "done" => stop[i] = "done" \/ ~Alive(i)
                                       /\ stop'[i] # "no" => i <= created
  OBVIOUS
<1>1. /\ stop = [i \in Host |-> stop[i]]
      /\ \A i \in Host : stop[i] # "no" => i <= created
  BY DEF OwnerInv
<1>2. CASE stop' = stop
  BY <1>1, <1>2
<1>3. CASE stop' = [stop EXCEPT ![h] = IF Alive(h) THEN "graceful" ELSE "done"]
  <2>1. /\ stop' = [i \in Host |-> stop'[i]]
        /\ \A i \in Host : i # h => stop'[i] = stop[i]
        /\ h \in Host => stop'[h] = IF Alive(h) THEN "graceful" ELSE "done"
    BY <1>1, <1>3
  <2> QED BY <1>1, <2>1
<1> QED BY <1>2, <1>3 DEF BeginStop

LEMMA OwnerOfSwitch ==
    /\ HInv /\ OwnerInv
    /\ (\E target \in Workspace : ChangeAccount(target)) \/ RestartRuntime \/ Replaces
    => OwnerInv'
<1> SUFFICES ASSUME HInv, OwnerInv,
                    (\E target \in Workspace : ChangeAccount(target)) \/ RestartRuntime \/ Replaces
             PROVE  OwnerInv'
  OBVIOUS
<1>1. /\ process = [i \in Host |-> process[i]] /\ pending \in [Host -> SUBSET Job]
      /\ created \in Nat /\ \A i \in Host : Alive(i) => i <= created
  BY DEF HInv, Shape, CallsAreTracked
<1>2. /\ stop = [i \in Host |-> stop[i]] /\ IsSwitch(switch)
      /\ \A i \in Host \ abandoned : Alive(i) => i = Current
      /\ \A i \in Host : /\ stop[i] = "done" => ~Alive(i)
                         /\ stop[i] # "no" => i <= created
      /\ runtime \in Nat /\ switch.candidate \in Nat
      /\ runtime <= created /\ switch.candidate <= created
      /\ switch.pc \in {"preparing", "closing"} => switch.previous = runtime
      /\ \A i \in Host : Commit \in pending[i] =>
            switch.pc = "activating" /\ i = switch.candidate /\ switch.account
  BY DEF OwnerInv
\* What has to be shown.
<1>3. ASSUME /\ stop' = [i \in Host |-> stop'[i]] /\ IsSwitch(switch')
             /\ \A i \in Host \ abandoned' : Alive(i)' => i = Current'
             /\ \A i \in Host : /\ stop'[i] = "done" => ~Alive(i)'
                                /\ stop'[i] # "no" => i <= created'
             /\ runtime' \in Nat /\ switch'.candidate \in Nat
             /\ runtime' <= created' /\ switch'.candidate <= created'
             /\ switch'.pc \in {"preparing", "closing"} => switch'.previous = runtime'
             /\ \A i \in Host : Commit \in pending'[i] =>
                   switch'.pc = "activating" /\ i = switch'.candidate /\ switch'.account
      PROVE  OwnerInv'
  BY <1>3 DEF OwnerInv
<1>4. ASSUME UNCHANGED <<process, stop, created, pending>>, IsSwitch(switch'),
             \A i \in Host \ abandoned' : Alive(i) => i = Current',
             runtime' \in Nat, switch'.candidate \in Nat, runtime' <= created, switch'.candidate <= created,
             switch'.pc = "preparing" => switch'.previous = runtime',
             switch.pc # "activating" \/ ~switch.account, switch'.pc \in {"idle", "preparing"}
      PROVE  OwnerInv'
  BY <1>2, <1>3, <1>4 DEF Alive
<1>5. CASE (\E target \in Workspace : ChangeAccount(target)) \/ ChangeRefused
  <2>1. /\ UNCHANGED <<runtime, process, stop, created, pending, abandoned>>
        /\ switch.pc \in {"idle", "preparing"}
        /\ \/ switch' = Idle
           \/ \E target : switch' = [Idle EXCEPT !.pc = "preparing", !.account = TRUE,
                                                 !.target = target, !.previous = runtime]
    BY <1>5 DEF ChangeAccount, ChangeRefused, history
  <2>2. /\ IsSwitch(switch') /\ switch'.pc \in {"idle", "preparing"} /\ switch'.candidate = 0
        /\ switch'.pc = "preparing" => switch'.previous = runtime
    <3>1. CASE switch' = Idle
      BY <3>1, Zenon DEF IsSwitch, Idle
    <3>2. ASSUME NEW target, switch' = [Idle EXCEPT !.pc = "preparing", !.account = TRUE,
                                                    !.target = target, !.previous = runtime]
          PROVE  /\ IsSwitch(switch') /\ switch'.pc \in {"idle", "preparing"}
                 /\ switch'.candidate = 0 /\ switch'.previous = runtime
      BY <3>2, Zenon DEF IsSwitch, Idle
    <3> QED BY <2>1, <3>1, <3>2
  <2>3. Current' = Current
    BY <2>1, <2>2 DEF Current
  <2>4. 0 <= created
    BY <1>1
  <2>5. \A i \in Host \ abandoned' : Alive(i) => i = Current'
    BY <1>2, <2>1, <2>3
  <2>6. /\ runtime' \in Nat /\ switch'.candidate \in Nat /\ runtime' <= created
        /\ switch'.candidate <= created
    <3>1. runtime' = runtime
      BY <2>1
    <3> QED BY <1>2, <2>2, <2>4, <3>1
  <2>7. switch.pc # "activating" /\ (switch'.pc = "preparing" => switch'.previous = runtime')
    BY <2>1, <2>2
  <2> QED BY <1>4, <2>1, <2>2, <2>5, <2>6, <2>7
<1>6. CASE ChangeBegins \/ RestartRuntime
  <2>1. /\ UNCHANGED <<runtime, process, created, pending, abandoned>> /\ BeginStop(runtime)
        /\ switch.pc \in {"idle", "preparing"}
        /\ \/ /\ switch' = [switch EXCEPT !.pc = "closing"] /\ switch.previous = runtime
           \/ \E w : switch' = [Idle EXCEPT !.pc = "closing", !.target = w, !.previous = runtime]
    BY <1>2, <1>6 DEF ChangeBegins, RestartRuntime, history
  <2>2. /\ IsSwitch(switch') /\ switch'.pc = "closing" /\ switch'.previous = runtime
        /\ switch'.candidate \in {0, switch.candidate}
    <3>1. CASE switch' = [switch EXCEPT !.pc = "closing"] /\ switch.previous = runtime
      <4>1. IsSwitch(switch)
        BY <1>2
      <4> QED BY <3>1, <4>1, Zenon DEF IsSwitch
    <3>2. ASSUME NEW w, switch' = [Idle EXCEPT !.pc = "closing", !.target = w, !.previous = runtime]
          PROVE  /\ IsSwitch(switch') /\ switch'.pc = "closing" /\ switch'.previous = runtime
                 /\ switch'.candidate = 0
      BY <3>2, Zenon DEF IsSwitch, Idle
    <3> QED BY <2>1, <3>1, <3>2
  <2>3. switch'.candidate <= created
    BY <1>1, <1>2, <2>2
  <2>4. /\ stop' = [i \in Host |-> stop'[i]]
        /\ \A i \in Host : /\ stop'[i] = "done" => stop[i] = "done" \/ ~Alive(i)
                           /\ stop'[i] # "no" => i <= created
    BY <1>2, <2>1, BeginStopOwner
  <2>5. Current' = Current
    BY <2>1, <2>2 DEF Current
  <2>6. \A i \in Host \ abandoned' : Alive(i)' => i = Current'
    BY <1>2, <2>1, <2>5 DEF Alive
  <2>7. \A i \in Host : stop'[i] = "done" => ~Alive(i)'
    BY <1>2, <2>1, <2>4 DEF Alive
  <2>8. \A i \in Host : Commit \notin pending'[i]
    BY <1>2, <2>1
  <2>9. /\ runtime' \in Nat /\ switch'.candidate \in Nat /\ runtime' <= created'
        /\ switch'.candidate <= created' /\ switch'.previous = runtime'
    <3>1. runtime' = runtime /\ created' = created
      BY <2>1
    <3>2. switch'.candidate \in Nat
      BY <1>2, <2>2
    <3> QED BY <1>2, <2>2, <2>3, <3>1, <3>2
  <2> QED BY <1>3, <2>1, <2>2, <2>4, <2>6, <2>7, <2>8, <2>9
<1>7. CASE StartCandidate \/ RollBack
  <2>1. /\ UNCHANGED <<runtime, stop, pending, abandoned>>
        /\ created' = created + 1 /\ process' = [process EXCEPT ![created + 1] = "starting"]
        /\ switch.pc \in {"closing", "releasing"} /\ stop[Current] = "done"
    BY <1>2, <1>7 DEF StartCandidate, RollBack, Create, Current, history
  <2>2. IsSwitch(switch') /\ switch'.pc = "starting" /\ switch'.candidate = created + 1
    <3>1. IsSwitch(switch)
      BY <1>2
    <3>2. CASE StartCandidate
      BY <3>1, <3>2, Zenon DEF StartCandidate, IsSwitch
    <3>3. CASE RollBack
      BY <3>1, <3>3, Zenon DEF RollBack, IsSwitch
    <3> QED BY <1>7, <3>2, <3>3
  <2>3. \A i \in Host \ abandoned : ~Alive(i)
    BY <1>2, <2>1
  <2>4. \A i \in Host : i # created + 1 => (Alive(i)' <=> Alive(i))
    BY <1>1, <2>1 DEF Alive
  <2>5. Current' = created + 1
    BY <2>2 DEF Current
  <2>6. \A i \in Host \ abandoned' : Alive(i)' => i = Current'
    BY <2>1, <2>3, <2>4, <2>5
  <2>7. created <= created' /\ created + 1 <= created' /\ ~(created + 1 <= created)
    BY <1>1, <2>1
  <2>8. \A i \in Host : /\ stop'[i] = "done" => ~Alive(i)'
                        /\ stop'[i] # "no" => i <= created'
    <3> TAKE i \in Host
    <3>1. stop'[i] # "no" => i <= created
      BY <1>2, <2>1
    <3>2. i <= created => i <= created' /\ i # created + 1
      BY <1>1, <2>1 DEF Host
    <3>3. stop'[i] = "done" => i # created + 1 /\ ~Alive(i)
      BY <1>2, <2>1, <3>1, <3>2
    <3> QED BY <2>4, <3>1, <3>2, <3>3
  <2>9. \A i \in Host : Commit \notin pending'[i]
    BY <1>2, <2>1
  <2>10. runtime' <= created'
    BY <1>1, <1>2, <2>1
  <2>11. runtime' \in Nat /\ switch'.candidate \in Nat /\ switch'.candidate <= created'
    BY <1>1, <1>2, <2>1, <2>2
  <2>12. stop' = [i \in Host |-> stop'[i]]
    BY <1>2, <2>1
  <2> QED BY <1>3, <2>2, <2>6, <2>8, <2>9, <2>10, <2>11, <2>12
<1>8. CASE Ready
  <2> DEFINE h == switch.candidate
  <2>1. /\ UNCHANGED <<runtime, stop, created, abandoned>>
        /\ switch.pc = "starting" /\ process[h] = "starting"
        /\ process' = [process EXCEPT ![h] = "ready"]
        /\ switch' = [switch EXCEPT !.pc = "activating"]
        /\ pending' = pending \/ (switch.account /\ pending' = [pending EXCEPT ![h] = @ \cup {Commit}])
    BY <1>8 DEF Ready, history
  <2>2. /\ IsSwitch(switch') /\ switch'.pc = "activating" /\ switch'.candidate = h
        /\ switch'.account = switch.account
    <3>1. IsSwitch(switch)
      BY <1>2
    <3> QED BY <2>1, <3>1, Zenon DEF IsSwitch
  <2>3. \A i \in Host : Alive(i)' => Alive(i)
    BY <1>1, <2>1 DEF Alive
  <2>4. Current' = Current
    BY <2>1, <2>2 DEF Current
  <2>5. \A i \in Host : Commit \in pending'[i] => i = h /\ switch.account
    BY <1>1, <1>2, <2>1
  <2>6. \A i \in Host : stop[i] = "done" => ~Alive(i)'
    BY <1>2, <2>3
  <2> QED BY <1>2, <1>3, <2>1, <2>2, <2>3, <2>4, <2>5, <2>6
<1>9. CASE ActivateRestarted
  <2>1. /\ UNCHANGED <<process, stop, created, pending, abandoned>>
        /\ switch.pc = "activating" /\ ~switch.account
        /\ runtime' = switch.candidate /\ switch' = Idle
    BY <1>9 DEF ActivateRestarted, history
  <2>2. IsSwitch(switch') /\ switch'.pc = "idle" /\ switch'.candidate = 0
    BY <2>1, Zenon DEF IsSwitch, Idle
  <2>3. Current' = Current
    BY <2>1, <2>2 DEF Current
  <2>4. 0 <= created
    BY <1>1
  <2> QED BY <1>2, <1>4, <2>1, <2>2, <2>3, <2>4
<1>10. CASE StartFails \/ ActivationFails
  <2>1. /\ UNCHANGED <<runtime, created, pending, abandoned>> /\ BeginStop(switch.candidate)
        /\ switch.pc \in {"starting", "activating"}
        /\ switch' = [switch EXCEPT !.pc = "releasing"]
        /\ switch.pc = "activating" => Commit \notin pending[switch.candidate]
        /\ \/ process' = process
           \/ \E h : process' = [process EXCEPT ![h] = IF @ = "starting" THEN "killed" ELSE @]
    BY <1>10 DEF StartFails, ActivationFails, Release, history
  <2>2. IsSwitch(switch') /\ switch'.pc = "releasing" /\ switch'.candidate = switch.candidate
    <3>1. IsSwitch(switch)
      BY <1>2
    <3> QED BY <2>1, <3>1, Zenon DEF IsSwitch
  <2>3. \A i \in Host : Alive(i)' => Alive(i)
    BY <1>1, <2>1 DEF Alive
  <2>4. /\ stop' = [i \in Host |-> stop'[i]]
        /\ \A i \in Host : /\ stop'[i] = "done" => stop[i] = "done" \/ ~Alive(i)
                           /\ stop'[i] # "no" => i <= created
    BY <1>2, <2>1, BeginStopOwner
  <2>5. Current' = Current
    BY <2>1, <2>2 DEF Current
  <2>6. \A i \in Host : Commit \notin pending'[i]
    BY <1>2, <2>1
  <2>7. \A i \in Host : stop'[i] = "done" => ~Alive(i)'
    BY <1>2, <2>3, <2>4
  <2> QED BY <1>2, <1>3, <2>1, <2>2, <2>3, <2>4, <2>5, <2>6, <2>7
<1>11. CASE SwitchFails
  <2>1. /\ UNCHANGED <<runtime, process, stop, created, pending>> /\ switch' = Idle
        /\ abandoned \subseteq abandoned'
        /\ \/ switch.pc = "closing"
           \/ switch.pc = "releasing" /\ switch.candidate \in abandoned'
           \/ switch.pc = "releasing" /\ stop[switch.candidate] = "done"
    BY <1>11 DEF SwitchFails
  <2>2. IsSwitch(switch') /\ switch'.pc = "idle" /\ switch'.candidate = 0
    BY <2>1, Zenon DEF IsSwitch, Idle
  <2>3. \A i \in Host \ abandoned' : Alive(i) => i = Current'
    BY <1>2, <2>1, <2>2 DEF Current
  <2>4. 0 <= created
    BY <1>1
  <2> QED BY <1>2, <1>4, <2>1, <2>2, <2>3, <2>4
<1> QED BY <1>5, <1>6, <1>7, <1>8, <1>9, <1>10, <1>11 DEF Replaces

-----------------------------------------------------------------------------
(* The theorems                                                            *)

LEMMA InitTracks == Init => HInv /\ Promised!Init
<1> SUFFICES ASSUME Init PROVE HInv /\ Promised!Init
  OBVIOUS
<1>1. W!NewWorker \in W!WorkerState /\ Tidy(W!NewWorker) /\ \A c \in Call : ~KnowsOf(W!NewWorker, c)
  <2>1. /\ W!NewWorker \in W!WorkerState /\ W!NewWorker.queue = <<>> /\ W!NewWorker.active = Nil
        /\ W!NewWorker.replied = FALSE /\ W!NewWorker.thread = Nil
    BY EmptyHolds DEF W!NewWorker, W!WorkerState
  <2> QED BY <2>1, EmptyHolds, HostAssumption DEF Tidy, KnowsOf, ToPerform
<1> HIDE DEF W!NewWorker
<1>2. /\ \A h \in Host : pending[h] = {} /\ inbox[h] = <<>> /\ outbox[h] = {}
      /\ \A h \in Host, k \in Thread : worker[h][k] = W!NewWorker
      /\ \A c \in Call : outcome[c] = "unsent" /\ written[c] = <<>>
  BY DEF Init
<1>3. Shape
  BY <1>1, EmptyHolds, HostAssumption DEF Init, Shape, Outcome
<1>4. \A c \in Call, h \in Host : ~Held(h, c) /\ ~ToDo(h, c) /\ ~Done(h, c) /\ ~TurnedAway(h, c)
  BY <1>1, <1>2, EmptyHolds DEF Held, ToDo, Done, TurnedAway, Settled, KnowsOf
<1>5. \A c \in Call, h \in Host : Followed(c, h)
  BY <1>1, <1>2, <1>4, EmptyHolds DEF Followed, KnowsOf
<1>6. \A h \in Host : /\ Once(inbox[h]) /\ \A k \in Thread : Tidy(worker[h][k])
                      /\ Alive(h) => h <= created
  <2>1. \A h \in Host : Alive(h) => h = 1
    BY DEF Init, Alive
  <2> QED BY <1>1, <1>2, <2>1, EmptyHolds DEF Init
<1>7. CallsAreTracked
  BY <1>2, <1>4, <1>5, <1>6 DEF CallsAreTracked
<1>8. Promised!Init
  BY <1>2 DEF Init, Promised!Init
<1> QED BY <1>3, <1>7, <1>8 DEF HInv

LEMMA StepTracks ==
    HInv /\ [Next]_vars => HInv' /\ [Promised!Next]_<<outcome, Performed>>
<1> SUFFICES ASSUME HInv, [Next]_vars
             PROVE  HInv' /\ [Promised!Next]_<<outcome, Performed>>
  OBVIOUS
<1>1. ASSUME Quietly PROVE HInv' /\ [Promised!Next]_<<outcome, Performed>>
  BY <1>1, GoodKeeps, QuietImplements DEF Quietly, Promised!Next
<1>2. CASE UNCHANGED vars
  <2>1. Quietly
    BY <1>2, Frames DEF vars, Quietly, Good, HistoryGood
  <2> QED BY <1>1, <2>1
<1>3. CASE \E c \in Call, h \in Host : Request(c, h)
  BY <1>3, RequestKeeps
<1>4. CASE (\E target \in Workspace : ChangeAccount(target)) \/ RestartRuntime \/ Replaces
  <2>1. Quietly
    BY <1>4, MainQuiet, StopsQuiet, CreateQuiet, ReadyQuiet DEF Replaces
  <2> QED BY <1>1, <2>1
<1>5. ASSUME NEW h \in Host, Works(h) \/ Times(h) \/ Crash(h) \/ StopFails(h)
      PROVE  HInv' /\ [Promised!Next]_<<outcome, Performed>>
  <2>1. CASE Dispatch(h)
    <3>1. HInv' /\ outcome' = outcome /\ Performed' = Performed
      BY <2>1, DispatchKeeps DEF Performed
    <3> QED BY <3>1
  <2>2. CASE HandleShutdown(h) \/ CloseDatabase(h)
    BY <1>1, <2>2, ShutdownQuiet
  <2>3. CASE Exit(h) \/ Crash(h) \/ GraceTimeout(h) \/ StopFails(h)
    BY <1>1, <2>3, DeathQuiet
  <2>4. ASSUME NEW k \in Thread, Perform(h, k) \/ Settle(h, k) \/ WorkerTerminates(h, k)
        PROVE  HInv' /\ [Promised!Next]_<<outcome, Performed>>
    <3>1. CASE Perform(h, k)
      BY <3>1, PerformKeeps DEF Promised!Next
    <3>2. CASE Settle(h, k) \/ WorkerTerminates(h, k)
      BY <1>1, <3>2, ThreadQuiet
    <3> QED BY <2>4, <3>1, <3>2
  <2>5. ASSUME NEW r \in outbox[h], Deliver(h, r)
        PROVE  HInv' /\ [Promised!Next]_<<outcome, Performed>>
    <3>1. Good /\ (OutcomesFail \/ Answered)
      BY <2>5, DeliverGood
    <3>2. written' = written
      BY <3>1 DEF Good, HistoryGood
    <3> QED BY <1>1, <3>1, <3>2, GoodKeeps, AnsweredImplements DEF Quietly
  <2>6. CASE \E job \in Job : RequestTimeout(h, job)
    BY <1>1, <2>6, RequestTimeoutQuiet
  <2> QED BY <1>5, <2>1, <2>2, <2>3, <2>4, <2>5, <2>6 DEF Works, Times
<1>6. CASE \E h \in Host, k \in Thread : WorkerTimeout(h, k)
  BY <1>1, <1>6, ThreadQuiet
<1> QED BY <1>2, <1>3, <1>4, <1>5, <1>6 DEF Next

LEMMA OwnerAlways == Spec => [](HInv /\ OwnerInv)
<1>1. Init => OwnerInv
  <2> SUFFICES ASSUME Init PROVE OwnerInv
    OBVIOUS
  <2>1. /\ stop = [h \in Host |-> stop[h]] /\ \A h \in Host : stop[h] = "no" /\ Commit \notin pending[h]
        /\ \A h \in Host : Alive(h) => h = 1
    BY DEF Init, Alive
  <2>2. IsSwitch(switch) /\ switch.pc = "idle" /\ switch.candidate = 0 /\ runtime = 1 /\ created = 1
    BY Zenon DEF Init, IsSwitch, Idle
  <2> QED BY <2>1, <2>2 DEF OwnerInv, Current
<1>2. HInv /\ OwnerInv /\ [Next]_vars => OwnerInv'
  <2> SUFFICES ASSUME HInv, OwnerInv, [Next]_vars PROVE OwnerInv'
    OBVIOUS
  <2>1. CASE UNCHANGED vars
    BY <2>1 DEF vars, OwnerInv, Current, Alive
  <2>2. CASE \E c \in Call, h \in Host : Request(c, h)
    <3>1. /\ UNCHANGED <<runtime, switch, created, abandoned, process, stop>>
          /\ pending' = pending \/ \E c \in Call, h \in Host : pending' = [pending EXCEPT ![h] = @ \cup {c}]
      BY <2>2 DEF Request, main, history
    <3>2. \A h \in Host : Commit \in pending'[h] => Commit \in pending[h]
      <4>1. CASE pending' = pending
        BY <4>1
      <4>2. ASSUME NEW c \in Call, NEW h \in Host, pending' = [pending EXCEPT ![h] = @ \cup {c}]
            PROVE  \A i \in Host : Commit \in pending'[i] => Commit \in pending[i]
        <5>1. pending \in [Host -> SUBSET Job] /\ c # Commit
          BY HostAssumption DEF HInv, Shape
        <5>2. /\ pending'[h] = pending[h] \cup {c}
              /\ \A i \in Host : i # h => pending'[i] = pending[i]
          BY <4>2, <5>1
        <5> QED BY <5>1, <5>2
      <4> QED BY <3>1, <4>1, <4>2
    <3> QED BY <3>1, <3>2, OwnerStays DEF OwnerInv, Alive
  <2>3. CASE \E h \in Host, k \in Thread : WorkerTimeout(h, k)
    <3>1. UNCHANGED <<runtime, switch, created, abandoned, process, stop, pending>>
      BY <2>3 DEF WorkerTimeout, main, history
    <3> QED BY <3>1, OwnerStays DEF OwnerInv, Alive
  <2> QED BY <2>1, <2>2, <2>3, OwnerOfHost, OwnerOfSwitch DEF Next
<1> QED BY <1>1, <1>2, InitTracks, StepTracks, PTL DEF Spec

(* Two processes never hold the database at once, however switches,         *)
(* restarts, deadlines and deaths are interleaved, but for a candidate that *)
(* main itself has given up waiting for (workspace-runtime.ts:25).          *)
THEOREM AlwaysSingleOwner == Spec => []SingleOwner
<1>1. OwnerInv => SingleOwner
  BY DEF OwnerInv, SingleOwner
<1> QED BY <1>1, OwnerAlways, PTL

(* A call is performed once at most and in the workspace its window showed, *)
(* for every number of calls, processes and workspaces (index.ts:745).      *)
THEOREM WritesAlwaysStayHome == Spec => []WritesStayHome
<1>1. HInv => WritesStayHome
  BY DEF HInv, CallsAreTracked, WritesStayHome
<1> QED BY <1>1, InitTracks, StepTracks, PTL DEF Spec

(* The runtime host implements CallOutcomes: a value is only reported of a  *)
(* call that was performed, a refusal only of one that was not and never    *)
(* will be, whatever times out or dies on the way (runtime-host.ts:348,     *)
(* workers/client.ts:98).                                                   *)
THEOREM OutcomesAlwaysTrue == Spec => OutcomesAreTrue
<1>1. Init => HInv /\ Promised!Init
  BY InitTracks
<1>2. HInv /\ [Next]_vars => HInv' /\ [Promised!Next]_<<outcome, {c \in Call : written[c] # <<>>}>>
  BY StepTracks DEF Performed
<1> QED BY <1>1, <1>2, PTL DEF Spec, OutcomesAreTrue, Promised!Spec

-----------------------------------------------------------------------------
(* What is in service is what the next start opens                         *)

(* The replacement under way, and the processes it names. *)
KindInv ==
    /\ created \in Nat /\ created <= MaxHosts /\ runtime \in Host /\ healthy \in BOOLEAN
    /\ switch \in Switches /\ space \in [Host -> Workspace]
    /\ process \in [Host -> {"none", "starting", "ready", "killed", "exited"}]
    /\ stop \in [Host -> {"no", "graceful", "forced", "done"}]
    /\ switch.pc # "idle" => /\ switch.previous \in Host /\ switch.previous <= created
                             /\ switch.target \in Workspace
    /\ switch.pc \in {"preparing", "closing"} => created < MaxHosts
    /\ switch.pc \in {"starting", "activating", "releasing"} => switch.candidate \in Host

LEMMA KindRests ==
    ASSUME KindInv, UNCHANGED <<created, runtime, switch, space>>, healthy' \in BOOLEAN,
           process' \in [Host -> {"none", "starting", "ready", "killed", "exited"}],
           stop' \in [Host -> {"no", "graceful", "forced", "done"}]
    PROVE  KindInv'
BY DEF KindInv

LEMMA StopKinds ==
    ASSUME KindInv, NEW h \in Host, BeginStop(h)
    PROVE  stop' \in [Host -> {"no", "graceful", "forced", "done"}]
BY DEF KindInv, BeginStop

LEMMA KindKeeps ==
    ASSUME KindInv, OwnerInv, [Next]_vars
    PROVE  KindInv'
<1>1. /\ created \in Nat /\ created <= MaxHosts /\ runtime \in Host /\ healthy \in BOOLEAN
      /\ switch \in Switches /\ space \in [Host -> Workspace]
      /\ process \in [Host -> {"none", "starting", "ready", "killed", "exited"}]
      /\ stop \in [Host -> {"no", "graceful", "forced", "done"}]
      /\ switch.pc # "idle" => /\ switch.previous \in Host /\ switch.previous <= created
                               /\ switch.target \in Workspace
      /\ switch.pc \in {"preparing", "closing"} => created < MaxHosts
      /\ switch.pc \in {"starting", "activating", "releasing"} => switch.candidate \in Host
  BY DEF KindInv
<1>2. runtime <= created /\ (switch.pc \in {"preparing", "closing"} => switch.previous = runtime)
  BY DEF OwnerInv
<1>3. Idle \in Switches /\ Idle.pc = "idle"
  BY DEF Idle, Switches
<1>4. ASSUME UNCHANGED <<created, runtime, switch, space, healthy, process, stop>> PROVE KindInv'
  BY <1>1, <1>4, KindRests
<1>5. ASSUME UNCHANGED <<created, runtime, space, process, stop, healthy>>, switch' \in Switches,
             switch'.pc \in {"idle", "preparing"},
             switch'.pc = "preparing" => /\ switch'.previous = runtime /\ created < MaxHosts
                                         /\ switch'.target \in Workspace
      PROVE  KindInv'
  BY <1>1, <1>2, <1>5 DEF KindInv
<1>6. CASE \/ UNCHANGED vars
           \/ \E c \in Call, h \in Host : Request(c, h)
           \/ \E h \in Host, k \in Thread : WorkerTimeout(h, k)
  BY <1>4, <1>6 DEF vars, Request, WorkerTimeout, main
<1>7. ASSUME NEW h \in Host,
             \/ Dispatch(h) \/ HandleShutdown(h) \/ CloseDatabase(h)
             \/ \E k \in Thread : Perform(h, k) \/ Settle(h, k) \/ WorkerTerminates(h, k)
             \/ \E job \in Job : RequestTimeout(h, job)
      PROVE  KindInv'
  BY <1>4, <1>7 DEF Dispatch, HandleShutdown, CloseDatabase, Perform, Settle, WorkerTerminates,
                    RequestTimeout, main
<1>8. ASSUME NEW h \in Host, Leaves(h) PROVE KindInv'
  <2>1. UNCHANGED <<created, runtime, switch, space>> /\ healthy' \in BOOLEAN
    BY <1>1, <1>8 DEF Leaves
  <2>2. process' \in [Host -> {"none", "starting", "ready", "killed", "exited"}]
        /\ stop' \in [Host -> {"no", "graceful", "forced", "done"}]
    BY <1>1, <1>8 DEF Leaves
  <2> QED BY <2>1, <2>2, KindRests
<1>9. ASSUME NEW h \in Host, GraceTimeout(h) \/ StopFails(h) PROVE KindInv'
  <2>1. UNCHANGED <<created, runtime, switch, space, healthy>>
        /\ process' \in [Host -> {"none", "starting", "ready", "killed", "exited"}]
        /\ stop' \in [Host -> {"no", "graceful", "forced", "done"}]
    BY <1>1, <1>9 DEF GraceTimeout, StopFails, main
  <2> QED BY <1>1, <2>1, KindRests
<1>10. ASSUME NEW h \in Host, NEW r \in outbox[h], Deliver(h, r) PROVE KindInv'
  <2>1. UNCHANGED <<created, space, process, stop>>
        /\ \/ UNCHANGED <<runtime, healthy, switch>>
           \/ runtime' = h /\ healthy' = TRUE /\ switch' = Idle
    BY <1>10 DEF Deliver
  <2> QED BY <1>1, <1>3, <2>1 DEF KindInv
<1>11. ASSUME NEW target \in Workspace, ChangeAccount(target) PROVE KindInv'
  <2>1. UNCHANGED <<created, runtime, space, process, stop, healthy>> /\ created + 2 <= MaxHosts
        /\ switch' = [Idle EXCEPT !.pc = "preparing", !.account = TRUE, !.target = target, !.previous = runtime]
    BY <1>11 DEF ChangeAccount
  <2>2. switch' \in Switches /\ switch'.pc = "preparing" /\ switch'.previous = runtime
        /\ switch'.target = target
    BY <1>1, <2>1 DEF Idle, Switches
  <2>3. created < MaxHosts
    BY <1>1, <2>1, HostAssumption
  <2> QED BY <1>5, <2>1, <2>2, <2>3
<1>12. CASE ChangeRefused
  BY <1>3, <1>5, <1>12 DEF ChangeRefused
<1>13. CASE SwitchFails
  BY <1>3, <1>5, <1>13 DEF SwitchFails
<1>14. CASE ChangeBegins
  <2>1. UNCHANGED <<created, runtime, space, process>> /\ switch.pc = "preparing" /\ healthy' = FALSE
        /\ switch' = [switch EXCEPT !.pc = "closing"] /\ BeginStop(runtime)
    BY <1>14 DEF ChangeBegins
  <2>2. stop' \in [Host -> {"no", "graceful", "forced", "done"}]
    BY <1>1, <2>1, StopKinds
  <2>3. /\ switch' \in Switches /\ switch'.pc = "closing" /\ switch'.previous = switch.previous
        /\ switch'.target = switch.target
    BY <1>1, <2>1 DEF Switches
  <2> QED BY <1>1, <2>1, <2>2, <2>3 DEF KindInv
<1>15. CASE RestartRuntime
  <2>1. UNCHANGED <<created, runtime, space, process>> /\ healthy' = FALSE /\ created < MaxHosts
        /\ switch' = [Idle EXCEPT !.pc = "closing", !.target = space[runtime], !.previous = runtime]
        /\ BeginStop(runtime)
    BY <1>15 DEF RestartRuntime
  <2>2. stop' \in [Host -> {"no", "graceful", "forced", "done"}]
    BY <1>1, <2>1, StopKinds
  <2>3. switch' \in Switches /\ switch'.pc = "closing" /\ switch'.previous = runtime
        /\ switch'.target \in Workspace
    BY <1>1, <2>1 DEF Idle, Switches
  <2> QED BY <1>1, <1>2, <2>1, <2>2, <2>3 DEF KindInv
<1>16. CASE StartCandidate \/ RollBack
  <2>1. /\ UNCHANGED <<runtime, healthy, stop>> /\ created < MaxHosts
        /\ created' = created + 1 /\ process' = [process EXCEPT ![created + 1] = "starting"]
        /\ switch.pc \in {"closing", "releasing"}
        /\ \E w \in Workspace : space' = [space EXCEPT ![created + 1] = w]
        /\ \/ switch' = [switch EXCEPT !.pc = "starting", !.candidate = created + 1]
           \/ switch' = [switch EXCEPT !.pc = "starting", !.candidate = created + 1, !.rollback = TRUE]
    BY <1>1, <1>16 DEF StartCandidate, RollBack, Create
  <2>2. created + 1 \in Host /\ created + 1 <= MaxHosts /\ created + 1 \in Nat
    BY <1>1, <2>1, HostAssumption DEF Host
  <2>3. /\ switch' \in Switches /\ switch'.pc = "starting" /\ switch'.candidate = created + 1
        /\ switch'.previous = switch.previous /\ switch'.target = switch.target
    BY <1>1, <2>1, <2>2 DEF Switches
  <2>4. process' \in [Host -> {"none", "starting", "ready", "killed", "exited"}]
    BY <1>1, <2>1
  <2>6. space' \in [Host -> Workspace]
    <3>1. PICK w \in Workspace : space' = [space EXCEPT ![created + 1] = w]
      BY <2>1
    <3> QED BY <1>1, <3>1
  <2>5. switch.previous \in Host /\ switch.previous <= created'
    BY <1>1, <2>1 DEF Host
  <2> QED BY <1>1, <2>1, <2>2, <2>3, <2>4, <2>5, <2>6 DEF KindInv
<1>17. CASE Ready
  <2>1. UNCHANGED <<created, runtime, space, healthy, stop>> /\ switch.pc = "starting"
        /\ switch' = [switch EXCEPT !.pc = "activating"]
        /\ process' = [process EXCEPT ![switch.candidate] = "ready"]
    BY <1>17 DEF Ready
  <2>2. /\ switch' \in Switches /\ switch'.pc = "activating" /\ switch'.previous = switch.previous
        /\ switch'.target = switch.target /\ switch'.candidate = switch.candidate
        /\ process' \in [Host -> {"none", "starting", "ready", "killed", "exited"}]
    BY <1>1, <2>1 DEF Switches
  <2> QED BY <1>1, <2>1, <2>2 DEF KindInv
<1>18. CASE ActivateRestarted
  BY <1>1, <1>3, <1>18 DEF ActivateRestarted, KindInv
<1>19. CASE StartFails \/ ActivationFails
  <2>1. UNCHANGED <<created, runtime, space, healthy>> /\ switch.pc \in {"starting", "activating"}
        /\ switch' = [switch EXCEPT !.pc = "releasing"] /\ BeginStop(switch.candidate)
        /\ process' \in [Host -> {"none", "starting", "ready", "killed", "exited"}]
    BY <1>1, <1>19 DEF StartFails, ActivationFails, Release
  <2>2. stop' \in [Host -> {"no", "graceful", "forced", "done"}]
    BY <1>1, <2>1, StopKinds
  <2>3. /\ switch' \in Switches /\ switch'.pc = "releasing" /\ switch'.previous = switch.previous
        /\ switch'.target = switch.target /\ switch'.candidate = switch.candidate
    BY <1>1, <2>1 DEF Switches
  <2> QED BY <1>1, <2>1, <2>2, <2>3 DEF KindInv
<1> QED BY <1>6, <1>7, <1>8, <1>9, <1>10, <1>11, <1>12, <1>13, <1>14, <1>15, <1>16, <1>17, <1>18, <1>19
        DEF Next, Replaces, Works, Times, Exit, Crash

(* A process's commit has been performed, and its answer is on its way. *)
Committed(h) ==
    \/ \E k \in Thread : Settled(worker[h][k], Commit)
    \/ \E r \in outbox[h] : r.job = Commit /\ r.result = "value"

(* A commit can only be performed by the process main is responsible for,  *)
(* and whoever answers that it was performed is what the disk names.       *)
ActiveInv ==
    /\ abandoned # {} => torn
    /\ ~torn =>
          /\ switch.pc \in {"idle", "preparing", "closing"} => active = space[runtime]
          /\ switch.pc # "idle" /\ ~switch.account =>
                /\ active = space[switch.previous]
                /\ switch.pc \in {"preparing", "closing"} => switch.target = space[switch.previous]
                /\ switch.pc \in {"starting", "activating", "releasing"} =>
                      space[switch.candidate] = space[switch.previous]
          /\ \A h \in Host : Committed(h) => Alive(h) /\ active = space[h]

(* The worker client: only the thread answers. *)
KeepsReply(w, v) == v.replied => w.replied /\ v.active = w.active

LEMMA ClientKeepsReply ==
    ASSUME NEW w \in W!WorkerState, Tidy(w)
    PROVE  /\ KeepsReply(w, w) /\ KeepsReply(w, W!Pump(w)) /\ KeepsReply(w, W!Settle(w))
           /\ KeepsReply(w, W!RejectAll(w)) /\ KeepsReply(w, W!Terminate(w))
           /\ KeepsReply(w, W!NewWorker) /\ KeepsReply(w, W!BeginClose(w))
           /\ \A job \in Job : KeepsReply(w, W!Enqueue(w, job)) /\ KeepsReply(w, W!Abort(w, job))
<1>1. KeepsReply(w, w) /\ KeepsReply(w, W!Pump(w)) /\ KeepsReply(w, W!Settle(w))
  BY DEF KeepsReply, W!Pump, W!Settle, W!WorkerState
<1>2. KeepsReply(w, W!RejectAll(w)) /\ KeepsReply(w, W!Terminate(w)) /\ KeepsReply(w, W!NewWorker)
  BY DEF KeepsReply, W!RejectAll, W!Terminate, W!NewWorker, W!WorkerState
<1>3. KeepsReply(w, W!BeginClose(w))
  BY DEF KeepsReply, W!BeginClose, W!Enqueue, W!Pump, W!WorkerState
<1>4. ASSUME NEW job \in Job PROVE KeepsReply(w, W!Enqueue(w, job)) /\ KeepsReply(w, W!Abort(w, job))
  BY DEF KeepsReply, W!Enqueue, W!Pump, W!Abort, W!WorkerState
<1> QED BY <1>1, <1>2, <1>3, <1>4

(* No answer to a commit comes into being but for one that was performed. *)
LEMMA CommittedFalls ==
    ASSUME NEW h \in Host, \A k \in Thread : KeepsReply(worker[h][k], worker'[h][k]),
           \A r \in outbox'[h] : r.job = Commit /\ r.result = "value" =>
              r \in outbox[h] \/ \E k \in Thread : Settled(worker[h][k], Commit)
    PROVE  Committed(h)' => Committed(h)
BY DEF Committed, KeepsReply, Settled

LEMMA ActiveRests ==
    ASSUME ActiveInv, UNCHANGED <<active, runtime, switch, space, torn, abandoned>>,
           \A h \in Host : (Alive(h) => Alive(h)') \/ ~Committed(h)',
           \A h \in Host : Committed(h)' => Committed(h)
    PROVE  ActiveInv'
BY DEF ActiveInv

LEMMA ActiveOfProcess ==
    ASSUME HInv, OwnerInv, KindInv, ActiveInv, NEW h \in Host,
           \/ Dispatch(h) \/ HandleShutdown(h) \/ CloseDatabase(h)
           \/ \E k \in Thread : Settle(h, k) \/ WorkerTerminates(h, k) \/ WorkerTimeout(h, k)
           \/ GraceTimeout(h) \/ StopFails(h) \/ Leaves(h)
           \/ \E job \in Job : RequestTimeout(h, job)
    PROVE  ActiveInv'
<1>1. /\ worker \in [Host -> [Thread -> W!WorkerState]] /\ outbox \in [Host -> SUBSET Answers]
      /\ \A i \in Host, k \in Thread : Tidy(worker[i][k]) /\ worker[i][k] \in W!WorkerState
      /\ process \in [Host -> {"none", "starting", "ready", "killed", "exited"}]
      /\ inbox \in [Host -> Seq(Job \cup {Shutdown})]
  BY DEF HInv, Shape, CallsAreTracked, KindInv
<1>2. ASSUME UNCHANGED <<active, runtime, switch, space, torn, abandoned, process>>,
             \A i \in Host, k \in Thread : KeepsReply(worker[i][k], worker'[i][k]),
             \A i \in Host : \A r \in outbox'[i] : r.job = Commit /\ r.result = "value" =>
                r \in outbox[i] \/ \E k \in Thread : Settled(worker[i][k], Commit)
      PROVE  ActiveInv'
  BY <1>2, CommittedFalls, ActiveRests DEF Alive
<1>3. \A i \in Host, k \in Thread : KeepsReply(worker[i][k], worker[i][k])
  BY DEF KeepsReply
<1>4. ASSUME NEW k \in Thread, NEW v, KeepsReply(worker[h][k], v), worker' = [worker EXCEPT ![h][k] = v]
      PROVE  \A i \in Host, j \in Thread : KeepsReply(worker[i][j], worker'[i][j])
  BY <1>1, <1>3, <1>4
<1>5. ASSUME NEW A, outbox' = [outbox EXCEPT ![h] = @ \cup A],
             \A r \in A : r.job = Commit /\ r.result = "value" => \E k \in Thread : Settled(worker[h][k], Commit)
      PROVE  \A i \in Host : \A r \in outbox'[i] : r.job = Commit /\ r.result = "value" =>
                r \in outbox[i] \/ \E k \in Thread : Settled(worker[i][k], Commit)
  BY <1>1, <1>5
<1>6. CASE Dispatch(h)
  <2> DEFINE job == Head(inbox[h])
             w == worker[h][ThreadOf(job)]
  <2>1. /\ UNCHANGED <<active, runtime, switch, space, torn, abandoned, process>>
        /\ worker' = worker \/ worker' = [worker EXCEPT ![h][ThreadOf(job)] = W!Enqueue(w, job)]
        /\ \/ outbox' = outbox
           \/ \E e \in {"refused", "failed"} : outbox' = [outbox EXCEPT ![h] = @ \cup {Response(job, e)}]
    BY <1>1, <1>6 DEF Dispatch, main, history
  <2>2. job \in Job /\ ThreadOf(job) \in Thread
    <3>1. inbox[h] \in Seq(Job \cup {Shutdown}) /\ inbox[h] # <<>> /\ job # Shutdown
      BY <1>1, <1>6 DEF Dispatch
    <3>2. job \in Job \cup {Shutdown}
      BY <3>1, TailHolds
    <3> QED BY <3>1, <3>2 DEF ThreadOf, Thread
  <2>3. KeepsReply(w, W!Enqueue(w, job))
    BY <1>1, <2>2, ClientKeepsReply
  <2>4. \A i \in Host, k \in Thread : KeepsReply(worker[i][k], worker'[i][k])
    <3> DEFINE v == W!Enqueue(w, job)
    <3>1. KeepsReply(worker[h][ThreadOf(job)], v)
      BY <2>3
    <3>2. worker' = worker \/ worker' = [worker EXCEPT ![h][ThreadOf(job)] = v]
      BY <2>1
    <3> HIDE DEF v, w, job
    <3> QED BY <1>3, <1>4, <2>2, <3>1, <3>2
  <2>5. \A i \in Host : \A r \in outbox'[i] : r.job = Commit /\ r.result = "value" =>
           r \in outbox[i] \/ \E k \in Thread : Settled(worker[i][k], Commit)
    <3>1. CASE outbox' = outbox
      BY <3>1
    <3>2. ASSUME NEW e \in {"refused", "failed"}, outbox' = [outbox EXCEPT ![h] = @ \cup {Response(job, e)}]
          PROVE  \A i \in Host : \A r \in outbox'[i] : r.job = Commit /\ r.result = "value" =>
                    r \in outbox[i] \/ \E k \in Thread : Settled(worker[i][k], Commit)
      <4>1. \A r \in {Response(job, e)} : r.result # "value"
        BY DEF Response
      <4> QED BY <1>5, <3>2, <4>1
    <3> QED BY <2>1, <3>1, <3>2
  <2> QED BY <1>2, <2>1, <2>4, <2>5
<1>7. CASE HandleShutdown(h)
  <2> DEFINE w == worker[h]["compute"]
             left == [w EXCEPT !.queue = <<>>]
             v == W!BeginClose(IF w.active = Nil THEN left ELSE W!Abort(left, w.active))
  <2>1. /\ UNCHANGED <<active, runtime, switch, space, torn, abandoned, process>>
        /\ \/ UNCHANGED <<worker, outbox>>
           \/ /\ worker' = [worker EXCEPT ![h]["compute"] = v]
              /\ outbox' = [outbox EXCEPT ![h] = @ \cup Responses(W!Waiting(w) \ {w.active}, "failed")]
    BY <1>7 DEF HandleShutdown, main, history
  <2>2. KeepsReply(w, v)
    <3>1. w \in W!WorkerState
      BY <1>1 DEF Thread
    <3> HIDE DEF w
    <3> QED BY <3>1 DEF KeepsReply, W!BeginClose, W!Enqueue, W!Pump, W!Abort, W!WorkerState
  <2>3. \A i \in Host, k \in Thread : KeepsReply(worker[i][k], worker'[i][k])
    <3>1. KeepsReply(worker[h]["compute"], v) /\ "compute" \in Thread
      BY <2>2 DEF Thread
    <3> HIDE DEF v
    <3> QED BY <1>3, <1>4, <2>1, <3>1
  <2>4. \A r \in Responses(W!Waiting(w) \ {w.active}, "failed") : r.result # "value"
    BY DEF Responses, Response
  <2>5. \A i \in Host : \A r \in outbox'[i] : r.job = Commit /\ r.result = "value" =>
           r \in outbox[i] \/ \E k \in Thread : Settled(worker[i][k], Commit)
    BY <1>5, <2>1, <2>4
  <2> QED BY <1>2, <2>1, <2>3, <2>5
<1>8. CASE CloseDatabase(h)
  <2>1. /\ UNCHANGED <<active, runtime, switch, space, torn, abandoned, process, outbox>>
        /\ worker' = [worker EXCEPT ![h]["database"] = W!BeginClose(worker[h]["database"])]
    BY <1>1, <1>8 DEF CloseDatabase, main, history
  <2>2. KeepsReply(worker[h]["database"], W!BeginClose(worker[h]["database"])) /\ "database" \in Thread
    BY <1>1, ClientKeepsReply DEF Thread
  <2> QED BY <1>2, <1>4, <2>1, <2>2
<1>9. ASSUME NEW k \in Thread, Settle(h, k) PROVE ActiveInv'
  <2> DEFINE w == worker[h][k]
             v == IF w.active = Close THEN W!RejectAll(w) ELSE W!Settle(w)
             A == Responses({w.active} \ {Close}, IF w.cancelled THEN "failed" ELSE "value")
  <2>1. /\ UNCHANGED <<active, runtime, switch, space, torn, abandoned, process>>
        /\ worker' = [worker EXCEPT ![h][k] = v] /\ w.replied
        /\ outbox' = [outbox EXCEPT ![h] = @ \cup A]
    BY <1>1, <1>9 DEF Settle, main, history
  <2>2. KeepsReply(worker[h][k], v)
    BY <1>1, ClientKeepsReply
  <2>3. \A r \in A : r.job = Commit => Settled(worker[h][k], Commit)
    BY <2>1 DEF Responses, Response, Settled
  <2> HIDE DEF v, A, w
  <2>4. \A i \in Host, j \in Thread : KeepsReply(worker[i][j], worker'[i][j])
    BY <1>4, <2>1, <2>2
  <2>5. \A i \in Host : \A r \in outbox'[i] : r.job = Commit /\ r.result = "value" =>
           r \in outbox[i] \/ \E j \in Thread : Settled(worker[i][j], Commit)
    BY <1>5, <2>1, <2>3
  <2> QED BY <1>2, <2>1, <2>4, <2>5
<1>10. ASSUME NEW k \in Thread, WorkerTerminates(h, k) PROVE ActiveInv'
  <2>1. /\ UNCHANGED <<active, runtime, switch, space, torn, abandoned, process, outbox>>
        /\ worker' = [worker EXCEPT ![h][k] = W!Terminate(worker[h][k])]
    BY <1>1, <1>10 DEF WorkerTerminates, main, history
  <2>2. KeepsReply(worker[h][k], W!Terminate(worker[h][k]))
    BY <1>1, ClientKeepsReply
  <2> QED BY <1>2, <1>4, <2>1, <2>2
<1>11. ASSUME NEW k \in Thread, WorkerTimeout(h, k) PROVE ActiveInv'
  <2> DEFINE A == Responses(W!Waiting(worker[h][k]), "failed")
  <2>1. /\ UNCHANGED <<active, runtime, switch, space, torn, abandoned, process>>
        /\ worker' = [worker EXCEPT ![h][k] = W!RejectAll(worker[h][k])]
        /\ outbox' = [outbox EXCEPT ![h] = @ \cup A]
    BY <1>1, <1>11 DEF WorkerTimeout, main, history
  <2>2. KeepsReply(worker[h][k], W!RejectAll(worker[h][k]))
    BY <1>1, ClientKeepsReply
  <2>3. \A r \in A : r.result # "value"
    BY DEF Responses, Response
  <2> HIDE DEF A
  <2> QED BY <1>2, <1>4, <1>5, <2>1, <2>2, <2>3
<1>12. CASE GraceTimeout(h)
  <2>1. /\ UNCHANGED <<active, runtime, switch, space, torn, abandoned, worker, outbox>>
        /\ process' = [process EXCEPT ![h] = "killed"]
    BY <1>12 DEF GraceTimeout, main, history
  <2>2. \A i \in Host : Alive(i) => Alive(i)'
    BY <1>1, <2>1 DEF Alive
  <2>3. \A i \in Host : Committed(i)' <=> Committed(i)
    BY <2>1 DEF Committed
  <2> QED BY <2>1, <2>2, <2>3, ActiveRests
<1>13. CASE StopFails(h) \/ \E job \in Job : RequestTimeout(h, job)
  <2>1. UNCHANGED <<active, runtime, switch, space, torn, abandoned, worker, outbox, process>>
    BY <1>13 DEF StopFails, RequestTimeout, main, history
  <2> QED BY <1>2, <1>3, <2>1
<1>14. CASE Leaves(h)
  <2>1. /\ UNCHANGED <<active, runtime, switch, space, torn, abandoned>>
        /\ process' = [process EXCEPT ![h] = "exited"]
        /\ outbox' = [outbox EXCEPT ![h] = {}]
        /\ worker' = [worker EXCEPT ![h] = [k \in Thread |-> W!NewWorker]]
    BY <1>14 DEF Leaves, history
  <2>2. ~W!NewWorker.replied
    BY DEF W!NewWorker
  <2>3. ~Committed(h)'
    BY <1>1, <2>1, <2>2 DEF Committed, Settled
  <2>4. \A i \in Host \ {h} : (Alive(i)' <=> Alive(i)) /\ (Committed(i)' <=> Committed(i))
    BY <1>1, <2>1 DEF Alive, Committed
  <2> QED BY <2>1, <2>3, <2>4, ActiveRests
<1> QED BY <1>6, <1>7, <1>8, <1>9, <1>10, <1>11, <1>12, <1>13, <1>14

(* The thread performs a commit in the process main is responsible for. *)
LEMMA ActiveOfPerform ==
    ASSUME HInv, OwnerInv, KindInv, ActiveInv, NEW h \in Host, NEW k \in Thread, Perform(h, k)
    PROVE  ActiveInv'
<1> DEFINE w == worker[h][k]
           v == W!Perform(w)
<1>1. /\ UNCHANGED <<runtime, switch, space, torn, abandoned, process, outbox>>
      /\ Running(h) /\ w.thread # Nil
      /\ active' = IF w.thread = Commit THEN space[h] ELSE active
      /\ worker' = [worker EXCEPT ![h][k] = v]
  BY DEF Perform, main, history
<1>2. worker \in [Host -> [Thread -> W!WorkerState]] /\ Tidy(w) /\ w \in W!WorkerState
  BY DEF HInv, Shape, CallsAreTracked
<1>3. v.active = w.active
  BY <1>2 DEF W!Perform, W!WorkerState
<1>4. Commit # Nil
  BY HostAssumption
<1>5. v.active = Commit => w.thread = Commit
  BY <1>1, <1>2, <1>3, <1>4 DEF Tidy
<1> HIDE DEF w, v
<1>6. \A i \in Host, j \in Thread : worker'[i][j] = worker[i][j] \/ (i = h /\ worker'[i][j] = v)
  BY <1>1, <1>2
<1>7. \A i \in Host : Committed(i)' => Committed(i) \/ (i = h /\ w.thread = Commit)
  BY <1>1, <1>5, <1>6 DEF Committed, Settled
<1>8. \A i \in Host : Alive(i)' <=> Alive(i)
  BY <1>1 DEF Alive
<1>9. Alive(h)
  BY <1>1 DEF Alive, Running
<1>10. CASE w.thread # Commit
  BY <1>1, <1>7, <1>8, <1>10, ActiveRests
<1>11. CASE w.thread = Commit
  <2>1. active' = space[h]
    BY <1>1, <1>11
  <2>2. ASSUME ~torn PROVE h = Current /\ \A i \in Host : Alive(i) => i = h
    BY <1>9, <2>2 DEF ActiveInv, OwnerInv
  <2>3. ASSUME ~torn, switch.pc \in {"idle", "preparing", "closing"} PROVE active' = active
    BY <2>1, <2>2, <2>3 DEF ActiveInv, Current
  <2>4. ASSUME ~torn, switch.pc # "idle", ~switch.account PROVE active' = active
    <3>1. CASE switch.pc \in {"preparing", "closing"}
      BY <2>3, <2>4, <3>1
    <3>2. CASE switch.pc \in {"starting", "activating", "releasing"}
      BY <2>1, <2>2, <2>4, <3>2 DEF ActiveInv, Current
    <3> QED BY <2>4, <3>1, <3>2 DEF KindInv, Switches
  <2>5. ASSUME ~torn, NEW i \in Host, Committed(i)' PROVE Alive(i)' /\ active' = space[i]
    <3>1. Alive(i)
      BY <1>7, <1>9, <2>5 DEF ActiveInv
    <3> QED BY <1>8, <2>1, <2>2, <2>5, <3>1
  <2> QED BY <1>1, <2>3, <2>4, <2>5 DEF ActiveInv
<1> QED BY <1>10, <1>11

(* Main hears that the candidate's commit was performed, and serves from it. *)
LEMMA ActiveOfDeliver ==
    ASSUME HInv, OwnerInv, KindInv, ActiveInv, NEW h \in Host, NEW r, Deliver(h, r)
    PROVE  ActiveInv'
<1>1. /\ UNCHANGED <<active, space, torn, abandoned, process, worker>>
      /\ outbox' = [outbox EXCEPT ![h] = @ \ {r}] /\ Alive(h) /\ r \in outbox[h]
      /\ \/ UNCHANGED <<runtime, switch>>
         \/ /\ r.job = Commit /\ r.result = "value"
            /\ runtime' = h /\ switch' = Idle
  BY DEF Deliver, history
<1>2. outbox \in [Host -> SUBSET Answers]
  BY DEF HInv, Shape
<1>3. \A i \in Host : outbox'[i] \subseteq outbox[i]
  BY <1>1, <1>2
<1>4. \A i \in Host : (Committed(i)' => Committed(i)) /\ (Alive(i)' <=> Alive(i))
  BY <1>1, <1>3 DEF Committed, Alive
<1>5. CASE UNCHANGED <<runtime, switch>>
  BY <1>1, <1>4, <1>5, ActiveRests
<1>6. CASE r.job = Commit /\ r.result = "value" /\ runtime' = h /\ switch' = Idle
  <2>1. Committed(h)
    BY <1>1, <1>6 DEF Committed
  <2>2. switch'.pc = "idle"
    BY <1>6 DEF Idle
  <2> QED BY <1>1, <1>4, <1>6, <2>1, <2>2 DEF ActiveInv
<1> QED BY <1>1, <1>5, <1>6

(* Main's own steps write nothing; a replacement starts when no process is *)
(* left that could.                                                        *)
LEMMA ActiveOfSwitch ==
    ASSUME HInv, OwnerInv, KindInv, ActiveInv,
           (\E target \in Workspace : ChangeAccount(target)) \/ RestartRuntime \/ Replaces
    PROVE  ActiveInv'
<1>1. /\ switch \in Switches /\ space \in [Host -> Workspace] /\ created \in Nat
      /\ process \in [Host -> {"none", "starting", "ready", "killed", "exited"}]
      /\ switch.pc # "idle" => switch.previous \in Host /\ switch.previous <= created
      /\ switch.pc \in {"starting", "activating", "releasing"} => switch.candidate \in Host
      /\ switch.pc \in {"preparing", "closing"} => switch.previous = runtime /\ created < MaxHosts
      /\ runtime \in Host /\ runtime <= created
  BY DEF KindInv, OwnerInv
<1>2. Idle.pc = "idle"
  BY DEF Idle
<1>3. UNCHANGED <<worker, outbox>> => \A i \in Host : Committed(i)' <=> Committed(i)
  BY DEF Committed
\* What has to be shown.
<1>4. ASSUME UNCHANGED <<active, worker, outbox>>,
             \A i \in Host : Alive(i) => Alive(i)' /\ space'[i] = space[i],
             abandoned' # {} => torn', ~torn' => ~torn,
             ~torn' /\ switch'.pc \in {"idle", "preparing", "closing"} => active = space'[runtime'],
             ~torn' /\ switch'.pc # "idle" /\ ~switch'.account =>
                /\ active = space'[switch'.previous]
                /\ switch'.pc \in {"preparing", "closing"} => switch'.target = space'[switch'.previous]
                /\ switch'.pc \in {"starting", "activating", "releasing"} =>
                      space'[switch'.candidate] = space'[switch'.previous]
      PROVE  ActiveInv'
  <2>1. ~torn' => \A i \in Host : Committed(i)' => Alive(i)' /\ active' = space'[i]
    BY <1>3, <1>4 DEF ActiveInv
  <2> QED BY <1>4, <2>1 DEF ActiveInv
<1>5. CASE (\E target \in Workspace : ChangeAccount(target)) \/ ChangeRefused
  <2>1. /\ UNCHANGED <<active, worker, outbox, process, space, abandoned, torn, runtime>>
        /\ switch.pc \in {"idle", "preparing"}
        /\ \/ switch' = Idle
           \/ \E target : switch' = [Idle EXCEPT !.pc = "preparing", !.account = TRUE,
                                                 !.target = target, !.previous = runtime]
    BY <1>5 DEF ChangeAccount, ChangeRefused, history
  <2>2. switch'.pc = "idle" \/ (switch'.pc = "preparing" /\ switch'.account)
    <3>1. ASSUME NEW target, switch' = [Idle EXCEPT !.pc = "preparing", !.account = TRUE,
                                                    !.target = target, !.previous = runtime]
          PROVE  switch'.pc = "preparing" /\ switch'.account
      BY <3>1 DEF Idle
    <3> QED BY <1>2, <2>1, <3>1
  <2> QED BY <1>4, <2>1, <2>2 DEF ActiveInv, Alive
<1>6. CASE ChangeBegins
  <2>1. /\ UNCHANGED <<active, worker, outbox, process, space, abandoned, torn, runtime>>
        /\ switch.pc = "preparing" /\ switch' = [switch EXCEPT !.pc = "closing"]
    BY <1>6 DEF ChangeBegins, history
  <2>2. /\ switch'.pc = "closing" /\ switch'.account = switch.account
        /\ switch'.previous = switch.previous /\ switch'.target = switch.target
    BY <1>1, <2>1 DEF Switches
  <2> QED BY <1>4, <2>1, <2>2 DEF ActiveInv, Alive
<1>7. CASE RestartRuntime
  <2>1. /\ UNCHANGED <<active, worker, outbox, process, space, abandoned, torn, runtime>>
        /\ switch.pc = "idle"
        /\ switch' = [Idle EXCEPT !.pc = "closing", !.target = space[runtime], !.previous = runtime]
    BY <1>7 DEF RestartRuntime, history
  <2>2. switch'.pc = "closing" /\ switch'.previous = runtime /\ switch'.target = space[runtime]
    BY <2>1 DEF Idle
  <2> QED BY <1>4, <2>1, <2>2 DEF ActiveInv, Alive
<1>8. CASE StartCandidate \/ RollBack
  <2> DEFINE w == IF switch.pc = "closing" THEN switch.target ELSE space[switch.previous]
  <2>1. /\ UNCHANGED <<active, worker, outbox, abandoned, torn, runtime>>
        /\ space' = [space EXCEPT ![created + 1] = w]
        /\ process' = [process EXCEPT ![created + 1] = "starting"]
        /\ switch.pc \in {"closing", "releasing"} /\ created < MaxHosts
        /\ \/ switch' = [switch EXCEPT !.pc = "starting", !.candidate = created + 1]
           \/ switch' = [switch EXCEPT !.pc = "starting", !.candidate = created + 1, !.rollback = TRUE]
    BY <1>1, <1>8 DEF StartCandidate, RollBack, Create, history
  <2>2. /\ switch'.pc = "starting" /\ switch'.account = switch.account
        /\ switch'.previous = switch.previous /\ switch'.candidate = created + 1
    BY <1>1, <2>1 DEF Switches
  <2> HIDE DEF w
  <2>3. created + 1 \in Host /\ switch.previous \in Host /\ switch.previous # created + 1
    BY <1>1, <2>1, HostAssumption DEF Host
  <2>4. space'[created + 1] = w /\ \A i \in Host : i # created + 1 => space'[i] = space[i]
    BY <1>1, <2>1, <2>3
  <2>5. \A i \in Host : Alive(i) => Alive(i)' /\ i # created + 1
    <3>1. \A i \in Host : Alive(i) => i <= created
      BY DEF HInv, CallsAreTracked
    <3>2. \A i \in Host : i <= created => i # created + 1
      BY <1>1 DEF Host
    <3>3. \A i \in Host : i # created + 1 => process'[i] = process[i]
      BY <1>1, <2>1
    <3> QED BY <3>1, <3>2, <3>3 DEF Alive
  <2>6. \A i \in Host : Alive(i) => Alive(i)' /\ space'[i] = space[i]
    BY <2>4, <2>5
  <2>7. space'[switch.previous] = space[switch.previous]
    BY <2>3, <2>4
  <2>8. ~torn /\ ~switch.account => w = space[switch.previous] /\ active = space[switch.previous]
    BY <2>1 DEF ActiveInv, w
  <2>9. abandoned' # {} => torn'
    BY <2>1 DEF ActiveInv
  <2>10. ~torn' /\ ~switch'.account =>
           active = space'[switch'.previous] /\ space'[switch'.candidate] = space'[switch'.previous]
    BY <2>1, <2>2, <2>4, <2>7, <2>8
  <2> QED BY <1>4, <2>1, <2>2, <2>6, <2>9, <2>10
<1>9. CASE Ready \/ StartFails \/ ActivationFails
  <2>1. /\ UNCHANGED <<active, worker, outbox, space, abandoned, torn, runtime>>
        /\ switch.pc \in {"starting", "activating"}
        /\ \E pc \in {"activating", "releasing"} : switch' = [switch EXCEPT !.pc = pc]
        /\ \/ process' = process
           \/ process[switch.candidate] = "starting" /\ process' = [process EXCEPT ![switch.candidate] = "ready"]
           \/ process' = [process EXCEPT ![switch.candidate] = IF @ = "starting" THEN "killed" ELSE @]
    BY <1>9 DEF Ready, StartFails, ActivationFails, Release, history
  <2>2. /\ switch'.pc \in {"activating", "releasing"} /\ switch'.account = switch.account
        /\ switch'.previous = switch.previous /\ switch'.candidate = switch.candidate
    BY <1>1, <2>1 DEF Switches
  <2>3. \A i \in Host : Alive(i) => Alive(i)'
    BY <1>1, <2>1 DEF Alive
  <2>4. abandoned' # {} => torn'
    BY <2>1 DEF ActiveInv
  <2>5. ~torn' /\ ~switch'.account =>
           active = space'[switch'.previous] /\ space'[switch'.candidate] = space'[switch'.previous]
    BY <2>1, <2>2 DEF ActiveInv
  <2> QED BY <1>4, <2>1, <2>2, <2>3, <2>4, <2>5
<1>10. CASE ActivateRestarted
  <2>1. /\ UNCHANGED <<active, worker, outbox, process, space, abandoned, torn>>
        /\ switch.pc = "activating" /\ ~switch.account
        /\ runtime' = switch.candidate /\ switch' = Idle
    BY <1>10 DEF ActivateRestarted, history
  <2>2. ~torn => active = space[switch.candidate]
    BY <2>1 DEF ActiveInv
  <2>3. switch'.pc = "idle"
    BY <1>2, <2>1
  <2> QED BY <1>4, <2>1, <2>2, <2>3 DEF ActiveInv, Alive
<1>11. CASE SwitchFails
  <2>1. /\ UNCHANGED <<active, worker, outbox, process, space, runtime>>
        /\ switch.pc \in {"closing", "releasing"} /\ switch' = Idle
        /\ torn' = (torn \/ switch.pc = "releasing")
        /\ abandoned' = abandoned \/ switch.pc = "releasing"
    BY <1>11 DEF SwitchFails
  <2>2. switch'.pc = "idle"
    BY <1>2, <2>1
  <2>3. (abandoned' # {} => torn') /\ (~torn' => ~torn /\ switch.pc = "closing")
    BY <2>1 DEF ActiveInv
  <2> QED BY <1>4, <2>1, <2>2, <2>3 DEF ActiveInv, Alive
<1> QED BY <1>5, <1>6, <1>7, <1>8, <1>9, <1>10, <1>11 DEF Replaces

(* Main declares a process healthy only when it has put it in service. *)
ServedInv == healthy => switch.pc \in {"idle", "preparing"}

LEMMA ServedKeeps ==
    ASSUME KindInv, ServedInv, [Next]_vars
    PROVE  ServedInv'
<1>1. Idle.pc = "idle" /\ switch \in Switches
  BY DEF Idle, KindInv
<1>2. CASE \/ UNCHANGED vars
           \/ \E c \in Call, h \in Host : Request(c, h)
           \/ \E h \in Host, k \in Thread : WorkerTimeout(h, k)
           \/ \E target \in Workspace : ChangeAccount(target)
           \/ RestartRuntime
  BY <1>1, <1>2 DEF ServedInv, vars, Request, WorkerTimeout, ChangeAccount, RestartRuntime, main, Idle
<1>3. ASSUME NEW h \in Host, Works(h) \/ Times(h) \/ Crash(h) \/ StopFails(h)
      PROVE  ServedInv'
  <2>1. \/ UNCHANGED <<healthy, switch>> \/ switch' = Idle
        \/ (healthy' => healthy) /\ switch' = switch
    BY <1>3 DEF Works, Times, Crash, StopFails, Exit, Leaves, Dispatch, HandleShutdown, CloseDatabase,
                Perform, Settle, WorkerTerminates, Deliver, GraceTimeout, RequestTimeout, main
  <2> QED BY <1>1, <2>1 DEF ServedInv
<1>4. CASE Replaces
  <2>1. \/ switch' = Idle \/ healthy' = FALSE
        \/ healthy' = healthy /\ switch.pc \in {"closing", "starting", "activating", "releasing"}
    BY <1>4 DEF Replaces, ChangeBegins, ChangeRefused, StartCandidate, Ready, ActivateRestarted,
                StartFails, ActivationFails, Release, RollBack, SwitchFails
  <2> QED BY <1>1, <2>1 DEF ServedInv
<1> QED BY <1>2, <1>3, <1>4 DEF Next

(* While no replacement has ended with nothing in service, a process in    *)
(* service has the workspace the next start opens: accounts never show one *)
(* another's space after a restart (account/repository.ts:137).             *)
THEOREM ActiveAlwaysRunning == Spec => []ActiveIsRunning
<1>1. Init => KindInv /\ ActiveInv /\ ServedInv
  <2> SUFFICES ASSUME Init PROVE KindInv /\ ActiveInv /\ ServedInv
    OBVIOUS
  <2>1. /\ runtime = 1 /\ created = 1 /\ healthy = TRUE /\ switch = Idle /\ active = Offline
        /\ abandoned = {} /\ 1 \in Host /\ 1 <= MaxHosts
        /\ space = [h \in Host |-> Offline] /\ Offline \in Workspace
    BY HostAssumption DEF Init, Host
  <2>2. /\ process \in [Host -> {"none", "starting", "ready", "killed", "exited"}]
        /\ stop \in [Host -> {"no", "graceful", "forced", "done"}]
    BY DEF Init
  <2>3. switch \in Switches /\ switch.pc = "idle"
    BY <2>1 DEF Idle, Switches
  <2>4. KindInv
    BY <2>1, <2>2, <2>3 DEF KindInv
  <2>5. \A h \in Host : ~Committed(h)
    BY DEF Init, Committed, Settled, W!NewWorker
  <2> QED BY <2>1, <2>3, <2>4, <2>5 DEF ActiveInv, ServedInv
<1>2. /\ HInv /\ OwnerInv /\ KindInv /\ ActiveInv /\ ServedInv /\ [Next]_vars
      => KindInv' /\ ActiveInv' /\ ServedInv'
  <2> SUFFICES ASSUME HInv, OwnerInv, KindInv, ActiveInv, ServedInv, [Next]_vars PROVE ActiveInv'
    BY KindKeeps, ServedKeeps
  <2>1. CASE UNCHANGED vars \/ \E c \in Call, h \in Host : Request(c, h)
    <3>1. UNCHANGED <<active, runtime, switch, space, torn, abandoned, process, worker, outbox>>
      BY <2>1 DEF vars, Request, main, history
    <3> QED BY <3>1, ActiveRests DEF Alive, Committed
  <2>2. ASSUME NEW h \in Host, Works(h) \/ Times(h) \/ Crash(h) \/ StopFails(h) PROVE ActiveInv'
    <3>1. CASE \E r \in outbox[h] : Deliver(h, r)
      BY <3>1, ActiveOfDeliver
    <3>2. CASE \E k \in Thread : Perform(h, k)
      BY <3>2, ActiveOfPerform
    <3> QED BY <2>2, <3>1, <3>2, ActiveOfProcess DEF Works, Times, Exit, Crash
  <2>3. CASE \E h \in Host, k \in Thread : WorkerTimeout(h, k)
    BY <2>3, ActiveOfProcess
  <2> QED BY <2>1, <2>2, <2>3, ActiveOfSwitch DEF Next
<1>3. ActiveInv /\ ServedInv => ActiveIsRunning
  BY DEF ActiveInv, ServedInv, ActiveIsRunning
<1> QED BY <1>1, <1>2, <1>3, OwnerAlways, PTL DEF Spec

-----------------------------------------------------------------------------
(* The queues stay within their bounds                                     *)

(* A job is known to a client once: waiting or active, never both.  What   *)
(* makes it so is that close() queues its barrier once, when the client    *)
(* stops accepting, which is also why the barrier alone may exceed the     *)
(* capacity.                                                               *)
Distinct(s) == \A m, n \in 1..Len(s) : s[m] = s[n] => m = n
Busy(w, job) == Holds(w.queue, job) \/ w.active = job
Orderly(w) ==
    /\ w \in W!WorkerState /\ Distinct(w.queue) /\ ~Holds(w.queue, w.active)
    /\ w.active # Nil /\ ~w.replied => w.thread = w.active
    /\ Len(w.queue) <= Capacity + 1 /\ (~w.closing => Len(w.queue) <= Capacity)
    /\ Busy(w, Close) => w.closing
\* What every operation but Enqueue keeps, and no job comes in by.
Narrows(w, v) == Orderly(v) /\ \A job \in Job : Busy(v, job) => Busy(w, job)

LEMMA NarrowsFollows ==
    ASSUME NEW u, NEW w, NEW v, Narrows(u, w), Narrows(w, v)
    PROVE  Narrows(u, v)
BY DEF Narrows

LEMMA TailDistinct ==
    ASSUME NEW S, NEW s \in Seq(S), s # <<>>, Distinct(s)
    PROVE  /\ Len(Tail(s)) <= Len(s) /\ Len(Tail(s)) \in Nat /\ Len(s) \in Nat
           /\ Distinct(Tail(s)) /\ ~Holds(Tail(s), Head(s))
<1> DEFINE t == Tail(s)
           x == Head(s)
<1>1. /\ Len(s) \in Nat \ {0} /\ Len(t) = Len(s) - 1 /\ x = s[1]
      /\ \A n \in 1..Len(t) : t[n] = s[n+1]
  OBVIOUS
<1> HIDE DEF t, x
<1>2. 1 \in 1..Len(s) /\ \A n \in 1..Len(t) : n + 1 \in 1..Len(s) /\ n + 1 # 1
  BY <1>1
<1>3. ASSUME NEW m \in 1..Len(t), NEW n \in 1..Len(t), t[m] = t[n] PROVE m = n
  <2>1. m + 1 = n + 1
    BY <1>1, <1>2, <1>3 DEF Distinct
  <2> QED BY <2>1
<1>4. ~Holds(t, x)
  BY <1>1, <1>2 DEF Distinct, Holds
<1>5. Len(t) <= Len(s) /\ Len(t) \in Nat
  BY <1>1
<1> QED BY <1>1, <1>3, <1>4, <1>5 DEF Distinct, t, x

LEMMA AppendDistinct ==
    ASSUME NEW S, NEW s \in Seq(S), NEW x \in S, Distinct(s), ~Holds(s, x)
    PROVE  Len(s) \in Nat /\ Len(Append(s, x)) = Len(s) + 1 /\ Distinct(Append(s, x))
<1> DEFINE t == Append(s, x)
<1>1. /\ Len(s) \in Nat /\ Len(t) = Len(s) + 1 /\ t[Len(s) + 1] = x
      /\ \A n \in 1..Len(s) : t[n] = s[n]
  OBVIOUS
<1> HIDE DEF t
<1>2. \A n \in 1..Len(t) : n \in 1..Len(s) \/ n = Len(s) + 1
  BY <1>1
<1>3. ASSUME NEW m \in 1..Len(t), NEW n \in 1..Len(t), t[m] = t[n] PROVE m = n
  BY <1>1, <1>2, <1>3 DEF Distinct, Holds
<1> QED BY <1>1, <1>3 DEF Distinct, t

LEMMA EmptyOrderly ==
    ASSUME NEW w, NEW v \in W!WorkerState, v.queue = <<>>,
           v.active # Nil /\ ~v.replied => v.thread = v.active,
           v.active = Close => v.closing,
           \A job \in Job : v.active = job => Busy(w, job)
    PROVE  Narrows(w, v)
<1>1. Distinct(v.queue) /\ Len(v.queue) = 0 /\ \A c : ~Holds(v.queue, c)
  BY EmptyHolds DEF Distinct
<1>2. Len(v.queue) <= Capacity + 1 /\ Len(v.queue) <= Capacity
  BY <1>1, HostAssumption
<1> QED BY <1>1, <1>2 DEF Narrows, Orderly, Busy

LEMMA NewWorkerOrderly ==
    \A w : Narrows(w, W!NewWorker) /\ \A job \in Job : ~Busy(W!NewWorker, job)
<1>1. /\ W!NewWorker \in W!WorkerState /\ W!NewWorker.queue = <<>> /\ W!NewWorker.active = Nil
  BY EmptyHolds DEF W!NewWorker, W!WorkerState
<1>2. Nil \notin Job \cup {Close}
  BY HostAssumption DEF Job
<1>3. \A w : Narrows(w, W!NewWorker)
  BY <1>1, <1>2, EmptyOrderly
<1> QED BY <1>1, <1>2, <1>3, EmptyHolds DEF Busy

LEMMA PumpOrderly ==
    ASSUME NEW w, Orderly(w)
    PROVE  Narrows(w, W!Pump(w))
<1>1. CASE w.closed \/ w.active # Nil \/ w.queue = <<>>
  BY <1>1 DEF Narrows, W!Pump
<1>2. CASE ~(w.closed \/ w.active # Nil \/ w.queue = <<>>)
  <2> DEFINE v == W!Pump(w)
             t == Tail(w.queue)
             x == Head(w.queue)
  <2>1. v = [w EXCEPT !.active = x, !.queue = t, !.cancelled = FALSE, !.thread = x, !.replied = FALSE]
    BY <1>2 DEF W!Pump
  <2>2. w \in W!WorkerState /\ w.queue \in Seq(Job \cup {Close}) /\ w.queue # <<>> /\ Distinct(w.queue)
    BY <1>2 DEF Orderly, W!WorkerState
  <2>3. /\ t \in Seq(Job \cup {Close}) /\ x \in Job \cup {Close} /\ Holds(w.queue, x)
        /\ \A c : Holds(t, c) => Holds(w.queue, c)
    BY <2>2, TailHolds
  <2>4. Len(t) <= Len(w.queue) /\ Distinct(t) /\ ~Holds(t, x) /\ Len(t) \in Nat /\ Len(w.queue) \in Nat
    BY <2>2, TailDistinct
  <2> HIDE DEF t, x
  <2>5. /\ v \in W!WorkerState /\ v.active = x /\ v.queue = t /\ v.thread = x /\ v.closing = w.closing
    BY <2>1, <2>2, <2>3, Zenon DEF W!WorkerState
  <2> HIDE DEF v
  <2>6. Capacity \in Nat /\ Len(w.queue) <= Capacity + 1 /\ (~w.closing => Len(w.queue) <= Capacity)
    BY HostAssumption DEF Orderly
  <2>7. Len(t) <= Capacity + 1 /\ (~w.closing => Len(t) <= Capacity)
    BY <2>4, <2>6
  <2>8. \A c : Busy(v, c) => Busy(w, c)
    BY <2>3, <2>5 DEF Busy
  <2>9. Narrows(w, v)
    BY <2>4, <2>5, <2>7, <2>8 DEF Narrows, Orderly
  <2> QED BY <2>9 DEF v
<1> QED BY <1>1, <1>2

(* A client takes a job it does not know of, room permitting. *)
LEMMA EnqueueOrderly ==
    ASSUME NEW w, Orderly(w), NEW x \in Job \cup {Close}, ~Busy(w, x), x = Close => w.closing,
           Len(w.queue) <= Capacity, ~w.closing => Len(w.queue) < Capacity
    PROVE  /\ Orderly(W!Enqueue(w, x))
           /\ \A job \in Job : Busy(W!Enqueue(w, x), job) => Busy(w, job) \/ job = x
<1> DEFINE t == Append(w.queue, x)
           u == [w EXCEPT !.queue = t]
<1>1. w \in W!WorkerState /\ w.queue \in Seq(Job \cup {Close}) /\ Distinct(w.queue) /\ ~Holds(w.queue, x)
  BY DEF Orderly, W!WorkerState, Busy
<1>2. t \in Seq(Job \cup {Close}) /\ \A c : Holds(t, c) => Holds(w.queue, c) \/ c = x
  BY <1>1, AppendHolds
<1>3. Distinct(t) /\ Len(t) = Len(w.queue) + 1 /\ Len(w.queue) \in Nat
  BY <1>1, AppendDistinct
<1> HIDE DEF t
<1>4. Len(t) <= Capacity + 1 /\ (~w.closing => Len(t) <= Capacity)
  BY <1>3, HostAssumption
<1>5. /\ u \in W!WorkerState /\ u.queue = t /\ u.active = w.active /\ u.thread = w.thread
      /\ u.replied = w.replied /\ u.closing = w.closing
  BY <1>1, <1>2, Zenon DEF W!WorkerState
<1>6. W!Enqueue(w, x) = W!Pump(u)
  BY DEF W!Enqueue, t
<1> HIDE DEF u
<1>7. \A c : Busy(u, c) => Busy(w, c) \/ c = x
  BY <1>2, <1>5 DEF Busy
<1>8. Orderly(u)
  BY <1>2, <1>3, <1>4, <1>5, <1>7 DEF Orderly, Busy
<1>9. Narrows(u, W!Pump(u))
  BY <1>8, PumpOrderly
<1> QED BY <1>6, <1>7, <1>9 DEF Narrows

LEMMA BeginCloseOrderly ==
    ASSUME NEW w, Orderly(w), ~w.closing
    PROVE  Narrows(w, W!BeginClose(w))
<1> DEFINE u == [w EXCEPT !.closing = TRUE]
<1>1. w \in W!WorkerState
  BY DEF Orderly
<1>2. /\ u \in W!WorkerState /\ u.queue = w.queue /\ u.active = w.active /\ u.thread = w.thread
      /\ u.replied = w.replied /\ u.closing
  BY <1>1, Zenon DEF W!WorkerState
<1>3. W!BeginClose(w) = IF w.closed THEN u ELSE W!Enqueue(u, Close)
  BY DEF W!BeginClose
<1> HIDE DEF u
<1>4. Orderly(u) /\ Len(u.queue) <= Capacity /\ ~Busy(u, Close)
  BY <1>2 DEF Orderly, Busy
<1>5. \A c : Busy(u, c) <=> Busy(w, c)
  BY <1>2 DEF Busy
<1>6. Close \notin Job
  BY HostAssumption DEF Job
<1>7. Orderly(W!Enqueue(u, Close)) /\ \A job \in Job : Busy(W!Enqueue(u, Close), job) => Busy(u, job)
  BY <1>2, <1>4, <1>6, EnqueueOrderly
<1> QED BY <1>3, <1>4, <1>5, <1>7 DEF Narrows

LEMMA ClientOrderly ==
    ASSUME NEW w, Orderly(w)
    PROVE  /\ Narrows(w, w) /\ Narrows(w, W!Perform(w)) /\ Narrows(w, W!Settle(w))
           /\ Narrows(w, W!RejectAll(w)) /\ Narrows(w, W!Terminate(w))
<1>1. w \in W!WorkerState /\ \A job \in Job \cup {Close} : job # Nil
  BY HostAssumption DEF Orderly, Job
<1>2. Narrows(w, W!Perform(w))
  <2> DEFINE v == W!Perform(w)
  <2>1. /\ v \in W!WorkerState /\ v.queue = w.queue /\ v.active = w.active /\ v.closing = w.closing
        /\ v.replied = (w.active # Nil)
    BY <1>1 DEF W!Perform, W!WorkerState
  <2> HIDE DEF v
  <2>2. Narrows(w, v)
    BY <2>1 DEF Narrows, Orderly, Busy
  <2> QED BY <2>2 DEF v
<1>3. Narrows(w, W!Settle(w))
  <2> DEFINE u == [w EXCEPT !.active = Nil, !.cancelled = FALSE, !.replied = FALSE]
  <2>1. u \in W!WorkerState /\ u.queue = w.queue /\ u.active = Nil /\ u.closing = w.closing
    BY <1>1, Zenon DEF W!WorkerState
  <2>2. W!Settle(w) = W!Pump(u)
    BY DEF W!Settle
  <2> HIDE DEF u
  <2>3. ~Holds(w.queue, Nil)
    <3>1. w.queue \in Seq(Job \cup {Close})
      BY <1>1 DEF W!WorkerState
    <3>2. \A n \in 1..Len(w.queue) : w.queue[n] \in Job \cup {Close}
      BY <3>1
    <3> QED BY <1>1, <3>2 DEF Holds
  <2>4. Narrows(w, u)
    BY <1>1, <2>1, <2>3 DEF Narrows, Orderly, Busy
  <2> QED BY <2>2, <2>4, PumpOrderly, NarrowsFollows DEF Narrows
<1>4. Narrows(w, W!RejectAll(w))
  <2> DEFINE v == W!RejectAll(w)
  <2>1. v \in W!WorkerState /\ v.queue = <<>> /\ v.active = Nil
    BY <1>1, EmptyHolds DEF W!RejectAll, W!WorkerState
  <2> HIDE DEF v
  <2>2. Narrows(w, v)
    BY <1>1, <2>1, EmptyOrderly
  <2> QED BY <2>2 DEF v
<1>5. Narrows(w, W!Terminate(w))
  <2> DEFINE v == W!Terminate(w)
  <2>1. v \in W!WorkerState /\ v.queue = <<>> /\ v.active = Nil
    BY <1>1, EmptyHolds DEF W!Terminate, W!RejectAll, W!WorkerState
  <2> HIDE DEF v
  <2>2. Narrows(w, v)
    BY <1>1, <2>1, EmptyOrderly
  <2> QED BY <2>2 DEF v
<1> QED BY <1>2, <1>3, <1>4, <1>5 DEF Narrows

(* A process is sent its commit once, when it is ready for it. *)
CommitOnce(s) == \A m, n \in 1..Len(s) : s[m] = Commit /\ s[n] = Commit => m = n
QueueInv ==
    /\ \A h \in Host, k \in Thread : Orderly(worker[h][k])
    /\ \A h \in Host : process[h] # "none" => h <= created
    /\ \A h \in Host : CommitOnce(inbox[h])
    /\ \A h \in Host : Holds(inbox[h], Commit) =>
          process[h] \notin {"none", "starting"} /\ \A k \in Thread : ~Busy(worker[h][k], Commit)
    /\ \A h \in Host, k \in Thread : Busy(worker[h][k], Commit) => process[h] \notin {"none", "starting"}

LEMMA TailCommit ==
    ASSUME NEW S, NEW s \in Seq(S), s # <<>>, CommitOnce(s)
    PROVE  CommitOnce(Tail(s)) /\ (Head(s) = Commit => ~Holds(Tail(s), Commit))
<1> DEFINE t == Tail(s)
           x == Head(s)
<1>1. /\ Len(s) \in Nat \ {0} /\ Len(t) = Len(s) - 1 /\ x = s[1]
      /\ \A n \in 1..Len(t) : t[n] = s[n+1]
  OBVIOUS
<1> HIDE DEF t, x
<1>2. 1 \in 1..Len(s) /\ \A n \in 1..Len(t) : n + 1 \in 1..Len(s) /\ n + 1 # 1
  BY <1>1
<1>3. ASSUME NEW m \in 1..Len(t), NEW n \in 1..Len(t), t[m] = Commit, t[n] = Commit PROVE m = n
  <2>1. m + 1 = n + 1
    BY <1>1, <1>2, <1>3 DEF CommitOnce
  <2> QED BY <2>1
<1>4. x = Commit => ~Holds(t, Commit)
  BY <1>1, <1>2 DEF CommitOnce, Holds
<1> QED BY <1>3, <1>4 DEF CommitOnce, t, x

LEMMA AppendCommit ==
    ASSUME NEW S, NEW s \in Seq(S), NEW x \in S, CommitOnce(s), x # Commit \/ ~Holds(s, Commit)
    PROVE  CommitOnce(Append(s, x))
<1> DEFINE t == Append(s, x)
<1>1. /\ Len(s) \in Nat /\ Len(t) = Len(s) + 1 /\ t[Len(s) + 1] = x
      /\ \A n \in 1..Len(s) : t[n] = s[n]
  OBVIOUS
<1> HIDE DEF t
<1>2. \A n \in 1..Len(t) : n \in 1..Len(s) \/ n = Len(s) + 1
  BY <1>1
<1>3. CommitOnce(t)
  BY <1>1, <1>2 DEF CommitOnce, Holds
<1> QED BY <1>3 DEF t

(* What only narrows the queues keeps them within their bounds. *)
LEMMA QueuesNarrow ==
    ASSUME QueueInv,
           \A h \in Host : process'[h] # "none" => h <= created',
           \A h \in Host : process'[h] \in {"none", "starting"} => process[h] \in {"none", "starting"},
           \A h \in Host : CommitOnce(inbox'[h]) /\ (Holds(inbox'[h], Commit) => Holds(inbox[h], Commit)),
           \A h \in Host, k \in Thread : Narrows(worker[h][k], worker'[h][k])
    PROVE  QueueInv'
<1>1. Commit \in Job
  BY DEF Job
<1>2. \A h \in Host, k \in Thread : Orderly(worker'[h][k])
                                    /\ (Busy(worker'[h][k], Commit) => Busy(worker[h][k], Commit))
  BY <1>1 DEF Narrows
<1> QED BY <1>2 DEF QueueInv

(* The inboxes: read, emptied, or given a call or the shutdown message. *)
LEMMA InboxCommits ==
    ASSUME HInv, QueueInv, NEW h,
           \/ inbox' = inbox
           \/ inbox' = [inbox EXCEPT ![h] = <<>>]
           \/ inbox[h] # <<>> /\ inbox' = [inbox EXCEPT ![h] = Tail(@)]
           \/ \E x \in Call \cup {Shutdown} : inbox' = [inbox EXCEPT ![h] = Append(@, x)]
    PROVE  \A i \in Host : CommitOnce(inbox'[i]) /\ (Holds(inbox'[i], Commit) => Holds(inbox[i], Commit))
<1>1. inbox \in [Host -> Seq(Job \cup {Shutdown})] /\ \A i \in Host : CommitOnce(inbox[i])
  BY DEF HInv, Shape, QueueInv
<1>2. ASSUME NEW s, inbox' = [inbox EXCEPT ![h] = s],
             h \in Host => CommitOnce(s) /\ (Holds(s, Commit) => Holds(inbox[h], Commit))
      PROVE  \A i \in Host : CommitOnce(inbox'[i]) /\ (Holds(inbox'[i], Commit) => Holds(inbox[i], Commit))
  BY <1>1, <1>2
<1>3. CASE inbox' = inbox
  BY <1>1, <1>3
<1>4. CASE inbox' = [inbox EXCEPT ![h] = <<>>]
  <2>1. CommitOnce(<<>>)
    BY DEF CommitOnce
  <2> QED BY <1>2, <1>4, <2>1, EmptyHolds
<1>5. CASE inbox[h] # <<>> /\ inbox' = [inbox EXCEPT ![h] = Tail(@)]
  <2>1. h \in Host => /\ CommitOnce(Tail(inbox[h]))
                      /\ Holds(Tail(inbox[h]), Commit) => Holds(inbox[h], Commit)
    BY <1>1, <1>5, TailCommit, TailHolds
  <2>2. inbox' = [inbox EXCEPT ![h] = Tail(inbox[h])]
    BY <1>1, <1>5
  <2> QED BY <1>2, <2>1, <2>2
<1>6. ASSUME NEW x \in Call \cup {Shutdown}, inbox' = [inbox EXCEPT ![h] = Append(@, x)]
      PROVE  \A i \in Host : CommitOnce(inbox'[i]) /\ (Holds(inbox'[i], Commit) => Holds(inbox[i], Commit))
  <2>1. x \in Job \cup {Shutdown} /\ x # Commit
    BY HostAssumption DEF Job
  <2>2. h \in Host => /\ CommitOnce(Append(inbox[h], x))
                      /\ Holds(Append(inbox[h], x), Commit) => Holds(inbox[h], Commit)
    BY <1>1, <2>1, AppendCommit, AppendHolds
  <2>3. inbox' = [inbox EXCEPT ![h] = Append(inbox[h], x)]
    BY <1>1, <1>6
  <2> QED BY <1>2, <2>2, <2>3
<1> QED BY <1>3, <1>4, <1>5, <1>6

(* The thread a job is for does not know of it yet. *)
LEMMA DispatchQueues ==
    ASSUME HInv, QueueInv, NEW h \in Host, Dispatch(h)
    PROVE  QueueInv'
<1> DEFINE job == Head(inbox[h])
           t == ThreadOf(job)
           w == worker[h][t]
           v == W!Enqueue(w, job)
<1>1. /\ UNCHANGED <<process, created>> /\ inbox[h] # <<>> /\ job # Shutdown /\ process[h] = "ready"
      /\ inbox' = [inbox EXCEPT ![h] = Tail(@)]
      /\ \/ worker' = worker
         \/ ~w.closing /\ Len(w.queue) < Capacity /\ worker' = [worker EXCEPT ![h][t] = v]
  <2>1. Capacity \in Nat /\ Len(w.queue) \in Nat
    <3>1. w \in W!WorkerState
      BY DEF HInv, Shape, ThreadOf, Thread
    <3>2. w.queue \in Seq(Job \cup {Close})
      BY <3>1 DEF W!WorkerState
    <3> HIDE DEF w
    <3> QED BY <3>2, HostAssumption
  <2>2. W!Serving(w) /\ ~W!Full(w) => ~w.closing /\ Len(w.queue) < Capacity
    BY <2>1 DEF W!Serving, W!Full
  <2> QED BY <2>2 DEF Dispatch, Running, main
<1>2. /\ inbox \in [Host -> Seq(Job \cup {Shutdown})] /\ inbox[h] \in Seq(Job \cup {Shutdown})
      /\ worker \in [Host -> [Thread -> W!WorkerState]]
      /\ t \in Thread /\ Orderly(w)
  BY DEF HInv, Shape, QueueInv, ThreadOf, Thread
<1>3. /\ job \in Job /\ Holds(inbox[h], job)
      /\ CommitOnce(Tail(inbox[h])) /\ (job = Commit => ~Holds(Tail(inbox[h]), Commit))
      /\ \A c : Holds(Tail(inbox[h]), c) => Holds(inbox[h], c)
  <2>1. inbox[h] # <<>> /\ job # Shutdown /\ CommitOnce(inbox[h])
    BY <1>1 DEF QueueInv
  <2> QED BY <1>2, <2>1, TailHolds, TailCommit
<1>4. ~Busy(w, job)
  <2>1. CASE job = Commit
    BY <1>2, <1>3, <2>1 DEF QueueInv
  <2>2. CASE job \in Call
    <3>1. Followed(job, h)
      BY <2>2 DEF HInv, CallsAreTracked
    <3>2. ~ToPerform(w, job) /\ ~Settled(w, job)
      BY <1>2, <1>3, <3>1 DEF Followed, ToDo, Done
    <3>3. job # Nil
      BY <2>2, HostAssumption
    <3>4. w.active # Nil /\ ~w.replied => w.thread = w.active
      BY <1>2 DEF Orderly
    <3> HIDE DEF w, job
    <3> QED BY <3>2, <3>3, <3>4 DEF Busy, ToPerform, Settled
  <2> QED BY <1>3, <2>1, <2>2 DEF Job
<1>5. job # Close
  BY <1>3, HostAssumption DEF Job
<1>6. CASE worker' = worker
  <2>1. \A i \in Host, k \in Thread : Narrows(worker[i][k], worker'[i][k])
    BY <1>6 DEF Narrows, QueueInv
  <2>2. \A i \in Host : CommitOnce(inbox'[i]) /\ (Holds(inbox'[i], Commit) => Holds(inbox[i], Commit))
    BY <1>1, InboxCommits
  <2>3. \A i \in Host : process'[i] # "none" => i <= created'
    BY <1>1 DEF QueueInv
  <2> QED BY <1>1, <2>1, <2>2, <2>3, QueuesNarrow
<1>7. CASE ~w.closing /\ Len(w.queue) < Capacity /\ worker' = [worker EXCEPT ![h][t] = v]
  <2>1. Len(w.queue) <= Capacity
    <3>1. w.queue \in Seq(Job \cup {Close})
      BY <1>2 DEF Orderly, W!WorkerState
    <3> HIDE DEF w
    <3> QED BY <1>7, <3>1, HostAssumption
  <2>2. Orderly(v) /\ \A j \in Job : Busy(v, j) => Busy(w, j) \/ j = job
    BY <1>2, <1>3, <1>4, <1>5, <1>7, <2>1, EnqueueOrderly
  <2> HIDE DEF v, w, t, job
  <2>3. \A i \in Host, k \in Thread : worker'[i][k] = worker[i][k] \/ (i = h /\ k = t /\ worker'[i][k] = v)
    BY <1>2, <1>7
  <2>4. Commit \in Job /\ w = worker[h][t]
    BY DEF Job, w
  <2>5. \A i \in Host, k \in Thread :
           /\ Orderly(worker'[i][k])
           /\ Busy(worker'[i][k], Commit) => Busy(worker[i][k], Commit) \/ (i = h /\ job = Commit)
    BY <2>2, <2>3, <2>4 DEF QueueInv
  <2>6. inbox'[h] = Tail(inbox[h]) /\ \A i \in Host : i # h => inbox'[i] = inbox[i]
    BY <1>1, <1>2
  <2>7. \A i \in Host : /\ CommitOnce(inbox'[i])
                        /\ Holds(inbox'[i], Commit) => Holds(inbox[i], Commit) /\ (i = h => job # Commit)
    BY <1>3, <2>6 DEF QueueInv
  <2>8. \A i \in Host : (process'[i] # "none" => i <= created') /\ process'[i] = process[i]
    BY <1>1 DEF QueueInv
  <2>9. process'[h] \notin {"none", "starting"}
    BY <1>1
  <2>10. ASSUME NEW i \in Host, NEW k \in Thread, Busy(worker'[i][k], Commit)
         PROVE  process'[i] \notin {"none", "starting"}
    <3>1. Busy(worker[i][k], Commit) \/ i = h
      BY <2>5, <2>10
    <3>2. Busy(worker[i][k], Commit) => process[i] \notin {"none", "starting"}
      BY DEF QueueInv
    <3> QED BY <2>8, <2>9, <3>1, <3>2
  <2>11. ASSUME NEW i \in Host, Holds(inbox'[i], Commit)
         PROVE  process'[i] \notin {"none", "starting"} /\ \A k \in Thread : ~Busy(worker'[i][k], Commit)
    <3>1. Holds(inbox[i], Commit) /\ (i = h => job # Commit)
      BY <2>7, <2>11
    <3>2. process[i] \notin {"none", "starting"} /\ \A k \in Thread : ~Busy(worker[i][k], Commit)
      BY <3>1 DEF QueueInv
    <3> QED BY <2>5, <2>8, <3>1, <3>2
  <2>12. \A i \in Host, k \in Thread : Orderly(worker'[i][k])
    BY <2>5
  <2> QED BY <2>7, <2>8, <2>10, <2>11, <2>12 DEF QueueInv
<1> QED BY <1>1, <1>6, <1>7

LEMMA ReadyQueues ==
    ASSUME HInv, QueueInv, KindInv, Ready
    PROVE  QueueInv'
<1> DEFINE h == switch.candidate
<1>1. /\ UNCHANGED <<worker, created>> /\ process[h] = "starting" /\ h \in Host
      /\ process' = [process EXCEPT ![h] = "ready"]
      /\ inbox' = inbox \/ inbox' = [inbox EXCEPT ![h] = Append(@, Commit)]
  BY DEF Ready, KindInv
<1>2. inbox \in [Host -> Seq(Job \cup {Shutdown})] /\ process = [i \in Host |-> process[i]]
  BY DEF HInv, Shape
<1>3. process'[h] = "ready" /\ \A i \in Host : i # h => process'[i] = process[i]
  BY <1>1, <1>2
<1>4. ~Holds(inbox[h], Commit) /\ \A k \in Thread : ~Busy(worker[h][k], Commit)
  BY <1>1 DEF QueueInv
<1>5. /\ CommitOnce(inbox'[h])
      /\ \A i \in Host : i # h => inbox'[i] = inbox[i]
  <2>1. CommitOnce(inbox[h]) /\ inbox[h] \in Seq(Job \cup {Shutdown}) /\ Commit \in Job \cup {Shutdown}
    BY <1>1, <1>2 DEF QueueInv, Job
  <2>2. CommitOnce(Append(inbox[h], Commit))
    BY <1>4, <2>1, AppendCommit
  <2> QED BY <1>1, <1>2, <2>1, <2>2
<1> HIDE DEF h
<1>6. \A i \in Host : process'[i] # "none" => i <= created'
  BY <1>1, <1>3 DEF QueueInv
<1> QED BY <1>1, <1>3, <1>4, <1>5, <1>6 DEF QueueInv

(* What a process and its threads do besides taking jobs. *)
LEMMA ProcessQueues ==
    ASSUME HInv, KindInv, QueueInv, NEW h \in Host,
           \/ (Works(h) /\ ~Dispatch(h)) \/ Times(h) \/ Crash(h) \/ StopFails(h)
           \/ \E k \in Thread : WorkerTimeout(h, k)
    PROVE  QueueInv'
<1>1. /\ worker \in [Host -> [Thread -> W!WorkerState]]
      /\ process \in [Host -> {"none", "starting", "ready", "killed", "exited"}]
      /\ \A i \in Host, k \in Thread : Orderly(worker[i][k])
      /\ \A i \in Host : process[i] # "none" => i <= created
  BY DEF HInv, Shape, KindInv, QueueInv
<1>2. \A i \in Host, k \in Thread : Narrows(worker[i][k], worker[i][k])
  BY <1>1 DEF Narrows
\* What has to be shown of each.
<1>3. ASSUME created' = created,
             process' = process \/ \E p \in {"killed", "exited"} : process' = [process EXCEPT ![h] = p],
             process' = process \/ process[h] # "none",
             \/ inbox' = inbox \/ inbox' = [inbox EXCEPT ![h] = <<>>]
             \/ inbox[h] # <<>> /\ inbox' = [inbox EXCEPT ![h] = Tail(@)],
             \A i \in Host, k \in Thread : Narrows(worker[i][k], worker'[i][k])
      PROVE  QueueInv'
  <2>1. \A i \in Host : CommitOnce(inbox'[i]) /\ (Holds(inbox'[i], Commit) => Holds(inbox[i], Commit))
    BY <1>3, InboxCommits
  <2>2. \A i \in Host : /\ process'[i] # "none" => i <= created'
                        /\ process'[i] \in {"none", "starting"} => process[i] \in {"none", "starting"}
    BY <1>1, <1>3
  <2> QED BY <1>3, <2>1, <2>2, QueuesNarrow
<1>4. ASSUME NEW k \in Thread, NEW v, Narrows(worker[h][k], v), worker' = [worker EXCEPT ![h][k] = v]
      PROVE  \A i \in Host, j \in Thread : Narrows(worker[i][j], worker'[i][j])
  BY <1>1, <1>2, <1>4
<1>5. CASE HandleShutdown(h)
  <2> DEFINE w == worker[h]["compute"]
             left == [w EXCEPT !.queue = <<>>]
             u == IF w.active = Nil THEN left ELSE W!Abort(left, w.active)
  <2>1. /\ UNCHANGED <<created, process>> /\ inbox[h] # <<>> /\ inbox' = [inbox EXCEPT ![h] = Tail(@)]
        /\ worker' = worker \/ (~w.closing /\ worker' = [worker EXCEPT ![h]["compute"] = W!BeginClose(u)])
    BY <1>5 DEF HandleShutdown, main
  <2>2. Orderly(w) /\ w \in W!WorkerState /\ "compute" \in Thread
    BY <1>1 DEF Thread
  <2>3. ASSUME ~w.closing PROVE Narrows(w, u) /\ ~u.closing
    <3>1. /\ u \in W!WorkerState /\ u.queue = <<>> /\ u.active = w.active /\ u.thread = w.thread
          /\ u.replied = w.replied /\ u.closing = w.closing
      BY <2>2, EmptyHolds DEF W!Abort, W!WorkerState
    <3> HIDE DEF u, left, w
    <3>2. /\ w.active # Nil /\ ~w.replied => w.thread = w.active
          /\ w.active = Close => w.closing
      BY <2>2 DEF Orderly, Busy
    <3> QED BY <2>3, <3>1, <3>2, EmptyOrderly DEF Busy
  <2> HIDE DEF u, left, w
  <2>4. ASSUME ~w.closing PROVE Narrows(w, W!BeginClose(u))
    BY <2>3, <2>4, BeginCloseOrderly, NarrowsFollows DEF Narrows
  <2>5. \A i \in Host, k \in Thread : Narrows(worker[i][k], worker'[i][k])
    <3>1. CASE worker' = worker
      BY <1>2, <3>1
    <3>2. CASE ~w.closing /\ worker' = [worker EXCEPT ![h]["compute"] = W!BeginClose(u)]
      BY <1>4, <2>2, <2>4, <3>2 DEF w
    <3> QED BY <2>1, <3>1, <3>2
  <2> QED BY <1>3, <2>1, <2>5
<1>6. CASE CloseDatabase(h)
  <2> DEFINE w == worker[h]["database"]
  <2>1. /\ UNCHANGED <<created, process, inbox>> /\ ~w.closing
        /\ worker' = [worker EXCEPT ![h]["database"] = W!BeginClose(w)]
    BY <1>1, <1>6 DEF CloseDatabase, main
  <2>2. Narrows(w, W!BeginClose(w)) /\ "database" \in Thread
    BY <1>1, <2>1, BeginCloseOrderly DEF Thread
  <2> QED BY <1>3, <1>4, <2>1, <2>2
<1>7. ASSUME NEW k \in Thread,
             Perform(h, k) \/ Settle(h, k) \/ WorkerTerminates(h, k) \/ WorkerTimeout(h, k)
      PROVE  QueueInv'
  <2> DEFINE w == worker[h][k]
  <2>1. /\ UNCHANGED <<created, process, inbox>>
        /\ \E v \in {W!Perform(w), W!Settle(w), W!RejectAll(w), W!Terminate(w)} :
              worker' = [worker EXCEPT ![h][k] = v]
    BY <1>1, <1>7 DEF Perform, Settle, WorkerTerminates, WorkerTimeout, main
  <2>2. \A v \in {W!Perform(w), W!Settle(w), W!RejectAll(w), W!Terminate(w)} : Narrows(w, v)
    BY <1>1, ClientOrderly
  <2> QED BY <1>3, <1>4, <2>1, <2>2
<1>8. ASSUME Leaves(h), process[h] # "none" PROVE QueueInv'
  <2>1. /\ UNCHANGED created /\ process' = [process EXCEPT ![h] = "exited"]
        /\ inbox' = [inbox EXCEPT ![h] = <<>>]
        /\ worker' = [worker EXCEPT ![h] = [k \in Thread |-> W!NewWorker]]
    BY <1>8 DEF Leaves
  <2>2. \A i \in Host, k \in Thread : Narrows(worker[i][k], worker'[i][k])
    BY <1>1, <1>2, <2>1, NewWorkerOrderly
  <2> QED BY <1>3, <1>8, <2>1, <2>2
<1>9. CASE Exit(h) \/ Crash(h)
  BY <1>8, <1>9 DEF Exit, Crash, Running
<1>10. CASE GraceTimeout(h)
  <2>1. /\ UNCHANGED <<created, inbox, worker>> /\ process' = [process EXCEPT ![h] = "killed"]
        /\ process[h] # "none"
    BY <1>10 DEF GraceTimeout, main, Alive
  <2> QED BY <1>2, <1>3, <2>1
<1>11. CASE \/ StopFails(h) \/ \E job \in Job : RequestTimeout(h, job)
            \/ \E r \in outbox[h] : Deliver(h, r)
  <2>1. UNCHANGED <<created, process, inbox, worker>>
    BY <1>11 DEF StopFails, RequestTimeout, Deliver, main
  <2> QED BY <1>2, <1>3, <2>1
<1> QED BY <1>5, <1>6, <1>7, <1>9, <1>10, <1>11 DEF Works, Times

(* Main's own steps: a message more for a process, a process more. *)
LEMMA MainQueues ==
    ASSUME HInv, OwnerInv, KindInv, QueueInv,
           \/ UNCHANGED vars \/ \E c \in Call, h \in Host : Request(c, h)
           \/ \E target \in Workspace : ChangeAccount(target)
           \/ RestartRuntime \/ Replaces
    PROVE  QueueInv'
<1>1. /\ process \in [Host -> {"none", "starting", "ready", "killed", "exited"}]
      /\ \A i \in Host : process[i] # "none" => i <= created
      /\ \A i \in Host, k \in Thread : Orderly(worker[i][k]) /\ created \in Nat
  BY DEF KindInv, QueueInv
<1>2. \A i \in Host, k \in Thread : Narrows(worker[i][k], worker[i][k])
  BY <1>1 DEF Narrows
<1>3. ASSUME UNCHANGED <<worker, created>>, process' = process,
             \/ inbox' = inbox
             \/ \E h \in Nat : \E x \in Call \cup {Shutdown} : inbox' = [inbox EXCEPT ![h] = Append(@, x)]
      PROVE  QueueInv'
  <2>1. \A i \in Host : CommitOnce(inbox'[i]) /\ (Holds(inbox'[i], Commit) => Holds(inbox[i], Commit))
    BY <1>3, InboxCommits
  <2> QED BY <1>1, <1>2, <1>3, <2>1, QueuesNarrow
<1>4. CASE \/ UNCHANGED vars \/ \E target \in Workspace : ChangeAccount(target)
           \/ ChangeRefused \/ ActivateRestarted \/ SwitchFails
  BY <1>3, <1>4 DEF vars, ChangeAccount, ChangeRefused, ActivateRestarted, SwitchFails
<1>5. CASE \E c \in Call, h \in Host : Request(c, h)
  <2>1. /\ UNCHANGED <<worker, created, process>>
        /\ \/ inbox' = inbox
           \/ \E h \in Host : \E c \in Call : inbox' = [inbox EXCEPT ![h] = Append(@, c)]
    BY <1>5 DEF Request, main
  <2>2. \A h \in Host : h \in Nat
    BY HostAssumption DEF Host
  <2> QED BY <1>3, <2>1, <2>2
<1>6. ASSUME NEW h \in Nat, BeginStop(h)
      PROVE  inbox' = inbox \/ inbox' = [inbox EXCEPT ![h] = Append(@, Shutdown)]
  BY <1>6 DEF BeginStop
<1>7. CASE ChangeBegins \/ RestartRuntime \/ ActivationFails
  <2>1. /\ UNCHANGED <<worker, created, process>> /\ \E h \in Nat : BeginStop(h)
    BY <1>7 DEF ChangeBegins, RestartRuntime, ActivationFails, Release, OwnerInv
  <2> QED BY <1>3, <1>6, <2>1
<1>8. CASE StartFails
  <2> DEFINE h == switch.candidate
  <2>1. /\ UNCHANGED <<worker, created>> /\ BeginStop(h) /\ h \in Nat
        /\ process' = [process EXCEPT ![h] = IF @ = "starting" THEN "killed" ELSE @]
    BY <1>8 DEF StartFails, Release, OwnerInv
  <2>2. \A i \in Host : CommitOnce(inbox'[i]) /\ (Holds(inbox'[i], Commit) => Holds(inbox[i], Commit))
    BY <1>6, <2>1, InboxCommits
  <2>3. \A i \in Host : process'[i] = process[i] \/ (process[i] = "starting" /\ process'[i] = "killed")
    BY <1>1, <2>1
  <2>4. \A i \in Host : /\ process'[i] # "none" => i <= created'
                        /\ process'[i] \in {"none", "starting"} => process[i] \in {"none", "starting"}
    BY <1>1, <2>1, <2>3
  <2> QED BY <1>2, <2>1, <2>2, <2>4, QueuesNarrow
<1>9. CASE StartCandidate \/ RollBack
  <2>1. /\ UNCHANGED <<worker, inbox>> /\ created' = created + 1
        /\ process' = [process EXCEPT ![created + 1] = "starting"]
    BY <1>9 DEF StartCandidate, RollBack, Create
  <2>2. \A i \in Host : i \in Nat
    BY HostAssumption DEF Host
  <2>3. ~(created + 1 <= created)
    BY <1>1 DEF KindInv
  <2>4. \A i \in Host : IF i = created + 1 THEN process[i] = "none" /\ i <= created'
                        ELSE process'[i] = process[i] /\ (i <= created => i <= created')
    BY <1>1, <2>1, <2>2, <2>3 DEF KindInv
  <2>5. \A i \in Host : /\ process'[i] # "none" => i <= created'
                        /\ process'[i] \in {"none", "starting"} => process[i] \in {"none", "starting"}
    BY <1>1, <2>1, <2>4
  <2>6. \A i \in Host : CommitOnce(inbox'[i]) /\ (Holds(inbox'[i], Commit) => Holds(inbox[i], Commit))
    BY <2>1 DEF QueueInv
  <2> QED BY <1>2, <2>1, <2>5, <2>6, QueuesNarrow
<1> QED BY <1>4, <1>5, <1>7, <1>8, <1>9, ReadyQueues DEF Replaces

(* The host's states are well formed, and no worker's queue is longer than *)
(* its capacity and the barrier of its close, nor holds the active job.    *)
THEOREM HostTypes == Spec => []TypeOK
<1>1. Init => KindInv /\ QueueInv
  <2> SUFFICES ASSUME Init PROVE KindInv /\ QueueInv
    OBVIOUS
  <2>1. /\ runtime = 1 /\ created = 1 /\ healthy = TRUE /\ switch = Idle
        /\ 1 \in Host /\ 1 <= MaxHosts /\ 1 <= 1
        /\ space = [h \in Host |-> Offline] /\ Offline \in Workspace
    BY HostAssumption DEF Init, Host
  <2>2. /\ process \in [Host -> {"none", "starting", "ready", "killed", "exited"}]
        /\ stop \in [Host -> {"no", "graceful", "forced", "done"}]
        /\ \A h \in Host : process[h] # "none" => h = 1
    BY DEF Init
  <2>3. switch \in Switches /\ switch.pc = "idle"
    BY <2>1 DEF Idle, Switches
  <2>4. KindInv
    BY <2>1, <2>2, <2>3 DEF KindInv
  <2>5. \A h \in Host : inbox[h] = <<>> /\ \A k \in Thread : worker[h][k] = W!NewWorker
    BY DEF Init
  <2>6. CommitOnce(<<>>)
    BY DEF CommitOnce
  <2>7. Orderly(W!NewWorker) /\ ~Busy(W!NewWorker, Commit)
    BY NewWorkerOrderly DEF Narrows, Job
  <2> QED BY <2>1, <2>2, <2>4, <2>5, <2>6, <2>7, EmptyHolds DEF QueueInv
<1>2. HInv /\ OwnerInv /\ KindInv /\ QueueInv /\ [Next]_vars => KindInv' /\ QueueInv'
  <2> SUFFICES ASSUME HInv, OwnerInv, KindInv, QueueInv, [Next]_vars PROVE QueueInv'
    BY KindKeeps
  <2>1. ASSUME NEW h \in Host, Works(h) \/ Times(h) \/ Crash(h) \/ StopFails(h) PROVE QueueInv'
    BY <2>1, ProcessQueues, DispatchQueues
  <2>2. CASE \E h \in Host, k \in Thread : WorkerTimeout(h, k)
    BY <2>2, ProcessQueues
  <2> QED BY <2>1, <2>2, MainQueues DEF Next
<1>3. HInv /\ KindInv /\ QueueInv => TypeOK
  <2> SUFFICES ASSUME HInv, KindInv, QueueInv, NEW h \in Host, NEW k \in Thread
               PROVE  /\ worker[h][k] \in W!WorkerState
                      /\ Len(worker[h][k].queue) <= Capacity + 1
                      /\ worker[h][k].active \notin ToSet(worker[h][k].queue)
    BY DEF TypeOK, HInv, Shape, KindInv
  <2>1. Orderly(worker[h][k])
    BY DEF QueueInv
  <2>2. worker[h][k].active \notin ToSet(worker[h][k].queue)
    BY <2>1 DEF Orderly, Holds, ToSet
  <2> QED BY <2>1, <2>2 DEF Orderly
<1> QED BY <1>1, <1>2, <1>3, OwnerAlways, PTL DEF Spec

=============================================================================

--------------------------- MODULE TerminalStream ---------------------------
(***************************************************************************)
(* The output of a terminal on its way to the page (ssh/stream.ts and the  *)
(* terminal port of preload/index.ts): a ring of the latest bytes, named   *)
(* by their absolute positions, sent in batches against a credit that the  *)
(* page's acknowledgements replenish, while the shell is paused when the   *)
(* page falls behind. A ring that overtakes what was sent leaves a gap.    *)
(*                                                                         *)
(* A byte is represented by its position, so a run of bytes by its two     *)
(* ends: `from' excluded, `to' included.                                   *)
(***************************************************************************)
EXTENDS Integers, Sequences

CONSTANTS
    CAPACITY, BATCH, CREDIT,
    MaxOutput,     \* bound: bytes ever put out
    MaxChunk,      \* bound: bytes put out at once
    MaxBinds       \* bound: pages that subscribe, one after the other

ASSUME StreamAssumption ==
    /\ CAPACITY \in Nat /\ BATCH \in Nat \ {0} /\ CREDIT \in Nat \ {0} /\ CREDIT < CAPACITY
    /\ MaxOutput \in Nat /\ MaxChunk \in Nat /\ MaxBinds \in Nat

VARIABLES
    end, size,     \* bytes ever put out, and how many of them the ring holds
    sent, acked,   \* position up to which the port was sent, the page has shown
    bound,         \* a port is bound
    timer,         \* a flush is scheduled
    paused,        \* the shell does not read
    toPage,        \* frames on their way to the page
    toHost,        \* acknowledgements on their way back
    shown,         \* page: position up to which it has shown the output
    broken,        \* page: it met a frame that does not follow the last
    binds          \* bound counter

ring == <<end, size>>
page == <<shown, broken>>
vars == <<ring, sent, acked, bound, timer, paused, toPage, toHost, page, binds>>

start == end - size
Least(a, b) == IF a < b THEN a ELSE b
Data(from, to) == [kind |-> "data", from |-> from, to |-> to]
Jump(kind, to) == [kind |-> kind, from |-> 0, to |-> to]

Init ==
    /\ end = 0 /\ size = 0 /\ sent = 0 /\ acked = 0
    /\ bound = FALSE /\ timer = FALSE /\ paused = FALSE
    /\ toPage = <<>> /\ toHost = <<>> /\ shown = 0 /\ broken = FALSE /\ binds = 0

(* output(): the ring forgets its oldest bytes; a page far behind pauses   *)
(* the shell. What is not the shell's own stream is put out all the same:  *)
(* its stderr, the transcript of the agent's commands.                     *)
Output(n) ==
    /\ end + n <= MaxOutput
    /\ end' = end + n /\ size' = Least(size + n, CAPACITY)
    /\ paused' = (paused \/ (bound /\ end' - acked >= CAPACITY - CREDIT))
    /\ timer' = bound
    /\ UNCHANGED <<sent, acked, bound, toPage, toHost, page, binds>>

ShellOutput == ~paused /\ \E n \in 1..MaxChunk : Output(n)
OtherOutput == \E n \in 1..MaxChunk : Output(n)

(* Reconnecting gives the stream another shell, which nobody paused. *)
ShellReplaced ==
    /\ paused /\ paused' = FALSE
    /\ UNCHANGED <<ring, sent, acked, bound, timer, toPage, toHost, page, binds>>

(* bind(): an earlier port is closed with whatever was on its way. *)
Bind ==
    /\ binds < MaxBinds /\ binds' = binds + 1
    /\ bound' = TRUE /\ timer' = TRUE /\ paused' = FALSE
    /\ sent' = start /\ acked' = start
    /\ toPage' = <<Jump("start", start)>> /\ toHost' = <<>>
    /\ shown' = 0 /\ broken' = FALSE
    /\ UNCHANGED ring

Unbind ==
    /\ bound' = FALSE /\ timer' = FALSE /\ paused' = FALSE
    /\ toPage' = <<>> /\ toHost' = <<>>
    /\ UNCHANGED <<ring, sent, acked, page, binds>>

(* The page goes away; the host hears of its port's end. *)
PageCloses == bound /\ Unbind

(* A slip: the ring may overtake unnoticed. *)
GapUnseen == <<>>

(* flush(): where the ring has overtaken the position sent, say so. *)
Gap == IF sent < start THEN <<Jump("gap", start)>> ELSE <<>>

Flush ==
    LET from == IF sent < start THEN start ELSE sent
        seen == IF sent < start THEN start ELSE acked
        count == Least(BATCH, Least(CREDIT - (from - seen), end - from))
        to == IF count > 0 THEN from + count ELSE from
    IN  /\ timer
        /\ sent' = to /\ acked' = seen
        /\ toPage' = toPage \o Gap \o (IF count > 0 THEN <<Data(from, to)>> ELSE <<>>)
        /\ timer' = (count > 0 /\ to < end /\ to - seen < CREDIT)
        /\ UNCHANGED <<ring, bound, paused, toHost, page, binds>>

(* The page shows one frame after the other, and acknowledges what it has  *)
(* shown. A frame that does not follow makes it close its port.            *)
PageTakes ==
    /\ toPage # <<>>
    /\ LET frame == Head(toPage) IN
       IF frame.kind = "data" /\ frame.from # shown
       THEN /\ broken' = TRUE /\ bound' = FALSE /\ timer' = FALSE /\ paused' = FALSE
            /\ toPage' = <<>> /\ toHost' = <<>> /\ UNCHANGED <<shown>>
       ELSE /\ shown' = frame.to /\ toPage' = Tail(toPage)
            /\ toHost' = IF frame.kind = "data" THEN Append(toHost, frame.to) ELSE toHost
            /\ UNCHANGED <<broken, bound, timer, paused>>
    /\ UNCHANGED <<ring, sent, acked, binds>>

(* A slip: an acknowledgement resumes the shell, but not the sending. *)
AckTakesSilently ==
    /\ toHost # <<>>
    /\ IF Head(toHost) > sent THEN Unbind
       ELSE /\ toHost' = Tail(toHost)
            /\ IF Head(toHost) > acked
               THEN acked' = Head(toHost) /\ paused' = FALSE
               ELSE UNCHANGED <<acked, paused>>
            /\ UNCHANGED <<ring, sent, bound, timer, toPage, page, binds>>

(* An acknowledgement of what was never sent closes the port. *)
AckTakes ==
    /\ toHost # <<>>
    /\ IF Head(toHost) > sent THEN Unbind
       ELSE /\ toHost' = Tail(toHost)
            /\ IF Head(toHost) > acked
               THEN acked' = Head(toHost) /\ paused' = FALSE /\ timer' = TRUE
               ELSE UNCHANGED <<acked, paused, timer>>
            /\ UNCHANGED <<ring, sent, bound, toPage, page, binds>>

Next ==
    \/ ShellOutput \/ OtherOutput \/ ShellReplaced
    \/ Bind \/ PageCloses
    \/ Flush \/ PageTakes \/ AckTakes

Spec == Init /\ [][Next]_vars

(* A timer fires, a message between the processes arrives, and the page's  *)
(* terminal finishes what it was given to write.                           *)
FairSpec == Spec /\ WF_vars(Flush) /\ WF_vars(PageTakes) /\ WF_vars(AckTakes)

-----------------------------------------------------------------------------
Frame == [kind : {"start", "gap", "data"}, from : Nat, to : Nat]
Flags == bound \in BOOLEAN /\ timer \in BOOLEAN /\ paused \in BOOLEAN /\ broken \in BOOLEAN
TypeOK ==
    /\ end \in Nat /\ size \in 0..CAPACITY /\ size <= end
    /\ sent \in Nat /\ acked \in Nat /\ shown \in Nat /\ binds \in Nat
    /\ Flags
    /\ toPage \in Seq(Frame) /\ toHost \in Seq(Nat)
    /\ timer => bound
    /\ ~bound => toPage = <<>> /\ toHost = <<>>

(* What is on its way to the page is in order: each run of bytes starts    *)
(* where the one before it, or the announced jump, ends; it ends at the    *)
(* position sent, which the ring has put out. So the page never meets a    *)
(* frame that does not follow, it shows each byte at its place, and its    *)
(* acknowledgements never look forged.                                     *)
Previous(frames, from, i) == IF i = 1 THEN from ELSE frames[i - 1].to
Follows(frames, from, to) ==
    /\ \A i \in 1..Len(frames) :
         /\ frames[i].kind = "data" => frames[i].from = Previous(frames, from, i)
         /\ frames[i].to <= to
    /\ Previous(frames, from, Len(frames) + 1) = to

FramesFit ==
    /\ ~broken
    /\ bound => Follows(toPage, shown, sent)
    /\ \A i \in 1..Len(toHost) : toHost[i] <= sent
    /\ acked <= sent /\ sent - acked <= CREDIT /\ sent <= end

(* Nothing is lost or left standing: once the output has ended, a page     *)
(* that stays has shown all of it, but for the gaps it was told of, and    *)
(* the shell is not left paused.                                           *)
CatchesUp == <>[](bound => shown = end /\ ~paused)
=============================================================================

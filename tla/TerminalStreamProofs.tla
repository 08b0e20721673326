------------------------ MODULE TerminalStreamProofs ------------------------
(* That the frames sent to a terminal page always fit, for a ring, a batch *)
(* and a credit of any size and an output of any length.                   *)
EXTENDS TerminalStream, TLAPS

(* A frame that starts where the sent ones end, or jumps ahead, leaves the *)
(* sequence in order and ends it at its own end.                           *)
LEMMA AppendFollows ==
    ASSUME NEW q \in Seq(Frame), NEW from \in Nat, NEW to \in Nat, NEW f \in Frame,
           Follows(q, from, to), f.kind = "data" => f.from = to, f.to >= to
    PROVE  Append(q, f) \in Seq(Frame) /\ Follows(Append(q, f), from, f.to)
<1> DEFINE r == Append(q, f)
<1>1. /\ r \in Seq(Frame) /\ Len(r) = Len(q) + 1 /\ r[Len(q) + 1] = f
      /\ \A i \in 1..Len(q) : r[i] = q[i]
  OBVIOUS
<1>2. /\ \A i \in 1..Len(q) + 1 : Previous(r, from, i) = Previous(q, from, i)
  <2>1. ASSUME NEW i \in 1..Len(q) + 1, i # 1 PROVE i - 1 \in 1..Len(q)
    BY <2>1
  <2> QED BY <1>1, <2>1 DEF Previous
<1>3. Previous(r, from, Len(r) + 1) = f.to
  BY <1>1 DEF Previous
<1>4. ASSUME NEW i \in 1..Len(r)
      PROVE  /\ r[i].kind = "data" => r[i].from = Previous(r, from, i)
             /\ r[i].to <= f.to
  <2>1. CASE i = Len(q) + 1
    <3>1. Previous(r, from, i) = to
      BY <1>2, <2>1, Len(q) \in Nat DEF Follows
    <3>2. f.to \in Nat
      BY DEF Frame
    <3> QED BY <1>1, <2>1, <3>1, <3>2
  <2>2. CASE i \in 1..Len(q)
    <3>1. q[i] \in Frame /\ r[i] = q[i] /\ Previous(r, from, i) = Previous(q, from, i)
      BY <1>1, <1>2, <2>2
    <3>2. q[i].to \in Nat /\ f.to \in Nat
      BY <3>1 DEF Frame
    <3> QED BY <2>2, <3>1, <3>2 DEF Follows
  <2> QED BY <1>1, <2>1, <2>2
<1> HIDE DEF r
<1> QED BY <1>1, <1>3, <1>4 DEF Follows, r

(* The page takes the first frame: what is left follows its end. *)
LEMMA TailFollows ==
    ASSUME NEW q \in Seq(Frame), q # <<>>, NEW from \in Nat, NEW to \in Nat, Follows(q, from, to)
    PROVE  /\ Head(q) \in Frame /\ Tail(q) \in Seq(Frame)
           /\ Head(q).kind = "data" => Head(q).from = from
           /\ Head(q).to <= to
           /\ Follows(Tail(q), Head(q).to, to)
<1> DEFINE r == Tail(q)
<1>1. /\ r \in Seq(Frame) /\ Len(r) = Len(q) - 1 /\ Head(q) = q[1] /\ q[1] \in Frame /\ Len(q) >= 1
      /\ \A i \in 1..Len(r) : r[i] = q[i + 1]
  OBVIOUS
<1>2. ASSUME NEW i \in 1..Len(q)
      PROVE  Previous(r, q[1].to, i) = Previous(q, from, i + 1)
  BY <1>1 DEF Previous
<1>3. ASSUME NEW i \in 1..Len(r)
      PROVE  /\ r[i].kind = "data" => r[i].from = Previous(r, q[1].to, i)
             /\ r[i].to <= to
  <2>1. i \in 1..Len(q) /\ i + 1 \in 1..Len(q) /\ r[i] = q[i + 1]
    BY <1>1
  <2> QED BY <1>2, <2>1 DEF Follows
<1>4. Previous(r, q[1].to, Len(r) + 1) = to
  BY <1>1, <1>2, Len(q) \in 1..Len(q) DEF Follows
<1>5. (q[1].kind = "data" => q[1].from = from) /\ q[1].to <= to
  BY <1>1 DEF Follows, Previous
<1> HIDE DEF r
<1> QED BY <1>1, <1>3, <1>4, <1>5 DEF Follows, r

(* The inductive invariant: what is checked, and the types of the state.   *)
Inv == TypeOK /\ FramesFit

LEMMA InitInv == Init => Inv
<1> SUFFICES ASSUME Init PROVE Inv
  OBVIOUS
<1>1. Flags
  BY DEF Init, Flags
<1>2. TypeOK
  BY <1>1, StreamAssumption DEF Init, TypeOK
<1>3. FramesFit
  BY StreamAssumption DEF Init, FramesFit
<1> QED BY <1>2, <1>3 DEF Inv

LEMMA OutputInv ==
    ASSUME Inv, NEW n \in 1..MaxChunk, Output(n) PROVE Inv'
<1>1. n \in Nat /\ n > 0
  BY StreamAssumption
<1>2. TypeOK'
  <2>1. Flags'
    BY Zenon DEF Inv, TypeOK, Flags, Output, page
  <2>2. size' \in 0..CAPACITY /\ size' <= end'
    BY <1>1, StreamAssumption DEF Inv, TypeOK, Output, Least
  <2>3. (timer' => bound') /\ bound' = bound
    BY Zenon DEF Output
  <2> QED BY <1>1, <2>1, <2>2, <2>3 DEF Inv, TypeOK, Output, page
<1>3. UNCHANGED <<broken, bound, toPage, shown, sent, toHost, acked>>
  BY DEF Output, page
<1>4. end' >= end /\ end' \in Nat
  BY <1>1 DEF Inv, TypeOK, Output
<1> QED BY <1>2, <1>3, <1>4 DEF Inv, TypeOK, FramesFit, Follows, Previous

(* A port that is gone leaves nothing on its way. *)
LEMMA UnbindInv ==
    ASSUME Inv, Unbind PROVE Inv'
<1>1. TypeOK'
  <2>1. Flags'
    BY Zenon DEF Inv, TypeOK, Flags, Unbind, page
  <2> QED BY <2>1 DEF Inv, TypeOK, Unbind, ring, page
<1>2. UNCHANGED <<broken, sent, acked, end>> /\ ~bound' /\ toHost' = <<>>
  BY DEF Unbind, ring, page
<1> QED BY <1>1, <1>2 DEF Inv, TypeOK, FramesFit

LEMMA BindInv ==
    ASSUME Inv, Bind PROVE Inv'
<1>1. start \in Nat /\ start <= end
  BY StreamAssumption DEF Inv, TypeOK, start
<1>2. Jump("start", start) \in Frame
  BY <1>1 DEF Jump, Frame
<1>3. TypeOK'
  <2>1. Flags'
    BY Zenon DEF Flags, Bind
  <2> QED BY <1>1, <1>2, <2>1 DEF Inv, TypeOK, Bind, ring
<1>4. Follows(<<Jump("start", start)>>, 0, start)
  BY <1>1 DEF Follows, Previous, Jump
<1>5. /\ ~broken' /\ toPage' = <<Jump("start", start)>> /\ shown' = 0 /\ sent' = start
      /\ acked' = start /\ toHost' = <<>> /\ end' = end
  BY DEF Bind, ring
<1>6. sent' - acked' <= CREDIT
  BY <1>1, <1>5, StreamAssumption
<1> QED BY <1>1, <1>3, <1>4, <1>5, <1>6 DEF Inv, FramesFit

LEMMA FlushInv ==
    ASSUME Inv, Flush PROVE Inv'
<1> DEFINE from == IF sent < start THEN start ELSE sent
           seen == IF sent < start THEN start ELSE acked
           count == Least(BATCH, Least(CREDIT - (from - seen), end - from))
           to == IF count > 0 THEN from + count ELSE from
           mid == toPage \o Gap
<1>1. /\ timer /\ bound
      /\ sent' = to /\ acked' = seen
      /\ toPage' = mid \o (IF count > 0 THEN <<Data(from, to)>> ELSE <<>>)
      /\ timer' \in BOOLEAN
      /\ UNCHANGED <<end, size, bound, paused, toHost, shown, broken, binds>>
  BY DEF Flush, Inv, TypeOK, ring, page
<1>2. /\ start \in Nat /\ start <= end /\ from \in Nat /\ seen \in Nat /\ seen <= from
      /\ from <= end /\ from - seen <= CREDIT /\ sent <= from
  BY StreamAssumption DEF Inv, TypeOK, FramesFit, start
<1>3. /\ to \in Nat /\ from <= to /\ to <= end /\ to - seen <= CREDIT
  BY <1>2, StreamAssumption DEF Least, Inv, TypeOK
<1>4. mid \in Seq(Frame) /\ Follows(mid, shown, from)
  <2>1. toPage \in Seq(Frame) /\ shown \in Nat /\ sent \in Nat /\ Follows(toPage, shown, sent)
    BY <1>1 DEF Inv, TypeOK, FramesFit
  <2>2. CASE sent < start
    <3>1. mid = Append(toPage, Jump("gap", start)) /\ from = start
      BY <2>1, <2>2 DEF Gap
    <3>2. Jump("gap", start) \in Frame /\ Jump("gap", start).to = start /\ Jump("gap", start).kind = "gap"
      BY <1>2 DEF Jump, Frame
    <3>3. Append(toPage, Jump("gap", start)) \in Seq(Frame)
          /\ Follows(Append(toPage, Jump("gap", start)), shown, start)
      BY <1>2, <2>1, <2>2, <3>2, AppendFollows
    <3> QED BY <3>1, <3>3
  <2>3. CASE ~(sent < start)
    BY <2>1, <2>3 DEF Gap
  <2> QED BY <2>2, <2>3
<1>5. toPage' \in Seq(Frame) /\ Follows(toPage', shown, to)
  <2>1. CASE count > 0
    <3>1. Data(from, to) \in Frame /\ Data(from, to).from = from /\ Data(from, to).to = to
      BY <1>2, <1>3 DEF Data, Frame
    <3> HIDE DEF mid, from, to, count
    <3>2. toPage' = Append(mid, Data(from, to))
      BY <1>1, <1>4, <2>1
    <3>3. shown \in Nat
      BY DEF Inv, TypeOK
    <3> QED BY <1>2, <1>3, <1>4, <3>1, <3>2, <3>3, AppendFollows
  <2>2. CASE ~(count > 0)
    <3>1. to = from
      BY <2>2
    <3> HIDE DEF mid, from, to, count
    <3> QED BY <1>1, <1>4, <2>2, <3>1
  <2> QED BY <2>1, <2>2
<1> HIDE DEF from, seen, count, to, mid
<1>6. \A i \in 1..Len(toHost') : toHost'[i] <= sent'
  <2>1. sent' >= sent /\ sent \in Nat /\ sent' \in Nat /\ toHost \in Seq(Nat) /\ toHost' = toHost
    BY <1>1, <1>2, <1>3 DEF Inv, TypeOK
  <2> QED BY <2>1 DEF Inv, FramesFit
<1>7. TypeOK'
  <2>1. Flags'
    BY <1>1, Zenon DEF Inv, TypeOK, Flags
  <2> QED BY <1>1, <1>2, <1>3, <1>5, <2>1 DEF Inv, TypeOK
<1>8. ~broken' /\ (bound' => Follows(toPage', shown', sent'))
  BY <1>1, <1>5 DEF Inv, FramesFit
<1>9. acked' <= sent' /\ sent' - acked' <= CREDIT /\ sent' <= end'
  BY <1>1, <1>2, <1>3
<1> QED BY <1>6, <1>7, <1>8, <1>9 DEF Inv, FramesFit

LEMMA PageTakesInv ==
    ASSUME Inv, PageTakes PROVE Inv'
<1> DEFINE frame == Head(toPage)
<1>1. toPage # <<>> /\ bound
  BY DEF Inv, TypeOK, PageTakes
<1>2. /\ toPage \in Seq(Frame) /\ shown \in Nat /\ sent \in Nat /\ Follows(toPage, shown, sent)
  BY <1>1 DEF Inv, TypeOK, FramesFit
<1>3. /\ frame \in Frame /\ Tail(toPage) \in Seq(Frame)
      /\ frame.kind = "data" => frame.from = shown
      /\ frame.to <= sent /\ Follows(Tail(toPage), frame.to, sent)
  BY <1>1, <1>2, TailFollows
<1> HIDE DEF frame
<1>4. /\ shown' = frame.to /\ toPage' = Tail(toPage)
      /\ toHost' = IF frame.kind = "data" THEN Append(toHost, frame.to) ELSE toHost
      /\ UNCHANGED <<broken, bound, timer, paused, end, size, sent, acked, binds>>
  BY <1>3 DEF PageTakes, ring, frame
<1>5. frame.to \in Nat
  BY <1>3 DEF Frame
<1>6. toHost' \in Seq(Nat) /\ \A i \in 1..Len(toHost') : toHost'[i] <= sent
  <2>1. toHost \in Seq(Nat) /\ \A i \in 1..Len(toHost) : toHost[i] <= sent
    BY DEF Inv, TypeOK, FramesFit
  <2> QED BY <1>3, <1>4, <1>5, <2>1
<1>7. TypeOK'
  <2>1. Flags'
    BY <1>4, Zenon DEF Inv, TypeOK, Flags
  <2> QED BY <1>1, <1>3, <1>4, <1>5, <1>6, <2>1 DEF Inv, TypeOK
<1> QED BY <1>3, <1>4, <1>6, <1>7 DEF Inv, FramesFit

LEMMA AckTakesInv ==
    ASSUME Inv, AckTakes PROVE Inv'
<1>1. /\ toHost \in Seq(Nat) /\ toHost # <<>> /\ Head(toHost) \in Nat /\ Head(toHost) <= sent
      /\ sent \in Nat /\ acked \in Nat /\ bound
  BY DEF Inv, TypeOK, FramesFit, AckTakes
<1>2. /\ toHost' = Tail(toHost)
      /\ \/ acked' = Head(toHost) /\ acked' > acked /\ paused' = FALSE /\ timer' = TRUE
         \/ UNCHANGED <<acked, paused, timer>>
      /\ UNCHANGED <<end, size, sent, bound, toPage, shown, broken, binds>>
  <2>1. ~(Head(toHost) > sent)
    BY <1>1
  <2>2. CASE Head(toHost) > acked
    <3>1. acked' = Head(toHost) /\ paused' = FALSE /\ timer' = TRUE /\ toHost' = Tail(toHost)
      BY <2>1, <2>2, Zenon DEF AckTakes
    <3>2. UNCHANGED <<end, size, sent, bound, toPage, shown, broken, binds>>
      BY <2>1, <2>2 DEF AckTakes, ring, page
    <3> QED BY <2>2, <3>1, <3>2
  <2>3. CASE ~(Head(toHost) > acked)
    BY <2>1, <2>3 DEF AckTakes, ring, page
  <2> QED BY <2>2, <2>3
<1>3. acked' \in Nat /\ acked' <= sent /\ sent - acked' <= CREDIT
  BY <1>1, <1>2, StreamAssumption DEF Inv, FramesFit
<1>4. Tail(toHost) \in Seq(Nat) /\ \A i \in 1..Len(Tail(toHost)) : Tail(toHost)[i] <= sent
  <2>1. \A i \in 1..Len(toHost) : toHost[i] <= sent
    BY DEF Inv, FramesFit
  <2> QED BY <1>1, <2>1
<1>5. TypeOK'
  <2>1. Flags'
    BY <1>2, Zenon DEF Inv, TypeOK, Flags
  <2> QED BY <1>1, <1>2, <1>3, <1>4, <2>1 DEF Inv, TypeOK
<1> QED BY <1>2, <1>3, <1>4, <1>5 DEF Inv, FramesFit

LEMMA NextInv == Inv /\ [Next]_vars => Inv'
<1> SUFFICES ASSUME Inv, [Next]_vars PROVE Inv'
  OBVIOUS
<1>1. CASE ShellOutput
  BY <1>1, OutputInv DEF ShellOutput
<1>2. CASE OtherOutput
  BY <1>2, OutputInv DEF OtherOutput
<1>3. CASE ShellReplaced
  <2>1. Flags'
    BY <1>3, Zenon DEF ShellReplaced, page, Inv, TypeOK, Flags
  <2> QED BY <1>3, <2>1 DEF ShellReplaced, ring, page, Inv, TypeOK, FramesFit, start, Follows, Previous
<1>4. CASE Bind
  BY <1>4, BindInv
<1>5. CASE PageCloses
  BY <1>5, UnbindInv DEF PageCloses
<1>6. CASE Flush
  BY <1>6, FlushInv
<1>7. CASE PageTakes
  BY <1>7, PageTakesInv
<1>8. CASE AckTakes
  BY <1>8, AckTakesInv
<1>9. CASE UNCHANGED vars
  BY <1>9 DEF vars, ring, page, Inv, TypeOK, Flags, FramesFit, Follows, Previous
<1> QED BY <1>1, <1>2, <1>3, <1>4, <1>5, <1>6, <1>7, <1>8, <1>9 DEF Next

(* The frames fit in every state of the stream, whatever the capacity, the *)
(* batch and the credit (TerminalStream.flush, bind and the page's check). *)
THEOREM StreamFits == Spec => []FramesFit
<1>1. Inv => FramesFit
  BY DEF Inv
<1> QED BY InitInv, NextInv, <1>1, PTL DEF Spec

(* The state keeps its types; no timer and no message outlive a port.      *)
THEOREM StreamTypes == Spec => []TypeOK
<1>1. Inv => TypeOK
  BY DEF Inv
<1> QED BY InitInv, NextInv, <1>1, PTL DEF Spec
=============================================================================

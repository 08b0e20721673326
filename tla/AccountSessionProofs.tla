------------------------ MODULE AccountSessionProofs ------------------------
(***************************************************************************)
(* The account session, for any number of calls, renewals, logins and      *)
(* faults: a one-time token is presented once, the stored token is the one *)
(* the server would renew, and a session ends for a reason only.  The      *)
(* inductive invariant SessionSound says besides of a token that is on its *)
(* way to the disk (Coming) that nothing uses it yet, and of the shared    *)
(* refresh that only one starter runs it.                                  *)
(***************************************************************************)
EXTENDS AccountSession, FiniteSetTheorems, TLAPS

-----------------------------------------------------------------------------
(* The inductive invariant                                                 *)

FlightType(issued) ==
    [pc : {"none", "reading", "sent", "answered", "retrying", "scheduling"},
     expected : issued \cup {0}, answer : issued \cup {0}]
CallType(issued) ==
    [pc : {"idle", "reading", "renewing", "waiting", "sent", "answered", "done"}, changes : BOOLEAN,
     token : issued \cup {0}, sync : BOOLEAN \cup {Nil}, retried : BOOLEAN,
     answer : {Nil, "ok", "refused", "disabled"}]
ChangeType(issued) ==
    [pc : {"idle", "accepting", "scheduling", "leaving", "revoking", "clearing", "closing"},
     token : issued \cup {0}]

(* The server numbers its tokens and its logins. *)
TokensSound ==
    /\ \E n \in Nat \ {0} : Issued = 1..n
    /\ \E k \in Nat : {login[t] : t \in Issued} = 0..k
    /\ login \in [Issued -> Login] /\ live \in [Login -> Issued \cup {0}]

DeviceSound ==
    /\ late \subseteq Issued /\ used \subseteq Issued
    /\ timer \in {"off", "renewal", "retry"} /\ change \in ChangeType(Issued)

(* A refresh presents a token no answer was taken for. *)
FlightSound(f, issued, answered, rejected) ==
    /\ f \in FlightType(issued)
    /\ f.pc \in {"sent", "answered", "retrying"} => f.expected # 0
    /\ f.pc = "sent" => f.expected \notin answered
    /\ f.pc = "answered" /\ f.answer = 0 => f.expected \in rejected

FlightsSound ==
    /\ flight \in [Starter -> FlightType(Issued)] /\ refreshing \in Starter \cup {Nil}
    /\ \A r \in Starter : /\ FlightSound(flight[r], Issued, used, refused)
                          /\ flight[r].pc # "none" <=> refreshing = r

(* A call clears the session only for a refusal. *)
Final(n) == n.pc = "answered" /\ (n.answer = "disabled" \/ (n.answer = "refused" /\ n.retried))
CallSound(n, issued, rejected) ==
    /\ n \in CallType(issued)
    /\ n.pc \in {"sent", "answered"} => n.token # 0
    /\ Final(n) => n.token \in rejected

CallsSound ==
    /\ caller \in [Caller -> CallType(Issued)]
    /\ \A c \in Caller : CallSound(caller[c], Issued, refused)

(* A token that was issued to the device and is not on disk yet. *)
Coming(u) ==
    \/ change.pc = "accepting" /\ u = change.token
    \/ \E r \in Starter : flight[r].pc = "answered" /\ u = flight[r].answer /\ u # 0
Unplaced(u) ==
    /\ u \in Issued /\ u # stored.token /\ u \notin used \cup late
    /\ live[login[u]] \in {0, u}
    /\ \A r \in Starter : flight[r].expected # u

ComingSound ==
    /\ \A u : Coming(u) => Unplaced(u)
    /\ change.pc = "accepting" =>
          \A r \in Starter : flight[r].pc = "answered" => flight[r].answer # change.token

(* What HoldsLiveToken says, with an answer that brings a token. *)
Holds(t) ==
    \/ t = 0 \/ t \in orphaned
    \/ live[login[t]] \in {0, t}
    \/ \E r \in Starter : flight[r].pc = "answered" /\ flight[r].answer # 0 /\ flight[r].expected = t

StoredSound ==
    /\ stored \in [token : Issued \cup {0}, sync : BOOLEAN \cup {Nil}]
    /\ stored.token \notin used
    /\ \A t : t = stored.token => Holds(t)

SessionSound ==
    TokensSound /\ DeviceSound /\ FlightsSound /\ CallsSound /\ ComingSound /\ StoredSound

-----------------------------------------------------------------------------
(* The server                                                              *)

LEMMA IssuedAre ==
    ASSUME TokensSound
    PROVE  /\ Issued \subseteq Nat \ {0} /\ 0 \notin Issued
           /\ NextToken \in Nat \ {0} /\ NextToken \notin Issued
           /\ \E n \in Nat \ {0} : Issued \cup {NextToken} = 1..n
<1>1. PICK n \in Nat \ {0} : Issued = 1..n
  BY DEF TokensSound
<1>2. Cardinality(1..n) = n
  BY FS_Interval
<1>3. NextToken = n + 1
  BY <1>1, <1>2 DEF NextToken
<1>4. Issued \cup {NextToken} = 1..(n + 1)
  BY <1>1, <1>3
<1> QED BY <1>1, <1>3, <1>4

(* A token joins a login: the old tokens keep theirs. *)
LEMMA IssueSound ==
    ASSUME TokensSound, NEW l \in Login,
           login' = [t \in Issued \cup {NextToken} |-> IF t = NextToken THEN l ELSE login[t]],
           live' = [live EXCEPT ![l] = NextToken],
           \/ \E t \in Issued : login[t] = l
           \/ \A k \in Nat : {login[t] : t \in Issued} = 0..k => l = k + 1
    PROVE  /\ TokensSound' /\ Issued' = Issued \cup {NextToken}
           /\ login'[NextToken] = l /\ \A t \in Issued : login'[t] = login[t]
           /\ live'[l] = NextToken /\ \A m \in Login \ {l} : live'[m] = live[m]
<1>1. /\ Issued' = Issued \cup {NextToken} /\ login'[NextToken] = l
      /\ \A t \in Issued : login'[t] = login[t]
  BY IssuedAre DEF Issued
<1>2. login \in [Issued -> Login] /\ live \in [Login -> Issued \cup {0}]
  BY DEF TokensSound
<1>3. /\ live'[l] = NextToken /\ \A m \in Login \ {l} : live'[m] = live[m]
      /\ live' \in [Login -> Issued' \cup {0}]
  BY <1>1, <1>2
<1>4. login' \in [Issued' -> Login]
  BY <1>1, <1>2
<1>5. {login'[t] : t \in Issued'} = {login[t] : t \in Issued} \cup {l}
  BY <1>1, IssuedAre
<1>6. PICK k \in Nat : {login[t] : t \in Issued} = 0..k
  BY DEF TokensSound
<1>7. \E m \in Nat : {login'[t] : t \in Issued'} = 0..m
  <2>1. CASE \E t \in Issued : login[t] = l
    <3>1. l \in {login[t] : t \in Issued}
      BY <2>1
    <3> QED BY <1>5, <1>6, <3>1
  <2>2. CASE l = k + 1
    <3>1. (0..k) \cup {k + 1} = 0..(k + 1) /\ k + 1 \in Nat
      OBVIOUS
    <3> QED BY <1>5, <1>6, <2>2, <3>1
  <2> QED BY <1>6, <2>1, <2>2
<1> QED BY <1>1, <1>3, <1>4, <1>7, IssuedAre DEF TokensSound

LEMMA RotateSound ==
    ASSUME TokensSound, NEW token \in Issued, Rotate(token)
    PROVE  /\ TokensSound' /\ Issued' = Issued \cup {NextToken}
           /\ login'[NextToken] = login[token] /\ live'[login'[NextToken]] = NextToken
           /\ \A t \in Issued : login'[t] = login[t]
           /\ Rotates(token) =>
                 \A u \in Issued \ {token} : live[login[u]] \in {0, u} => live'[login'[u]] \in {0, u}
<1>1. login[token] \in Login /\ token # 0
  BY IssuedAre DEF TokensSound
<1>2. /\ TokensSound' /\ Issued' = Issued \cup {NextToken}
      /\ login'[NextToken] = login[token] /\ \A t \in Issued : login'[t] = login[t]
      /\ live'[login[token]] = NextToken /\ \A m \in Login \ {login[token]} : live'[m] = live[m]
  BY <1>1, IssueSound DEF Rotate
<1>3. ASSUME Rotates(token), NEW u \in Issued \ {token}, live[login[u]] \in {0, u}
      PROVE  live'[login'[u]] \in {0, u}
  <2>1. login[u] \in Login /\ login[u] # login[token]
    BY <1>1, <1>3 DEF Rotates, TokensSound
  <2> QED BY <1>2, <1>3, <2>1
<1> QED BY <1>2, <1>3

(* Logins end, none begins. *)
LiveFalls == login' = login /\ live' \in [Login -> Issued \cup {0}]
             /\ \A l \in Login : live'[l] \in {0, live[l]}

LEMMA FallsSound ==
    ASSUME TokensSound, LiveFalls
    PROVE  /\ TokensSound' /\ Issued' = Issued
           /\ \A u \in Issued : live[login[u]] \in {0, u} => live'[login'[u]] \in {0, u}
<1>1. Issued' = Issued /\ \A t \in Issued : login[t] \in Login
  BY DEF LiveFalls, Issued, TokensSound
<1>2. {login'[t] : t \in Issued'} = {login[t] : t \in Issued}
  BY <1>1 DEF LiveFalls
<1>3. TokensSound'
  BY <1>1, <1>2 DEF TokensSound, LiveFalls
<1> QED BY <1>1, <1>3 DEF LiveFalls

LEMMA ServerRests ==
    ASSUME TokensSound, UNCHANGED <<login, live>>
    PROVE  LiveFalls
BY DEF TokensSound, LiveFalls

-----------------------------------------------------------------------------
(* What a step must keep of each part                                      *)

LEMMA AssumeNames == Nil \notin Starter /\ Timer \in Starter /\ Caller \subseteq Starter
BY SessionAssumption DEF Starter

LEMMA OneFlight ==
    ASSUME FlightsSound, NEW r \in Starter, flight[r].pc # "none"
    PROVE  refreshing = r /\ \A s \in Starter \ {r} : flight[s].pc = "none"
BY DEF FlightsSound

LEMMA FlightsRest ==
    ASSUME FlightsSound, Issued \subseteq Issued', refused \subseteq refused',
           UNCHANGED <<flight, refreshing, used>>
    PROVE  FlightsSound'
<1>1. ASSUME NEW r \in Starter
      PROVE  /\ flight'[r] \in FlightType(Issued') /\ FlightSound(flight'[r], Issued', used', refused')
             /\ flight'[r].pc # "none" <=> refreshing' = r
  BY <1>1 DEF FlightsSound, FlightSound, FlightType
<1>2. flight' \in [Starter -> FlightType(Issued')]
  BY <1>1 DEF FlightsSound
<1> QED BY <1>1, <1>2 DEF FlightsSound

LEMMA FlightMoves ==
    ASSUME FlightsSound, Issued \subseteq Issued', refused \subseteq refused',
           NEW r \in Starter, flight[r].pc # "none", flight'[r].pc # "none",
           flight' = [flight EXCEPT ![r] = flight'[r]], refreshing' = refreshing,
           FlightSound(flight'[r], Issued', used', refused')
    PROVE  FlightsSound'
<1>1. ASSUME NEW s \in Starter \ {r}
      PROVE  flight'[s] = flight[s] /\ flight[s].pc = "none"
  BY <1>1 DEF FlightsSound
<1>2. ASSUME NEW s \in Starter
      PROVE  /\ flight'[s] \in FlightType(Issued') /\ FlightSound(flight'[s], Issued', used', refused')
             /\ flight'[s].pc # "none" <=> refreshing' = s
  <2>1. CASE s = r
    BY <2>1 DEF FlightsSound, FlightSound
  <2>2. CASE s # r
    BY <1>1, <2>2 DEF FlightsSound, FlightSound, FlightType
  <2> QED BY <2>1, <2>2
<1>3. flight' \in [Starter -> FlightType(Issued')]
  BY <1>2 DEF FlightsSound
<1> QED BY <1>2, <1>3 DEF FlightsSound

LEMMA CallMoves ==
    ASSUME CallsSound, Issued \subseteq Issued', refused \subseteq refused', NEW c \in Caller,
           caller' = [caller EXCEPT ![c] = caller'[c]], CallSound(caller'[c], Issued', refused')
    PROVE  CallsSound'
<1>1. ASSUME NEW d \in Caller
      PROVE  CallSound(caller'[d], Issued', refused')
  <2>1. CASE d = c
    BY <2>1
  <2>2. CASE d # c
    BY <2>2 DEF CallsSound, CallSound, CallType, Final
  <2> QED BY <2>1, <2>2
<1>2. caller' \in [Caller -> CallType(Issued')]
  BY <1>1 DEF CallsSound, CallSound
<1> QED BY <1>1, <1>2 DEF CallsSound

LEMMA CallsRest ==
    ASSUME CallsSound, Issued \subseteq Issued', refused \subseteq refused', caller' = caller
    PROVE  CallsSound'
<1>1. ASSUME NEW d \in Caller
      PROVE  CallSound(caller'[d], Issued', refused')
  BY DEF CallsSound, CallSound, CallType, Final
<1>2. caller' \in [Caller -> CallType(Issued')]
  BY <1>1 DEF CallsSound, CallSound
<1> QED BY <1>1, <1>2 DEF CallsSound

LEMMA CallDone ==
    ASSUME CallsSound, Issued' = Issued, refused \subseteq refused', NEW c \in Caller, Done(c)
    PROVE  CallsSound' /\ caller'[c].pc = "done"
<1>1. caller'[c] = [Fresh EXCEPT !.pc = "done"] /\ caller' = [caller EXCEPT ![c] = caller'[c]]
  BY DEF Done, CallsSound
<1>2. CallSound(caller'[c], Issued', refused') /\ caller'[c].pc = "done"
  BY <1>1 DEF Fresh, CallSound, CallType, Final
<1> QED BY <1>1, <1>2, CallMoves

(* Nothing comes to the device, and nothing takes what is coming. *)
LEMMA ComingRests ==
    ASSUME SessionSound, Issued \subseteq Issued',
           \A u \in Issued : live[login[u]] \in {0, u} => live'[login'[u]] \in {0, u},
           stored'.token \in {0, stored.token},
           change' = change \/ change'.pc # "accepting",
           used' \cup late' \subseteq used \cup late \cup {flight[s].expected : s \in Starter},
           \A r \in Starter : /\ flight'[r].expected \in {0, stored.token} \cup {flight[s].expected : s \in Starter}
                              /\ flight'[r].pc = "answered" => flight'[r] = flight[r] \/ flight'[r].answer = 0
    PROVE  ComingSound'
<1>1. 0 \notin Issued
  BY IssuedAre DEF SessionSound
<1>2. ASSUME NEW u, Coming(u)' PROVE Unplaced(u)'
  <2>1. Coming(u)
    BY <1>2 DEF Coming
  <2>2. Unplaced(u)
    BY <2>1 DEF SessionSound, ComingSound
  <2>3. u \in Issued' /\ u # stored'.token /\ live'[login'[u]] \in {0, u}
    BY <1>1, <2>2 DEF Unplaced
  <2>4. u \notin used' \cup late'
    BY <2>2 DEF Unplaced
  <2>5. ASSUME NEW r \in Starter PROVE flight'[r].expected # u
    BY <1>1, <2>2, <2>5 DEF Unplaced
  <2> QED BY <2>3, <2>4, <2>5 DEF Unplaced
<1>3. ASSUME change'.pc = "accepting", NEW r \in Starter, flight'[r].pc = "answered"
      PROVE  flight'[r].answer # change'.token
  <2>1. change' = change /\ change.token # 0
    BY <1>1, <1>3 DEF SessionSound, ComingSound, Coming, Unplaced
  <2> QED BY <1>3, <2>1 DEF SessionSound, ComingSound
<1> QED BY <1>2, <1>3 DEF ComingSound

(* An answer is on its way until it is lost or the session has ended. *)
LEMMA StoredRests ==
    ASSUME SessionSound, Issued \subseteq Issued',
           \A u \in Issued : live[login[u]] \in {0, u} => live'[login'[u]] \in {0, u},
           stored'.token \in {0, stored.token}, stored' \in [token : Issued \cup {0}, sync : BOOLEAN \cup {Nil}],
           stored'.token \notin used' \ used, orphaned \subseteq orphaned', used \subseteq Issued,
           \A r \in Starter : flight[r].pc = "answered" /\ flight[r].answer # 0 =>
              \/ flight'[r] = flight[r]
              \/ flight[r].expected \in orphaned'
              \/ stored'.token # flight[r].expected
    PROVE  StoredSound'
<1>1. stored' \in [token : Issued' \cup {0}, sync : BOOLEAN \cup {Nil}]
  OBVIOUS
<1>2. stored'.token \notin used'
  BY IssuedAre DEF SessionSound, StoredSound
<1>3. ASSUME NEW t, t = stored'.token, t # 0 PROVE Holds(t)'
  <2>1. Holds(t) /\ t \in Issued
    BY <1>3 DEF SessionSound, StoredSound
  <2>2. CASE t \in orphaned
    BY <2>2 DEF Holds
  <2>3. CASE live[login[t]] \in {0, t}
    BY <2>1, <2>3 DEF Holds
  <2>4. CASE \E r \in Starter : flight[r].pc = "answered" /\ flight[r].answer # 0 /\ flight[r].expected = t
    BY <1>3, <2>4 DEF Holds
  <2> QED BY <1>3, <2>1, <2>2, <2>3, <2>4 DEF Holds
<1>4. ASSUME NEW t, t = stored'.token PROVE Holds(t)'
  <2>1. CASE t = 0
    BY <2>1 DEF Holds
  <2> QED BY <1>3, <1>4, <2>1
<1> QED BY <1>1, <1>2, <1>4 DEF StoredSound

(* A step that leaves the refreshes alone. *)
LEMMA QuietStep ==
    ASSUME SessionSound, LiveFalls, UNCHANGED <<late, flight, refreshing, used, orphaned>>,
           refused \subseteq refused', timer' \in {"off", "renewal", "retry"},
           stored'.token \in {0, stored.token}, stored' \in [token : Issued \cup {0}, sync : BOOLEAN \cup {Nil}],
           \/ change' = change
           \/ change' \in ChangeType(Issued) /\ change'.pc # "accepting",
           CallsSound'
    PROVE  SessionSound'
<1>1. TokensSound' /\ Issued' = Issued
      /\ \A u \in Issued : live[login[u]] \in {0, u} => live'[login'[u]] \in {0, u}
  BY FallsSound DEF SessionSound
<1>2. DeviceSound'
  BY <1>1 DEF SessionSound, DeviceSound
<1>3. FlightsSound'
  BY <1>1, FlightsRest DEF SessionSound
<1>4. ComingSound'
  BY <1>1, ComingRests
<1>5. StoredSound'
  BY <1>1, StoredRests DEF SessionSound, DeviceSound
<1> QED BY <1>1, <1>2, <1>3, <1>4, <1>5 DEF SessionSound

-----------------------------------------------------------------------------
(* Steps that leave the refreshes alone                                    *)

LEMMA WaitingSteps ==
    ASSUME SessionSound,
           Disable \/ ComesDue \/ BackoffOver \/ LoginSchedules \/ LogoutStarts \/ LogoutReads
           \/ LogoutAnswered \/ LogoutClears \/ LogoutHalts \/ SwitchSync \/ UNCHANGED vars
    PROVE  SessionSound'
<1>1. TokensSound /\ stored \in [token : Issued \cup {0}, sync : BOOLEAN \cup {Nil}]
      /\ timer \in {"off", "renewal", "retry"} /\ change \in ChangeType(Issued)
  BY DEF SessionSound, StoredSound, DeviceSound
<1>2. /\ NoChange \in ChangeType(Issued) /\ NoChange.pc # "accepting"
      /\ [NoChange EXCEPT !.pc = "closing"] \in ChangeType(Issued)
      /\ [NoChange EXCEPT !.pc = "closing"].pc # "accepting"
  BY DEF NoChange, ChangeType
<1>3. ASSUME CallsSound', LiveFalls, UNCHANGED <<late, flight, refreshing, used, orphaned, refused>>,
             timer' \in {"off", "renewal", "retry"}, stored'.token \in {0, stored.token},
             stored' \in [token : Issued \cup {0}, sync : BOOLEAN \cup {Nil}],
             change' = change \/ (change' \in ChangeType(Issued) /\ change'.pc # "accepting")
      PROVE  SessionSound'
  BY <1>3, QuietStep
<1>4. ASSUME UNCHANGED <<login, caller, refused>> PROVE CallsSound'
  BY <1>4, CallsRest DEF SessionSound, Issued
<1>5. ASSUME Disable \/ ComesDue \/ BackoffOver \/ UNCHANGED vars
      PROVE  SessionSound'
  <2>1. UNCHANGED <<stored, login, live, late, flight, refreshing, used, orphaned, refused, timer, change, caller>>
    BY <1>5 DEF Disable, ComesDue, BackoffOver, vars, server, history
  <2> QED BY <1>1, <1>3, <1>4, <2>1, ServerRests
<1>6. ASSUME LoginSchedules \/ LogoutReads \/ LogoutHalts PROVE SessionSound'
  <2>1. UNCHANGED <<stored, login, live, late, flight, refreshing, used, orphaned, refused, caller>>
        /\ timer' \in {"off", "renewal", "retry"}
    BY <1>1, <1>6 DEF LoginSchedules, LogoutReads, LogoutHalts, server, history
  <2>2. change' \in ChangeType(Issued) /\ change'.pc # "accepting"
    BY <1>1, <1>2, <1>6 DEF LoginSchedules, LogoutReads, LogoutHalts, ChangeType
  <2> QED BY <1>1, <1>3, <1>4, <2>1, <2>2, ServerRests
<1>7. ASSUME LogoutStarts PROVE SessionSound'
  <2>1. UNCHANGED <<stored, login, live, late, flight, refreshing, used, orphaned, refused, caller>>
        /\ timer' \in {"off", "renewal", "retry"}
    BY <1>7 DEF LogoutStarts, server, history
  <2>2. change' \in ChangeType(Issued) /\ change'.pc # "accepting"
    BY <1>1, <1>7 DEF LogoutStarts, ChangeType
  <2> QED BY <1>1, <1>3, <1>4, <2>1, <2>2, ServerRests
<1>8. ASSUME LogoutAnswered PROVE SessionSound'
  <2>1. UNCHANGED <<stored, login, late, flight, refreshing, used, orphaned, refused, caller, timer>>
    BY <1>8 DEF LogoutAnswered, history
  <2>2. change' \in ChangeType(Issued) /\ change'.pc # "accepting"
    BY <1>1, <1>8 DEF LogoutAnswered, ChangeType
  <2>3. LiveFalls
    BY <1>1, <1>8 DEF LogoutAnswered, LiveFalls, TokensSound
  <2> QED BY <1>1, <1>3, <1>4, <2>1, <2>2, <2>3
<1>9. ASSUME LogoutClears PROVE SessionSound'
  <2>1. UNCHANGED <<login, live, late, flight, refreshing, used, orphaned, refused, caller, timer>>
    BY <1>9 DEF LogoutClears, server, history
  <2>2. stored'.token \in {0, stored.token} /\ stored' \in [token : Issued \cup {0}, sync : BOOLEAN \cup {Nil}]
    BY <1>1, <1>9 DEF LogoutClears, Clear
  <2> QED BY <1>1, <1>2, <1>3, <1>4, <1>9, <2>1, <2>2, ServerRests DEF LogoutClears
<1>10. ASSUME SwitchSync PROVE SessionSound'
  <2>1. UNCHANGED <<login, live, late, flight, refreshing, used, orphaned, refused, caller, timer, change>>
    BY <1>10 DEF SwitchSync, server, history
  <2>2. stored'.token \in {0, stored.token} /\ stored' \in [token : Issued \cup {0}, sync : BOOLEAN \cup {Nil}]
    BY <1>1, <1>10 DEF SwitchSync
  <2> QED BY <1>1, <1>3, <1>4, <2>1, <2>2, ServerRests
<1> QED BY <1>5, <1>6, <1>7, <1>8, <1>9, <1>10

(* A call moves, the session perhaps ends. *)
LEMMA CallStep ==
    ASSUME SessionSound, NEW c \in Caller, CallsSound', refused \subseteq refused',
           UNCHANGED <<login, late, flight, refreshing, used, orphaned, timer, change>>,
           live' = live \/ live' = [l \in Login |-> 0],
           stored'.token \in {0, stored.token}, stored' \in [token : Issued \cup {0}, sync : BOOLEAN \cup {Nil}]
    PROVE  SessionSound'
<1>1. LiveFalls
  BY DEF LiveFalls, SessionSound, TokensSound
<1> QED BY <1>1, QuietStep DEF SessionSound, DeviceSound

LEMMA CallSteps ==
    ASSUME SessionSound, NEW c \in Caller,
           CallStarts(c) \/ CallReads(c) \/ CallLost(c) \/ CallSucceeds(c) \/ CallRefused(c) \/ ServerAnswers(c)
    PROVE  SessionSound'
<1>1. stored \in [token : Issued \cup {0}, sync : BOOLEAN \cup {Nil}] /\ CallsSound
  BY DEF SessionSound, StoredSound
<1>2. caller[c] \in CallType(Issued) /\ CallSound(caller[c], Issued, refused)
      /\ caller \in [Caller -> CallType(Issued)]
  BY <1>1 DEF CallsSound
<1>3. ASSUME Issued' = Issued, refused \subseteq refused', caller' = [caller EXCEPT ![c] = caller'[c]],
             CallSound(caller'[c], Issued', refused')
      PROVE  CallsSound'
  BY <1>1, <1>3, CallMoves
<1>4. ASSUME Issued' = Issued, refused' = refused, Done(c) PROVE CallsSound'
  BY <1>1, <1>4, CallDone
<1>5. ASSUME Issued' = Issued, refused' = refused, stored.token # 0, Proceeds(c) PROVE CallsSound'
  <2>1. /\ caller' = [caller EXCEPT ![c] = caller'[c]]
        /\ \/ caller'[c] = [caller[c] EXCEPT !.token = stored.token, !.pc = "renewing"]
           \/ caller'[c] = [caller[c] EXCEPT !.token = stored.token, !.pc = "sent"]
    BY <1>2, <1>5 DEF Proceeds
  <2>2. stored.token \in Issued /\ caller'[c].token = stored.token
        /\ caller'[c].pc # "answered" /\ caller'[c] \in CallType(Issued)
    BY <1>1, <1>2, <1>5, <2>1 DEF CallType
  <2>3. CallSound(caller'[c], Issued', refused')
    BY <1>5, <2>2 DEF CallSound, Final
  <2> QED BY <1>3, <1>5, <2>1, <2>3
<1>6. CASE CallStarts(c)
  <2>1. UNCHANGED <<stored, login, live, late, flight, refreshing, used, orphaned, refused, timer, change>>
        /\ Issued' = Issued
    BY <1>6 DEF CallStarts, server, history, Issued
  <2>2. CASE caller' = [caller EXCEPT ![c].pc = "reading", ![c].changes = TRUE, ![c].sync = stored.sync]
    <3>1. /\ caller' = [caller EXCEPT ![c] = caller'[c]]
          /\ caller'[c] = [caller[c] EXCEPT !.pc = "reading", !.changes = TRUE, !.sync = stored.sync]
      BY <1>2, <2>2
    <3>2. CallSound(caller'[c], Issued', refused')
      BY <1>1, <1>2, <2>1, <3>1 DEF CallSound, CallType, Final
    <3>3. CallsSound'
      BY <1>3, <2>1, <3>1, <3>2
    <3> QED BY <1>1, <2>1, <3>3, CallStep
  <2>3. CASE Done(c) \/ (stored.token # 0 /\ Proceeds(c))
    <3>1. CallsSound'
      BY <1>4, <1>5, <2>1, <2>3
    <3> QED BY <1>1, <2>1, <3>1, CallStep
  <2>4. \/ Done(c)
        \/ stored.token # 0 /\ Proceeds(c)
        \/ caller' = [caller EXCEPT ![c].pc = "reading", ![c].changes = TRUE, ![c].sync = stored.sync]
    BY <1>6 DEF CallStarts
  <2> QED BY <2>2, <2>3, <2>4
<1>7. CASE CallReads(c)
  <2>1. UNCHANGED <<stored, login, live, late, flight, refreshing, used, orphaned, refused, timer, change>>
        /\ Issued' = Issued
    BY <1>7 DEF CallReads, server, history, Issued
  <2>2. CallsSound'
    BY <1>4, <1>5, <1>7, <2>1 DEF CallReads
  <2> QED BY <1>1, <2>1, <2>2, CallStep
<1>8. CASE CallLost(c)
  <2>1. UNCHANGED <<stored, login, live, late, flight, refreshing, used, orphaned, refused, timer, change>>
        /\ Issued' = Issued
    BY <1>8 DEF CallLost, server, history, Issued
  <2>2. CallsSound'
    BY <1>4, <1>8, <2>1 DEF CallLost
  <2> QED BY <1>1, <2>1, <2>2, CallStep
<1>9. CASE CallSucceeds(c)
  <2>1. UNCHANGED <<login, live, late, flight, refreshing, used, orphaned, refused, timer, change>>
        /\ Issued' = Issued
    BY <1>9 DEF CallSucceeds, server, history, Issued
  <2>2. CallsSound'
    BY <1>4, <1>9, <2>1 DEF CallSucceeds
  <2>3. stored'.token \in {0, stored.token} /\ stored' \in [token : Issued \cup {0}, sync : BOOLEAN \cup {Nil}]
    BY <1>1, <1>2, <1>9 DEF CallSucceeds, CallType
  <2> QED BY <2>1, <2>2, <2>3, CallStep
<1>10. CASE CallRefused(c)
  <2>1. UNCHANGED <<login, live, late, flight, refreshing, used, orphaned, refused, timer, change>>
        /\ Issued' = Issued
    BY <1>10 DEF CallRefused, server, history, Issued
  <2>2. stored'.token \in {0, stored.token} /\ stored' \in [token : Issued \cup {0}, sync : BOOLEAN \cup {Nil}]
    BY <1>1, <1>10 DEF CallRefused, Clear
  <2>3. CASE caller' = [caller EXCEPT ![c].pc = "renewing", ![c].retried = TRUE]
    <3>1. /\ caller' = [caller EXCEPT ![c] = caller'[c]]
          /\ caller'[c] = [caller[c] EXCEPT !.pc = "renewing", !.retried = TRUE]
      BY <1>2, <2>3
    <3>2. CallSound(caller'[c], Issued', refused')
      BY <1>2, <2>1, <3>1 DEF CallSound, CallType, Final
    <3>3. CallsSound'
      BY <1>3, <2>1, <3>1, <3>2
    <3> QED BY <2>1, <2>2, <3>3, CallStep
  <2>4. CASE Done(c)
    <3>1. CallsSound'
      BY <1>4, <2>1, <2>4
    <3> QED BY <2>1, <2>2, <3>1, CallStep
  <2> QED BY <1>10, <2>3, <2>4 DEF CallRefused
<1>11. CASE ServerAnswers(c)
  <2>1. UNCHANGED <<stored, login, late, flight, refreshing, used, orphaned, timer, change>>
        /\ Issued' = Issued /\ (live' = live \/ live' = [l \in Login |-> 0])
    BY <1>11 DEF ServerAnswers, Issued
  <2>2. PICK verdict \in {"ok", "refused", "disabled"} :
           /\ caller' = [caller EXCEPT ![c].pc = "answered", ![c].answer = verdict]
           /\ refused' = IF verdict = "disabled" \/ (verdict = "refused" /\ caller[c].retried)
                         THEN refused \cup {caller[c].token} ELSE refused
    BY <1>11 DEF ServerAnswers
  <2>3. /\ caller' = [caller EXCEPT ![c] = caller'[c]]
        /\ caller'[c] = [caller[c] EXCEPT !.pc = "answered", !.answer = verdict]
    BY <1>2, <2>2
  <2>4. caller[c].pc = "sent"
    BY <1>11 DEF ServerAnswers
  <2>5. CallSound(caller'[c], Issued', refused') /\ refused \subseteq refused'
    BY <1>2, <2>1, <2>2, <2>3, <2>4 DEF CallSound, CallType, Final
  <2>6. CallsSound'
    BY <1>3, <2>1, <2>3, <2>5
  <2> QED BY <1>1, <2>1, <2>5, <2>6, CallStep
<1> QED BY <1>6, <1>7, <1>8, <1>9, <1>10, <1>11

-----------------------------------------------------------------------------
(* Steps of the shared refresh                                             *)

(* A step in which no answer arrives and no token is put on disk. *)
LEMMA FlightStep ==
    ASSUME SessionSound, UNCHANGED <<login, live, refused>>,
           timer' \in {"off", "renewal", "retry"}, CallsSound', FlightsSound',
           \/ change' = change
           \/ change' \in ChangeType(Issued) /\ change'.pc # "accepting",
           late' \cup used' \subseteq Issued,
           used' \cup late' \subseteq used \cup late \cup {flight[s].expected : s \in Starter},
           stored'.token \in {0, stored.token}, stored' \in [token : Issued \cup {0}, sync : BOOLEAN \cup {Nil}],
           stored'.token \notin used' \ used, orphaned \subseteq orphaned',
           \A r \in Starter :
              /\ flight'[r].expected \in {0, stored.token} \cup {flight[s].expected : s \in Starter}
              /\ flight'[r].pc = "answered" => flight'[r] = flight[r]
              /\ flight[r].pc = "answered" /\ flight[r].answer # 0 =>
                    \/ flight'[r] = flight[r]
                    \/ flight[r].expected \in orphaned'
                    \/ stored'.token # flight[r].expected
    PROVE  SessionSound'
<1>1. TokensSound' /\ Issued' = Issued
      /\ \A u \in Issued : live[login[u]] \in {0, u} => live'[login'[u]] \in {0, u}
  BY ServerRests, FallsSound DEF SessionSound
<1>2. DeviceSound'
  BY <1>1 DEF SessionSound, DeviceSound
<1>3. ComingSound'
  BY <1>1, ComingRests
<1>4. StoredSound'
  BY <1>1, StoredRests DEF SessionSound, DeviceSound
<1> QED BY <1>1, <1>2, <1>3, <1>4 DEF SessionSound

LEMMA EndsFlight ==
    ASSUME SessionSound, NEW r \in Starter, flight[r].pc # "none", NEW token \in Issued \cup {0},
           EndFlight(r, token), UNCHANGED <<login, refused>>
    PROVE  /\ FlightsSound' /\ CallsSound'
           /\ flight'[r] = NoFlight /\ \A s \in Starter \ {r} : flight'[s] = flight[s] /\ flight[s].pc = "none"
<1>1. Issued' = Issued /\ refreshing = r /\ flight \in [Starter -> FlightType(Issued)]
      /\ \A s \in Starter \ {r} : flight[s].pc = "none" /\ flight[s] \in FlightType(Issued)
  BY DEF SessionSound, FlightsSound, Issued
<1>2. /\ flight'[r] = NoFlight /\ \A s \in Starter \ {r} : flight'[s] = flight[s] /\ flight[s].pc = "none"
      /\ refreshing' = Nil
  BY <1>1 DEF EndFlight
<1>3. ASSUME NEW s \in Starter
      PROVE  /\ flight'[s] \in FlightType(Issued') /\ FlightSound(flight'[s], Issued', used', refused')
             /\ flight'[s].pc = "none" /\ s # Nil
  BY <1>1, <1>2, AssumeNames DEF FlightSound, FlightType, NoFlight
<1>4. flight' \in [Starter -> FlightType(Issued')]
  BY <1>1, <1>3 DEF EndFlight
<1>5. FlightsSound'
  BY <1>2, <1>3, <1>4 DEF FlightsSound
<1>6. ASSUME NEW c \in Caller PROVE CallSound(caller'[c], Issued', refused')
  <2>1. CallSound(caller[c], Issued, refused) /\ caller[c] \in CallType(Issued)
    BY DEF SessionSound, CallsSound
  <2>2. CASE caller'[c] = caller[c]
    BY <1>1, <2>1, <2>2
  <2>3. CASE caller'[c] = [Fresh EXCEPT !.pc = "done"]
    BY <2>3 DEF CallSound, CallType, Fresh, Final
  <2>4. CASE caller'[c] = [caller[c] EXCEPT !.pc = "sent", !.token = token] /\ token # 0
    <3>1. caller'[c] \in CallType(Issued) /\ caller'[c].pc = "sent" /\ caller'[c].token = token
      BY <2>1, <2>4 DEF CallType
    <3> QED BY <1>1, <2>4, <3>1 DEF CallSound, Final
  <2> QED BY <2>2, <2>3, <2>4 DEF EndFlight
<1>7. caller' \in [Caller -> CallType(Issued')]
  BY <1>6 DEF EndFlight, CallSound
<1>8. CallsSound'
  BY <1>6, <1>7 DEF CallsSound
<1> QED BY <1>2, <1>5, <1>8

LEMMA JoinSound ==
    ASSUME SessionSound, NEW r \in Starter, Join(r), UNCHANGED <<login, used, refused>>
    PROVE  /\ FlightsSound'
           /\ \A s \in Starter :
                 \/ flight'[s] = flight[s]
                 \/ flight[s].pc = "none" /\ flight'[s] = [NoFlight EXCEPT !.pc = "reading"]
<1>1. Issued' = Issued /\ FlightsSound
  BY DEF SessionSound, Issued
<1>2. CASE refreshing # Nil
  BY <1>1, <1>2, FlightsRest DEF Join
<1>3. CASE refreshing = Nil
  <2>1. \A s \in Starter : flight[s].pc = "none" /\ flight[s] \in FlightType(Issued)
    BY <1>1, <1>3, AssumeNames DEF FlightsSound
  <2>2. flight'[r] = [NoFlight EXCEPT !.pc = "reading"] /\ refreshing' = r
        /\ \A s \in Starter \ {r} : flight'[s] = flight[s]
    BY <1>1, <1>3 DEF Join, FlightsSound
  <2>3. ASSUME NEW s \in Starter
        PROVE  /\ flight'[s] \in FlightType(Issued') /\ FlightSound(flight'[s], Issued', used', refused')
               /\ flight'[s].pc # "none" <=> s = r
    BY <1>1, <2>1, <2>2 DEF FlightSound, FlightType, NoFlight
  <2>4. flight' \in [Starter -> FlightType(Issued')]
    BY <1>1, <1>3, <2>3 DEF Join, FlightsSound
  <2>5. FlightsSound'
    BY <2>2, <2>3, <2>4 DEF FlightsSound
  <2> QED BY <2>1, <2>2, <2>5
<1> QED BY <1>2, <1>3

(* What may be assumed of a refresh and of the session. *)
LEMMA FlightFacts ==
    ASSUME SessionSound, NEW r \in Starter
    PROVE  /\ flight[r] \in FlightType(Issued) /\ FlightSound(flight[r], Issued, used, refused)
           /\ flight \in [Starter -> FlightType(Issued)]
           /\ stored \in [token : Issued \cup {0}, sync : BOOLEAN \cup {Nil}]
           /\ timer \in {"off", "renewal", "retry"} /\ change \in ChangeType(Issued)
           /\ late \subseteq Issued /\ used \subseteq Issued /\ 0 \notin Issued
           /\ stored.token \notin used /\ CallsSound /\ FlightsSound
BY IssuedAre DEF SessionSound, FlightsSound, StoredSound, DeviceSound

(* The refresh has ended: it was lost, refused, or saved nothing. *)
LEMMA FlightEnds ==
    ASSUME SessionSound, NEW r \in Starter, flight[r].pc # "none", NEW token \in Issued \cup {0},
           EndFlight(r, token), UNCHANGED <<login, live, refused, change>>,
           timer' \in {"off", "renewal", "retry"},
           late' \cup used' \subseteq late \cup used \cup ({flight[r].expected} \ {0}),
           stored'.token \in {0, stored.token}, stored' \in [token : Issued \cup {0}, sync : BOOLEAN \cup {Nil}],
           stored'.token \notin used' \ used, orphaned \subseteq orphaned',
           flight[r].pc = "answered" /\ flight[r].answer # 0 =>
              flight[r].expected \in orphaned' \/ stored'.token # flight[r].expected
    PROVE  SessionSound'
<1>1. /\ FlightsSound' /\ CallsSound'
      /\ flight'[r] = NoFlight /\ \A s \in Starter \ {r} : flight'[s] = flight[s] /\ flight[s].pc = "none"
  BY EndsFlight
<1>2. flight[r].expected \in Issued \cup {0} /\ late \subseteq Issued /\ used \subseteq Issued
  BY FlightFacts DEF FlightType
<1>3. \A s \in Starter :
         /\ flight'[s].expected \in {0, stored.token} \cup {flight[q].expected : q \in Starter}
         /\ flight'[s].pc = "answered" => flight'[s] = flight[s]
         /\ flight[s].pc = "answered" /\ flight[s].answer # 0 =>
               \/ flight'[s] = flight[s]
               \/ flight[s].expected \in orphaned'
               \/ stored'.token # flight[s].expected
  BY <1>1 DEF NoFlight
<1>4. late' \cup used' \subseteq Issued
      /\ used' \cup late' \subseteq used \cup late \cup {flight[s].expected : s \in Starter}
  BY <1>2
<1> QED BY <1>1, <1>3, <1>4, FlightStep

LEMMA FlightReadsKeeps ==
    ASSUME SessionSound, NEW r \in Starter, FlightReads(r)
    PROVE  SessionSound'
<1>1. UNCHANGED <<stored, login, live, late, timer, change, used, orphaned, refused>>
      /\ flight[r].pc = "reading"
  BY DEF FlightReads, server, history
<1>2. CASE EndFlight(r, 0)
  BY <1>1, <1>2, FlightFacts, FlightEnds
<1>3. CASE /\ stored.token # 0 /\ UNCHANGED <<refreshing, caller>>
           /\ flight' = [flight EXCEPT ![r].pc = "sent", ![r].expected = stored.token]
  <2>1. /\ flight' = [flight EXCEPT ![r] = flight'[r]]
        /\ flight'[r] = [flight[r] EXCEPT !.pc = "sent", !.expected = stored.token]
        /\ Issued' = Issued
    BY <1>1, <1>3, FlightFacts DEF Issued
  <2>2. flight'[r] \in FlightType(Issued) /\ flight'[r].pc = "sent" /\ flight'[r].expected = stored.token
    BY <1>1, <2>1, FlightFacts DEF FlightType
  <2>3. FlightSound(flight'[r], Issued', used', refused')
    BY <1>1, <1>3, <2>1, <2>2, FlightFacts DEF FlightSound
  <2>4. FlightsSound' /\ CallsSound'
    BY <1>1, <1>3, <2>1, <2>2, <2>3, FlightFacts, FlightMoves, CallsRest
  <2>5. \A s \in Starter :
           /\ flight'[s].expected \in {0, stored.token} \cup {flight[q].expected : q \in Starter}
           /\ flight'[s].pc = "answered" => flight'[s] = flight[s]
           /\ flight[s].pc = "answered" => flight'[s] = flight[s]
    BY <1>1, <2>1, <2>2, FlightFacts
  <2> QED BY <1>1, <2>4, <2>5, FlightFacts, FlightStep
<1> QED BY <1>2, <1>3 DEF FlightReads

LEMMA FlightLostKeeps ==
    ASSUME SessionSound, NEW r \in Starter, FlightLost(r)
    PROVE  SessionSound'
<1>1. UNCHANGED <<stored, login, live, timer, change, used, refused>>
      /\ flight[r].pc \in {"sent", "answered"}
  BY DEF FlightLost, server
<1>2. flight[r].expected \in Issued
  BY <1>1, FlightFacts DEF FlightSound, FlightType
<1>3. /\ late' \subseteq late \cup {flight[r].expected} /\ orphaned \subseteq orphaned'
      /\ flight[r].pc = "answered" => flight[r].expected \in orphaned'
  BY <1>1 DEF FlightLost
<1>4. CASE EndFlight(r, 0)
  <2>1. late' \cup used' \subseteq late \cup used \cup ({flight[r].expected} \ {0})
    BY <1>1, <1>2, <1>3, FlightFacts
  <2> QED BY <1>1, <1>3, <1>4, <2>1, FlightFacts, FlightEnds
<1>5. CASE /\ flight' = [flight EXCEPT ![r].pc = "retrying", ![r].answer = 0]
           /\ UNCHANGED <<refreshing, caller>>
  <2>1. /\ flight' = [flight EXCEPT ![r] = flight'[r]]
        /\ flight'[r] = [flight[r] EXCEPT !.pc = "retrying", !.answer = 0]
        /\ Issued' = Issued
    BY <1>1, <1>5, FlightFacts DEF Issued
  <2>2. flight'[r] \in FlightType(Issued) /\ flight'[r].pc = "retrying"
        /\ flight'[r].expected = flight[r].expected
    BY <1>1, <2>1, FlightFacts DEF FlightType
  <2>3. FlightSound(flight'[r], Issued', used', refused')
    BY <1>2, <2>1, <2>2, FlightFacts DEF FlightSound
  <2>4. FlightsSound' /\ CallsSound'
    BY <1>1, <1>5, <2>1, <2>2, <2>3, FlightFacts, FlightMoves, CallsRest
  <2>5. ASSUME NEW s \in Starter
        PROVE  /\ flight'[s].expected \in {0, stored.token} \cup {flight[q].expected : q \in Starter}
               /\ flight'[s].pc = "answered" => flight'[s] = flight[s]
               /\ flight[s].pc = "answered" => flight'[s] = flight[s] \/ flight[s].expected \in orphaned'
    <3>1. CASE s = r
      BY <1>3, <2>2, <3>1
    <3>2. CASE s # r
      BY <2>1, <3>2, FlightFacts
    <3> QED BY <3>1, <3>2
  <2>6. late' \cup used' \subseteq Issued
        /\ used' \cup late' \subseteq used \cup late \cup {flight[s].expected : s \in Starter}
    BY <1>1, <1>2, <1>3, FlightFacts
  <2> QED BY <1>1, <1>3, <2>4, <2>5, <2>6, FlightFacts, FlightStep
<1> QED BY <1>4, <1>5 DEF FlightLost

LEMMA FlightRefusedKeeps ==
    ASSUME SessionSound, NEW r \in Starter, FlightRefused(r)
    PROVE  SessionSound'
<1>1. UNCHANGED <<login, live, late, timer, change, orphaned, refused>> /\ EndFlight(r, 0)
      /\ flight[r].pc = "answered" /\ flight[r].answer = 0 /\ used' = used \cup {flight[r].expected}
  BY DEF FlightRefused, server
<1>2. flight[r].expected \in Issued
  BY <1>1, FlightFacts DEF FlightSound, FlightType
<1>3. stored'.token \in {0, stored.token} /\ stored' \in [token : Issued \cup {0}, sync : BOOLEAN \cup {Nil}]
      /\ stored'.token # flight[r].expected
  BY <1>2, FlightFacts DEF FlightRefused, Clear
<1>4. late' \cup used' \subseteq late \cup used \cup ({flight[r].expected} \ {0})
      /\ stored'.token \notin used' \ used
  BY <1>1, <1>2, <1>3, FlightFacts
<1> QED BY <1>1, <1>3, <1>4, FlightFacts, FlightEnds

LEMMA FlightRetriesKeeps ==
    ASSUME SessionSound, NEW r \in Starter, FlightRetries(r)
    PROVE  SessionSound'
<1>1. UNCHANGED <<stored, login, live, late, timer, change, used, orphaned, refused>>
      /\ flight[r].pc = "retrying"
  BY DEF FlightRetries, server, history
<1>2. CASE EndFlight(r, 0)
  BY <1>1, <1>2, FlightFacts, FlightEnds
<1>3. CASE flight' = [flight EXCEPT ![r].pc = "scheduling"] /\ UNCHANGED <<refreshing, caller>>
  <2>1. /\ flight' = [flight EXCEPT ![r] = flight'[r]]
        /\ flight'[r] = [flight[r] EXCEPT !.pc = "scheduling"]
        /\ Issued' = Issued
    BY <1>1, <1>3, FlightFacts DEF Issued
  <2>2. flight'[r] \in FlightType(Issued) /\ flight'[r].pc = "scheduling"
        /\ flight'[r].expected = flight[r].expected
    BY <1>1, <2>1, FlightFacts DEF FlightType
  <2>3. FlightSound(flight'[r], Issued', used', refused')
    BY <2>1, <2>2 DEF FlightSound
  <2>4. FlightsSound' /\ CallsSound'
    BY <1>1, <1>3, <2>1, <2>2, <2>3, FlightFacts, FlightMoves, CallsRest
  <2>5. \A s \in Starter :
           /\ flight'[s].expected \in {0, stored.token} \cup {flight[q].expected : q \in Starter}
           /\ flight'[s].pc = "answered" => flight'[s] = flight[s]
           /\ flight[s].pc = "answered" => flight'[s] = flight[s]
    BY <1>1, <2>1, <2>2, FlightFacts
  <2> QED BY <1>1, <2>4, <2>5, FlightFacts, FlightStep
<1> QED BY <1>2, <1>3 DEF FlightRetries

LEMMA FlightSchedulesKeeps ==
    ASSUME SessionSound, NEW r \in Starter, FlightSchedules(r)
    PROVE  SessionSound'
<1>1. UNCHANGED <<stored, login, live, late, change, used, orphaned, refused>>
      /\ flight[r].pc = "scheduling" /\ EndFlight(r, flight[r].answer)
      /\ timer' \in {"off", "renewal", "retry"}
  BY DEF FlightSchedules, server, history
<1>2. flight[r].answer \in Issued \cup {0}
  BY FlightFacts DEF FlightType
<1> QED BY <1>1, <1>2, FlightFacts, FlightEnds

(* A refresh is joined or begun. *)
LEMMA JoinStep ==
    ASSUME SessionSound, NEW r \in Starter, Join(r), timer' \in {"off", "renewal", "retry"}, CallsSound',
           UNCHANGED <<stored, login, live, late, change, used, orphaned, refused>>
    PROVE  SessionSound'
<1>1. FlightsSound'
      /\ \A s \in Starter :
            \/ flight'[s] = flight[s]
            \/ flight[s].pc = "none" /\ flight'[s] = [NoFlight EXCEPT !.pc = "reading"]
  BY JoinSound
<1>2. [NoFlight EXCEPT !.pc = "reading"].expected = 0 /\ [NoFlight EXCEPT !.pc = "reading"].pc = "reading"
  BY DEF NoFlight
<1>3. \A s \in Starter :
         /\ flight'[s].expected \in {0, stored.token} \cup {flight[q].expected : q \in Starter}
         /\ flight'[s].pc = "answered" => flight'[s] = flight[s]
         /\ flight[s].pc = "answered" => flight'[s] = flight[s]
  BY <1>1, <1>2
<1> QED BY <1>1, <1>3, FlightFacts, FlightStep

LEMMA TimerFiresKeeps ==
    ASSUME SessionSound, TimerFires
    PROVE  SessionSound'
<1>1. UNCHANGED <<stored, login, live, late, change, used, orphaned, refused, caller>>
      /\ timer' = "off"
  BY DEF TimerFires, server, history
<1>2. CallsSound' /\ Timer \in Starter
  BY <1>1, CallsRest, AssumeNames DEF SessionSound, Issued
<1>3. CASE Join(Timer)
  BY <1>1, <1>2, <1>3, JoinStep
<1>4. CASE UNCHANGED <<refreshing, flight>>
  <2>1. LiveFalls /\ stored.token \in {0, stored.token} /\ stored \in [token : Issued \cup {0}, sync : BOOLEAN \cup {Nil}]
    BY <1>1, ServerRests DEF SessionSound, StoredSound
  <2> QED BY <1>1, <1>2, <1>4, <2>1, QuietStep
<1> QED BY <1>3, <1>4 DEF TimerFires

LEMMA CallRenewsKeeps ==
    ASSUME SessionSound, NEW c \in Caller, CallRenews(c)
    PROVE  SessionSound'
<1>1. UNCHANGED <<stored, login, live, late, timer, change, used, orphaned, refused>> /\ Issued' = Issued
      /\ timer \in {"off", "renewal", "retry"} /\ stored \in [token : Issued \cup {0}, sync : BOOLEAN \cup {Nil}]
      /\ caller[c] \in CallType(Issued) /\ caller \in [Caller -> CallType(Issued)] /\ CallsSound
      /\ CallSound(caller[c], Issued, refused) /\ c \in Starter
  BY AssumeNames DEF CallRenews, server, history, Issued, SessionSound, StoredSound, DeviceSound, CallsSound
<1>2. CASE UNCHANGED <<flight, refreshing>> /\ Done(c)
  <2>1. CallsSound'
    BY <1>1, <1>2, CallDone
  <2> QED BY <1>1, <1>2, <2>1, CallStep
<1>3. CASE /\ UNCHANGED <<flight, refreshing>> /\ stored.token # 0
           /\ caller' = [caller EXCEPT ![c].token = stored.token, ![c].pc = "sent"]
  <2>1. /\ caller' = [caller EXCEPT ![c] = caller'[c]]
        /\ caller'[c] = [caller[c] EXCEPT !.token = stored.token, !.pc = "sent"]
    BY <1>1, <1>3
  <2>2. caller'[c] \in CallType(Issued) /\ caller'[c].pc = "sent" /\ caller'[c].token # 0
    BY <1>1, <1>3, <2>1 DEF CallType
  <2>3. CallsSound'
    BY <1>1, <2>1, <2>2, CallMoves DEF CallSound, Final
  <2> QED BY <1>1, <1>3, <2>3, CallStep
<1>4. CASE Join(c) /\ caller' = [caller EXCEPT ![c].pc = "waiting"]
  <2>1. /\ caller' = [caller EXCEPT ![c] = caller'[c]]
        /\ caller'[c] = [caller[c] EXCEPT !.pc = "waiting"]
    BY <1>1, <1>4
  <2>2. caller'[c] \in CallType(Issued) /\ caller'[c].pc = "waiting"
    BY <1>1, <2>1 DEF CallType
  <2>3. CallsSound'
    BY <1>1, <2>1, <2>2, CallMoves DEF CallSound, Final
  <2> QED BY <1>1, <1>4, <2>3, JoinStep
<1> QED BY <1>2, <1>3, <1>4 DEF CallRenews

-----------------------------------------------------------------------------
(* Tokens are issued, and put on disk                                      *)

LEMMA UnplacedStays ==
    ASSUME NEW u, Unplaced(u), Issued \subseteq Issued', u # stored'.token, u \notin used' \cup late',
           live[login[u]] \in {0, u} => live'[login'[u]] \in {0, u},
           \A r \in Starter : flight'[r].expected # u
    PROVE  Unplaced(u)'
BY DEF Unplaced

(* A new token is used nowhere. *)
LEMMA NextUnplaced ==
    ASSUME SessionSound, Issued' = Issued \cup {NextToken}, live'[login'[NextToken]] = NextToken,
           UNCHANGED <<stored, used>>, late' \subseteq late,
           \A r \in Starter : flight'[r].expected = flight[r].expected
    PROVE  \A u : u = NextToken => Unplaced(u)'
<1>1. NextToken \notin Issued /\ NextToken # 0
  BY IssuedAre DEF SessionSound
<1>2. ASSUME NEW u, u = NextToken PROVE Unplaced(u)'
  <2>1. u \notin used \cup late /\ u # stored.token
    BY <1>1, <1>2 DEF SessionSound, StoredSound, DeviceSound
  <2>2. ASSUME NEW r \in Starter PROVE flight'[r].expected # u
    <3>1. flight[r].expected \in Issued \cup {0}
      BY FlightFacts DEF FlightType
    <3> QED BY <1>1, <1>2, <3>1
  <2> QED BY <1>2, <2>1, <2>2 DEF Unplaced
<1> QED BY <1>2

LEMMA FlightSavesKeeps ==
    ASSUME SessionSound, NEW r \in Starter, FlightSaves(r)
    PROVE  SessionSound'
<1>1. UNCHANGED <<login, live, late, timer, change, orphaned, refused>> /\ Issued' = Issued
      /\ flight[r].pc = "answered" /\ flight[r].answer # 0 /\ used' = used \cup {flight[r].expected}
  BY DEF FlightSaves, server, Issued
<1>2. flight[r].expected \in Issued
  BY <1>1, FlightFacts DEF FlightSound, FlightType
<1>3. CASE EndFlight(r, 0) /\ stored.token # flight[r].expected /\ stored' = stored
  <2>1. late' \cup used' \subseteq late \cup used \cup ({flight[r].expected} \ {0})
        /\ stored'.token \notin used' \ used
    BY <1>1, <1>2, <1>3, FlightFacts
  <2> QED BY <1>1, <1>3, <2>1, FlightFacts, FlightEnds
<1>4. CASE /\ stored.token = flight[r].expected /\ stored' = [stored EXCEPT !.token = flight[r].answer]
           /\ flight' = [flight EXCEPT ![r].pc = "scheduling"] /\ UNCHANGED <<refreshing, caller>>
  <2>1. /\ flight' = [flight EXCEPT ![r] = flight'[r]]
        /\ flight'[r] = [flight[r] EXCEPT !.pc = "scheduling"]
    BY <1>4, FlightFacts
  <2>2. flight'[r] \in FlightType(Issued) /\ flight'[r].pc = "scheduling"
        /\ flight'[r].expected = flight[r].expected
    BY <2>1, FlightFacts DEF FlightType
  <2>3. FlightSound(flight'[r], Issued', used', refused')
    BY <1>1, <2>2 DEF FlightSound
  <2>4. FlightsSound' /\ CallsSound'
    BY <1>1, <1>4, <2>1, <2>2, <2>3, FlightFacts, FlightMoves, CallsRest
  <2>5. PICK u : u = flight[r].answer
    OBVIOUS
  <2>6. Coming(u)
    BY <1>1, <2>5 DEF Coming
  <2>7. Unplaced(u) /\ stored'.token = u /\ stored' \in [token : Issued \cup {0}, sync : BOOLEAN \cup {Nil}]
    BY <1>4, <2>5, <2>6, FlightFacts DEF SessionSound, ComingSound, Unplaced
  <2>8. StoredSound'
    <3>1. u \notin used' /\ live'[login'[u]] \in {0, u}
      BY <1>1, <2>7 DEF Unplaced
    <3> QED BY <1>1, <2>7, <3>1 DEF StoredSound, Holds
  <2>9. ASSUME NEW s \in Starter
        PROVE  flight'[s].pc # "answered" /\ flight'[s].expected = flight[s].expected
    BY <1>1, <2>1, <2>2, <2>9, OneFlight, FlightFacts
  <2>10. ASSUME NEW v, Coming(v)' PROVE Unplaced(v)'
    <3>1. change.pc = "accepting" /\ v = change.token /\ Coming(v)
      BY <1>1, <2>9, <2>10 DEF Coming
    <3>2. Unplaced(v) /\ v # u
      BY <1>1, <2>5, <3>1 DEF SessionSound, ComingSound
    <3>3. v \notin used' \cup late' /\ live'[login'[v]] \in {0, v}
      BY <1>1, <3>2 DEF Unplaced
    <3>4. \A s \in Starter : flight'[s].expected # v
      BY <2>9, <3>2 DEF Unplaced
    <3> QED BY <1>1, <2>7, <3>2, <3>3, <3>4, UnplacedStays
  <2>11. ComingSound'
    BY <2>9, <2>10 DEF ComingSound
  <2>12. TokensSound' /\ DeviceSound'
    BY <1>1, <1>2, ServerRests, FallsSound DEF SessionSound, DeviceSound
  <2> QED BY <2>4, <2>8, <2>11, <2>12 DEF SessionSound
<1> QED BY <1>3, <1>4 DEF FlightSaves

LEMMA AcceptLoginKeeps ==
    ASSUME SessionSound, AcceptLogin
    PROVE  SessionSound'
<1>1. UNCHANGED <<login, live, late, flight, refreshing, timer, caller, used, orphaned, refused>>
      /\ Issued' = Issued /\ change.pc = "accepting"
      /\ stored' = [token |-> change.token, sync |-> IF stored.sync = Nil THEN FALSE ELSE stored.sync]
      /\ change' = [change EXCEPT !.pc = "scheduling"]
  BY DEF AcceptLogin, server, history, Issued
<1>2. PICK u : u = change.token
  OBVIOUS
<1>3. Coming(u)
  BY <1>1, <1>2 DEF Coming
<1>4. Unplaced(u)
  BY <1>3 DEF SessionSound, ComingSound
<1>5. stored'.token = u /\ stored' \in [token : Issued \cup {0}, sync : BOOLEAN \cup {Nil}]
  BY <1>1, <1>2, <1>4 DEF SessionSound, StoredSound, Unplaced
<1>6. StoredSound'
  BY <1>1, <1>4, <1>5 DEF StoredSound, Holds, Unplaced
<1>7. change' \in ChangeType(Issued) /\ change'.pc = "scheduling"
  BY <1>1 DEF SessionSound, DeviceSound, ChangeType
<1>8. ASSUME NEW v, Coming(v)' PROVE Unplaced(v)'
  <2>1. Coming(v) /\ v # u
    BY <1>1, <1>2, <1>7, <1>8 DEF Coming, SessionSound, ComingSound
  <2>2. Unplaced(v)
    BY <2>1 DEF SessionSound, ComingSound
  <2> QED BY <1>1, <1>5, <2>1, <2>2 DEF Unplaced
<1>9. ComingSound'
  BY <1>7, <1>8 DEF ComingSound
<1>10. TokensSound' /\ DeviceSound' /\ FlightsSound' /\ CallsSound'
  BY <1>1, <1>7, ServerRests, FallsSound, FlightsRest, CallsRest DEF SessionSound, DeviceSound
<1> QED BY <1>6, <1>9, <1>10 DEF SessionSound

LEMMA LoginAnsweredKeeps ==
    ASSUME SessionSound, LoginAnswered
    PROVE  SessionSound'
<1> DEFINE l == Cardinality({login[t] : t \in Issued})
<1>1. /\ UNCHANGED <<stored, late, flight, refreshing, timer, caller, used, orphaned, refused>>
      /\ l \in Login /\ login' = [t \in Issued \cup {NextToken} |-> IF t = NextToken THEN l ELSE login[t]]
      /\ live' = [live EXCEPT ![l] = NextToken] /\ change' = [pc |-> "accepting", token |-> NextToken]
  BY DEF LoginAnswered, history
<1>2. PICK k \in Nat : {login[t] : t \in Issued} = 0..k
  BY DEF SessionSound, TokensSound
<1>3. Cardinality(0..k) = k + 1
  BY FS_Interval
<1>4. \A m \in Nat : {login[t] : t \in Issued} = 0..m => l = m + 1
  <2>1. ASSUME NEW m \in Nat, 0..m = 0..k PROVE m = k
    <3>1. m \in 0..k /\ k \in 0..m
      BY <2>1
    <3> QED BY <3>1
  <2> QED BY <1>2, <1>3, <2>1
<1>5. l = k + 1
  BY <1>2, <1>4
<1> HIDE DEF l
<1>6. /\ TokensSound' /\ Issued' = Issued \cup {NextToken}
      /\ login'[NextToken] = l /\ \A t \in Issued : login'[t] = login[t]
      /\ live'[l] = NextToken /\ \A m \in Login \ {l} : live'[m] = live[m]
  BY <1>1, <1>4, IssueSound DEF SessionSound
<1>7. NextToken \notin Issued /\ NextToken # 0 /\ Issued \subseteq Issued'
  BY <1>6, IssuedAre DEF SessionSound
<1>8. ASSUME NEW u \in Issued PROVE live'[login'[u]] = live[login[u]]
  <2>1. login[u] \in 0..k /\ login[u] \in Login
    BY <1>2 DEF SessionSound, TokensSound
  <2>2. login[u] # l
    BY <1>5, <2>1
  <2> QED BY <1>6, <2>1, <2>2
<1>9. \A u : u = NextToken => Unplaced(u)'
  BY <1>1, <1>6, NextUnplaced
<1>10. FlightsSound' /\ CallsSound'
  BY <1>1, <1>7, FlightsRest, CallsRest DEF SessionSound
<1>11. DeviceSound'
  BY <1>1, <1>6 DEF SessionSound, DeviceSound, ChangeType
<1>12. StoredSound'
  BY <1>1, <1>7, <1>8, StoredRests, FlightFacts DEF SessionSound, StoredSound, DeviceSound
<1>13. ASSUME NEW u, Coming(u)' PROVE Unplaced(u)'
  <2>1. CASE u = NextToken
    BY <1>9, <2>1
  <2>2. CASE u # NextToken
    <3>1. Coming(u)
      BY <1>1, <1>13, <2>2 DEF Coming
    <3>2. Unplaced(u)
      BY <3>1 DEF SessionSound, ComingSound
    <3> QED BY <1>1, <1>7, <1>8, <3>2 DEF Unplaced
  <2> QED BY <2>1, <2>2
<1>14. ASSUME NEW r \in Starter PROVE flight'[r].answer # change'.token
  <2>1. flight[r].answer \in Issued \cup {0}
    BY FlightFacts DEF FlightType
  <2> QED BY <1>1, <1>7, <2>1
<1>15. ComingSound'
  BY <1>13, <1>14 DEF ComingSound
<1> QED BY <1>6, <1>10, <1>11, <1>12, <1>15 DEF SessionSound

(* The answer to a refresh: a token of the same login, or a refusal. *)
LEMMA ServerRefreshesKeeps ==
    ASSUME SessionSound, NEW r \in Starter, ServerRefreshes(r)
    PROVE  SessionSound'
<1> DEFINE token == flight[r].expected
<1>1. /\ UNCHANGED <<stored, late, refreshing, timer, caller, change, used, orphaned>>
      /\ flight[r].pc = "sent" /\ refused \subseteq refused'
      /\ \/ Rotates(token) /\ Rotate(token)
            /\ flight' = [flight EXCEPT ![r].pc = "answered", ![r].answer = NextToken]
         \/ UNCHANGED <<login, live>> /\ refused' = refused \cup {token}
            /\ flight' = [flight EXCEPT ![r].pc = "answered", ![r].answer = 0]
  BY DEF ServerRefreshes, server
<1>2. token \in Issued /\ token \notin used /\ flight[r] \in FlightType(Issued)
  BY <1>1, FlightFacts DEF FlightSound, FlightType
<1> HIDE DEF token
<1>3. \A s \in Starter \ {r} : flight'[s] = flight[s] /\ flight[s].pc = "none"
  BY <1>1, FlightFacts, OneFlight
<1>4. CASE Rotates(token) /\ Rotate(token)
           /\ flight' = [flight EXCEPT ![r].pc = "answered", ![r].answer = NextToken]
  <2>1. /\ TokensSound' /\ Issued' = Issued \cup {NextToken} /\ live'[login'[NextToken]] = NextToken
        /\ \A u \in Issued \ {token} : live[login[u]] \in {0, u} => live'[login'[u]] \in {0, u}
    BY <1>2, <1>4, RotateSound DEF SessionSound
  <2>2. NextToken \notin Issued /\ NextToken # 0 /\ Issued \subseteq Issued'
    BY <2>1, IssuedAre DEF SessionSound
  <2>3. /\ flight' = [flight EXCEPT ![r] = flight'[r]]
        /\ flight'[r] = [flight[r] EXCEPT !.pc = "answered", !.answer = NextToken]
    BY <1>4, FlightFacts
  <2>4. flight'[r] \in FlightType(Issued') /\ flight'[r].pc = "answered" /\ flight'[r].answer = NextToken
        /\ flight'[r].expected = token
    BY <1>2, <2>1, <2>3 DEF FlightType, token
  <2>5. FlightSound(flight'[r], Issued', used', refused')
    BY <1>2, <2>2, <2>4, FlightFacts DEF FlightSound
  <2>6. FlightsSound' /\ CallsSound'
    BY <1>1, <2>2, <2>3, <2>4, <2>5, FlightFacts, FlightMoves, CallsRest
  <2>7. \A s \in Starter : flight'[s].expected = flight[s].expected
    BY <1>3, <2>4 DEF token
  <2>8. \A u : u = NextToken => Unplaced(u)'
    BY <1>1, <2>1, <2>7, NextUnplaced
  <2>9. ASSUME NEW u, u # NextToken, Coming(u)'
        PROVE  change.pc = "accepting" /\ u = change.token /\ Unplaced(u) /\ Unplaced(u)'
    <3>1. change.pc = "accepting" /\ u = change.token /\ Coming(u)
      BY <1>1, <1>3, <2>4, <2>9 DEF Coming
    <3>2. Unplaced(u) /\ u # token
      BY <3>1 DEF SessionSound, ComingSound, Unplaced, token
    <3>3. live[login[u]] \in {0, u} => live'[login'[u]] \in {0, u}
      BY <2>1, <3>2 DEF Unplaced
    <3> QED BY <1>1, <2>2, <2>7, <3>1, <3>2, <3>3 DEF Unplaced
  <2>10. ASSUME change'.pc = "accepting", NEW s \in Starter, flight'[s].pc = "answered"
         PROVE  flight'[s].answer # change'.token
    <3>1. change.token \in Issued
      BY <1>1, <2>10 DEF SessionSound, ComingSound, Coming, Unplaced
    <3> QED BY <1>1, <1>3, <2>2, <2>4, <2>10, <3>1
  <2>11. ComingSound'
    BY <2>8, <2>9, <2>10 DEF ComingSound
  <2>12. ASSUME NEW t, t = stored'.token PROVE Holds(t)'
    <3>1. Holds(t)
      BY <1>1, <2>12 DEF SessionSound, StoredSound
    <3>2. CASE t = 0 \/ t \in orphaned
      BY <1>1, <3>2 DEF Holds
    <3>3. CASE t = token
      BY <2>2, <2>4, <3>3 DEF Holds
    <3>4. CASE live[login[t]] \in {0, t} /\ t \in Issued \ {token}
      BY <2>1, <3>4 DEF Holds
    <3> QED BY <1>1, <1>3, <2>12, <3>1, <3>2, <3>3, <3>4, FlightFacts DEF Holds
  <2>13. StoredSound'
    BY <1>1, <2>2, <2>12, FlightFacts DEF StoredSound
  <2>14. DeviceSound'
    BY <1>1, <2>2 DEF SessionSound, DeviceSound, ChangeType
  <2> QED BY <2>1, <2>6, <2>11, <2>13, <2>14 DEF SessionSound
<1>5. CASE UNCHANGED <<login, live>> /\ refused' = refused \cup {token}
           /\ flight' = [flight EXCEPT ![r].pc = "answered", ![r].answer = 0]
  <2>1. /\ flight' = [flight EXCEPT ![r] = flight'[r]]
        /\ flight'[r] = [flight[r] EXCEPT !.pc = "answered", !.answer = 0]
        /\ Issued' = Issued
    BY <1>5, FlightFacts DEF Issued
  <2>2. flight'[r] \in FlightType(Issued) /\ flight'[r].pc = "answered" /\ flight'[r].answer = 0
        /\ flight'[r].expected = token
    BY <1>2, <2>1 DEF FlightType, token
  <2>3. FlightSound(flight'[r], Issued', used', refused')
    BY <1>2, <1>5, <2>1, <2>2, FlightFacts DEF FlightSound
  <2>4. FlightsSound' /\ CallsSound'
    BY <1>1, <2>1, <2>2, <2>3, FlightFacts, FlightMoves, CallsRest
  <2>5. \A s \in Starter : /\ flight'[s].expected = flight[s].expected
                           /\ flight'[s].pc = "answered" => flight'[s].answer = 0
                           /\ flight[s].pc # "answered"
    BY <1>1, <1>3, <2>2 DEF token
  <2>6. ComingSound'
    BY <1>1, <1>5, <2>1, <2>5, ComingRests
  <2>7. StoredSound'
    BY <1>1, <1>5, <2>1, <2>5, FlightFacts, StoredRests
  <2>8. TokensSound' /\ DeviceSound'
    BY <1>1, <1>5, <2>1, ServerRests, FallsSound DEF SessionSound, DeviceSound
  <2> QED BY <2>4, <2>6, <2>7, <2>8 DEF SessionSound
<1> QED BY <1>1, <1>4, <1>5

LEMMA LateRefreshKeeps ==
    ASSUME SessionSound, NEW token \in late, ServerRefreshesLate(token)
    PROVE  SessionSound'
<1>1. /\ UNCHANGED <<stored, flight, refreshing, timer, caller, change, used, refused>>
      /\ late' = late \ {token}
      /\ \/ Rotates(token) /\ Rotate(token) /\ orphaned' = orphaned \cup {token}
         \/ UNCHANGED <<login, live, orphaned>>
  BY DEF ServerRefreshesLate, server
<1>2. token \in Issued
  BY DEF SessionSound, DeviceSound
<1>3. CASE UNCHANGED <<login, live, orphaned>>
  <2>1. Issued' = Issued /\ LiveFalls
    BY <1>3, ServerRests DEF SessionSound, Issued
  <2>2. TokensSound' /\ DeviceSound'
    BY <1>1, <1>3, <2>1, FallsSound DEF SessionSound, DeviceSound
  <2>3. FlightsSound' /\ CallsSound'
    BY <1>1, <2>1, FlightsRest, CallsRest DEF SessionSound
  <2>4. ComingSound'
    BY <1>1, <1>3, <2>1, ComingRests
  <2>5. StoredSound'
    BY <1>1, <1>3, <2>1, FlightFacts, StoredRests DEF SessionSound, StoredSound, DeviceSound
  <2> QED BY <2>2, <2>3, <2>4, <2>5 DEF SessionSound
<1>4. CASE Rotates(token) /\ Rotate(token) /\ orphaned' = orphaned \cup {token}
  <2>1. /\ TokensSound' /\ Issued' = Issued \cup {NextToken}
        /\ \A u \in Issued \ {token} : live[login[u]] \in {0, u} => live'[login'[u]] \in {0, u}
    BY <1>2, <1>4, RotateSound DEF SessionSound
  <2>2. Issued \subseteq Issued'
    BY <2>1
  <2>3. FlightsSound' /\ CallsSound'
    BY <1>1, <2>2, FlightsRest, CallsRest DEF SessionSound
  <2>4. DeviceSound'
    BY <1>1, <2>2 DEF SessionSound, DeviceSound, ChangeType
  <2>5. ASSUME NEW u, Coming(u)' PROVE Unplaced(u)'
    <3>1. Coming(u)
      BY <1>1, <2>5 DEF Coming
    <3>2. Unplaced(u) /\ u # token
      BY <3>1 DEF SessionSound, ComingSound, Unplaced
    <3>3. live'[login'[u]] \in {0, u}
      BY <2>1, <3>2 DEF Unplaced
    <3> QED BY <1>1, <2>2, <3>2, <3>3 DEF Unplaced
  <2>6. ComingSound'
    BY <1>1, <2>5 DEF SessionSound, ComingSound
  <2>7. ASSUME NEW t, t = stored'.token PROVE Holds(t)'
    <3>1. Holds(t) /\ t \in Issued \cup {0}
      BY <1>1, <2>7 DEF SessionSound, StoredSound
    <3>2. CASE t = token
      BY <1>4, <3>2 DEF Holds
    <3>3. CASE t # token
      BY <1>1, <1>4, <2>1, <3>1, <3>3 DEF Holds
    <3> QED BY <3>2, <3>3
  <2>8. StoredSound'
    BY <1>1, <2>2, <2>7, FlightFacts DEF SessionSound, StoredSound
  <2> QED BY <2>1, <2>3, <2>4, <2>6, <2>8 DEF SessionSound
<1> QED BY <1>1, <1>3, <1>4

(* A process ends: every refresh under way is lost, and every call with it. *)
LEMMA EndsKeep ==
    ASSUME SessionSound, Restart \/ LogoutCommits
    PROVE  SessionSound'
<1>1. /\ UNCHANGED <<login, live, used, refused>> /\ Issued' = Issued
      /\ stored' = stored \/ stored' = [token |-> 0, sync |-> Nil]
      /\ change' = NoChange /\ timer' \in {"off", "renewal", "retry"} /\ refreshing' = Nil
      /\ flight' = [r \in Starter |-> NoFlight] /\ orphaned \subseteq orphaned'
      /\ late' = late \cup {flight[r].expected : r \in {s \in Starter : flight[s].pc = "sent"}}
      /\ \A r \in Starter : flight[r].pc = "answered" /\ flight[r].answer # 0 => flight[r].expected \in orphaned'
      /\ caller' = [c \in Caller |-> IF caller[c].pc = "idle" THEN caller[c] ELSE [Fresh EXCEPT !.pc = "done"]]
  BY DEF Restart, LogoutCommits, EndProcess, server, Issued
<1>2. NoChange \in ChangeType(Issued) /\ NoChange.pc # "accepting"
  BY DEF NoChange, ChangeType
<1>3. ASSUME NEW r \in Starter, flight[r].pc = "sent" PROVE flight[r].expected \in Issued
  BY <1>3, FlightFacts DEF FlightSound, FlightType
<1>4. ASSUME NEW r \in Starter
      PROVE  /\ flight'[r] \in FlightType(Issued') /\ FlightSound(flight'[r], Issued', used', refused')
             /\ flight'[r].pc = "none" /\ flight'[r].expected = 0 /\ r # Nil
  BY <1>1, <1>4, AssumeNames DEF FlightSound, FlightType, NoFlight
<1>5. flight' \in [Starter -> FlightType(Issued')]
  BY <1>1, <1>4
<1>6. FlightsSound'
  BY <1>1, <1>4, <1>5 DEF FlightsSound
<1>7. ASSUME NEW c \in Caller PROVE CallSound(caller'[c], Issued', refused')
  <2>1. CallSound(caller[c], Issued, refused)
    BY DEF SessionSound, CallsSound
  <2>2. CASE caller'[c] = caller[c]
    BY <1>1, <2>1, <2>2
  <2>3. CASE caller'[c] = [Fresh EXCEPT !.pc = "done"]
    BY <2>3 DEF CallSound, CallType, Fresh, Final
  <2> QED BY <1>1, <2>2, <2>3
<1>8. caller' \in [Caller -> CallType(Issued')]
  BY <1>1, <1>7 DEF CallSound
<1>9. CallsSound'
  BY <1>7, <1>8 DEF CallsSound
<1>10. late' \cup used' \subseteq Issued
       /\ used' \cup late' \subseteq used \cup late \cup {flight[s].expected : s \in Starter}
  BY <1>1, <1>3 DEF SessionSound, DeviceSound
<1>11. \A r \in Starter :
          /\ flight'[r].expected \in {0, stored.token} \cup {flight[s].expected : s \in Starter}
          /\ flight'[r].pc = "answered" => flight'[r] = flight[r]
          /\ flight[r].pc = "answered" /\ flight[r].answer # 0 => flight[r].expected \in orphaned'
  BY <1>1, <1>4
<1>12. stored'.token \in {0, stored.token} /\ stored' \in [token : Issued \cup {0}, sync : BOOLEAN \cup {Nil}]
       /\ stored'.token \notin used' \ used
  BY <1>1 DEF SessionSound, StoredSound
<1> QED BY <1>1, <1>2, <1>6, <1>9, <1>10, <1>11, <1>12, FlightStep

-----------------------------------------------------------------------------
(* The session is always sound                                             *)

LEMMA InitSound == Init => SessionSound
<1> SUFFICES ASSUME Init PROVE SessionSound
  OBVIOUS
<1>1. Issued = 1..1 /\ Issued = {1} /\ 0 \in Login
  BY SessionAssumption DEF Init, Issued, Login
<1>2. {login[t] : t \in Issued} = {0} /\ {0} = 0..0
  BY <1>1 DEF Init
<1>3. TokensSound
  <2>1. login \in [Issued -> Login] /\ live \in [Login -> Issued \cup {0}]
    BY <1>1 DEF Init
  <2> QED BY <1>1, <1>2, <2>1 DEF TokensSound
<1>4. DeviceSound
  BY DEF Init, DeviceSound, ChangeType, NoChange
<1>5. FlightsSound
  BY AssumeNames DEF Init, FlightsSound, FlightSound, FlightType, NoFlight
<1>6. CallsSound
  BY DEF Init, CallsSound, CallSound, CallType, Fresh, Final
<1>7. ComingSound
  BY DEF Init, ComingSound, Coming, NoChange, NoFlight
<1>8. StoredSound
  <2>1. live[login[1]] = 1
    BY <1>1 DEF Init
  <2> QED BY <1>1, <2>1 DEF Init, StoredSound, Holds
<1> QED BY <1>3, <1>4, <1>5, <1>6, <1>7, <1>8 DEF SessionSound

LEMMA NextSound == SessionSound /\ [Next]_vars => SessionSound'
<1> SUFFICES ASSUME SessionSound, [Next]_vars PROVE SessionSound'
  OBVIOUS
<1>1. ASSUME NEW r \in Starter, Flies(r) \/ FlightLost(r) PROVE SessionSound'
  BY <1>1, FlightReadsKeeps, FlightSavesKeeps, FlightRefusedKeeps, FlightRetriesKeeps,
     FlightSchedulesKeeps, ServerRefreshesKeeps, FlightLostKeeps DEF Flies
<1>2. ASSUME NEW c \in Caller, CallStarts(c) \/ Calls(c) \/ CallLost(c) PROVE SessionSound'
  BY <1>2, CallSteps, CallRenewsKeeps DEF Calls
<1>3. ASSUME NEW token \in late, ServerRefreshesLate(token) PROVE SessionSound'
  BY <1>3, LateRefreshKeeps
<1>4. CASE Changes
  BY <1>4, AcceptLoginKeeps, WaitingSteps, EndsKeep DEF Changes
<1>5. CASE LoginAnswered
  BY <1>5, LoginAnsweredKeeps
<1>6. CASE TimerFires
  BY <1>6, TimerFiresKeeps
<1>7. CASE Restart \/ LogoutCommits
  BY <1>7, EndsKeep
<1>8. CASE LogoutStarts \/ BackoffOver \/ ComesDue \/ Disable \/ SwitchSync \/ UNCHANGED vars
  BY <1>8, WaitingSteps
<1> QED BY <1>1, <1>2, <1>3, <1>4, <1>5, <1>6, <1>7, <1>8 DEF Next

(* The inductive invariant holds in every state the session reaches, for   *)
(* any number of calls, logins, renewals, lost answers and restarts.       *)
THEOREM SessionAlwaysSound == Spec => []SessionSound
BY InitSound, NextSound, PTL DEF Spec

(* The server sees a refresh token once: no two refreshes present one      *)
(* token, and none presents a token that was answered (service.ts:96).     *)
THEOREM TokensUsedOnce == Spec => []OneTimeTokens
<1>1. SessionSound => OneTimeTokens
  <2> SUFFICES ASSUME SessionSound, NEW r \in Starter, flight[r].pc = "sent"
               PROVE  /\ flight[r].expected \notin used
                      /\ \A s \in Starter \ {r} : flight[s].pc = "none"
    BY DEF OneTimeTokens
  <2> QED BY FlightFacts, OneFlight DEF FlightSound
<1> QED BY <1>1, SessionAlwaysSound, PTL

(* The session on disk is the one the server would renew, unless its login *)
(* is over or the answer that replaced it is on its way or was lost.       *)
THEOREM StoredTokenIsLive == Spec => []HoldsLiveToken
<1>1. SessionSound => HoldsLiveToken
  BY DEF SessionSound, StoredSound, Holds, HoldsLiveToken
<1> QED BY <1>1, SessionAlwaysSound, PTL

-----------------------------------------------------------------------------
(* What a step may never do                                                *)

(* Most steps leave the session alone, or put another token in it. *)
Moves ==
    \/ stored' = stored
    \/ AcceptLogin
    \/ \E r \in Starter : /\ flight[r].pc = "answered" /\ stored.token = flight[r].expected
                          /\ flight[r].answer # 0
                          /\ stored' = [stored EXCEPT !.token = flight[r].answer]
    \/ \E r \in Starter : flight[r].pc = "answered" /\ flight[r].answer = 0 /\ Clear(flight[r].expected)
    \/ \E c \in Caller : /\ caller[c].changes /\ caller[c].answer = "ok" /\ caller'[c].pc = "done"
                         /\ stored'.token = 0
    \/ \E c \in Caller : Final(caller[c]) /\ Clear(caller[c].token)
    \/ change.pc = "clearing" /\ Clear(change.token)
    \/ change.pc = "closing" /\ stored' = [token |-> 0, sync |-> Nil]
    \/ SwitchSync

LEMMA SessionMoves ==
    ASSUME SessionSound, [Next]_vars
    PROVE  Moves
<1>1. ASSUME NEW r \in Starter, Flies(r) \/ FlightLost(r) PROVE Moves
  BY <1>1 DEF Flies, FlightReads, FlightSaves, FlightRefused, FlightRetries, FlightSchedules,
              ServerRefreshes, FlightLost, Moves
<1>2. ASSUME NEW c \in Caller, CallSucceeds(c) PROVE Moves
  <2>1. CASE caller[c].changes
    <3>1. caller'[c].pc = "done" /\ stored'.token = 0
      BY <1>2, <2>1, CallDone DEF CallSucceeds, SessionSound, history, server, Issued
    <3> QED BY <1>2, <2>1, <3>1 DEF CallSucceeds, Moves
  <2>2. CASE ~caller[c].changes
    BY <1>2, <2>2 DEF CallSucceeds, Moves
  <2> QED BY <2>1, <2>2
<1>3. ASSUME NEW c \in Caller, CallRefused(c) PROVE Moves
  BY <1>3 DEF CallRefused, Final, Moves
<1>4. ASSUME NEW c \in Caller,
             CallStarts(c) \/ CallReads(c) \/ CallRenews(c) \/ ServerAnswers(c) \/ CallLost(c)
      PROVE  Moves
  BY <1>4 DEF CallStarts, CallReads, CallRenews, ServerAnswers, CallLost, Moves
<1>5. ASSUME NEW token \in late, ServerRefreshesLate(token) PROVE Moves
  BY <1>5 DEF ServerRefreshesLate, Moves
<1>6. CASE Changes
  BY <1>6 DEF Changes, LoginSchedules, LogoutReads, LogoutAnswered, LogoutClears,
              LogoutHalts, LogoutCommits, Moves
<1>7. CASE LoginAnswered \/ LogoutStarts \/ TimerFires \/ BackoffOver \/ ComesDue \/ Disable
           \/ SwitchSync \/ Restart \/ UNCHANGED vars
  BY <1>7 DEF LoginAnswered, LogoutStarts, TimerFires, BackoffOver, ComesDue, Disable, Restart, vars,
              Moves
<1> QED BY <1>1, <1>2, <1>3, <1>4, <1>5, <1>6, <1>7 DEF Next, Calls

(* A token belongs to a session on disk, and a logout that closes the space *)
(* has ended it.                                                            *)
RowSound ==
    /\ stored.token # 0 => stored.sync # Nil
    /\ change.pc = "closing" => stored.token = 0

LEMMA MovesFacts ==
    ASSUME SessionSound
    PROVE  /\ stored \in [token : Issued \cup {0}, sync : BOOLEAN \cup {Nil}] /\ 0 \notin Issued
           /\ change.pc = "accepting" => change.token # 0
           /\ \A r \in Starter : flight[r].pc = "answered" =>
                 /\ flight[r].expected # 0
                 /\ flight[r].answer = 0 => flight[r].expected \in refused
           /\ \A c \in Caller : Final(caller[c]) => caller[c].token \in refused
<1>1. stored \in [token : Issued \cup {0}, sync : BOOLEAN \cup {Nil}] /\ 0 \notin Issued
  BY IssuedAre DEF SessionSound, StoredSound
<1>2. change.pc = "accepting" => change.token # 0
  BY <1>1 DEF SessionSound, ComingSound, Coming, Unplaced
<1>3. \A r \in Starter : flight[r].pc = "answered" =>
         flight[r].expected # 0 /\ (flight[r].answer = 0 => flight[r].expected \in refused)
  BY FlightFacts DEF FlightSound
<1>4. \A c \in Caller : Final(caller[c]) => caller[c].token \in refused
  BY DEF SessionSound, CallsSound, CallSound
<1> QED BY <1>1, <1>2, <1>3, <1>4

LEMMA AcceptFields ==
    ASSUME AcceptLogin
    PROVE  /\ change.pc = "accepting" /\ change' = [change EXCEPT !.pc = "scheduling"]
           /\ stored'.token = change.token
           /\ stored.sync = Nil => stored'.sync = FALSE
           /\ stored.sync # Nil => stored'.sync = stored.sync
           /\ stored'.sync # Nil
<1> DEFINE s == IF stored.sync = Nil THEN FALSE ELSE stored.sync
<1>1. /\ change.pc = "accepting" /\ change' = [change EXCEPT !.pc = "scheduling"]
      /\ stored' = [token |-> change.token, sync |-> s]
  BY Zenon DEF AcceptLogin
<1>2. (stored.sync = Nil => s = FALSE) /\ (stored.sync # Nil => s = stored.sync)
  BY Zenon
<1>3. FALSE # Nil
  BY Zenon, SessionAssumption
<1>4. s # Nil
  BY <1>2, <1>3, Zenon
<1> HIDE DEF s
<1>5. stored'.token = change.token /\ stored'.sync = s
  BY <1>1, Zenon
<1> QED BY <1>1, <1>2, <1>4, <1>5, Zenon

(* The closing pc is reached with the session ended only. *)
LEMMA ClosingMoves ==
    ASSUME SessionSound, [Next]_vars, change'.pc = "closing"
    PROVE  \/ change.pc = "closing"
           \/ stored'.token = 0
<1> SUFFICES ASSUME change.pc # "closing" PROVE stored'.token = 0
  OBVIOUS
<1>1. change \in ChangeType(Issued) /\ stored \in [token : Issued \cup {0}, sync : BOOLEAN \cup {Nil}]
  BY DEF SessionSound, DeviceSound, StoredSound
<1>2. ASSUME NEW r \in Starter, Flies(r) \/ FlightLost(r) PROVE change' = change
  BY <1>2 DEF Flies, FlightReads, FlightSaves, FlightRefused, FlightRetries, FlightSchedules,
              ServerRefreshes, FlightLost
<1>3. ASSUME NEW c \in Caller, CallStarts(c) \/ Calls(c) \/ CallLost(c) PROVE change' = change
  BY <1>3 DEF Calls, CallStarts, CallReads, CallRenews, CallSucceeds, CallRefused, ServerAnswers, CallLost
<1>4. ASSUME NEW token \in late, ServerRefreshesLate(token) PROVE change' = change
  BY <1>4 DEF ServerRefreshesLate
<1>5. CASE LogoutReads
  BY <1>1, <1>5 DEF LogoutReads, NoChange
<1>6. CASE LogoutClears
  BY <1>1, <1>6 DEF LogoutClears, NoChange, Clear
<1>7. CASE AcceptLogin \/ LoginSchedules \/ LogoutAnswered \/ LogoutHalts \/ LogoutCommits
  <2>1. CASE AcceptLogin
    BY <1>1, <2>1, AcceptFields DEF ChangeType
  <2>2. CASE LoginSchedules \/ LogoutAnswered \/ LogoutHalts \/ LogoutCommits
    BY <1>1, <2>2 DEF LoginSchedules, LogoutAnswered, LogoutHalts, LogoutCommits,
                      EndProcess, NoChange, ChangeType
  <2> QED BY <1>7, <2>1, <2>2
<1>8. CASE LoginAnswered \/ LogoutStarts \/ TimerFires \/ BackoffOver \/ ComesDue \/ Disable
           \/ SwitchSync \/ Restart \/ UNCHANGED vars
  BY <1>1, <1>8 DEF LoginAnswered, LogoutStarts, TimerFires, BackoffOver, ComesDue, Disable,
                    SwitchSync, Restart, EndProcess, NoChange, ChangeType, vars
<1> QED BY <1>2, <1>3, <1>4, <1>5, <1>6, <1>7, <1>8 DEF Next, Changes

LEMMA RowKeeps == SessionSound /\ RowSound /\ [Next]_vars => RowSound'
<1> SUFFICES ASSUME SessionSound, RowSound, [Next]_vars PROVE RowSound'
  OBVIOUS
<1>1. Moves
  BY SessionMoves
<1>2. ASSUME AcceptLogin PROVE stored'.sync # Nil /\ change'.pc # "closing"
  <2>1. change \in ChangeType(Issued)
    BY <1>2 DEF SessionSound, DeviceSound
  <2> QED BY <1>2, <2>1, AcceptFields DEF ChangeType
<1> DEFINE v == stored
           w == stored'
<1>3. /\ v \in [token : Issued \cup {0}, sync : BOOLEAN \cup {Nil}]
      /\ v.token # 0 => v.sync # Nil
  BY MovesFacts DEF RowSound
<1>4. ASSUME SwitchSync PROVE w.token = v.token /\ w.sync # Nil
  <2>1. w = [v EXCEPT !.sync = ~v.sync] /\ v.sync # Nil
    BY <1>4, Zenon DEF SwitchSync
  <2>2. w.token = v.token /\ w.sync = ~v.sync
    BY <1>3, <2>1, Zenon
  <2>3. Nil \notin BOOLEAN
    BY Zenon, SessionAssumption
  <2>4. ASSUME NEW b PROVE (~b) \in BOOLEAN
    OBVIOUS
  <2>5. (~v.sync) \in BOOLEAN
    BY <2>4
  <2> QED BY <2>2, <2>3, <2>5, Zenon
<1>5. ASSUME NEW t, w = [v EXCEPT !.token = t] PROVE w.token = t /\ w.sync = v.sync
  BY <1>3, <1>5
<1>6. ASSUME NEW t, Clear(t) PROVE w = v \/ w.token = 0
  BY <1>3, <1>6 DEF Clear
<1>7. \/ w = v \/ SwitchSync \/ AcceptLogin \/ w.token = 0
      \/ \E r \in Starter : w.sync = v.sync /\ flight[r].pc = "answered" /\ v.token = flight[r].expected
  <2>1. w = [token |-> 0, sync |-> Nil] => w.token = 0
    OBVIOUS
  <2> QED BY <1>1, <1>5, <1>6, <2>1 DEF Moves
<1>8. w.token # 0 => w.sync # Nil
  BY <1>2, <1>3, <1>4, <1>7, MovesFacts
<1>9. ASSUME change.pc = "closing" PROVE w.token = 0
  <2>1. v.token = 0
    BY <1>9 DEF RowSound
  <2>2. ~AcceptLogin
    BY <1>9, Zenon DEF AcceptLogin
  <2> QED BY <1>4, <1>7, <2>1, <2>2, MovesFacts
<1>10. change'.pc = "closing" => w.token = 0
  BY <1>9, ClosingMoves
<1> QED BY <1>8, <1>10 DEF RowSound

LEMMA RowAlwaysSound == Spec => []RowSound
<1>1. Init => RowSound
  <2> SUFFICES ASSUME Init PROVE RowSound
    OBVIOUS
  <2>1. stored = [token |-> 1, sync |-> TRUE] /\ change.pc = "idle"
    BY DEF Init, NoChange
  <2>2. stored.sync = TRUE /\ TRUE # Nil
    BY <2>1, Zenon, SessionAssumption
  <2>3. stored.sync # Nil
    BY <2>2, Zenon
  <2> QED BY <2>1, <2>3 DEF RowSound
<1> QED BY <1>1, RowKeeps, SessionAlwaysSound, PTL DEF Spec

(* The tokens, the session and the shared refresh have the types the code  *)
(* gives them; a refresh is shared exactly while one starter runs it.      *)
THEOREM SessionTypes == Spec => []TypeOK
<1>1. SessionSound /\ RowSound => TypeOK
  <2> SUFFICES ASSUME SessionSound, RowSound PROVE TypeOK
    OBVIOUS
  <2>1. Issued \subseteq Nat \ {0} /\ \A t \in Issued : login[t] \in Login
    BY IssuedAre DEF SessionSound, TokensSound
  <2>2. refreshing # Nil <=> \E r \in Starter : flight[r].pc # "none"
    BY AssumeNames DEF SessionSound, FlightsSound
  <2> QED BY <2>1, <2>2 DEF TypeOK, SessionSound, TokensSound, StoredSound, DeviceSound, FlightsSound,
                            RowSound
<1> QED BY <1>1, SessionAlwaysSound, RowAlwaysSound, PTL

(* A session ends for an explicit refusal of its own token, a logout or a  *)
(* changed password only: an old answer never ends a newer login.          *)
THEOREM SessionsEndForAReason == Spec => SessionStays
<1> DEFINE Stays == stored.token # 0 /\ stored'.token = 0 =>
          \/ stored.token \in refused
          \/ change.pc = "clearing"
          \/ \E c \in Caller : caller[c].changes /\ caller[c].answer = "ok" /\ caller'[c].pc = "done"
<1>1. SessionSound /\ RowSound /\ [Next]_vars => [Stays]_vars
  <2> SUFFICES ASSUME SessionSound, RowSound, [Next]_vars, stored.token # 0, stored'.token = 0 PROVE Stays
    OBVIOUS
  <2>1. ASSUME NEW t, Clear(t) PROVE stored.token = t
    BY <2>1 DEF Clear
  <2>2. ~AcceptLogin
    BY MovesFacts, AcceptFields
  <2>3. change.pc # "closing"
    BY DEF RowSound
  <2> QED BY <2>1, <2>2, <2>3, MovesFacts, SessionMoves DEF SwitchSync, Moves
<1>2. Spec => [][Stays]_vars
  BY <1>1, SessionAlwaysSound, RowAlwaysSound, PTL DEF Spec
<1> QED BY <1>2 DEF SessionStays

(* No refresh, refusal or answer touches the sync switch, and a login only *)
(* gives the session it creates one that is off: whatever the logins and   *)
(* logouts, sync is switched on by the user or by a password change alone. *)
THEOREM SyncChoiceAlwaysStays == Spec => SyncChoiceStays
<1> DEFINE Stays == stored'.sync # stored.sync =>
          \/ SwitchSync
          \/ change.pc = "closing" /\ stored'.sync = Nil
          \/ change.pc = "accepting" /\ stored.sync = Nil /\ stored'.sync = FALSE
          \/ \E c \in Caller : caller[c].changes /\ caller[c].answer = "ok" /\ caller'[c].pc = "done"
<1>1. SessionSound /\ [Next]_vars => [Stays]_vars
  <2> SUFFICES ASSUME SessionSound, [Next]_vars, stored'.sync # stored.sync PROVE Stays
    OBVIOUS
  <2>1. \A t : Clear(t) => stored'.sync = stored.sync
    BY DEF Clear
  <2>2. \A t : stored' = [stored EXCEPT !.token = t] => stored'.sync = stored.sync
    BY DEF SessionSound, StoredSound
  <2>3. AcceptLogin => Stays
    BY AcceptFields
  <2>4. stored' = [token |-> 0, sync |-> Nil] => stored'.sync = Nil
    OBVIOUS
  <2> QED BY <2>1, <2>2, <2>3, <2>4, SessionMoves DEF Moves
<1>2. Spec => [][Stays]_vars
  BY <1>1, SessionAlwaysSound, PTL DEF Spec
<1> QED BY <1>2 DEF SyncChoiceStays

=============================================================================

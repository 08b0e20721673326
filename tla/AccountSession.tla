--------------------------- MODULE AccountSession ---------------------------
(***************************************************************************)
(* The session of an account (account/service.ts, account/repository.ts):  *)
(* a one-time refresh token and the access token that goes with it, kept   *)
(* on disk, while calls, a renewal timer, logout, a new login, a password  *)
(* change and restarts of the process work on it at the same time. Every   *)
(* read of the session and every request is a step of its own, with an     *)
(* await between.                                                          *)
(*                                                                         *)
(* The server is external: it rotates a live refresh token once, refuses   *)
(* any other, and forgets a login on logout or a password change.          *)
(***************************************************************************)
EXTENDS Naturals, FiniteSets

CONSTANTS
    Caller,        \* calls made with the access token
    Timer, Nil,    \* the renewal timer, as one who starts a refresh
    MaxDue,        \* bound: times a token comes near its expiry
    MaxLogins,     \* bound: logins after the first
    MaxFaults      \* bound: lost answers, restarts and disabled accounts

ASSUME SessionAssumption ==
    /\ Timer \notin Caller /\ Nil \notin Caller \cup {Timer} \cup BOOLEAN
    /\ MaxDue \in Nat /\ MaxLogins \in Nat /\ MaxFaults \in Nat

VARIABLES
    stored,        \* on disk: the token, 0 for none, and the sync switch, Nil without a session
    login,         \* server: by token, the login it belongs to
    live,          \* server: by login, its live refresh token, 0 when revoked
    disabled,      \* server: the account is disabled
    late,          \* tokens of refresh requests the device has given up on
    due,           \* tokens whose access token expires within the half minute
    flight,        \* by starter, the refresh it runs
    refreshing,    \* the starter of the shared refresh, Nil when there is none
    backoff,       \* a failed refresh asked to wait (refreshRetry)
    timer,         \* "off", "renewal" or "retry"
    caller,        \* by caller, its progress
    change,        \* the login or logout main has under way
    used,          \* history: tokens whose refresh the server has answered
    orphaned,      \* history: rotated tokens whose answer was lost
    refused,       \* history: tokens the server has refused for good
    dues, faults   \* bound counters

vars == <<stored, login, live, disabled, late, due, flight, refreshing, backoff, timer,
          caller, change, used, orphaned, refused, dues, faults>>
server == <<login, live, disabled>>
history == <<used, orphaned, refused>>

Login == 0..MaxLogins
Starter == Caller \cup {Timer}
Issued == DOMAIN login
NextToken == Cardinality(Issued) + 1
loggingOut == change.pc \in {"leaving", "revoking", "clearing"}

NoFlight == [pc |-> "none", expected |-> 0, answer |-> 0]
NoChange == [pc |-> "idle", token |-> 0]
Fresh == [pc |-> "idle", changes |-> FALSE, token |-> 0, sync |-> FALSE, retried |-> FALSE, answer |-> Nil]

(* A slip: whatever session is there is cleared. *)
ClearAnyway(token) == stored' = [stored EXCEPT !.token = 0]

(* repository.update: a patch is applied only to the session it was meant for. *)
Clear(token) == stored' = IF stored.token = token THEN [stored EXCEPT !.token = 0] ELSE stored
---------------------------------------------------------------------------
(* The server. *)

(* A live token is rotated; any other, or a disabled account's, is refused. *)
Rotates(token) == live[login[token]] = token /\ ~disabled

Rotate(token) ==
    /\ login' = [t \in Issued \cup {NextToken} |-> IF t = NextToken THEN login[token] ELSE login[t]]
    /\ live' = [live EXCEPT ![login[token]] = NextToken]
    /\ UNCHANGED disabled

ServerRefreshes(r) ==
    LET token == flight[r].expected
    IN  /\ flight[r].pc = "sent"
        /\ IF Rotates(token)
           THEN /\ Rotate(token)
                /\ flight' = [flight EXCEPT ![r].pc = "answered", ![r].answer = NextToken]
                /\ UNCHANGED refused
           ELSE /\ flight' = [flight EXCEPT ![r].pc = "answered", ![r].answer = 0]
                /\ refused' = refused \cup {token}
                /\ UNCHANGED server
        /\ UNCHANGED <<stored, late, due, refreshing, backoff, timer, caller, change, used,
                       orphaned, dues, faults>>

(* A request the device has given up on arrives all the same. *)
ServerRefreshesLate(token) ==
    /\ token \in late
    /\ late' = late \ {token}
    /\ IF Rotates(token)
       THEN Rotate(token) /\ orphaned' = orphaned \cup {token}
       ELSE UNCHANGED <<server, orphaned>>
    /\ UNCHANGED <<stored, due, flight, refreshing, backoff, timer, caller, change, used,
                   refused, dues, faults>>

(* An access token is good until it expires or its login is revoked. *)
ServerAnswers(c) ==
    LET token == caller[c].token
        good == live[login[token]] # 0 /\ ~disabled
    IN  /\ caller[c].pc = "sent"
        /\ \E verdict \in IF disabled THEN {"disabled"}
                          ELSE (IF good THEN {"ok"} ELSE {"refused"})
                               \cup (IF token \in due THEN {"refused"} ELSE {}) :
              /\ caller' = [caller EXCEPT ![c].pc = "answered", ![c].answer = verdict]
              /\ refused' = IF verdict = "disabled" \/ (verdict = "refused" /\ caller[c].retried)
                            THEN refused \cup {token} ELSE refused
              /\ live' = IF verdict = "ok" /\ caller[c].changes THEN [l \in Login |-> 0] ELSE live
        /\ UNCHANGED <<stored, login, disabled, late, due, flight, refreshing, backoff, timer,
                       change, used, orphaned, dues, faults>>

Disable ==
    /\ ~disabled /\ faults < MaxFaults
    /\ faults' = faults + 1
    /\ disabled' = TRUE
    /\ UNCHANGED <<stored, login, live, late, due, flight, refreshing, backoff, timer, caller,
                   change, history, dues>>

(* A token comes near its expiry long after it was issued: what was under  *)
(* way then (a request for another token, a wait, the login) has ended.    *)
ComesDue ==
    /\ stored.token \notin due \cup {0} /\ dues < MaxDue
    /\ ~backoff /\ change.pc # "scheduling"
    /\ \A r \in Starter : flight[r].expected \in {0, stored.token}
    /\ due' = due \cup {stored.token}
    /\ dues' = dues + 1
    /\ UNCHANGED <<stored, server, late, flight, refreshing, backoff, timer, caller, change,
                   history, faults>>
---------------------------------------------------------------------------
(* The refresh all starters share (refresh()). *)

(* A slip: a second starter does not join the refresh under way. *)
JoinOwn(r) ==
    /\ refreshing' = r
    /\ flight' = [flight EXCEPT ![r] = [NoFlight EXCEPT !.pc = "reading"]]

Join(r) ==
    IF refreshing # Nil
    THEN UNCHANGED <<refreshing, flight>>
    ELSE /\ refreshing' = r
         /\ flight' = [flight EXCEPT ![r] = [NoFlight EXCEPT !.pc = "reading"]]

(* A slip: the shared refresh is forgotten only when it succeeds. *)
EndFlightHeld(r, token) ==
    /\ flight' = [flight EXCEPT ![r] = NoFlight]
    /\ refreshing' = IF token = 0 THEN refreshing ELSE Nil
    /\ caller' = [c \in Caller |->
          IF caller[c].pc # "waiting" THEN caller[c]
          ELSE IF token = 0 THEN [Fresh EXCEPT !.pc = "done"]
          ELSE [caller[c] EXCEPT !.pc = "sent", !.token = token]]

(* The refresh ends and its waiters go on with the new token, or fail. *)
EndFlight(r, token) ==
    /\ flight' = [flight EXCEPT ![r] = NoFlight]
    /\ refreshing' = Nil
    /\ caller' = [c \in Caller |->
          IF caller[c].pc # "waiting" THEN caller[c]
          ELSE IF token = 0 THEN [Fresh EXCEPT !.pc = "done"]
          ELSE [caller[c] EXCEPT !.pc = "sent", !.token = token]]

FlightReads(r) ==
    /\ flight[r].pc = "reading"
    /\ IF stored.token = 0 \/ backoff
       THEN EndFlight(r, 0)
       ELSE /\ flight' = [flight EXCEPT ![r].pc = "sent", ![r].expected = stored.token]
            /\ UNCHANGED <<refreshing, caller>>
    /\ UNCHANGED <<stored, server, late, due, backoff, timer, change, history, dues, faults>>

(* No answer, or a server in trouble: nothing is known.  An odd answer,    *)
(* neither retried nor taken for a refusal (service.ts:118), is left out.  *)
FlightLost(r) ==
    /\ flight[r].pc \in {"sent", "answered"} /\ faults < MaxFaults
    /\ faults' = faults + 1
    /\ IF flight[r].pc = "sent"
       THEN late' = late \cup {flight[r].expected} /\ UNCHANGED orphaned
       ELSE orphaned' = orphaned \cup {flight[r].expected} /\ UNCHANGED late
    /\ IF loggingOut
       THEN EndFlight(r, 0)
       ELSE flight' = [flight EXCEPT ![r].pc = "retrying", ![r].answer = 0] /\ UNCHANGED <<refreshing, caller>>
    /\ UNCHANGED <<stored, server, due, backoff, timer, change, used, refused, dues>>

FlightSaves(r) ==
    /\ flight[r].pc = "answered" /\ flight[r].answer # 0
    /\ used' = used \cup {flight[r].expected}
    /\ IF stored.token = flight[r].expected
       THEN /\ stored' = [stored EXCEPT !.token = flight[r].answer]
            /\ backoff' = FALSE
            /\ flight' = [flight EXCEPT ![r].pc = "scheduling"]
            /\ UNCHANGED <<refreshing, caller>>
       ELSE EndFlight(r, 0) /\ UNCHANGED <<stored, backoff>>
    /\ UNCHANGED <<server, late, due, timer, change, orphaned, refused, dues, faults>>

FlightRefused(r) ==
    /\ flight[r].pc = "answered" /\ flight[r].answer = 0
    /\ used' = used \cup {flight[r].expected}
    /\ Clear(flight[r].expected)
    /\ EndFlight(r, 0)
    /\ UNCHANGED <<server, late, due, backoff, timer, change, orphaned, refused, dues, faults>>

(* A slip: a refresh that failed is not scheduled again. *)
FlightRetriesOnce(r) ==
    /\ flight[r].pc = "retrying"
    /\ backoff' = (stored.token = flight[r].expected)
    /\ EndFlight(r, 0)
    /\ UNCHANGED <<stored, server, late, due, timer, change, history, dues, faults>>

(* The token is kept, and tried again when the wait is over. *)
FlightRetries(r) ==
    /\ flight[r].pc = "retrying"
    /\ IF stored.token = flight[r].expected
       THEN /\ backoff' = TRUE
            /\ flight' = [flight EXCEPT ![r].pc = "scheduling"]
            /\ UNCHANGED <<refreshing, caller>>
       ELSE EndFlight(r, 0) /\ UNCHANGED backoff
    /\ UNCHANGED <<stored, server, late, due, timer, change, history, dues, faults>>

FlightSchedules(r) ==
    /\ flight[r].pc = "scheduling"
    /\ timer' = IF stored.token = 0 THEN "off" ELSE IF flight[r].answer = 0 THEN "retry" ELSE "renewal"
    /\ EndFlight(r, flight[r].answer)
    /\ UNCHANGED <<stored, server, late, due, backoff, change, history, dues, faults>>

BackoffOver ==
    /\ backoff
    /\ backoff' = FALSE
    /\ UNCHANGED <<stored, server, late, due, flight, refreshing, timer, caller, change,
                   history, dues, faults>>

TimerFires ==
    /\ \/ timer = "renewal" /\ stored.token \in due
       \/ timer = "retry" /\ ~backoff
    /\ timer' = "off"
    /\ IF loggingOut THEN UNCHANGED <<refreshing, flight>> ELSE Join(Timer)
    /\ UNCHANGED <<stored, server, late, due, backoff, caller, change, history, dues, faults>>
---------------------------------------------------------------------------
(* A call with the access token (authorized()). *)

Done(c) == caller' = [caller EXCEPT ![c] = [Fresh EXCEPT !.pc = "done"]]

(* current(): the call goes out with what is stored, or renews it first. *)
Proceeds(c) ==
    caller' = [caller EXCEPT ![c].token = stored.token,
                 ![c].pc = IF stored.token \in due THEN "renewing" ELSE "sent"]

(* A password change keeps the session it starts from. *)
CallStarts(c) ==
    /\ caller[c].pc = "idle"
    /\ IF stored.token = 0 \/ loggingOut THEN Done(c)
       ELSE \/ Proceeds(c)
            \/ caller' = [caller EXCEPT ![c].pc = "reading", ![c].changes = TRUE, ![c].sync = stored.sync]
    /\ UNCHANGED <<stored, server, late, due, flight, refreshing, backoff, timer, change,
                   history, dues, faults>>

CallReads(c) ==
    /\ caller[c].pc = "reading"
    /\ IF stored.token = 0 \/ loggingOut THEN Done(c) ELSE Proceeds(c)
    /\ UNCHANGED <<stored, server, late, due, flight, refreshing, backoff, timer, change,
                   history, dues, faults>>

(* refreshAfter: another refresh may have been faster. *)
CallRenews(c) ==
    /\ caller[c].pc = "renewing"
    /\ IF stored.token \notin {0, caller[c].token}
       THEN /\ caller' = [caller EXCEPT ![c].token = stored.token, ![c].pc = "sent"]
            /\ UNCHANGED <<flight, refreshing>>
       ELSE IF stored.token = 0 \/ loggingOut
       THEN Done(c) /\ UNCHANGED <<flight, refreshing>>
       ELSE Join(c) /\ caller' = [caller EXCEPT ![c].pc = "waiting"]
    /\ UNCHANGED <<stored, server, late, due, backoff, timer, change, history, dues, faults>>

CallLost(c) ==
    /\ caller[c].pc \in {"sent", "answered"} /\ faults < MaxFaults
    /\ faults' = faults + 1
    /\ Done(c)
    /\ UNCHANGED <<stored, server, late, due, flight, refreshing, backoff, timer, change,
                   history, dues>>

(* A slip: the answer is saved with the session it was asked under. *)
CallSucceedsWhole(c) ==
    /\ caller[c].pc = "answered" /\ caller[c].answer = "ok"
    /\ stored' = IF caller[c].changes
                 THEN [token |-> 0, sync |-> caller[c].sync]
                 ELSE [token |-> caller[c].token, sync |-> caller[c].sync]
    /\ Done(c)
    /\ UNCHANGED <<server, late, due, flight, refreshing, backoff, timer, change, history, dues, faults>>

(* A new profile goes to the session it was asked under; a changed         *)
(* password ends the session, in the form it had when the change began.    *)
CallSucceeds(c) ==
    /\ caller[c].pc = "answered" /\ caller[c].answer = "ok"
    /\ stored' = IF caller[c].changes THEN [token |-> 0, sync |-> caller[c].sync] ELSE stored
    /\ Done(c)
    /\ UNCHANGED <<server, late, due, flight, refreshing, backoff, timer, change, history, dues, faults>>

CallRefused(c) ==
    /\ caller[c].pc = "answered" /\ caller[c].answer \in {"refused", "disabled"}
    /\ IF caller[c].answer = "disabled" \/ caller[c].retried
       THEN Clear(caller[c].token) /\ Done(c)
       ELSE /\ IF loggingOut THEN Done(c)
               ELSE caller' = [caller EXCEPT ![c].pc = "renewing", ![c].retried = TRUE]
            /\ UNCHANGED stored
    /\ UNCHANGED <<server, late, due, flight, refreshing, backoff, timer, change, history, dues, faults>>
---------------------------------------------------------------------------
(* Login and logout, which main runs one at a time, the switch of sync and *)
(* the restart of the process.                                             *)

LoginAnswered ==
    LET l == Cardinality({login[t] : t \in Issued})
    IN  /\ change.pc = "idle" /\ l \in Login /\ ~disabled
        /\ login' = [t \in Issued \cup {NextToken} |-> IF t = NextToken THEN l ELSE login[t]]
        /\ live' = [live EXCEPT ![l] = NextToken]
        /\ change' = [pc |-> "accepting", token |-> NextToken]
        /\ UNCHANGED <<stored, disabled, late, due, flight, refreshing, backoff, timer, caller,
                       history, dues, faults>>

(* A slip: a new login starts from a session of its own. *)
AcceptLoginAnew ==
    /\ change.pc = "accepting"
    /\ stored' = [token |-> change.token, sync |-> FALSE]
    /\ backoff' = FALSE
    /\ change' = [change EXCEPT !.pc = "scheduling"]
    /\ UNCHANGED <<server, late, due, flight, refreshing, timer, caller, history, dues, faults>>

(* The session on disk is kept but for its token; without one, after a     *)
(* logout, sync starts switched off.                                       *)
AcceptLogin ==
    /\ change.pc = "accepting"
    /\ stored' = [token |-> change.token,
                  sync |-> IF stored.sync = Nil THEN FALSE ELSE stored.sync]
    /\ backoff' = FALSE
    /\ change' = [change EXCEPT !.pc = "scheduling"]
    /\ UNCHANGED <<server, late, due, flight, refreshing, timer, caller, history, dues, faults>>

(* After a logout the space of the account opens for it first. *)
LoginSchedules ==
    /\ change.pc = "scheduling"
    /\ timer' = IF stored.token = 0 THEN "off" ELSE "renewal"
    /\ change' = NoChange
    /\ UNCHANGED <<stored, server, late, due, flight, refreshing, backoff, caller, history, dues, faults>>

LogoutStarts ==
    /\ change.pc = "idle" /\ stored.sync # Nil
    /\ change' = [change EXCEPT !.pc = "leaving"]
    /\ timer' = "off"
    /\ UNCHANGED <<stored, server, late, due, flight, refreshing, backoff, caller, history, dues, faults>>

LogoutReads ==
    /\ change.pc = "leaving" /\ refreshing = Nil
    /\ change' = IF stored.token = 0 THEN [NoChange EXCEPT !.pc = "closing"]
                 ELSE [pc |-> "revoking", token |-> stored.token]
    /\ UNCHANGED <<stored, server, late, due, flight, refreshing, backoff, timer, caller, history, dues, faults>>

(* The server may not hear of it: the local logout goes on. *)
LogoutAnswered ==
    /\ change.pc = "revoking"
    /\ \E l \in {live, [live EXCEPT ![login[change.token]] = 0]} : live' = l
    /\ change' = [change EXCEPT !.pc = "clearing"]
    /\ UNCHANGED <<stored, login, disabled, late, due, flight, refreshing, backoff, timer, caller,
                   history, dues, faults>>

(* A session that has ended meanwhile, or another, fails the logout. *)
LogoutClears ==
    /\ change.pc = "clearing"
    /\ Clear(change.token)
    /\ change' = IF stored.token = change.token THEN [NoChange EXCEPT !.pc = "closing"] ELSE NoChange
    /\ UNCHANGED <<server, late, due, flight, refreshing, backoff, timer, caller, history, dues, faults>>

(* runtime.beforeQuit fails: the space stays open, without a token. *)
LogoutHalts ==
    /\ change.pc = "closing"
    /\ change' = NoChange
    /\ UNCHANGED <<stored, server, late, due, flight, refreshing, backoff, timer, caller, history, dues, faults>>

(* What is under way in a process ends with it. *)
EndProcess ==
    /\ late' = late \cup {flight[r].expected : r \in {s \in Starter : flight[s].pc = "sent"}}
    /\ orphaned' = orphaned \cup
          {flight[r].expected : r \in {s \in Starter : flight[s].pc = "answered" /\ flight[s].answer # 0}}
    /\ flight' = [r \in Starter |-> NoFlight]
    /\ refreshing' = Nil /\ backoff' = FALSE /\ change' = NoChange
    /\ caller' = [c \in Caller |-> IF caller[c].pc = "idle" THEN caller[c] ELSE [Fresh EXCEPT !.pc = "done"]]

(* The offline space takes over and its commit removes the session; or it  *)
(* does not, and the rollback opens the account's space again.             *)
LogoutCommits ==
    /\ change.pc = "closing"
    /\ EndProcess
    /\ timer' = "off"
    /\ \/ stored' = [token |-> 0, sync |-> Nil]
       \/ UNCHANGED stored
    /\ UNCHANGED <<server, due, used, refused, dues, faults>>

SwitchSync ==
    /\ stored.sync # Nil
    /\ stored' = [stored EXCEPT !.sync = ~stored.sync]
    /\ UNCHANGED <<server, late, due, flight, refreshing, backoff, timer, caller, change,
                   history, dues, faults>>

(* The process ends wherever it is; the next one reads the session. *)
Restart ==
    /\ faults < MaxFaults
    /\ faults' = faults + 1
    /\ EndProcess
    /\ timer' = IF stored.token = 0 THEN "off" ELSE "renewal"
    /\ UNCHANGED <<stored, server, due, used, refused, dues>>
---------------------------------------------------------------------------
Init ==
    /\ stored = [token |-> 1, sync |-> TRUE]
    /\ login = [t \in {1} |-> 0]
    /\ live = [l \in Login |-> IF l = 0 THEN 1 ELSE 0]
    /\ disabled = FALSE
    /\ late = {} /\ due = {}
    /\ flight = [r \in Starter |-> NoFlight]
    /\ refreshing = Nil /\ backoff = FALSE /\ timer = "renewal"
    /\ caller = [c \in Caller |-> Fresh]
    /\ change = NoChange
    /\ used = {} /\ orphaned = {} /\ refused = {}
    /\ dues = 0 /\ faults = 0

Flies(r) ==
    \/ FlightReads(r) \/ FlightSaves(r) \/ FlightRefused(r) \/ FlightRetries(r) \/ FlightSchedules(r)
    \/ ServerRefreshes(r)

Calls(c) ==
    CallReads(c) \/ CallRenews(c) \/ CallSucceeds(c) \/ CallRefused(c) \/ ServerAnswers(c)

Changes ==
    AcceptLogin \/ LoginSchedules \/ LogoutReads \/ LogoutAnswered \/ LogoutClears
    \/ LogoutHalts \/ LogoutCommits

Next ==
    \/ \E r \in Starter : Flies(r) \/ FlightLost(r)
    \/ \E c \in Caller : CallStarts(c) \/ Calls(c) \/ CallLost(c)
    \/ \E token \in late : ServerRefreshesLate(token)
    \/ Changes \/ LoginAnswered \/ LogoutStarts
    \/ TimerFires \/ BackoffOver \/ ComesDue \/ Disable \/ SwitchSync \/ Restart

Fairness ==
    /\ \A r \in Starter : WF_vars(Flies(r))
    /\ \A c \in Caller : WF_vars(Calls(c))
    /\ WF_vars(Changes) /\ WF_vars(TimerFires) /\ WF_vars(BackoffOver)

Spec == Init /\ [][Next]_vars /\ Fairness
---------------------------------------------------------------------------
TypeOK ==
    /\ Issued \subseteq Nat \ {0} /\ \A t \in Issued : login[t] \in Login
    /\ stored \in [token : Issued \cup {0}, sync : BOOLEAN \cup {Nil}]
    /\ stored.token # 0 => stored.sync # Nil
    /\ live \in [Login -> Issued \cup {0}]
    /\ timer \in {"off", "renewal", "retry"}
    /\ refreshing \in Starter \cup {Nil}
    /\ refreshing # Nil <=> \E r \in Starter : flight[r].pc # "none"

(* A one-time token is not presented by two refreshes at once, nor again   *)
(* after the server has answered for it (service.ts:96 and :148).          *)
OneTimeTokens ==
    \A r \in Starter :
        flight[r].pc = "sent" =>
            /\ flight[r].expected \notin used
            /\ \A s \in Starter \ {r} :
                  flight[s].pc \in {"sent", "answered"} => flight[s].expected # flight[r].expected

(* The session on disk is the one the server would renew, unless the login *)
(* is revoked or the answer that rotated it is on its way or was lost.     *)
HoldsLiveToken ==
    LET t == stored.token
    IN  \/ t = 0 \/ t \in orphaned
        \/ live[login[t]] \in {0, t}
        \/ \E r \in Starter : flight[r].pc = "answered" /\ flight[r].expected = t

(* A session ends only when the server has refused this very token, on     *)
(* logout, or when a password change is saved: an old answer never ends a  *)
(* newer login (ACCOUNT_REFRESH_RECOVERY: only an explicit refusal does).  *)
SessionStays ==
    [][stored.token # 0 /\ stored'.token = 0 =>
          \/ stored.token \in refused
          \/ change.pc = "clearing"
          \/ \E c \in Caller : caller[c].changes /\ caller[c].answer = "ok" /\ caller'[c].pc = "done"]_vars

(* Refreshes, refusals, answers and logins leave the sync switch as the    *)
(* user set it last (DATA_SYNC.md:9).  A logout's commit removes it with   *)
(* the session, the next login then never switches sync on (repository.ts: *)
(* 169), and a password change puts back the switch it started from.       *)
SyncChoiceStays ==
    [][stored'.sync # stored.sync =>
          \/ SwitchSync
          \/ change.pc = "closing" /\ stored'.sync = Nil
          \/ change.pc = "accepting" /\ stored.sync = Nil /\ stored'.sync = FALSE
          \/ \E c \in Caller : caller[c].changes /\ caller[c].answer = "ok" /\ caller'[c].pc = "done"]_vars

(* A session near its expiry is renewed or ended, whatever was lost, as    *)
(* long as the server's answers are those its protocol knows.              *)
RenewedOrEnded == stored.token \in due ~> stored.token \notin due

(* Every call made returns.                                                *)
CallsReturn ==
    \A c \in Caller : caller[c].pc \notin {"idle", "done"} ~> caller[c].pc = "done"
=============================================================================

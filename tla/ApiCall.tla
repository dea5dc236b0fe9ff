------------------------------- MODULE ApiCall -------------------------------
(***************************************************************************)
(* Calls of the SDK client: timeoutDoer around retryingDoer around         *)
(* limitingDoer around net/http with the redirect guard, and the reading   *)
(* of the body by the generated parser (nvfleetint/client.go,              *)
(* responselimit.go).                                                      *)
(*                                                                         *)
(* The calls share the connection pool.  The servers answer as they like,  *)
(* or not at all.  A response is known by the class its status falls into, *)
(* a body by its length, an origin (scheme, host and port) by its name.    *)
(***************************************************************************)
EXTENDS Integers, FiniteSets

CONSTANTS
    Calls,          \* the calls, each with a context of its own
    Writes,         \* those whose method is PUT; the others are GET
    Origins,
    Home,           \* the origin of the base URL
    Plain,          \* origins that are not https
    SameHost,       \* origins that have Home's host
    MaxAttempts,    \* defaultRequestAttempts
    MaxRedirects,   \* maxRedirects
    PoolSize,       \* maxConnsPerHost
    Limit           \* maxResponseBytes

ASSUME ApiAssumption ==
    /\ Writes \subseteq Calls
    /\ Home \in Origins
    /\ Plain \subseteq Origins
    /\ Home \in SameHost /\ SameHost \subseteq Origins
    /\ MaxAttempts \in Nat \ {0}
    /\ MaxRedirects \in Nat
    /\ PoolSize \in Nat \ {0}
    /\ Limit \in Nat

VARIABLES
    phase,      \* where each call is
    attempt,    \* which attempt it is making
    at,         \* the origin its request is for, after redirects
    hops,       \* the redirects this attempt has followed
    bearer,     \* whether the request has the Authorization header
    carries,    \* whether the request still is the write
    answer,     \* the class of response or error that ended the round trip
    expired,    \* the calls whose deadline has passed
    conns,      \* the open connections: <<call, attempt, origin>>
    room,       \* limitedBody.remaining
    delivered,  \* bytes of the body handed to the parser
    outcome,    \* what the caller gets
    sent,       \* history: bytes the server sent of the body
    applied,    \* history: how often the API carried a write out
    trusted     \* history: the origins each call sent the API key to

vars == <<phase, attempt, at, hops, bearer, carries, answer, expired, conns,
          room, delivered, outcome, sent, applied, trusted>>
requestVars == <<attempt, at, hops, bearer, carries>>
bodyVars    == <<room, delivered, sent>>
history     == <<applied, trusted>>

(* A status or an error worth retrying is "transient" or "net"; any other *)
(* status but 200 is "final", any other error "refused".                  *)
Statuses == {"ok", "transient", "final"}
Errors   == {"net", "refused", "deadline"}
Running  == {"asking", "flight", "judge", "backoff", "body"}
Phases   == Running \cup {"idle", "over"}
Outcomes == {"none", "ok", "apiError", "network", "refused", "timeout",
             "tooLarge", "cut", "cutByDeadline"}

Init ==
    /\ phase = [c \in Calls |-> "idle"]
    /\ attempt = [c \in Calls |-> 1]
    /\ at = [c \in Calls |-> Home]
    /\ hops = [c \in Calls |-> 0]
    /\ bearer = [c \in Calls |-> TRUE]
    /\ carries = [c \in Calls |-> c \in Writes]
    /\ answer = [c \in Calls |-> "none"]
    /\ expired = {}
    /\ conns = {}
    /\ room = [c \in Calls |-> Limit]
    /\ delivered = [c \in Calls |-> 0]
    /\ outcome = [c \in Calls |-> "none"]
    /\ sent = [c \in Calls |-> 0]
    /\ applied = [c \in Calls |-> 0]
    /\ trusted = [c \in Calls |-> {}]

Goto(c, p)   == phase' = [phase EXCEPT ![c] = p]
Answers(c, a) == answer' = [answer EXCEPT ![c] = a] /\ Goto(c, "judge")
Ends(c, o)   == outcome' = [outcome EXCEPT ![c] = o] /\ Goto(c, "over")

Connection(c) == <<c, attempt[c], at[c]>>
Close(c)      == conns' = conns \ {Connection(c)}
InUse(o)      == Cardinality({x \in conns : x[3] = o})

(* A server that got the write has carried it out, or not; what it does     *)
(* later with a request whose connection was lost is decided at the loss.   *)
MayApply(c) ==
    applied' \in {applied, [applied EXCEPT ![c] = IF carries[c] THEN @ + 1 ELSE @]}

Start(c) ==
    /\ phase[c] = "idle"
    /\ Goto(c, "asking")
    /\ UNCHANGED <<requestVars, answer, expired, conns, bodyVars, outcome, history>>

(* The context's timer: every call has one, for the timeout is positive. *)
Expire(c) ==
    /\ phase[c] \in Running
    /\ c \notin expired
    /\ expired' = expired \cup {c}
    /\ UNCHANGED <<phase, requestVars, answer, conns, bodyVars, outcome, history>>

-----------------------------------------------------------------------------
(* One round trip of net/http *)

Send(c) ==
    /\ phase[c] = "asking"
    /\ c \notin expired
    /\ InUse(at[c]) < PoolSize
    /\ conns' = conns \cup {Connection(c)}
    /\ trusted' = [trusted EXCEPT ![c] = IF bearer[c] THEN @ \cup {at[c]} ELSE @]
    /\ Goto(c, "flight")
    /\ UNCHANGED <<requestVars, answer, expired, bodyVars, outcome, applied>>

(* No connection comes about: refused, no such host, a bad certificate, *)
(* or none free before the deadline.                                    *)
DialFails(c) ==
    /\ phase[c] = "asking"
    /\ \E e \in {"net", "refused"} : Answers(c, e)
    /\ UNCHANGED <<requestVars, expired, conns, bodyVars, outcome, history>>

DialExpires(c) ==
    /\ phase[c] = "asking"
    /\ c \in expired
    /\ Answers(c, "deadline")
    /\ UNCHANGED <<requestVars, expired, conns, bodyVars, outcome, history>>

Respond(c) ==
    /\ phase[c] = "flight"
    /\ \E a \in Statuses : Answers(c, a)
    /\ MayApply(c)
    /\ UNCHANGED <<requestVars, expired, conns, bodyVars, outcome, trusted>>

(* The connection is lost, before or after the server acted. *)
LoseConnection(c) ==
    /\ phase[c] = "flight"
    /\ \E e \in {"net", "refused"} : Answers(c, e)
    /\ MayApply(c)
    /\ Close(c)
    /\ UNCHANGED <<requestVars, expired, bodyVars, outcome, trusted>>

FlightExpires(c) ==
    /\ phase[c] = "flight"
    /\ c \in expired
    /\ Answers(c, "deadline")
    /\ MayApply(c)
    /\ Close(c)
    /\ UNCHANGED <<requestVars, expired, bodyVars, outcome, trusted>>

(* Mutant: only the hosts are compared. *)
SameOriginByHost(o) == o \in SameHost

SameOrigin(o) == o = Home

(* Mutant: the scheme is not looked at. *)
DowngradeIgnored(from, o) == FALSE

Downgrade(from, o) == from \notin Plain /\ o \in Plain

RedirectRefused(c, o) == Downgrade(at[c], o) \/ hops[c] >= MaxRedirects

RedirectFails(c, o) ==
    /\ phase[c] = "flight"
    /\ RedirectRefused(c, o)
    /\ Answers(c, "refused")
    /\ MayApply(c)
    /\ Close(c)
    /\ UNCHANGED <<requestVars, expired, bodyVars, outcome, trusted>>

(* net/http copies the headers of the first request to every next one; the  *)
(* guard takes the key out again.  Status 307 and 308 keep the method and    *)
(* the body, which the server has not acted on; 301, 302 and 303 turn the    *)
(* request into a GET.                                                       *)
Redirect(c, o) ==
    /\ phase[c] = "flight"
    /\ ~RedirectRefused(c, o)
    /\ at' = [at EXCEPT ![c] = o]
    /\ hops' = [hops EXCEPT ![c] = @ + 1]
    /\ bearer' = [bearer EXCEPT ![c] = SameOrigin(o)]
    /\ \/ UNCHANGED <<carries, applied>>
       \/ carries' = [carries EXCEPT ![c] = FALSE] /\ MayApply(c)
    /\ Close(c)
    /\ Goto(c, "asking")
    /\ UNCHANGED <<attempt, answer, expired, bodyVars, outcome, trusted>>

-----------------------------------------------------------------------------
(* retryingDoer *)

(* Mutant: any method is retried. *)
CanRetryAnyMethod(c) ==
    /\ c \notin expired
    /\ answer[c] \in {"net", "transient"}

CanRetryRequest(c) ==
    /\ c \notin Writes
    /\ c \notin expired
    /\ answer[c] \in {"net", "transient"}

LastAttempt(c) == attempt[c] = MaxAttempts

(* Mutant: the response that is given up on is not closed. *)
RetryLeavesOpen(c) ==
    /\ phase[c] = "judge"
    /\ CanRetryRequest(c) /\ ~LastAttempt(c)
    /\ answer' = [answer EXCEPT ![c] = "none"]
    /\ Goto(c, "backoff")
    /\ UNCHANGED <<requestVars, expired, conns, bodyVars, outcome, history>>

Retry(c) ==
    /\ phase[c] = "judge"
    /\ CanRetryRequest(c) /\ ~LastAttempt(c)
    /\ Close(c)
    /\ answer' = [answer EXCEPT ![c] = "none"]
    /\ Goto(c, "backoff")
    /\ UNCHANGED <<requestVars, expired, bodyVars, outcome, history>>

(* The delay, which Retry-After may make as long as it likes, is over.  A *)
(* delay of zero does not look at the context.                            *)
Wake(c) ==
    /\ phase[c] = "backoff"
    /\ attempt' = [attempt EXCEPT ![c] = @ + 1]
    /\ at' = [at EXCEPT ![c] = Home]
    /\ hops' = [hops EXCEPT ![c] = 0]
    /\ bearer' = [bearer EXCEPT ![c] = TRUE]
    /\ carries' = [carries EXCEPT ![c] = c \in Writes]
    /\ Goto(c, "asking")
    /\ UNCHANGED <<answer, expired, conns, bodyVars, outcome, history>>

(* Mutant: waitForRetry sleeps through the deadline. *)
BackoffSleeps(c) == FALSE /\ UNCHANGED vars

BackoffExpires(c) ==
    /\ phase[c] = "backoff"
    /\ c \in expired
    /\ Ends(c, "timeout")
    /\ UNCHANGED <<requestVars, answer, expired, conns, bodyVars, history>>

OutcomeOf(error) ==
    CASE error = "net"      -> "network"
      [] error = "refused"  -> "refused"
      [] error = "deadline" -> "timeout"

(* The doers return: an error ends the call, a response has a body to read. *)
Return(c) ==
    /\ phase[c] = "judge"
    /\ ~CanRetryRequest(c) \/ LastAttempt(c)
    /\ \/ /\ answer[c] \in Errors
          /\ Ends(c, OutcomeOf(answer[c]))
       \/ /\ answer[c] \in Statuses
          /\ Goto(c, "body")
          /\ UNCHANGED outcome
    /\ UNCHANGED <<requestVars, answer, expired, conns, bodyVars, history>>

-----------------------------------------------------------------------------
(* The parser reads the body through limitedBody. *)

(* Mutant: the reader stops at the limit, as io.LimitReader does. *)
ReadTruncates(c, n) ==
    /\ phase[c] = "body"
    /\ room[c] > 0
    /\ sent' = [sent EXCEPT ![c] = @ + n]
    /\ room' = [room EXCEPT ![c] = IF n > @ THEN 0 ELSE @ - n]
    /\ delivered' = [delivered EXCEPT ![c] = IF n > room[c] THEN @ + room[c] ELSE @ + n]
    /\ UNCHANGED <<phase, outcome, requestVars, answer, expired, conns, history>>

(* Read is offered at most one byte more than there is room for, and hands *)
(* that byte to nobody.                                                    *)
Read(c, n) ==
    /\ phase[c] = "body"
    /\ n <= room[c] + 1
    /\ sent' = [sent EXCEPT ![c] = @ + n]
    /\ room' = [room EXCEPT ![c] = @ - n]
    /\ IF n <= room[c]
       THEN /\ delivered' = [delivered EXCEPT ![c] = @ + n]
            /\ UNCHANGED <<phase, outcome, conns>>
       ELSE /\ delivered' = [delivered EXCEPT ![c] = @ + room[c]]
            /\ Ends(c, "tooLarge")
            /\ Close(c)
    /\ UNCHANGED <<requestVars, answer, expired, history>>

BodyEnds(c) ==
    /\ phase[c] = "body"
    /\ Ends(c, IF answer[c] = "ok" THEN "ok" ELSE "apiError")
    /\ Close(c)
    /\ UNCHANGED <<requestVars, answer, expired, bodyVars, history>>

(* No doer sees an error of the body any more. *)
BodyBreaks(c) ==
    /\ phase[c] = "body"
    /\ Ends(c, "cut")
    /\ Close(c)
    /\ UNCHANGED <<requestVars, answer, expired, bodyVars, history>>

BodyExpires(c) ==
    /\ phase[c] = "body"
    /\ c \in expired
    /\ Ends(c, "cutByDeadline")
    /\ Close(c)
    /\ UNCHANGED <<requestVars, answer, expired, bodyVars, history>>

-----------------------------------------------------------------------------
Exchange(c) ==
    \/ Send(c) \/ DialFails(c) \/ DialExpires(c)
    \/ Respond(c) \/ LoseConnection(c) \/ FlightExpires(c)
    \/ \E o \in Origins : RedirectFails(c, o) \/ Redirect(c, o)

Doer(c) == Retry(c) \/ Wake(c) \/ BackoffExpires(c) \/ Return(c)

Parse(c) ==
    \/ \E n \in 1 .. Limit + 1 : Read(c, n)
    \/ BodyEnds(c) \/ BodyBreaks(c) \/ BodyExpires(c)

Next == \E c \in Calls : Start(c) \/ Expire(c) \/ Exchange(c) \/ Doer(c) \/ Parse(c)

(* What happens without the server: the timer fires, a fired timer is *)
(* noticed, and the doers decide at once.                             *)
Unaided(c) ==
    \/ Expire(c) \/ DialExpires(c) \/ FlightExpires(c)
    \/ Retry(c) \/ Return(c) \/ BackoffExpires(c) \/ BodyExpires(c)

Spec == Init /\ [][Next]_vars /\ \A c \in Calls : WF_vars(Unaided(c))

-----------------------------------------------------------------------------
TypeOK ==
    /\ phase \in [Calls -> Phases]
    /\ attempt \in [Calls -> 1 .. MaxAttempts]
    /\ at \in [Calls -> Origins]
    /\ hops \in [Calls -> 0 .. MaxRedirects]
    /\ bearer \in [Calls -> BOOLEAN]
    /\ carries \in [Calls -> BOOLEAN]
    /\ answer \in [Calls -> Statuses \cup Errors \cup {"none"}]
    /\ expired \subseteq Calls
    /\ conns \subseteq Calls \X (1 .. MaxAttempts) \X Origins
    /\ room \in [Calls -> -1 .. Limit]
    /\ delivered \in [Calls -> 0 .. Limit]
    /\ outcome \in [Calls -> Outcomes]
    /\ sent \in [Calls -> 0 .. Limit + 1]
    /\ applied \in [Calls -> Nat]
    /\ trusted \in [Calls -> SUBSET Origins]

(* The API carries a write out once at most, whatever is lost, late or *)
(* redirected on the way.                                              *)
WritesAppliedOnce == \A c \in Calls : applied[c] <= 1

(* No chain of redirects and retries sends the API key anywhere but to the *)
(* origin it was configured for.                                           *)
KeyStaysHome == \A c \in Calls : trusted[c] \subseteq {Home}

(* A call that starts on https never goes on in the clear. *)
NeverInTheClear == Home \notin Plain => \A c \in Calls : at[c] \notin Plain

(* A successful call parsed all of a body no larger than the limit: an *)
(* oversized or broken one is never taken for a short one.             *)
ParsedWhole == \A c \in Calls : outcome[c] = "ok" => delivered[c] = sent[c]

(* A call holds one connection at most, and none when it is over: nothing *)
(* it gave up on keeps a place in the pool from the others.               *)
NoConnectionLeaks ==
    \A x \in conns :
        LET c == x[1]
        IN  /\ x = Connection(c)
            /\ \/ phase[c] \in {"flight", "body"}
               \/ phase[c] = "judge" /\ answer[c] \in Statuses

(* A read gives up on a passing failure of the round trip only after its *)
(* last attempt, or when its time is up.                                 *)
FailsOnlyAfterAttempts ==
    \A c \in Calls \ Writes :
        outcome[c] = "network" \/ (outcome[c] = "apiError" /\ answer[c] = "transient")
            => attempt[c] = MaxAttempts \/ c \in expired

(* The same of the whole call, as the documented retry rule has it. *)
TransientFailuresRetried ==
    \A c \in Calls \ Writes :
        outcome[c] \in {"network", "cut"} => attempt[c] = MaxAttempts \/ c \in expired

(* What a caller sees of a call. *)
Status == [c \in Calls |->
              CASE phase[c] = "idle" -> "idle"
                [] phase[c] = "over" -> IF outcome[c] = "ok" THEN "ok" ELSE "failed"
                [] OTHER             -> "running"]

Remote == INSTANCE RemoteCall WITH status <- Status, effects <- applied

(* However many attempts and redirects a call makes of it, and whatever of *)
(* them is late or lost, its caller sees one request: what it does is done *)
(* at most once and not before the call began, and its end is final.       *)
ImplementsRemoteCall == Remote!Spec

(* Every call ends, even if no server ever answers. *)
CallsEnd == \A c \in Calls : phase[c] = "asking" ~> phase[c] = "over"
=============================================================================

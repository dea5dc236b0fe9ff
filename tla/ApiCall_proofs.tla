--------------------------- MODULE ApiCall_proofs ---------------------------
(***************************************************************************)
(* What holds of every call, whatever servers, networks and clocks do.     *)
(***************************************************************************)
EXTENDS ApiCall, TLAPS

(* A request that has the key is for Home, and the key went nowhere else. *)
KeyInv(c) == /\ bearer[c] => at[c] = Home
             /\ trusted[c] \subseteq {Home}

ClearInv(c) == Home \notin Plain => at[c] \notin Plain

(* As long as a request carries a write to a server, none has applied it. *)
WriteInv(c) == /\ carries[c] => c \in Writes
               /\ carries[c] /\ phase[c] \in {"idle", "asking", "flight"} => applied[c] = 0
               /\ c \in Writes => phase[c] # "backoff"
               /\ ~carries[c] \/ phase[c] \notin {"idle", "asking", "flight"} => applied[c] <= 1

(* The budget and what was handed out make up the limit. *)
BodyInv(c) == /\ phase[c] \notin {"body", "over"} => sent[c] = 0 /\ delivered[c] = 0 /\ room[c] = Limit
              /\ phase[c] = "body" => /\ delivered[c] = sent[c]
                                      /\ room[c] = Limit - sent[c]
                                      /\ room[c] >= 0
              /\ outcome[c] = "ok" => delivered[c] = sent[c]

(* An attempt is still to come after a delay; none is after a transient *)
(* answer that was taken for the last.                                  *)
AttemptInv(c) ==
    /\ phase[c] = "backoff" => attempt[c] < MaxAttempts
    /\ phase[c] # "over" => outcome[c] = "none"
    /\ phase[c] = "body" => answer[c] \in Statuses
    /\ phase[c] = "body" /\ c \notin Writes /\ answer[c] = "transient"
         => attempt[c] = MaxAttempts \/ c \in expired
    /\ c \notin Writes
         /\ (outcome[c] = "network" \/ (outcome[c] = "apiError" /\ answer[c] = "transient"))
         => attempt[c] = MaxAttempts \/ c \in expired

CallInv == \A c \in Calls : /\ KeyInv(c)
                            /\ ClearInv(c)
                            /\ WriteInv(c)
                            /\ BodyInv(c)
                            /\ AttemptInv(c)

Inv == TypeOK /\ NoConnectionLeaks /\ CallInv

Step(c) == Start(c) \/ Expire(c) \/ Exchange(c) \/ Doer(c) \/ Parse(c)

LEMMA InvInit == Init => Inv
<1> SUFFICES ASSUME Init PROVE Inv
    OBVIOUS
<1> USE ApiAssumption DEF Init
<1>1. TypeOK
    BY DEF TypeOK, Phases, Running, Outcomes, Statuses, Errors
<1>2. NoConnectionLeaks
    BY DEF NoConnectionLeaks
<1>3. ASSUME NEW c \in Calls
      PROVE  KeyInv(c) /\ ClearInv(c) /\ WriteInv(c) /\ BodyInv(c) /\ AttemptInv(c)
    <2>1. KeyInv(c) /\ ClearInv(c)
        BY DEF KeyInv, ClearInv
    <2>2. WriteInv(c)
        <3>1. carries[c] => c \in Writes
            BY Zenon
        <3> QED
            BY <3>1 DEF WriteInv
    <2>3. BodyInv(c) /\ AttemptInv(c)
        BY DEF BodyInv, AttemptInv
    <2> QED
        BY <2>1, <2>2, <2>3
<1> QED
    BY <1>1, <1>2, <1>3 DEF Inv, CallInv

(* Every step keeps the types; the budget of the body and the attempts left *)
(* bound the counters.                                                       *)
LEMMA TypeStep ==
    ASSUME Inv, NEW c \in Calls, Step(c)
    PROVE  TypeOK'
<1> USE ApiAssumption DEF Inv, TypeOK, CallInv, WriteInv, BodyInv, AttemptInv, Phases, Running,
           Statuses, Errors, Outcomes, Connection, requestVars, bodyVars, history
<1>1. CASE Start(c)
    BY <1>1 DEF Start, Goto
<1>2. CASE Expire(c)
    BY <1>2 DEF Expire
<1>3. CASE Send(c)
    BY <1>3 DEF Send, Goto
<1>4. CASE DialFails(c)
    BY <1>4 DEF DialFails, Answers, Goto
<1>5. CASE DialExpires(c)
    BY <1>5 DEF DialExpires, Answers, Goto
<1>6. CASE Respond(c)
    BY <1>6 DEF Respond, Answers, Goto, MayApply
<1>7. CASE LoseConnection(c)
    BY <1>7 DEF LoseConnection, Answers, Goto, MayApply, Close
<1>8. CASE FlightExpires(c)
    BY <1>8 DEF FlightExpires, Answers, Goto, MayApply, Close
<1>9. ASSUME NEW o \in Origins, RedirectFails(c, o) PROVE TypeOK'
    BY <1>9 DEF RedirectFails, RedirectRefused, Downgrade, Answers, Goto, MayApply, Close
<1>10. ASSUME NEW o \in Origins, Redirect(c, o) PROVE TypeOK'
    <2>1. CASE UNCHANGED <<carries, applied>>
        BY <1>10, <2>1 DEF Redirect, SameOrigin, RedirectRefused, Goto, Close
    <2>2. CASE carries' = [carries EXCEPT ![c] = FALSE] /\ MayApply(c)
        BY <1>10, <2>2 DEF Redirect, SameOrigin, RedirectRefused, Goto, Close, MayApply
    <2> QED
        BY <1>10, <2>1, <2>2 DEF Redirect
<1>11. CASE Retry(c)
    BY <1>11 DEF Retry, CanRetryRequest, LastAttempt, Close, Goto
<1>12. CASE Wake(c)
    BY <1>12 DEF Wake, Goto
<1>13. CASE BackoffExpires(c)
    BY <1>13 DEF BackoffExpires, Ends, Goto
<1>14. CASE Return(c)
    BY <1>14 DEF Return, CanRetryRequest, LastAttempt, OutcomeOf, Ends, Goto
<1>15. ASSUME NEW n \in 1 .. Limit + 1, Read(c, n) PROVE TypeOK'
    <2>1. CASE n <= room[c]
        BY <1>15, <2>1 DEF Read
    <2>2. CASE ~(n <= room[c])
        <3>1. /\ room[c] \in Nat /\ delivered[c] \in Nat /\ n = room[c] + 1
              /\ delivered[c] = sent[c] /\ room[c] = Limit - sent[c]
            BY <1>15, <2>2 DEF Read
        <3>2. /\ room[c] - n = -1
              /\ delivered[c] + room[c] = Limit
              /\ sent[c] + n = Limit + 1
            BY <3>1
        <3>3. /\ phase' \in [Calls -> Phases]
              /\ outcome' \in [Calls -> Outcomes]
              /\ conns' \subseteq Calls \X (1 .. MaxAttempts) \X Origins
            BY <1>15, <2>2 DEF Read, Ends, Goto, Close
        <3>4. /\ room' \in [Calls -> -1 .. Limit]
              /\ delivered' \in [Calls -> 0 .. Limit]
              /\ sent' \in [Calls -> 0 .. Limit + 1]
            BY <1>15, <2>2, <3>2 DEF Read
        <3> QED
            BY <1>15, <3>3, <3>4 DEF Read
    <2> QED
        BY <2>1, <2>2
<1>16. CASE BodyEnds(c)
    BY <1>16 DEF BodyEnds, Ends, Goto, Close
<1>17. CASE BodyBreaks(c)
    BY <1>17 DEF BodyBreaks, Ends, Goto, Close
<1>18. CASE BodyExpires(c)
    BY <1>18 DEF BodyExpires, Ends, Goto, Close
<1> QED
    BY <1>1, <1>2, <1>3, <1>4, <1>5, <1>6, <1>7, <1>8, <1>9, <1>10, <1>11, <1>12, <1>13, <1>14, <1>15, <1>16, <1>17, <1>18 DEF Step, Exchange, Doer, Parse

(* A connection is closed wherever its call leaves it. *)
LEMMA LeakStep ==
    ASSUME Inv, NEW c \in Calls, Step(c)
    PROVE  NoConnectionLeaks'
<1> USE ApiAssumption DEF Inv, TypeOK, NoConnectionLeaks, Connection, Statuses, Errors, Running,
           CallInv, WriteInv, AttemptInv, requestVars, bodyVars, history
<1>1. CASE Start(c)
    BY <1>1 DEF Start, Goto
<1>2. CASE Expire(c)
    BY <1>2 DEF Expire
<1>3. CASE Send(c)
    BY <1>3 DEF Send, Goto
<1>4. CASE DialFails(c)
    BY <1>4 DEF DialFails, Answers, Goto
<1>5. CASE DialExpires(c)
    BY <1>5 DEF DialExpires, Answers, Goto
<1>6. CASE Respond(c)
    BY <1>6 DEF Respond, Answers, Goto, MayApply
<1>7. CASE LoseConnection(c)
    BY <1>7 DEF LoseConnection, Answers, Goto, MayApply, Close
<1>8. CASE FlightExpires(c)
    BY <1>8 DEF FlightExpires, Answers, Goto, MayApply, Close
<1>9. ASSUME NEW o \in Origins, RedirectFails(c, o) PROVE NoConnectionLeaks'
    BY <1>9 DEF RedirectFails, RedirectRefused, Downgrade, Answers, Goto, MayApply, Close
<1>10. ASSUME NEW o \in Origins, Redirect(c, o) PROVE NoConnectionLeaks'
    BY <1>10 DEF Redirect, RedirectRefused, Downgrade, SameOrigin, Goto, MayApply, Close
<1>11. CASE Retry(c)
    BY <1>11 DEF Retry, CanRetryRequest, LastAttempt, Close, Goto
<1>12. CASE Wake(c)
    BY <1>12 DEF Wake, Goto
<1>13. CASE BackoffExpires(c)
    BY <1>13 DEF BackoffExpires, Ends, Goto
<1>14. CASE Return(c)
    <2>1. CASE answer[c] \in Errors
        BY <1>14, <2>1 DEF Return, Ends, Goto
    <2>2. CASE answer[c] \in Statuses
        BY <1>14, <2>2 DEF Return, Goto
    <2> QED
        BY <1>14, <2>1, <2>2 DEF Return
<1>15. ASSUME NEW n \in 1 .. Limit + 1, Read(c, n) PROVE NoConnectionLeaks'
    <2>1. CASE n <= room[c]
        BY <1>15, <2>1 DEF Read
    <2>2. CASE ~(n <= room[c])
        BY <1>15, <2>2 DEF Read, Ends, Goto, Close
    <2> QED
        BY <2>1, <2>2
<1>16. CASE BodyEnds(c)
    BY <1>16 DEF BodyEnds, Ends, Goto, Close
<1>17. CASE BodyBreaks(c)
    BY <1>17 DEF BodyBreaks, Ends, Goto, Close
<1>18. CASE BodyExpires(c)
    BY <1>18 DEF BodyExpires, Ends, Goto, Close
<1> QED
    BY <1>1, <1>2, <1>3, <1>4, <1>5, <1>6, <1>7, <1>8, <1>9, <1>10, <1>11, <1>12, <1>13, <1>14, <1>15, <1>16, <1>17, <1>18 DEF Step, Exchange, Doer, Parse

(* Every step keeps the invariant of the call that takes it; the others do *)
(* not move.                                                               *)
LEMMA CallStep ==
    ASSUME Inv, NEW c \in Calls, Step(c)
    PROVE  CallInv'
<1> USE ApiAssumption DEF Inv, TypeOK, CallInv, KeyInv, ClearInv, WriteInv, BodyInv, AttemptInv,
           Phases, Running, Statuses, Errors, Outcomes, requestVars, bodyVars, history
<1>1. CASE Start(c)
    BY <1>1 DEF Start, Goto
<1>2. CASE Expire(c)
    BY <1>2 DEF Expire
<1>3. CASE Send(c)
    BY <1>3 DEF Send, Goto
<1>4. CASE DialFails(c)
    BY <1>4 DEF DialFails, Answers, Goto
<1>5. CASE DialExpires(c)
    BY <1>5 DEF DialExpires, Answers, Goto
<1>6. CASE Respond(c)
    BY <1>6 DEF Respond, Answers, Goto, MayApply
<1>7. CASE LoseConnection(c)
    BY <1>7 DEF LoseConnection, Answers, Goto, MayApply, Close
<1>8. CASE FlightExpires(c)
    BY <1>8 DEF FlightExpires, Answers, Goto, MayApply, Close
<1>9. ASSUME NEW o \in Origins, RedirectFails(c, o) PROVE CallInv'
    BY <1>9 DEF RedirectFails, RedirectRefused, Downgrade, Answers, Goto, MayApply, Close
<1>10. ASSUME NEW o \in Origins, Redirect(c, o) PROVE CallInv'
    <2>1. CASE UNCHANGED <<carries, applied>>
        <3>1. KeyInv(c)' /\ ClearInv(c)'
            BY <1>10, <2>1 DEF Redirect, SameOrigin, RedirectRefused, Downgrade, Goto, Close
        <3>2. WriteInv(c)' /\ BodyInv(c)' /\ AttemptInv(c)'
            BY <1>10, <2>1 DEF Redirect, RedirectRefused, Goto, Close
        <3>3. ASSUME NEW d \in Calls \ {c}
              PROVE  /\ KeyInv(d)' /\ ClearInv(d)' /\ WriteInv(d)'
                     /\ BodyInv(d)' /\ AttemptInv(d)'
            BY <1>10, <2>1 DEF Redirect, Goto
        <3> QED
            BY <3>1, <3>2, <3>3
    <2>2. CASE carries' = [carries EXCEPT ![c] = FALSE] /\ MayApply(c)
        <3>1. applied'[c] \in {applied[c], IF carries[c] THEN applied[c] + 1 ELSE applied[c]}
            BY <2>2 DEF MayApply
        <3>2. KeyInv(c)' /\ ClearInv(c)' /\ BodyInv(c)' /\ AttemptInv(c)'
            BY <1>10, <2>2 DEF Redirect, SameOrigin, RedirectRefused, Downgrade, Goto, Close
        <3>3. WriteInv(c)'
            BY <1>10, <2>2, <3>1 DEF Redirect, Goto
        <3>4. ASSUME NEW d \in Calls \ {c}
              PROVE  /\ KeyInv(d)' /\ ClearInv(d)' /\ WriteInv(d)'
                     /\ BodyInv(d)' /\ AttemptInv(d)'
            BY <1>10, <2>2 DEF Redirect, Goto, MayApply
        <3> QED
            BY <3>2, <3>3, <3>4
    <2> QED
        BY <1>10, <2>1, <2>2 DEF Redirect
<1>11. CASE Retry(c)
    BY <1>11 DEF Retry, CanRetryRequest, LastAttempt, Close, Goto
<1>12. CASE Wake(c)
    BY <1>12 DEF Wake, Goto
<1>13. CASE BackoffExpires(c)
    BY <1>13 DEF BackoffExpires, Ends, Goto
<1>14. CASE Return(c)
    BY <1>14 DEF Return, CanRetryRequest, LastAttempt, OutcomeOf, Ends, Goto
<1>15. ASSUME NEW n \in 1 .. Limit + 1, Read(c, n) PROVE CallInv'
    BY <1>15 DEF Read, Ends, Goto, Close
<1>16. CASE BodyEnds(c)
    BY <1>16 DEF BodyEnds, Ends, Goto, Close
<1>17. CASE BodyBreaks(c)
    BY <1>17 DEF BodyBreaks, Ends, Goto, Close
<1>18. CASE BodyExpires(c)
    BY <1>18 DEF BodyExpires, Ends, Goto, Close
<1> QED
    BY <1>1, <1>2, <1>3, <1>4, <1>5, <1>6, <1>7, <1>8, <1>9, <1>10, <1>11, <1>12, <1>13, <1>14, <1>15, <1>16, <1>17, <1>18 DEF Step, Exchange, Doer, Parse

THEOREM Invariance == Spec => []Inv
<1>1. Inv /\ [Next]_vars => Inv'
    <2> SUFFICES ASSUME Inv, [Next]_vars PROVE Inv'
        OBVIOUS
    <2>1. CASE Next
        <3>1. PICK c \in Calls : Step(c)
            BY <2>1 DEF Next, Step
        <3> QED
            BY <3>1, TypeStep, LeakStep, CallStep DEF Inv
    <2>2. CASE UNCHANGED vars
        BY <2>2 DEF vars, requestVars, bodyVars, history, Inv, TypeOK, NoConnectionLeaks,
                    Connection, CallInv, KeyInv, ClearInv, WriteInv, BodyInv, AttemptInv
    <2> QED
        BY <2>1, <2>2
<1> QED
    BY InvInit, <1>1, PTL DEF Spec

(* Every variable keeps its type, the counters their bounds. *)
THEOREM TypeCorrect == Spec => []TypeOK
<1>1. Inv => TypeOK
    BY DEF Inv
<1> QED
    BY <1>1, Invariance, PTL

(* No write is carried out twice. *)
THEOREM NoDoubleWrite == Spec => []WritesAppliedOnce
<1>1. Inv => WritesAppliedOnce
    BY DEF Inv, CallInv, WriteInv, WritesAppliedOnce
<1> QED
    BY <1>1, Invariance, PTL

(* The API key reaches no origin but the configured one ... *)
THEOREM KeyConfined == Spec => []KeyStaysHome
<1>1. Inv => KeyStaysHome
    BY DEF Inv, CallInv, KeyInv, KeyStaysHome
<1> QED
    BY <1>1, Invariance, PTL

(* ... and no request that began on https a plaintext one. *)
THEOREM HttpsOnly == Spec => []NeverInTheClear
<1>1. Inv => NeverInTheClear
    BY DEF Inv, CallInv, ClearInv, NeverInTheClear
<1> QED
    BY <1>1, Invariance, PTL

(* Success means that all the server sent was parsed. *)
THEOREM NothingTruncated == Spec => []ParsedWhole
<1>1. Inv => ParsedWhole
    BY DEF Inv, CallInv, BodyInv, ParsedWhole
<1> QED
    BY <1>1, Invariance, PTL

(* No call leaves a connection behind. *)
THEOREM ConnectionsReturned == Spec => []NoConnectionLeaks
<1>1. Inv => NoConnectionLeaks
    BY DEF Inv
<1> QED
    BY <1>1, Invariance, PTL

(* No read gives up early on a failure of the round trip. *)
THEOREM RetriesExhausted == Spec => []FailsOnlyAfterAttempts
<1>1. Inv => FailsOnlyAfterAttempts
    BY DEF Inv, CallInv, AttemptInv, FailsOnlyAfterAttempts
<1> QED
    BY <1>1, Invariance, PTL

-----------------------------------------------------------------------------
(* No call goes on for ever *)

(* The steps an attempt can take at most, with every redirect followed and *)
(* the body read byte by byte.                                             *)
AttemptSteps == 2 * MaxRedirects + Limit + 7

StepsInAttempt(c) ==
    CASE phase[c] = "idle"    -> AttemptSteps
      [] phase[c] = "asking"  -> 2 * (MaxRedirects - hops[c]) + Limit + 6
      [] phase[c] = "flight"  -> 2 * (MaxRedirects - hops[c]) + Limit + 5
      [] phase[c] = "judge"   -> Limit + 4
      [] phase[c] = "body"    -> room[c] + 2
      [] phase[c] = "backoff" -> 0

StepsLeft(c) ==
    (IF phase[c] = "over" THEN 0
     ELSE (MaxAttempts - attempt[c]) * AttemptSteps + StepsInAttempt(c))
    + (IF c \in expired THEN 0 ELSE 1)

LEMMA AttemptsCount ==
    ASSUME NEW a \in Int, NEW k \in Int
    PROVE  (MaxAttempts - (a + 1)) * k = (MaxAttempts - a) * k - k
BY ApiAssumption

LEMMA AttemptsBound ==
    ASSUME NEW m \in Nat, NEW n \in Nat, m + 1 <= n, NEW k \in Nat
    PROVE  m * k \in Nat /\ m * k + k <= n * k
<1>1. PICK d \in Nat : n = m + 1 + d
    <2>1. n - m - 1 \in Nat /\ n = m + 1 + (n - m - 1)
        OBVIOUS
    <2> QED
        BY <2>1
<1>2. m * k \in Nat /\ d * k \in Nat
    OBVIOUS
<1>3. n * k = m * k + k + d * k
    BY <1>1
<1> QED
    BY <1>2, <1>3

LEMMA InAttemptBound ==
    ASSUME Inv, NEW c \in Calls, phase[c] # "over"
    PROVE  StepsInAttempt(c) \in 0 .. AttemptSteps
<1> USE ApiAssumption DEF Inv, TypeOK
<1>1. /\ phase[c] \in Running \cup {"idle"} /\ hops[c] \in 0 .. MaxRedirects
      /\ room[c] \in -1 .. Limit /\ phase[c] = "body" => room[c] >= 0
    BY DEF CallInv, BodyInv, Phases
<1> QED
    BY <1>1 DEF Running, StepsInAttempt, AttemptSteps

LEMMA StepsLeftBound ==
    ASSUME Inv, NEW c \in Calls
    PROVE  StepsLeft(c) \in 0 .. MaxAttempts * AttemptSteps + 1
<1>1. /\ MaxAttempts - attempt[c] \in Nat /\ MaxAttempts \in Nat
      /\ MaxAttempts - attempt[c] + 1 <= MaxAttempts /\ AttemptSteps \in Nat
    BY ApiAssumption DEF Inv, TypeOK, AttemptSteps
<1>2. PICK budget, whole \in Int :
          /\ budget = (MaxAttempts - attempt[c]) * AttemptSteps
          /\ whole = MaxAttempts * AttemptSteps
          /\ budget >= 0 /\ budget + AttemptSteps <= whole
    BY <1>1, AttemptsBound
<1>3. CASE phase[c] = "over"
    BY <1>1, <1>2, <1>3 DEF StepsLeft
<1>4. CASE phase[c] # "over"
    BY <1>1, <1>2, <1>4, InAttemptBound DEF StepsLeft
<1> QED
    BY <1>3, <1>4

OthersStay(c) ==
    \A d \in Calls \ {c} :
        /\ phase'[d] = phase[d] /\ attempt'[d] = attempt[d]
        /\ hops'[d] = hops[d] /\ room'[d] = room[d] /\ (d \in expired' <=> d \in expired)

LEMMA OthersStayStep ==
    ASSUME Inv, NEW c \in Calls, Step(c)
    PROVE  OthersStay(c)
<1> USE DEF OthersStay, Inv, TypeOK, requestVars, bodyVars, history
<1>1. CASE Start(c)
    BY <1>1 DEF Start, Goto
<1>2. CASE Expire(c)
    BY <1>2 DEF Expire
<1>3. CASE Send(c)
    BY <1>3 DEF Send, Goto
<1>4. CASE DialFails(c)
    BY <1>4 DEF DialFails, Answers, Goto
<1>5. CASE DialExpires(c)
    BY <1>5 DEF DialExpires, Answers, Goto
<1>6. CASE Respond(c)
    BY <1>6 DEF Respond, Answers, Goto
<1>7. CASE LoseConnection(c)
    BY <1>7 DEF LoseConnection, Answers, Goto
<1>8. CASE FlightExpires(c)
    BY <1>8 DEF FlightExpires, Answers, Goto
<1>9. ASSUME NEW o \in Origins, RedirectFails(c, o) PROVE OthersStay(c)
    BY <1>9 DEF RedirectFails, Answers, Goto
<1>10. ASSUME NEW o \in Origins, Redirect(c, o) PROVE OthersStay(c)
    BY <1>10 DEF Redirect, RedirectRefused, Goto
<1>11. CASE Retry(c)
    BY <1>11 DEF Retry, LastAttempt, Goto
<1>12. CASE Wake(c)
    BY <1>12 DEF Wake, Goto
<1>13. CASE BackoffExpires(c)
    BY <1>13 DEF BackoffExpires, Ends, Goto
<1>14. CASE Return(c)
    BY <1>14 DEF Return, Ends, Goto
<1>15. ASSUME NEW n \in 1 .. Limit + 1, Read(c, n) PROVE OthersStay(c)
    BY <1>15 DEF Read, Ends, Goto
<1>16. CASE BodyEnds(c)
    BY <1>16 DEF BodyEnds, Ends, Goto
<1>17. CASE BodyBreaks(c)
    BY <1>17 DEF BodyBreaks, Ends, Goto
<1>18. CASE BodyExpires(c)
    BY <1>18 DEF BodyExpires, Ends, Goto
<1> QED
    BY <1>1, <1>2, <1>3, <1>4, <1>5, <1>6, <1>7, <1>8, <1>9, <1>10, <1>11, <1>12, <1>13, <1>14, <1>15, <1>16, <1>17, <1>18 DEF Step, Exchange, Doer, Parse

LEMMA StepsLeftStep ==
    ASSUME Inv, NEW c \in Calls, Step(c)
    PROVE  StepsLeft(c)' < StepsLeft(c)
<1> DEFINE budget == (MaxAttempts - attempt[c]) * AttemptSteps
<1>k. AttemptSteps \in Nat /\ AttemptSteps = 2 * MaxRedirects + Limit + 7
    BY ApiAssumption DEF AttemptSteps
<1>b. /\ budget \in Nat
      /\ StepsLeft(c) = (IF phase[c] = "over" THEN 0 ELSE budget + StepsInAttempt(c))
                        + (IF c \in expired THEN 0 ELSE 1)
      /\ phase[c] = "backoff" => budget > 0
    <2>1. MaxAttempts - attempt[c] \in Nat
        BY ApiAssumption DEF Inv, TypeOK
    <2>2. phase[c] = "backoff" => MaxAttempts - attempt[c] > 0
        BY ApiAssumption DEF Inv, TypeOK, CallInv, AttemptInv
    <2>3. \A m \in Nat : m * AttemptSteps \in Nat /\ (m > 0 => m * AttemptSteps > 0)
        BY <1>k, ApiAssumption
    <2> QED
        BY <2>1, <2>2, <2>3 DEF StepsLeft
<1>s. attempt'[c] = attempt[c] =>
          StepsLeft(c)' = (IF phase'[c] = "over" THEN 0 ELSE budget + StepsInAttempt(c)')
                          + (IF c \in expired' THEN 0 ELSE 1)
    BY DEF StepsLeft
<1>w. Limit \in Nat /\ MaxRedirects \in Nat
    BY ApiAssumption
<1> HIDE DEF budget
<1> USE <1>w DEF Inv, TypeOK, CallInv, BodyInv, Running, Phases, Statuses, Errors, StepsInAttempt,
           requestVars, bodyVars, history
<1>1. CASE Start(c)
    <2>1. /\ phase[c] = "idle" /\ phase'[c] = "asking" /\ hops'[c] = hops[c]
          /\ attempt'[c] = attempt[c] /\ expired' = expired /\ hops[c] \in 0 .. MaxRedirects
        BY <1>1 DEF Start, Goto
    <2>2. StepsInAttempt(c) = AttemptSteps /\ StepsInAttempt(c)' < AttemptSteps
                            /\ StepsInAttempt(c)' \in Int
        BY <2>1, <1>k
    <2> QED
        BY <2>1, <2>2, <1>b, <1>s, <1>k
<1>2. CASE Expire(c)
    BY <1>2, <1>b, <1>k, <1>s DEF Expire
<1>3. CASE Send(c)
    BY <1>3, <1>b, <1>k, <1>s DEF Send, Goto
<1>4. CASE DialFails(c)
    BY <1>4, <1>b, <1>k, <1>s DEF DialFails, Answers, Goto
<1>5. CASE DialExpires(c)
    BY <1>5, <1>b, <1>k, <1>s DEF DialExpires, Answers, Goto
<1>6. CASE Respond(c)
    BY <1>6, <1>b, <1>k, <1>s DEF Respond, Answers, Goto
<1>7. CASE LoseConnection(c)
    BY <1>7, <1>b, <1>k, <1>s DEF LoseConnection, Answers, Goto
<1>8. CASE FlightExpires(c)
    BY <1>8, <1>b, <1>k, <1>s DEF FlightExpires, Answers, Goto
<1>9. ASSUME NEW o \in Origins, RedirectFails(c, o) PROVE StepsLeft(c)' < StepsLeft(c)
    BY <1>9, <1>b, <1>k, <1>s DEF RedirectFails, Answers, Goto
<1>10. ASSUME NEW o \in Origins, Redirect(c, o) PROVE StepsLeft(c)' < StepsLeft(c)
    BY <1>10, <1>b, <1>k, <1>s DEF Redirect, RedirectRefused, Goto
<1>11. CASE Retry(c)
    BY <1>11, <1>b, <1>k, <1>s DEF Retry, LastAttempt, Goto
<1>12. CASE Wake(c)
    <2>1. /\ phase[c] = "backoff" /\ phase'[c] = "asking" /\ hops'[c] = 0
          /\ attempt'[c] = attempt[c] + 1 /\ expired' = expired
        BY <1>12 DEF Wake, Goto
    <2>2. (MaxAttempts - attempt'[c]) * AttemptSteps = budget - AttemptSteps
        BY <2>1, <1>k, AttemptsCount DEF budget
    <2>3. StepsInAttempt(c)' = AttemptSteps - 1
        BY <2>1, <1>k
    <2>4. StepsLeft(c)' = budget - AttemptSteps + StepsInAttempt(c)'
                          + (IF c \in expired THEN 0 ELSE 1)
        BY <2>1, <2>2 DEF StepsLeft
    <2>5. StepsLeft(c) = budget + (IF c \in expired THEN 0 ELSE 1)
        BY <2>1, <1>b DEF budget
    <2> HIDE DEF StepsInAttempt, Inv
    <2> QED
        BY <2>3, <2>4, <2>5, <1>k, <1>b
<1>13. CASE BackoffExpires(c)
    BY <1>13, <1>b, <1>k, <1>s DEF BackoffExpires, Ends, Goto
<1>14. CASE Return(c)
    BY <1>14, <1>b, <1>k, <1>s DEF Return, Ends, Goto
<1>15. ASSUME NEW n \in 1 .. Limit + 1, Read(c, n) PROVE StepsLeft(c)' < StepsLeft(c)
    <2>1. CASE n <= room[c]
        <3>1. /\ phase[c] = "body" /\ phase'[c] = "body" /\ room'[c] = room[c] - n
              /\ attempt'[c] = attempt[c] /\ expired' = expired
            BY <1>15, <2>1 DEF Read
        <3> QED
            BY <3>1, <1>b, <1>s
    <2>2. CASE ~(n <= room[c])
        BY <1>15, <2>2, <1>b, <1>s DEF Read, Ends, Goto
    <2> QED
        BY <2>1, <2>2
<1>16. CASE BodyEnds(c)
    BY <1>16, <1>b, <1>k, <1>s DEF BodyEnds, Ends, Goto
<1>17. CASE BodyBreaks(c)
    BY <1>17, <1>b, <1>k, <1>s DEF BodyBreaks, Ends, Goto
<1>18. CASE BodyExpires(c)
    BY <1>18, <1>b, <1>k, <1>s DEF BodyExpires, Ends, Goto
<1> QED
    BY <1>1, <1>2, <1>3, <1>4, <1>5, <1>6, <1>7, <1>8, <1>9, <1>10, <1>11, <1>12, <1>13, <1>14, <1>15, <1>16, <1>17, <1>18 DEF Step, Exchange, Doer, Parse

(* Every step uses up one of the steps its call has left, and of no other  *)
(* call: whatever servers answer, redirect or send, a call is over after   *)
(* MaxAttempts * AttemptSteps + 1 steps at most.                           *)
THEOREM CallsAreBounded ==
    Spec => /\ [](\A c \in Calls : StepsLeft(c) \in 0 .. MaxAttempts * AttemptSteps + 1)
            /\ [][\E c \in Calls : /\ StepsLeft(c)' < StepsLeft(c)
                                   /\ \A d \in Calls \ {c} : StepsLeft(d)' = StepsLeft(d)]_vars
<1>1. Inv => \A c \in Calls : StepsLeft(c) \in 0 .. MaxAttempts * AttemptSteps + 1
    BY StepsLeftBound
<1>2. Inv /\ [Next]_vars
        => [\E c \in Calls : /\ StepsLeft(c)' < StepsLeft(c)
                             /\ \A d \in Calls \ {c} : StepsLeft(d)' = StepsLeft(d)]_vars
    <2> SUFFICES ASSUME Inv, NEW c \in Calls, Step(c)
                 PROVE  /\ StepsLeft(c)' < StepsLeft(c)
                        /\ \A d \in Calls \ {c} : StepsLeft(d)' = StepsLeft(d)
        BY DEF Next, Step
    <2>1. StepsLeft(c)' < StepsLeft(c)
        BY StepsLeftStep
    <2>2. ASSUME NEW d \in Calls \ {c} PROVE StepsLeft(d)' = StepsLeft(d)
        <3>1. /\ phase'[d] = phase[d] /\ attempt'[d] = attempt[d] /\ hops'[d] = hops[d]
              /\ room'[d] = room[d] /\ (d \in expired' <=> d \in expired)
            BY OthersStayStep DEF OthersStay
        <3>2. StepsInAttempt(d)' = StepsInAttempt(d)
            BY <3>1 DEF StepsInAttempt
        <3> QED
            BY <3>1, <3>2 DEF StepsLeft
    <2> QED
        BY <2>1, <2>2
<1> QED
    BY <1>1, <1>2, Invariance, PTL DEF Spec

-----------------------------------------------------------------------------
(* To its caller, a call is one request *)

LEMMA StatusOfCall ==
    ASSUME NEW c \in Calls
    PROVE  /\ phase[c] = "idle" => Status[c] = "idle"
           /\ phase[c] = "over" => Status[c] = IF outcome[c] = "ok" THEN "ok" ELSE "failed"
           /\ phase[c] \notin {"idle", "over"} => Status[c] = "running"
BY DEF Status

LEMMA StatusOfCallNext ==
    ASSUME NEW c \in Calls
    PROVE  /\ phase'[c] = "idle" => Status'[c] = "idle"
           /\ phase'[c] = "over" => Status'[c] = IF outcome'[c] = "ok" THEN "ok" ELSE "failed"
           /\ phase'[c] \notin {"idle", "over"} => Status'[c] = "running"
BY DEF Status

(* A server that gets a write may carry it out if none has. *)
LEMMA MayApplyOnce ==
    ASSUME Inv, NEW c \in Calls, phase[c] = "flight", MayApply(c)
    PROVE  \/ applied' = applied
           \/ /\ c \in Writes /\ applied[c] = 0
              /\ applied' = [applied EXCEPT ![c] = 1]
<1>1. applied' = applied \/ applied' = [applied EXCEPT ![c] = IF carries[c] THEN @ + 1 ELSE @]
    BY DEF MayApply
<1>2. CASE carries[c]
    <2>1. c \in Writes /\ applied[c] = 0
        BY <1>2 DEF Inv, CallInv, WriteInv
    <2> QED
        BY <1>1, <1>2, <2>1
<1>3. CASE ~carries[c]
    BY <1>1, <1>3 DEF Inv, TypeOK
<1> QED
    BY <1>2, <1>3

(* What a step of a call is for its caller. *)
Begins(c)   == phase[c] = "idle" /\ phase'[c] = "asking" /\ applied' = applied
Finishes(c) == phase[c] \in Running /\ phase'[c] = "over" /\ applied' = applied
GoesOn(c)   == phase[c] \in Running /\ phase'[c] \in Running /\ applied' = applied
Works(c)    == phase[c] = "flight" /\ phase'[c] \in Running /\ MayApply(c)

LEMMA KindOfStep ==
    ASSUME Inv, NEW c \in Calls, Step(c)
    PROVE  Begins(c) \/ Finishes(c) \/ GoesOn(c) \/ Works(c)
<1> USE DEF Begins, Finishes, GoesOn, Works, Running, Inv, TypeOK, history
<1>1. CASE Start(c)
    BY <1>1 DEF Start, Goto
<1>2. CASE Expire(c)
    BY <1>2 DEF Expire
<1>3. CASE Send(c)
    BY <1>3 DEF Send, Goto
<1>4. CASE DialFails(c)
    BY <1>4 DEF DialFails, Answers, Goto
<1>5. CASE DialExpires(c)
    BY <1>5 DEF DialExpires, Answers, Goto
<1>6. CASE Respond(c)
    BY <1>6 DEF Respond, Answers, Goto
<1>7. CASE LoseConnection(c)
    BY <1>7 DEF LoseConnection, Answers, Goto
<1>8. CASE FlightExpires(c)
    BY <1>8 DEF FlightExpires, Answers, Goto
<1>9. ASSUME NEW o \in Origins, RedirectFails(c, o) PROVE Works(c)
    BY <1>9 DEF RedirectFails, Answers, Goto
<1>10. ASSUME NEW o \in Origins, Redirect(c, o) PROVE GoesOn(c) \/ Works(c)
    BY <1>10 DEF Redirect, Goto
<1>11. CASE Retry(c)
    BY <1>11 DEF Retry, Goto
<1>12. CASE Wake(c)
    BY <1>12 DEF Wake, Goto
<1>13. CASE BackoffExpires(c)
    BY <1>13 DEF BackoffExpires, Ends, Goto
<1>14. CASE Return(c)
    BY <1>14 DEF Return, Ends, Goto
<1>15. ASSUME NEW n \in 1 .. Limit + 1, Read(c, n) PROVE Finishes(c) \/ GoesOn(c)
    BY <1>15 DEF Read, Ends, Goto
<1>16. CASE BodyEnds(c)
    BY <1>16 DEF BodyEnds, Ends, Goto
<1>17. CASE BodyBreaks(c)
    BY <1>17 DEF BodyBreaks, Ends, Goto
<1>18. CASE BodyExpires(c)
    BY <1>18 DEF BodyExpires, Ends, Goto
<1> QED
    BY <1>1, <1>2, <1>3, <1>4, <1>5, <1>6, <1>7, <1>8, <1>9, <1>10, <1>11, <1>12, <1>13, <1>14, <1>15, <1>16, <1>17, <1>18 DEF Step, Exchange, Doer, Parse

LEMMA OutcomesStay ==
    ASSUME Inv, NEW c \in Calls, Step(c), NEW d \in Calls \ {c}
    PROVE  phase'[d] = phase[d] /\ outcome'[d] = outcome[d]
<1>1. phase'[d] = phase[d]
    BY OthersStayStep DEF OthersStay
<1>2. outcome'[d] = outcome[d]
    BY DEF Inv, TypeOK, Step, Exchange, Doer, Parse, Start, Expire, Send, DialFails, DialExpires,
           Respond, LoseConnection, FlightExpires, RedirectFails, Redirect, Retry, Wake,
           BackoffExpires, Return, Read, BodyEnds, BodyBreaks, BodyExpires, Ends
<1> QED
    BY <1>1, <1>2

LEMMA RemoteStep ==
    ASSUME Inv, NEW c \in Calls, Step(c)
    PROVE  Remote!Next \/ UNCHANGED Remote!vars
<1>1. ASSUME NEW d \in Calls \ {c} PROVE Status'[d] = Status[d]
    BY <1>1, OutcomesStay, StatusOfCall, StatusOfCallNext
<1>2. \A f : Status'[c] = f => Status' = [Status EXCEPT ![c] = f]
    <2>1. \A d \in Calls : d # c => Status'[d] = Status[d]
        BY <1>1
    <2>2. Status = [d \in Calls |-> Status[d]] /\ Status' = [d \in Calls |-> Status'[d]]
        BY DEF Status
    <2> HIDE DEF Status
    <2> QED
        BY <2>1, <2>2
<1>3. CASE Begins(c)
    <2>1. Status[c] = "idle" /\ Status'[c] = "running"
        BY <1>3, StatusOfCall, StatusOfCallNext DEF Begins
    <2>2. Remote!Begin(c)
        BY <1>2, <1>3, <2>1 DEF Remote!Begin, Begins
    <2> QED
        BY <2>2 DEF Remote!Next
<1>4. CASE Finishes(c)
    <2>1. Status[c] = "running" /\ Status'[c] \in {"ok", "failed"}
        BY <1>4, StatusOfCall, StatusOfCallNext DEF Finishes, Running
    <2>2. Remote!Finish(c)
        BY <1>2, <1>4, <2>1 DEF Remote!Finish, Finishes
    <2> QED
        BY <2>2 DEF Remote!Next
<1>5. CASE phase[c] \in Running /\ phase'[c] \in Running
    <2>1. Status[c] = "running" /\ Status'[c] = "running"
        BY <1>5, StatusOfCall, StatusOfCallNext DEF Running
    <2>2. Status' = Status
        <3>1. \A d \in Calls : Status'[d] = Status[d]
            BY <1>1, <2>1
        <3>2. Status = [d \in Calls |-> Status[d]] /\ Status' = [d \in Calls |-> Status'[d]]
            BY DEF Status
        <3> HIDE DEF Status
        <3> QED
            BY <3>1, <3>2
    <2>3. CASE applied' = applied
        BY <2>2, <2>3 DEF Remote!vars
    <2>4. CASE Works(c) /\ applied' # applied
        <3>1. c \in Writes /\ applied[c] = 0 /\ applied' = [applied EXCEPT ![c] = 1]
            BY <2>4, MayApplyOnce DEF Works
        <3>2. Remote!TakeEffect(c)
            BY <2>1, <2>2, <3>1 DEF Remote!TakeEffect
        <3> QED
            BY <3>2 DEF Remote!Next
    <2>5. applied' = applied \/ Works(c)
        BY <1>5, KindOfStep DEF Begins, Finishes, GoesOn, Running
    <2> QED
        BY <2>3, <2>4, <2>5
<1> QED
    BY <1>3, <1>4, <1>5, KindOfStep DEF GoesOn, Works, Running

(* The pipeline of doers keeps the promise of RemoteCall. *)
THEOREM CallIsRemoteCall == Spec => ImplementsRemoteCall
<1>1. Init => Remote!Init
    BY DEF Init, Remote!Init, Status
<1>2. Inv /\ [Next]_vars => [Remote!Next]_(Remote!vars)
    <2> SUFFICES ASSUME Inv, [Next]_vars PROVE Remote!Next \/ UNCHANGED Remote!vars
        OBVIOUS
    <2>1. CASE Next
        <3>1. PICK c \in Calls : Step(c)
            BY <2>1 DEF Next, Step
        <3> QED
            BY <3>1, RemoteStep
    <2>2. CASE UNCHANGED vars
        BY <2>2 DEF vars, history, Remote!vars, Status
    <2> QED
        BY <2>1, <2>2
<1> QED
    BY <1>1, <1>2, Invariance, PTL DEF Spec, ImplementsRemoteCall, Remote!Spec
=============================================================================

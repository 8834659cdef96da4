----------------------------- MODULE HostedAgent -----------------------------
(***************************************************************************)
(* The requests of the hosted API: the rate limiter and the ingress        *)
(* (src/hosted/security.py, src/hosted_api/security.py), the slots of      *)
(* src/hosted_api/app.py, the run of the agent (src/agent) with its two    *)
(* model calls, and what guards and records them (src/ai/provider.py,      *)
(* src/hosted/ai_runtime.py, the ledger ai_calls).                         *)
(*                                                                         *)
(* A request is where it is in its handler; the answer it gets is left     *)
(* out, and so is what the model says.  Time is a count of ticks: windows  *)
(* of the limiter are Window ticks long, days DayLength, and MonthStart is *)
(* the calendar.  The ledger is what the guard asks of it, the tokens of a *)
(* day and of a month.                                                     *)
(***************************************************************************)
EXTENDS Integers, Sequences, FiniteSets

CONSTANTS
    Requests,        \* connections, each with one request at a time
    Clients,         \* what effective_client_ip tells apart
    None,            \* no request
    AgentLimit, SourceLimit,    \* requests of a client in a window
    MaxBuckets,      \* windows kept at a time
    Window, DayLength,
    MonthStart,      \* day -> the first day of its month
    MaxRuns,         \* max_active_agent_runs
    Attempts,        \* of one model call: 1 + ai_max_extra_attempts
    DailyBudget, MonthlyBudget, \* in tokens; 0 is no limit
    MaxTokens,       \* bound: tokens of one call
    MaxTime          \* bound: ticks

ASSUME LimitAssumption ==
    /\ AgentLimit \in Nat \ {0} /\ SourceLimit \in Nat \ {0}
    /\ MaxBuckets \in Nat \ {0}
    /\ Window \in Nat \ {0} /\ DayLength \in Nat \ {0}
    /\ MaxTime \in Nat

Day(t) == t \div DayLength

Days == 0 .. Day(MaxTime)

ASSUME CalendarAssumption ==
    /\ MonthStart \in [Days -> Days]
    /\ \A d, e \in Days : d <= e => MonthStart[d] <= MonthStart[e]
ASSUME RunAssumption ==
    /\ IsFiniteSet(Requests)
    /\ MaxRuns \in Nat \ {0} /\ Attempts \in Nat \ {0}
    /\ DailyBudget \in Nat /\ MonthlyBudget \in Nat /\ MaxTokens \in Nat

VARIABLES
    now,
    windows,     \* the OrderedDict of the limiter: [key, expires, count] in order
    admitted,    \* history: key -> its admissions in the last Window, each
                 \* with its time and its number among those of that time
    request,     \* request -> where it is, or None
    slots,       \* free slots of the semaphore
    spent        \* period -> the day it begins -> tokens the ledger has of it

agent == <<now, windows, admitted, request, slots, spent>>

Categories == {"agent", "source"}

Keys == Categories \X Clients

Limit(key) == IF key[1] = "agent" THEN AgentLimit ELSE SourceLimit

Periods == {"day", "month"}

\* day.replace(day=1): the beginning of the day's or the month's period.
Begin(period, day) == IF period = "day" THEN day ELSE MonthStart[day]

Budget(period) == IF period = "day" THEN DailyBudget ELSE MonthlyBudget

AgentInit ==
    /\ now = 0
    /\ windows = <<>>
    /\ admitted = [k \in Keys |-> {}]
    /\ request = [r \in Requests |-> None]
    /\ slots = MaxRuns
    /\ spent = [p \in Periods |-> [d \in Days |-> 0]]

At(r, step) == request[r] # None /\ request[r].step = step

Move(r, where) == request' = [request EXCEPT ![r] = where]

\* The response is sent, or nobody is there to get it.
Respond(r) == Move(r, None)

-----------------------------------------------------------------------------
(* Ingress.                                                                *)

\* _expire: from the front, while the first window is over.
Current ==
    LET open == {i \in DOMAIN windows : windows[i].expires > now}
    IN  IF open = {} THEN <<>>
        ELSE SubSeq(windows, CHOOSE i \in open : \A j \in open : i <= j, Len(windows))

\* Mutant: The oldest window makes room for a new client.
AdmissionEvicts(key) ==
    LET current == Current
        mine == {i \in DOMAIN current : current[i].key = key}
        i == CHOOSE j \in mine : TRUE
        kept == IF Len(current) >= MaxBuckets THEN Tail(current) ELSE current
    IN  IF mine = {}
        THEN [admit |-> TRUE,
              windows |-> Append(kept,
                  [key |-> key, expires |-> now + Window, count |-> 1])]
        ELSE IF current[i].count >= Limit(key)
             THEN [admit |-> FALSE, windows |-> current]
             ELSE [admit |-> TRUE,
                   windows |-> [current EXCEPT ![i].count = @ + 1]]

\* RateLimiter.admit: the windows after a request of this key, and whether it
\* may go on.
Admission(key) ==
    LET current == Current
        mine == {i \in DOMAIN current : current[i].key = key}
        i == CHOOSE j \in mine : TRUE
    IN  IF mine = {}
        THEN IF Len(current) >= MaxBuckets
             THEN [admit |-> FALSE, windows |-> current]
             ELSE [admit |-> TRUE,
                   windows |-> Append(current,
                       [key |-> key, expires |-> now + Window, count |-> 1])]
        ELSE IF current[i].count >= Limit(key)
             THEN [admit |-> FALSE, windows |-> current]
             ELSE [admit |-> TRUE,
                   windows |-> [current EXCEPT ![i].count = @ + 1]]

\* The admissions with one more.
Counted(admissions) ==
    admissions \cup {<<now, Cardinality({a \in admissions : a[1] = now}) + 1>>}

\* _admit up to the body: 429, or the body is read.
Arrive(r, key) ==
    LET admission == Admission(key) IN
    /\ request[r] = None
    /\ windows' = admission.windows
    /\ IF admission.admit
       THEN /\ admitted' = [admitted EXCEPT ![key] = Counted(@)]
            /\ Move(r, [step |-> "body", of |-> key[1]])
       ELSE UNCHANGED <<admitted, request>>
    /\ UNCHANGED <<now, slots, spent>>

\* The client hangs up, or the body is too large, or the route has it: a
\* source is read and answered, an agent run goes on.
ReadBody(r) ==
    /\ At(r, "body")
    /\ \/ Respond(r)
       \/ request[r].of = "agent" /\ Move(r, [step |-> "enter"])
    /\ UNCHANGED <<now, windows, admitted, slots, spent>>

\* run_agent: 422, 503, 429, or a slot.
Enter(r) ==
    /\ At(r, "enter")
    /\ \/ /\ Respond(r)
          /\ UNCHANGED slots
       \/ /\ slots > 0
          /\ slots' = slots - 1
          /\ Move(r, [step |-> "guard", call |-> "decision", day |-> Day(now)])
    /\ UNCHANGED <<now, windows, admitted, spent>>

-----------------------------------------------------------------------------
(* The run of an agent, in a slot.                                         *)

\* However agent_service.run ends: the slot is free again.
Leave(r) ==
    /\ Respond(r)
    /\ slots' = slots + 1

\* Mutant: > for >=, a budget that is used up lets more calls pass.
NotOverBudget ==
    /\ \E p \in Periods : Budget(p) > 0
    /\ \A p \in Periods : Budget(p) > 0 => spent[p][Begin(p, Day(now))] <= Budget(p)

\* total_ai_tokens_since the beginning of the day and of the month it is at
\* the time of the check.
WithinBudget ==
    /\ \E p \in Periods : Budget(p) > 0
    /\ \A p \in Periods : Budget(p) > 0 => spent[p][Begin(p, Day(now))] < Budget(p)

\* AuditedAIProvider.complete took the time of the call, and asks the guard.
\* A refusal is recorded without tokens; it ends the run.
Guard(r) ==
    /\ At(r, "guard")
    /\ IF WithinBudget
       THEN /\ Move(r, [step |-> "send", call |-> request[r].call,
                        day |-> request[r].day, attempt |-> 1])
            /\ UNCHANGED slots
       ELSE Leave(r)
    /\ UNCHANGED <<now, windows, admitted, spent>>

\* QwenProvider._post: one attempt.  A transient error is tried again, any
\* other is recorded without tokens and ends the run; usage can be missing.
Send(r) ==
    /\ At(r, "send")
    /\ \/ /\ request[r].attempt < Attempts
          /\ Move(r, [request[r] EXCEPT !.attempt = @ + 1])
          /\ UNCHANGED slots
       \/ Leave(r)
       \/ /\ \E tokens \in 0 .. MaxTokens :
                Move(r, [step |-> "record", call |-> request[r].call,
                         day |-> request[r].day, tokens |-> tokens])
          /\ UNCHANGED slots
    /\ UNCHANGED <<now, windows, admitted, spent>>

\* _record, under the time the call was prepared at; a ledger that cannot be
\* written does not stop the run.  A decision goes on to the executor; an
\* answer, its citations valid or not, is sent.
Record(r) ==
    LET at == request[r] IN
    /\ At(r, "record")
    /\ \/ spent' = [p \in Periods |-> [spent[p] EXCEPT ![Begin(p, at.day)] = @ + at.tokens]]
       \/ UNCHANGED spent
    /\ IF at.call = "decision"
       THEN Move(r, [step |-> "tool"]) /\ UNCHANGED slots
       ELSE Leave(r)
    /\ UNCHANGED <<now, windows, admitted>>

\* parse_decision, _execute_tool and the first part of FinalAnswerStage.answer:
\* what cannot be parsed or found ends the run, as does a direct answer; a
\* package with sources is put to the model.
Tool(r) ==
    /\ At(r, "tool")
    /\ \/ Leave(r)
       \/ /\ Move(r, [step |-> "guard", call |-> "answer", day |-> Day(now)])
          /\ UNCHANGED slots
    /\ UNCHANGED <<now, windows, admitted, spent>>

-----------------------------------------------------------------------------
Recent(admissions, t) == {a \in admissions : a[1] > t - Window}

Tick ==
    /\ now < MaxTime
    /\ now' = now + 1
    /\ admitted' = [k \in Keys |-> Recent(admitted[k], now + 1)]
    /\ UNCHANGED <<windows, request, slots, spent>>

\* The process is gone, and with it all but the database.
Restart ==
    /\ windows' = <<>>
    /\ admitted' = [k \in Keys |-> {}]
    /\ request' = [r \in Requests |-> None]
    /\ slots' = MaxRuns
    /\ UNCHANGED <<now, spent>>

Handle(r) ==
    \/ \E key \in Keys : Arrive(r, key)
    \/ ReadBody(r) \/ Enter(r)
    \/ Guard(r) \/ Send(r) \/ Record(r) \/ Tool(r)

AgentNext == (\E r \in Requests : Handle(r)) \/ Tick \/ Restart

AgentSpec == AgentInit /\ [][AgentNext]_agent

-----------------------------------------------------------------------------
(* What the module promises.                                               *)

Calls == {"decision", "answer"}

InSlot(r) == request[r] # None /\ request[r].step \in {"guard", "send", "record", "tool"}

Placed ==
    [step: {"body"}, of: Categories]
    \cup [step: {"enter", "tool"}]
    \cup [step: {"guard"}, call: Calls, day: Days]
    \cup [step: {"send"}, call: Calls, day: Days, attempt: 1 .. Attempts]
    \cup [step: {"record"}, call: Calls, day: Days, tokens: 0 .. MaxTokens]

ASSUME NoneAssumption == None \notin Placed

\* A slot is free or taken by one run.
AgentTypeOK ==
    /\ now \in 0 .. MaxTime
    /\ request \in [Requests -> Placed \cup {None}]
    /\ slots \in 0 .. MaxRuns
    /\ slots + Cardinality({r \in Requests : InSlot(r)}) = MaxRuns
    /\ spent \in [Periods -> [Days -> Nat]]

(***************************************************************************)
(* The guard is no reservation (ai_runtime.py), yet the slots bound what   *)
(* calls in flight can add: a day or a month exceeds its budget by no more *)
(* than two calls of every run, those in flight when the budget was last   *)
(* found not used up, and those prepared before midnight (of the last day  *)
(* of the month), checked against the next period and charged to the old.  *)
(***************************************************************************)
OverrunBounded ==
    \A p \in Periods : Budget(p) > 0 =>
        \A d \in Days : spent[p][d] < Budget(p) + 2 * MaxRuns * MaxTokens

(***************************************************************************)
(* A client gets through less than twice its limit within the time of one  *)
(* window, wherever that time begins, as long as the process lives: the    *)
(* windows of a key do not overlap, and end in the order they began.       *)
(***************************************************************************)
RateKept == \A key \in Keys : Cardinality(admitted[key]) < 2 * Limit(key)
=============================================================================

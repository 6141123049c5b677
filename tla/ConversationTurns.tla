------------------------- MODULE ConversationTurns -------------------------
(***************************************************************************)
(* Talking to the PM: user messages, the model turns that answer them, the *)
(* plan proposals drawn from the conversation, and the usage policy that   *)
(* pays for the turns.  A turn is a request handler of many awaits, each a *)
(* step here: it checks, inserts its attempt, reserves its largest charge  *)
(* against the policy, dispatches, streams, records usage, resolves the    *)
(* reservation and closes the attempt.  A server that starts again closes  *)
(* the attempts it finds open and then their reservations.                 *)
(***************************************************************************)
EXTENDS FiniteSetsExt, Integers

CONSTANTS Conversations,
          Turns,        \* bound: the turns that are ever prepared
          MaxMessages,  \* bound: user messages in a conversation
          MaxCharge,    \* the conservative price of a turn
          Limit,        \* limit_usd of the usage policy
          MaxFaults     \* bound: restarts and writes that fail

VARIABLES conv,     \* conv[c]: the conversation, its last user message, its proposal
          attempt,  \* attempt[t]: the durable row, its message and its reservation
          turn,     \* turn[t]: the handler's place and locals
          reader,   \* the turn that holds the policy row FOR UPDATE, or 0
          booting,  \* reservations are not reconciled yet
          faults

turnVars == <<conv, attempt, turn, reader, booting, faults>>

None == "none"
OpenAttempt == {"pending", "streaming"}
Terminal == {"succeeded", "failed", "cancelled"}

NoAttempt == [status |-> "absent", conv |-> None, msg |-> 0, provider |-> FALSE,
              output |-> None, usage |-> "pending",
              res |-> None, dispatching |-> FALSE, actual |-> 0,
              event |-> None,   \* usage_observed: none, queued in memory, or stored
              cost |-> 0]       \* what the provider charges for it

NoTurn == [pc |-> "idle", conv |-> None, msg |-> 0, held |-> 0,
           end |-> None, known |-> FALSE, release |-> FALSE, aborted |-> FALSE]

Init ==
    /\ conv = [c \in Conversations |->
                  [status |-> "active", msgs |-> 0, proposal |-> FALSE, archiving |-> FALSE]]
    /\ attempt = [t \in Turns |-> NoAttempt]
    /\ turn = [t \in Turns |-> NoTurn]
    /\ reader = 0
    /\ booting = FALSE
    /\ faults = 0

AttemptsOf(c) == {t \in Turns : attempt[t].conv = c /\ attempt[t].status # "absent"}
hasActiveTurnAttempt(c) == \E t \in AttemptsOf(c) : attempt[t].status \in OpenAttempt
Busy(c) == hasActiveTurnAttempt(c) \/ conv[c].proposal

GoTo(t, pc) == turn' = [turn EXCEPT ![t].pc = pc]

-----------------------------------------------------------------------------
(* Messages, proposals and archiving, each under the conversation's lock   *)

submitUserMessage(c) ==
    /\ ~booting
    /\ conv[c].status = "active"
    /\ ~Busy(c)
    /\ conv[c].msgs < MaxMessages
    /\ conv' = [conv EXCEPT ![c].msgs = @ + 1]
    /\ UNCHANGED <<attempt, turn, reader, booting, faults>>

\* propose: assertScope locks the conversation; a unique index allows one pending
BeginProposal(c) ==
    /\ ~booting
    /\ conv[c].status = "active"
    /\ conv[c].msgs > 0
    /\ ~Busy(c)
    /\ conv' = [conv EXCEPT ![c].proposal = TRUE]
    /\ UNCHANGED <<attempt, turn, reader, booting, faults>>

\* settleSuccess and settleFailure
SettleProposal(c) ==
    /\ conv[c].proposal
    /\ conv' = [conv EXCEPT ![c].proposal = FALSE]
    /\ UNCHANGED <<attempt, turn, reader, booting, faults>>

\* archiveWorkItem looks for work in progress without locking anything, then
\* archives
ArchiveChecks(c) ==
    /\ ~booting
    /\ conv[c].status = "active"
    /\ ~Busy(c)
    /\ conv' = [conv EXCEPT ![c].archiving = TRUE]
    /\ UNCHANGED <<attempt, turn, reader, booting, faults>>

ArchiveCommits(c) ==
    /\ conv[c].archiving
    /\ conv' = [conv EXCEPT ![c].status = "archived", ![c].archiving = FALSE]
    /\ UNCHANGED <<attempt, turn, reader, booting, faults>>

-----------------------------------------------------------------------------
(* Preparing a turn                                                        *)

LatestFor(c, m) ==
    LET own == {t \in AttemptsOf(c) : attempt[t].msg = m}
    IN IF own = {} THEN NoAttempt ELSE attempt[Max(own)]

\* prepare's checks: the latest message, never answered, or retried after a
\* failure.  The prior attempt is not looked at again.
Prepare(t, c, allowRetry) ==
    LET prior == LatestFor(c, conv[c].msgs)
    IN /\ ~booting
       /\ turn[t].pc = "idle"
       /\ \A u \in Turns : u < t => turn[u].pc # "idle"
       /\ conv[c].status = "active"
       /\ conv[c].msgs > 0
       /\ IF allowRetry THEN prior.status \in {"failed", "cancelled"}
                        ELSE prior.status = "absent"
       /\ turn' = [turn EXCEPT ![t] =
             [NoTurn EXCEPT !.pc = "prepared", !.conv = c, !.msg = conv[c].msgs]]
       /\ UNCHANGED <<conv, attempt, reader, booting, faults>>

\* begin, under the conversation's lock
Begin(t) ==
    LET c == turn[t].conv
    IN /\ turn[t].pc = "prepared"
       /\ IF /\ conv[c].status = "active"
             /\ ~Busy(c)
             /\ conv[c].msgs = turn[t].msg
          THEN /\ attempt' = [attempt EXCEPT ![t] =
                    [NoAttempt EXCEPT !.status = "pending", !.conv = c, !.msg = turn[t].msg]]
               /\ GoTo(t, "begun")
          ELSE GoTo(t, "done") /\ UNCHANGED attempt
       /\ UNCHANGED <<conv, reader, booting, faults>>

\* the policy row is locked, so reservations read one at a time; usage events
\* and settlements are not held up by it
Counted(a) ==
    CASE a.res = "active" -> MaxCharge
      [] a.res = "retained" -> a.actual
      [] a.res = "settled" /\ a.event # "stored" -> a.actual
      [] OTHER -> 0

held == MapThenSumSet(LAMBDA t : Counted(attempt[t]), Turns)
consumed == MapThenSumSet(LAMBDA t : attempt[t].cost,
                          {t \in Turns : attempt[t].event = "stored"})

ReserveReads(t) ==
    /\ turn[t].pc = "begun"
    /\ reader = 0
    /\ reader' = t
    /\ turn' = [turn EXCEPT ![t].pc = "reserving", ![t].held = held]
    /\ UNCHANGED <<conv, attempt, booting, faults>>

\* a later statement of the same transaction sees what committed meanwhile
Reserve(t) ==
    /\ turn[t].pc = "reserving"
    /\ reader' = 0
    /\ IF consumed + turn[t].held + MaxCharge <= Limit
       THEN /\ attempt' = [attempt EXCEPT ![t].res = "active"]
            /\ GoTo(t, "reserved")
       ELSE GoTo(t, "refused") /\ UNCHANGED attempt
    /\ UNCHANGED <<conv, booting, faults>>

\* no adapter, no price, or no budget: the attempt fails before any call
FailUnsent(t) ==
    /\ turn[t].pc \in {"begun", "refused"}
    /\ attempt' = [attempt EXCEPT ![t].status = "failed", ![t].usage = "unavailable"]
    /\ GoTo(t, "done")
    /\ UNCHANGED <<conv, reader, booting, faults>>

-----------------------------------------------------------------------------
(* Running a turn                                                          *)

\* lease.stream: markDispatching, then the adapter is called
Dispatch(t) ==
    /\ turn[t].pc = "reserved"
    /\ attempt' = [attempt EXCEPT ![t].dispatching = TRUE]
    /\ GoTo(t, "sent")
    /\ UNCHANGED <<conv, reader, booting, faults>>

Broken(t) == IF turn[t].aborted THEN "cancelled" ELSE "failed"

\* the call never left, so the adapter says
NotDispatched(t) ==
    /\ turn[t].pc = "sent"
    /\ turn' = [turn EXCEPT ![t].pc = "resolving", ![t].end = Broken(t), ![t].release = TRUE]
    /\ UNCHANGED <<conv, attempt, reader, booting, faults>>

\* the provider charges for the call whether or not anything comes back
ResponseStarts(t) ==
    /\ turn[t].pc = "sent"
    /\ \E cost \in 0..MaxCharge :
          \/ /\ attempt' = [attempt EXCEPT ![t].cost = cost, ![t].provider = TRUE,
                                           ![t].status = "streaming"]
             /\ GoTo(t, "streaming")
          \/ /\ attempt' = [attempt EXCEPT ![t].cost = cost]
             /\ turn' = [turn EXCEPT ![t].pc = "resolving", ![t].end = Broken(t)]
    /\ UNCHANGED <<conv, reader, booting, faults>>

\* the first visible text; an archived conversation takes no more messages
startVisibleOutput(t) ==
    /\ turn[t].pc = "streaming"
    /\ attempt[t].output = None
    /\ IF conv[turn[t].conv].status = "active"
       THEN attempt' = [attempt EXCEPT ![t].output = "streaming"] /\ UNCHANGED turn
       ELSE /\ turn' = [turn EXCEPT ![t].pc = "resolving", ![t].end = Broken(t)]
            /\ UNCHANGED attempt
    /\ UNCHANGED <<conv, reader, booting, faults>>

\* the stream ends with its usage; an answer without visible text is a failure
StreamEnds(t) ==
    /\ turn[t].pc = "streaming"
    /\ turn' = [turn EXCEPT ![t].pc = "observing", ![t].known = TRUE,
          ![t].end = IF attempt[t].output = None THEN Broken(t) ELSE "succeeded"]
    /\ UNCHANGED <<conv, attempt, reader, booting, faults>>

\* it breaks off, is stopped, or the provider sends nonsense: no usage
StreamBreaks(t) ==
    /\ turn[t].pc = "streaming"
    /\ turn' = [turn EXCEPT ![t].pc = "resolving", ![t].end = Broken(t)]
    /\ UNCHANGED <<conv, attempt, reader, booting, faults>>

Stop(t) ==
    /\ turn[t].pc \in {"sent", "streaming"}
    /\ ~turn[t].aborted
    /\ turn' = [turn EXCEPT ![t].aborted = TRUE]
    /\ UNCHANGED <<conv, attempt, reader, booting, faults>>

\* trace.observe: stored, or queued in memory when the write fails
Observe(t) ==
    /\ turn[t].pc = "observing"
    /\ \/ /\ attempt' = [attempt EXCEPT ![t].event = "stored"]
          /\ UNCHANGED faults
       \/ /\ faults < MaxFaults
          /\ faults' = faults + 1
          /\ attempt' = [attempt EXCEPT ![t].event = "queued"]
    /\ GoTo(t, "resolving")
    /\ UNCHANGED <<conv, reader, booting>>

\* drain: a queued event is stored, or given up after its retries
TelemetryRetries(t) ==
    /\ attempt[t].event = "queued"
    /\ \E event \in {"stored", None} : attempt' = [attempt EXCEPT ![t].event = event]
    /\ UNCHANGED <<conv, turn, reader, booting, faults>>

\* settle with the usage, release what never left, else retain the largest charge
resolve(a, outcome) ==
    IF a.res # "active" THEN a
    ELSE [a EXCEPT !.res = outcome,
                   !.actual = CASE outcome = "settled" -> a.cost
                                [] outcome = "retained" -> MaxCharge
                                [] OTHER -> 0]

\* Variant: a call that brought no usage is taken for one that never left.
OutcomeByUsage(t) == IF turn[t].known THEN "settled" ELSE "released"

Outcome(t) == IF turn[t].known THEN "settled"
              ELSE IF turn[t].release /\ ~attempt[t].provider THEN "released" ELSE "retained"

\* a failure here is swallowed and leaves the reservation active
Resolve(t) ==
    /\ turn[t].pc = "resolving"
    /\ \/ attempt' = [attempt EXCEPT ![t] = resolve(@, Outcome(t))] /\ UNCHANGED faults
       \/ /\ faults < MaxFaults
          /\ faults' = faults + 1
          /\ UNCHANGED attempt
    /\ GoTo(t, "ending")
    /\ UNCHANGED <<conv, reader, booting>>

\* Variant: only a successful turn finalises its message.
FinalisedIfSucceeded(a, status) ==
    [a EXCEPT !.status = status,
              !.output = IF status = "succeeded" THEN "complete" ELSE @]

\* succeed, cancel or fail: the message is finalised with the attempt
Finalised(a, status) ==
    [a EXCEPT !.status = status,
              !.output = IF @ = None THEN None
                         ELSE IF status = "succeeded" THEN "complete" ELSE "interrupted"]

CloseAttempt(t) ==
    /\ turn[t].pc = "ending"
    /\ attempt' = [attempt EXCEPT ![t] =
          [Finalised(@, turn[t].end) EXCEPT
              !.usage = IF turn[t].known THEN "exact" ELSE "unavailable"]]
    /\ GoTo(t, "done")
    /\ UNCHANGED <<conv, reader, booting, faults>>

-----------------------------------------------------------------------------
(* Restart                                                                 *)

\* Variant: only attempts that had begun to stream are looked for.
reconcileStreams(a) ==
    IF a.status # "streaming" THEN a
    ELSE [Finalised(a, "cancelled") EXCEPT
            !.usage = IF a.event = "stored" THEN "exact" ELSE "unavailable"]

\* all handlers and queued events are gone; open attempts are cancelled, with
\* the usage that was stored; proposals fail
reconcileOrphans(a) ==
    LET found == IF a.event = "queued" THEN [a EXCEPT !.event = None] ELSE a
    IN IF a.status \notin OpenAttempt THEN found
       ELSE [Finalised(found, "cancelled") EXCEPT
               !.usage = IF found.event = "stored" THEN "exact" ELSE "unavailable"]

Restart ==
    /\ faults < MaxFaults
    /\ faults' = faults + 1
    /\ attempt' = [t \in Turns |-> reconcileOrphans(attempt[t])]
    /\ turn' = [t \in Turns |-> IF turn[t].pc = "idle" THEN turn[t]
                                ELSE [NoTurn EXCEPT !.pc = "done"]]
    /\ conv' = [c \in Conversations |->
                  [conv[c] EXCEPT !.proposal = FALSE, !.archiving = FALSE]]
    /\ reader' = 0
    /\ booting' = TRUE

\* then the reservations that are still active; only now are the routes served
reconcileReservations ==
    /\ booting
    /\ booting' = FALSE
    /\ attempt' = [t \in Turns |->
          LET a == attempt[t]
          IN resolve(a, IF a.usage = "exact" THEN "settled"
                        ELSE IF ~a.dispatching /\ ~a.provider THEN "released"
                             ELSE "retained")]
    /\ UNCHANGED <<conv, turn, reader, faults>>

Handle(t) ==
    \/ Begin(t) \/ ReserveReads(t) \/ Reserve(t) \/ FailUnsent(t)
    \/ Dispatch(t) \/ NotDispatched(t) \/ ResponseStarts(t)
    \/ StreamEnds(t) \/ StreamBreaks(t)
    \/ Observe(t) \/ Resolve(t) \/ CloseAttempt(t)

Next ==
    \/ \E c \in Conversations :
          \/ submitUserMessage(c) \/ BeginProposal(c) \/ SettleProposal(c)
          \/ ArchiveChecks(c) \/ ArchiveCommits(c)
          \/ \E t \in Turns, allowRetry \in BOOLEAN : Prepare(t, c, allowRetry)
    \/ \E t \in Turns :
          Handle(t) \/ startVisibleOutput(t) \/ Stop(t) \/ TelemetryRetries(t)
    \/ Restart \/ reconcileReservations

Spec == Init /\ [][Next]_turnVars

\* A handler that is running goes on: every await of it returns, the provider's
\* within its timeout.  A server that stopped is started again.
TurnFairness ==
    /\ \A t \in Turns : WF_turnVars(Handle(t))
    /\ WF_turnVars(reconcileReservations)

-----------------------------------------------------------------------------
(* Properties                                                              *)

\* At most one thing speaks in a conversation, a turn or a proposal, and a message
\* is still streaming only for an open attempt: whichever way a turn ends, stopped,
\* broken off or cut by a restart, it never leaves half a message open.
OneSpeaker ==
    /\ \A c \in Conversations :
          /\ \A t, u \in AttemptsOf(c) :
                {attempt[t].status, attempt[u].status} \subseteq OpenAttempt => t = u
          /\ conv[c].proposal => ~hasActiveTurnAttempt(c)
    /\ \A t \in Turns :
          /\ attempt[t].output = "streaming" => attempt[t].status = "streaming"
          /\ attempt[t].status = "succeeded" => attempt[t].output = "complete"

\* What the provider has charged for turns, told or not, never exceeds the usage
\* policy's limit: not by reservations that overlap, not while a charge moves from
\* its reservation to its usage event, and not across a restart.
SpendWithinPolicy ==
    MapThenSumSet(LAMBDA t : attempt[t].cost, Turns) <= Limit

\* An attempt is leased work: it is begun once, its call leaves once, and it is
\* closed once, as an answer or without one (turnService.ts, the attempts' status).
\* A retry is an attempt of its own.
AttemptState(t) ==
    CASE attempt[t].status = "absent"    -> "absent"
      [] attempt[t].status = "succeeded" -> "applied"
      [] attempt[t].status \in {"failed", "cancelled"} -> "dropped"
      [] attempt[t].status \in OpenAttempt -> IF attempt[t].dispatching THEN "held" ELSE "queued"
Attempts == INSTANCE LeasedWork WITH Items <- Turns, MayRequeue <- FALSE,
                                     work <- [t \in Turns |-> AttemptState(t)]
TurnsAreLeasedWork == Attempts!Spec

\* Every attempt that is begun is closed, through restarts: a conversation is never
\* left refusing messages for a turn that nobody runs.
Open(t) == attempt[t].status \in OpenAttempt
TurnsSettle == \A t \in Turns : Open(t) ~> ~Open(t)
=============================================================================

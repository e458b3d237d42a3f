------------------------------- MODULE AdSync -------------------------------
(***************************************************************************)
(* AD mode: the service loop (src/src/runner.rs) and its drain pass        *)
(* (src/src/modes/ad.rs) between the broker, reached over HTTP             *)
(* (src/src/server.rs), and the directory, reached over LDAP               *)
(* (src/src/connectors/ldap.rs).                                           *)
(*                                                                         *)
(* The agent is one task.  pc is the await it is suspended at, or down; an *)
(* action runs from one await to the next.  call is the request the agent  *)
(* waits for: the peer answers it in an action of its own, and a request   *)
(* the agent stops waiting for may still reach the peer (late).            *)
(*                                                                         *)
(* The shutdown signal is looked at first (biased select): once it is      *)
(* there the pass is not resumed, but dropped at the await it has reached. *)
(*                                                                         *)
(* Operations with a forest context are not modelled here.  The broker and *)
(* the directory are external: they do what the agent's code relies on.    *)
(***************************************************************************)
EXTENDS Integers, Sequences, FiniteSets

CONSTANTS
    Op,          \* operations the broker may enqueue
    Account,     \* directory accounts
    KindOf,      \* the opType of each operation
    AcctOf,      \* the account each operation is about
    WithModify,  \* creations that set a password (one is given, and
                 \* password_writeback is on); updates that change something
    Batch,       \* runner.rs, BATCH: the limit of a poll
    Redeliver,   \* operations the broker offers again if they were claimed
                 \* and are not completed; the others it offers once
    MaxFaults    \* bound: signals, crashes, errors and timeouts together

Kind == {"CREATE_ACCOUNT", "ENABLE_ACCOUNT", "DISABLE_ACCOUNT",
         "UPDATE_ATTRIBUTES", "TEST_CONNECTION", "SYNC_USERS",
         "UNREADABLE"}   \* of unknown type, or without what its type needs

ASSUME OpAssumption ==
    /\ IsFiniteSet(Op)
    /\ KindOf \in [Op -> Kind]
    /\ AcctOf \in [Op -> Account]
    /\ WithModify \subseteq Op
ASSUME BatchAssumption == Batch \in Nat \ {0}
ASSUME BoundAssumption == Redeliver \subseteq Op /\ MaxFaults \in Nat

VARIABLES
    pc, signal,              \* the agent: where it waits; has it been told to stop
    conn,                    \* its LDAP connection
    call,                    \* the request it waits for
    batch,                   \* the operations of this pass still to do (during
                             \* the poll: those of an answer not yet received)
    step,                    \* the LDAP request of Head(batch) it is at
    result,                  \* the outcome of Head(batch)
    counters,                \* SyncCounters of this pass
    passLog,                 \* history: the outcomes this pass logged
    status, queue,           \* the broker: state of each operation, those pending
    accounts, served,        \* the directory: accounts; history: requests it did
    audited,                 \* the audit log: AD_OP_OK, AD_OP_FAIL (appends that
                             \* returned Ok)
    late,                    \* abandoned requests that may still arrive
    faults                   \* faults so far

agent == <<pc, signal, conn, call, batch, step, result, counters, passLog>>
broker == <<status, queue>>
directory == <<accounts, served>>
vars == <<agent, broker, directory, audited, late, faults>>

(* The requests of the directory each kind of operation makes, in order:   *)
(* create_account; set_uac, for enable and disable; update_attributes;     *)
(* test_base and search_users.                                             *)
CreateRequests(o) == IF o \in WithModify THEN <<"add", "unicodePwd">> ELSE <<"add">>
SetUacRequests == <<"find", "modify">>
UpdateRequests(o) == IF o \in WithModify THEN <<"find", "modify">> ELSE <<"find">>
SearchRequests == <<"read">>

(* process: an operation it cannot read asks nothing.                      *)
Script(o) ==
    CASE KindOf[o] = "CREATE_ACCOUNT"    -> CreateRequests(o)
      [] KindOf[o] = "UPDATE_ATTRIBUTES" -> UpdateRequests(o)
      [] KindOf[o] \in {"ENABLE_ACCOUNT", "DISABLE_ACCOUNT"} -> SetUacRequests
      [] KindOf[o] \in {"TEST_CONNECTION", "SYNC_USERS"} -> SearchRequests
      [] OTHER -> << >>

SyncCounters == [inspected : Nat, created : Nat, updated : Nat,
                 disabled : Nat, failed : Nat]

NoCounts == [inspected |-> 0, created |-> 0, updated |-> 0, disabled |-> 0,
             failed |-> 0]

(* A slip: a failure that is counted but not inspected.                    *)
RecordFailureOnly(ok, c, o) ==
    IF ok THEN [c EXCEPT !.inspected = @ + 1]
    ELSE [c EXCEPT !.failed = @ + 1]

(* SyncCounters::record_ok and record_failure.                             *)
Record(ok, c, o) ==
    LET one(b) == IF b THEN 1 ELSE 0
    IN  [inspected |-> c.inspected + 1,
         created   |-> c.created + one(ok /\ KindOf[o] = "CREATE_ACCOUNT"),
         updated   |-> c.updated
                       + one(ok /\ KindOf[o] \in {"UPDATE_ATTRIBUTES", "ENABLE_ACCOUNT"}),
         disabled  |-> c.disabled + one(ok /\ KindOf[o] = "DISABLE_ACCOUNT"),
         failed    |-> c.failed + one(~ok)]

Init ==
    /\ pc = "down" /\ signal = FALSE /\ conn = "none" /\ call = "none"
    /\ batch = << >> /\ step = 0 /\ result = FALSE
    /\ counters = NoCounts /\ passLog = {}
    /\ status = [o \in Op |-> "absent"] /\ queue = << >>
    /\ accounts \in SUBSET Account /\ served = {}
    /\ audited = {} /\ late = {} /\ faults = 0
-----------------------------------------------------------------------------
(* Faults, and what an abandoned request leaves behind.                    *)

Fault == faults < MaxFaults /\ faults' = faults + 1

(* The request on its way when the agent stops waiting, if there is one.   *)
(* It takes a fault to abandon one, so the count of faults tells it from   *)
(* every other, be they alike.                                             *)
Outstanding ==
    IF call # "sent" THEN {}
    ELSE IF pc = "poll" THEN {[to |-> "poll", no |-> faults']}
    ELSE IF pc = "ldap"
    THEN {[to |-> "ldap", no |-> faults', op |-> Head(batch), step |-> step]}
    ELSE {[to |-> "complete", no |-> faults', op |-> Head(batch), ok |-> result]}

(* The pass ends at the await it has reached: its batch, its counters and  *)
(* its connection are dropped.                                             *)
Abandon(next) ==
    /\ pc' = next /\ conn' = "none" /\ call' = "none"
    /\ batch' = << >> /\ step' = 0 /\ result' = FALSE
    /\ counters' = NoCounts /\ passLog' = {}
    /\ late' = late \cup Outstanding

Running == ~signal
-----------------------------------------------------------------------------
(* The broker.                                                             *)

Enqueue(o) ==
    /\ status[o] = "absent"
    /\ status' = [status EXCEPT ![o] = "pending"]
    /\ queue' = Append(queue, o)
    /\ UNCHANGED <<agent, directory, audited, late, faults>>

ClaimCount == IF Len(queue) < Batch THEN Len(queue) ELSE Batch

(* GET /agent/ad/operations: the oldest pending operations become claimed. *)
Claim ==
    LET claimed == {queue[i] : i \in 1..ClaimCount}
    IN  /\ status' = [o \in Op |-> IF o \in claimed THEN "claimed" ELSE status[o]]
        /\ queue' = SubSeq(queue, ClaimCount + 1, Len(queue))

(* POST /agent/ad/operations/{id}/complete, refused unless claimed.        *)
Complete(o, ok) ==
    /\ status' = [status EXCEPT ![o] =
           IF @ # "claimed" THEN @ ELSE IF ok THEN "done" ELSE "failed"]
    /\ UNCHANGED queue

InHand(o) == \E i \in 1..Len(batch) : batch[i] = o

(* A claim expires.  That it does so while the agent still works on the    *)
(* operation counts as a fault.                                            *)
Requeue(o) ==
    /\ o \in Redeliver
    /\ status[o] = "claimed"
    /\ IF InHand(o) THEN Fault ELSE UNCHANGED faults
    /\ status' = [status EXCEPT ![o] = "requeued"]
    /\ queue' = Append(queue, o)
    /\ UNCHANGED <<agent, directory, audited, late>>
-----------------------------------------------------------------------------
(* The directory.                                                          *)

CanServe(o, n) ==
    CASE Script(o)[n] = "add"  -> AcctOf[o] \notin accounts
      [] Script(o)[n] = "read" -> TRUE
      [] OTHER                 -> AcctOf[o] \in accounts

Serve(o, n) ==
    /\ CanServe(o, n)
    /\ accounts' = accounts \cup (IF Script(o)[n] = "add" THEN {AcctOf[o]} ELSE {})
    /\ served' = served \cup {<<o, n>>}

DirectoryServes ==
    /\ pc = "ldap" /\ call = "sent"
    /\ Serve(Head(batch), step)
    /\ call' = "ok"
    /\ UNCHANGED <<pc, signal, conn, batch, step, result, counters, passLog,
                   broker, audited, late, faults>>

(* It refuses a request it cannot serve, and may refuse any other.         *)
DirectoryRefuses ==
    /\ pc = "ldap" /\ call = "sent"
    /\ call' = "refused"
    /\ UNCHANGED <<pc, signal, conn, batch, step, result, counters, passLog,
                   broker, directory, audited, late, faults>>

(* An abandoned request arrives after all; nobody reads the answer.        *)
LateArrival(r) ==
    /\ r \in late
    /\ late' = late \ {r}
    /\ \/ r.to = "poll" /\ Claim /\ UNCHANGED directory
       \/ r.to = "complete" /\ Complete(r.op, r.ok) /\ UNCHANGED directory
       \/ r.to = "ldap" /\ Serve(r.op, r.step) /\ UNCHANGED broker
    /\ UNCHANGED <<agent, audited, faults>>
-----------------------------------------------------------------------------
(* The agent: the loop.                                                    *)

(* run: open the log, write RUN_START and enter the loop.                  *)
Start ==
    /\ pc = "down"
    /\ pc' = "cycle"
    /\ UNCHANGED <<signal, conn, call, batch, step, result, counters, passLog,
                   broker, directory, audited, late, faults>>

(* run_one: fetch_config and heartbeat; neither's outcome stops the pass.  *)
BeginPass ==
    /\ Running /\ pc = "cycle"
    /\ pc' = "connect"
    /\ UNCHANGED <<signal, conn, call, batch, step, result, counters, passLog,
                   broker, directory, audited, late, faults>>

(* A slip: the agent polls before it has bound.                            *)
PollUnbound ==
    /\ Running /\ pc = "connect"
    /\ pc' = "poll" /\ call' = "sent"
    /\ UNCHANGED <<signal, conn, batch, step, result, counters, passLog,
                   broker, directory, audited, late, faults>>

(* run_once: only a bound agent polls.                                     *)
Connected ==
    /\ Running /\ pc = "connect"
    /\ pc' = "poll" /\ conn' = "up" /\ call' = "sent"
    /\ UNCHANGED <<signal, batch, step, result, counters, passLog,
                   broker, directory, audited, late, faults>>

(* A pass that returns an error (RUN_ERROR): no bind, no answer to the     *)
(* poll, or no way to write to the audit log.                              *)
PassFails ==
    /\ Running
    /\ pc \in {"connect", "poll", "complete", "unbind"}
    /\ Fault
    /\ Abandon("sleep")
    /\ UNCHANGED <<signal, broker, directory, audited>>

BrokerClaims ==
    /\ pc = "poll" /\ call = "sent"
    /\ Claim
    /\ batch' = SubSeq(queue, 1, ClaimCount)
    /\ call' = "ok"
    /\ UNCHANGED <<pc, signal, conn, step, result, counters, passLog,
                   directory, audited, late, faults>>

(* To the next operation: its first LDAP request goes out, or it fails on  *)
(* the spot; after the last one the connection is unbound.                 *)
Proceed(ops) ==
    /\ batch' = ops
    /\ \/ /\ ops = << >>
          /\ pc' = "unbind" /\ call' = "none" /\ step' = 0 /\ result' = FALSE
          /\ UNCHANGED counters
       \/ /\ ops # << >>
          /\ Script(Head(ops)) = << >> \/ conn # "up"
          /\ pc' = "complete" /\ call' = "sent" /\ step' = 0 /\ result' = FALSE
          /\ counters' = Record(FALSE, counters, Head(ops))
       \/ /\ ops # << >>
          /\ Script(Head(ops)) # << >> /\ conn = "up"
          /\ pc' = "ldap" /\ call' = "sent" /\ step' = 1 /\ result' = FALSE
          /\ UNCHANGED counters

PollReturns ==
    /\ Running /\ pc = "poll" /\ call = "ok"
    /\ Proceed(batch)
    /\ UNCHANGED <<signal, conn, passLog, broker, directory, audited, late, faults>>
-----------------------------------------------------------------------------
(* The agent: one operation.                                               *)

(* A slip: a failure is not reported.                                      *)
FinishQuietly(ok) ==
    /\ pc' = "complete" /\ call' = (IF ok THEN "sent" ELSE "ok") /\ result' = ok
    /\ counters' = Record(ok, counters, Head(batch))
    /\ UNCHANGED step

(* The outcome is counted and sent to the broker.                          *)
Finish(ok) ==
    /\ pc' = "complete" /\ call' = "sent" /\ result' = ok
    /\ counters' = Record(ok, counters, Head(batch))
    /\ UNCHANGED step

(* Slips: a password that could not be set is passed over; a refused       *)
(* request is sent again.                                                  *)
PassOverRefusal == Finish(step = 2)
RetryRefused == call' = "sent" /\ UNCHANGED <<pc, step, result, counters>>

(* The first request that is refused ends the operation.                   *)
OnRefusal == Finish(FALSE)

(* process: the next request after a success, until the last.              *)
LdapReturns ==
    /\ Running /\ pc = "ldap"
    /\ \/ call = "ok" /\ step = Len(Script(Head(batch))) /\ Finish(TRUE)
       \/ call = "refused" /\ OnRefusal
       \/ /\ call = "ok" /\ step < Len(Script(Head(batch)))
          /\ step' = step + 1 /\ call' = "sent"
          /\ UNCHANGED <<pc, result, counters>>
    /\ UNCHANGED <<signal, conn, batch, passLog, broker, directory, audited,
                   late, faults>>

(* The connection is gone, and with it the request or its answer; later    *)
(* operations of the pass fail on the same connection.                     *)
LdapConnectionLost ==
    /\ Running /\ pc = "ldap"
    /\ Fault
    /\ conn' = "broken"
    /\ late' = late \cup Outstanding
    /\ Finish(FALSE)
    /\ UNCHANGED <<signal, batch, passLog, broker, directory, audited>>

BrokerCompletes ==
    /\ pc = "complete" /\ call = "sent"
    /\ Complete(Head(batch), result)
    /\ call' = "ok"
    /\ UNCHANGED <<pc, signal, conn, batch, step, result, counters, passLog,
                   directory, audited, late, faults>>

(* Slips: the pass stops at the first failure; an operation whose report   *)
(* did not get through is done again.                                      *)
StopAtFailure == IF result THEN Tail(batch) ELSE << >>
RetryUnreported == IF call = "ok" THEN Tail(batch) ELSE batch

(* Every operation of the batch has its turn, once.                        *)
Remaining == Tail(batch)

(* A slip: AD_OP_OK for every operation.                                   *)
LoggedAsOk == <<Head(batch), TRUE>>

Logged == <<Head(batch), result>>

(* A slip: no AD_OP_FAIL for what failed half-way.                         *)
SuccessesOnly == IF result THEN {Logged} ELSE {}

(* audit.append: one record, whatever came of the operation.               *)
Appended == {Logged}

(* complete has returned, or failed, which is ignored: the outcome is      *)
(* logged and the next operation begins.                                   *)
CompleteReturns ==
    /\ Running /\ pc = "complete"
    /\ \/ call = "ok" /\ UNCHANGED faults
       \/ call = "sent" /\ Fault
    /\ late' = late \cup Outstanding
    /\ audited' = audited \cup Appended
    /\ passLog' = passLog \cup {Logged}
    /\ Proceed(Remaining)
    /\ UNCHANGED <<signal, conn, broker, directory>>

(* The end of a pass: SYNC_SUMMARY, and a report if the pass did anything. *)
Unbound ==
    /\ Running /\ pc = "unbind"
    /\ conn' = "none"
    /\ IF counters.inspected > 0
       THEN pc' = "report" /\ UNCHANGED <<counters, passLog>>
       ELSE pc' = "sleep" /\ counters' = NoCounts /\ passLog' = {}
    /\ UNCHANGED <<signal, call, batch, step, result, broker, directory, audited,
                   late, faults>>

(* report_run, whatever comes of it.                                       *)
Reported ==
    /\ Running /\ pc = "report"
    /\ pc' = "sleep" /\ counters' = NoCounts /\ passLog' = {}
    /\ UNCHANGED <<signal, conn, call, batch, step, result, broker, directory,
                   audited, late, faults>>

(* The poll interval is over.                                              *)
Wake ==
    /\ Running /\ pc = "sleep"
    /\ pc' = "cycle"
    /\ UNCHANGED <<signal, conn, call, batch, step, result, counters, passLog,
                   broker, directory, audited, late, faults>>
-----------------------------------------------------------------------------
(* The agent: stopping.                                                    *)

(* SIGTERM or Ctrl-C reaches the task that waits for it.                   *)
Signal ==
    /\ pc \notin {"down", "disconnect"} /\ ~signal
    /\ Fault
    /\ signal' = TRUE
    /\ UNCHANGED <<pc, conn, call, batch, step, result, counters, passLog,
                   broker, directory, audited, late>>

(* A slip: the pass is only dropped between two operations.                *)
StopBetweenOps ==
    /\ signal /\ pc \notin {"down", "disconnect", "ldap"}
    /\ UNCHANGED faults
    /\ Abandon("disconnect")
    /\ UNCHANGED <<signal, broker, directory, audited>>

(* The loop's select takes the shutdown branch and drops run_one.          *)
Stop ==
    /\ signal /\ pc \notin {"down", "disconnect"}
    /\ UNCHANGED faults
    /\ Abandon("disconnect")
    /\ UNCHANGED <<signal, broker, directory, audited>>

(* disconnect has returned or failed; RUN_STOP, and the process ends.      *)
Disconnected ==
    /\ pc = "disconnect"
    /\ pc' = "down" /\ signal' = FALSE
    /\ UNCHANGED <<conn, call, batch, step, result, counters, passLog,
                   broker, directory, audited, late, faults>>

Crash ==
    /\ pc # "down"
    /\ Fault
    /\ Abandon("down")
    /\ signal' = FALSE
    /\ UNCHANGED <<broker, directory, audited>>

Next ==
    \/ \E o \in Op : Enqueue(o) \/ Requeue(o)
    \/ DirectoryServes \/ DirectoryRefuses
    \/ \E r \in late : LateArrival(r)
    \/ Start \/ BeginPass \/ Connected \/ PassFails
    \/ BrokerClaims \/ PollReturns
    \/ LdapReturns \/ LdapConnectionLost
    \/ BrokerCompletes \/ CompleteReturns
    \/ Unbound \/ Reported \/ Wake
    \/ Signal \/ Stop \/ Disconnected \/ Crash

Spec == Init /\ [][Next]_vars

(* What makes a stop complete: the agent's own steps, its runtime's timers *)
(* and the timeout of an HTTP request.  LDAP requests have no timeout, and *)
(* nothing is assumed of the directory or of the broker.                   *)
StopFairness == WF_vars(Stop) /\ WF_vars(Disconnected)
StopSpec == Spec /\ StopFairness

(* What makes operations settle: an agent that ended is started again (a   *)
(* service manager does so after a failure, an operator after a stop), and *)
(* broker and directory answer.                                            *)
PeersAnswer ==
    /\ WF_vars(Start) /\ WF_vars(BeginPass) /\ WF_vars(Connected)
    /\ WF_vars(BrokerClaims) /\ WF_vars(PollReturns)
    /\ WF_vars(DirectoryServes \/ DirectoryRefuses) /\ WF_vars(LdapReturns)
    /\ WF_vars(BrokerCompletes) /\ WF_vars(CompleteReturns)
    /\ WF_vars(Unbound) /\ WF_vars(Reported) /\ WF_vars(Wake)
    /\ \A o \in Redeliver : WF_vars(Requeue(o) /\ ~InHand(o))
-----------------------------------------------------------------------------
Status == {"absent", "pending", "claimed", "requeued", "done", "failed"}
Await == {"down", "cycle", "connect", "poll", "ldap", "complete", "unbind",
          "report", "sleep", "disconnect"}
Request == [to : {"poll"}, no : Nat]
             \cup [to : {"ldap"}, no : Nat, op : Op, step : Nat]
             \cup [to : {"complete"}, no : Nat, op : Op, ok : BOOLEAN]

(* Every variable holds a value of the kind the code gives it.  Where the  *)
(* agent waits for an answer it is bound; in an operation there is one, at *)
(* an LDAP request with a step of its script.                              *)
TypeOK ==
    /\ pc \in Await
    /\ signal \in BOOLEAN
    /\ conn \in {"none", "up", "broken"}
    /\ call \in {"none", "sent", "ok", "refused"}
    /\ batch \in Seq(Op)
    /\ step \in Nat
    /\ result \in BOOLEAN
    /\ counters \in SyncCounters
    /\ passLog \subseteq Op \X BOOLEAN
    /\ status \in [Op -> Status]
    /\ queue \in Seq(Op)
    /\ accounts \subseteq Account
    /\ served \subseteq Op \X Nat
    /\ audited \subseteq Op \X BOOLEAN
    /\ late \subseteq Request
    /\ faults \in 0..MaxFaults
    /\ call # "none" => pc \in {"poll", "ldap", "complete"}
    /\ pc \in {"poll", "ldap"} => conn = "up"
    /\ pc \in {"ldap", "complete"} => batch # << >>
    /\ pc = "ldap" => step \in 1..Len(Script(Head(batch)))

CarriedOut(o) ==
    Script(o) # << >> /\ \A n \in 1..Len(Script(o)) : <<o, n>> \in served

(* Success is real: an operation the broker shows as done, or the log as   *)
(* AD_OP_OK, has had every request of it carried out by the directory.     *)
SuccessIsReal ==
    \A o \in Op :
        status[o] = "done" \/ <<o, TRUE>> \in audited => CarriedOut(o)

(* The counters c say of a log what it holds: one inspected per AD_OP      *)
(* record, and each outcome under the counter of its kind.                 *)
Summarizes(c, log) ==
    LET ok(kinds) == {r \in log : r[2] /\ KindOf[r[1]] \in kinds}
    IN  /\ c.inspected = Cardinality(log)
        /\ c.created = Cardinality(ok({"CREATE_ACCOUNT"}))
        /\ c.updated = Cardinality(ok({"ENABLE_ACCOUNT", "UPDATE_ATTRIBUTES"}))
        /\ c.disabled = Cardinality(ok({"DISABLE_ACCOUNT"}))
        /\ c.failed = Cardinality({r \in log : ~r[2]})

(* The summary of a pass counts what the pass logged (modes/ad.rs).        *)
SummaryMatchesLog == pc \in {"unbind", "report"} => Summarizes(counters, passLog)

(* Broker and audit log agree on an operation that is offered only once:   *)
(* they never contradict each other, whatever happens to the agent and its *)
(* reports, and without a fault what the broker shows as settled is in the *)
(* log, but for the operation whose report is just being answered.         *)
LogAgreesWithBroker ==
    \A o \in Op \ Redeliver :
        /\ status[o] = "done" => <<o, FALSE>> \notin audited
        /\ status[o] = "failed" => <<o, TRUE>> \notin audited
        /\ faults = 0 /\ status[o] \in {"done", "failed"} =>
              \/ <<o, status[o] = "done">> \in audited
              \/ pc = "complete" /\ o = Head(batch)

(* Nothing is done twice: if the broker offers an operation only once, the *)
(* agent never sends the directory a request it has already carried out.   *)
NoRepeatedWrite ==
    pc = "ldap" /\ call = "sent" /\ Head(batch) \notin Redeliver =>
        <<Head(batch), step>> \notin served

(* What a fault can cost is bounded: each one leaves at most a batch of    *)
(* operations claimed and in nobody's hands; without one nothing is lost.  *)
LossIsBounded ==
    Cardinality({o \in Op : status[o] = "claimed" /\ ~InHand(o)}) <= Batch * faults

(* A fault can hide at most one change: but for the operation in hand and  *)
(* one per stop, crash, error or timeout, every operation the directory    *)
(* has had a request of is in the audit log, even where requests arrive    *)
(* late and operations are offered again.                                  *)
Recorded(o) == \E ok \in BOOLEAN : <<o, ok>> \in audited
InProgress(o) == pc \in {"ldap", "complete"} /\ o = Head(batch)

Unrecorded(o) == ~InProgress(o) /\ ~Recorded(o)

EvidenceIsComplete ==
    Cardinality({o \in Op : Unrecorded(o) /\ \E x \in served : x[1] = o}) <= faults

(* A fault can keep at most one outcome from the broker: but for one per   *)
(* lost report or expired claim, an operation the log records as AD_OP_OK  *)
(* or AD_OP_FAIL is settled at the broker by the time the record is        *)
(* written, although run_once does not look at what came of the report.    *)
Settled(o) == status[o] \in {"done", "failed"}

OutcomesReachBroker ==
    Cardinality({o \in Op : Recorded(o) /\ ~Settled(o)}) <= faults

(* To its users the agent is a Provisioning service.                       *)
Provisioned == INSTANCE Provisioning WITH effect <- {o \in Op : CarriedOut(o)}
ImplementsProvisioning == Provisioned!Spec

(* A stop completes wherever the signal finds the agent, even inside an    *)
(* LDAP request that is never answered.                                    *)
StopCompletes == signal ~> pc = "down"

(* Every operation that is enqueued is eventually settled, if the broker   *)
(* offers it again when it was lost and everybody answers.                 *)
EveryOpSettles ==
    PeersAnswer => \A o \in Redeliver : status[o] # "absent" ~> Settled(o)

(* When the agent stops gracefully, every change it made to the directory  *)
(* is in the audit log.                                                    *)
EveryChangeIsLogged ==
    pc = "disconnect" =>
        \A o \in Op : CarriedOut(o) => \E ok \in BOOLEAN : <<o, ok>> \in audited
-----------------------------------------------------------------------------
(* Why SuccessIsReal is inductive: the requests of the current operation   *)
(* before its step have been served, and a success that was sent, or is on *)
(* its way, is that of an operation carried out in full.                   *)
ProgressIsReal ==
    pc = "ldap" =>
        /\ \A n \in 1..(step - 1) : <<Head(batch), n>> \in served
        /\ call = "ok" => <<Head(batch), step>> \in served

ReportIsReal ==
    /\ pc = "complete" /\ result => CarriedOut(Head(batch))
    /\ \A r \in late : r.to = "complete" /\ r.ok => CarriedOut(r.op)

(* Why the agent only carries out what was claimed: the queue holds each   *)
(* operation once, while it is open, and nothing is in the hands of the    *)
(* agent or on its way that was never claimed.                             *)
Handed(o) == status[o] \notin {"absent", "pending"}

QueueIsOpen ==
    /\ \A i \in 1..Len(queue) : status[queue[i]] \in {"pending", "requeued"}
    /\ \A i, j \in 1..Len(queue) : queue[i] = queue[j] => i = j

OnlyHanded ==
    /\ \A i \in 1..Len(batch) : Handed(batch[i])
    /\ \A r \in late : r.to # "poll" => Handed(r.op)

(* Why SummaryMatchesLog: a batch holds an operation once, none that this  *)
(* pass has logged, and the counters are ahead of the records of the pass  *)
(* by the outcome that is being reported.                                  *)
BatchIsOrderly ==
    /\ \A i, j \in 1..Len(batch) : batch[i] = batch[j] => i = j
    /\ Len(batch) <= Batch
    /\ pc \notin {"poll", "ldap", "complete"} \/ (pc = "poll" /\ call = "sent")
           => batch = << >>

Outcomes == IF pc = "complete" THEN passLog \cup {Logged} ELSE passLog

PassIsCounted ==
    /\ \A i \in 1..Len(batch), ok \in BOOLEAN : <<batch[i], ok>> \notin passLog
    /\ pc \in {"down", "cycle", "connect", "poll", "sleep", "disconnect"} => passLog = {}
    /\ Summarizes(counters, Outcomes)

(* Why LossIsBounded: what is lost already, what a late poll may still     *)
(* lose, and what a stop that is due will, is paid for by the faults;      *)
(* there are only finitely many requests on their way.                     *)
Lost == {o \in Op : /\ status[o] = "claimed"
                    /\ InHand(o) => pc = "complete" /\ call = "ok" /\ o = Head(batch)}

ToLose ==
    LET due(b) == IF b THEN Batch ELSE 0
    IN  Batch * Cardinality({r \in late : r.to = "poll"}) + due(signal /\ pc # "disconnect")

LossIsPaidFor ==
    IsFiniteSet(late) /\ Cardinality(Lost) + ToLose <= Batch * faults

(* Why EvidenceIsComplete: what is hidden already, or will be when a late  *)
(* request arrives, and what a stop that is due will hide, is paid for by  *)
(* the faults.                                                             *)
Hidden ==
    {o \in Op : /\ Unrecorded(o)
                /\ \/ \E x \in served : x[1] = o
                   \/ \E r \in late : r.to = "ldap" /\ r.op = o}

HidingIsPaidFor ==
    Cardinality(Hidden) + (IF signal /\ pc # "disconnect" THEN 1 ELSE 0) <= faults

(* Why OutcomesReachBroker: the broker expects the report of what the      *)
(* agent has in hand, unless a claim has expired, and one that has come    *)
(* back has settled it.                                                    *)
OutOfStep(o) ==
    InHand(o) /\ (status[o] # "claimed" \/ (pc = "complete" /\ o = Head(batch) /\ call # "sent"))

Unheard == {o \in Op : ~Settled(o) /\ (Recorded(o) \/ OutOfStep(o))}

SilenceIsPaidFor == Cardinality(Unheard) <= faults

(* Why NoRepeatedWrite and LogAgreesWithBroker: an operation that is       *)
(* offered once and has not had its turn has left no trace, the current    *)
(* one none but the requests before its step, and nobody says of such an   *)
(* operation both that it was carried out and that it failed.              *)
Unreported(o) ==
    /\ \A r \in late : r.to # "poll" => r.op # o
    /\ \A ok \in BOOLEAN : <<o, ok>> \notin audited

Untouched(o) == Unreported(o) /\ \A x \in served : x[1] # o

Says(o, ok) ==
    \/ status[o] = IF ok THEN "done" ELSE "failed"
    \/ <<o, ok>> \in audited
    \/ \E r \in late : r.to = "complete" /\ r.op = o /\ r.ok = ok
    \/ pc = "complete" /\ o = Head(batch) /\ ok = result

Offered(o) ==
    /\ status[o] # "requeued"
    /\ status[o] \in {"absent", "pending"} => Untouched(o)
    /\ ~(Says(o, TRUE) /\ Says(o, FALSE))

TakesItsTurn(o) ==
    /\ \A i \in 1..Len(batch) :
          batch[i] = o /\ (i > 1 \/ pc = "poll") => status[o] = "claimed" /\ Untouched(o)
    /\ pc = "ldap" /\ o = Head(batch) =>
          /\ status[o] = "claimed" /\ Unreported(o)
          /\ \A x \in served : x[1] = o => x[2] < step \/ (x[2] = step /\ call = "ok")

OfferedOnce ==
    /\ \A o \in Op \ Redeliver : Offered(o) /\ TakesItsTurn(o)
    /\ LogAgreesWithBroker
    /\ faults = 0 => late = {} /\ ~signal

IInv ==
    /\ TypeOK
    /\ ProgressIsReal /\ ReportIsReal /\ SuccessIsReal
    /\ QueueIsOpen /\ OnlyHanded
    /\ BatchIsOrderly /\ PassIsCounted /\ LossIsPaidFor /\ HidingIsPaidFor
    /\ SilenceIsPaidFor
    /\ OfferedOnce
=============================================================================

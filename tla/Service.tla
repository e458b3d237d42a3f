------------------------------ MODULE Service ------------------------------
(***************************************************************************)
(* The agent as a Windows service, and the commands that configure it:     *)
(* src/src/service.rs, finalize_setup and harden_secret of src/src/main.rs,*)
(* load, vault and resolve of src/src/config.rs, src/src/crypto.rs.        *)
(*                                                                         *)
(* `setup` hardens the secrets it is given, writes the config file and has *)
(* the service restarted.  A service process reports Running at once; its  *)
(* worker thread reads the file and runs the agent, or ends without a word *)
(* when the config cannot be used.  A stop is passed on from the control   *)
(* handler to the main thread, which reports Stopped and then exits, and   *)
(* takes the worker with it.                                               *)
(*                                                                         *)
(* What the agent does is in LiveConfig.  The Service Control Manager is   *)
(* external: it launches a process for a service that is stopped, passes   *)
(* controls to one that is running, believes what the process reports, and *)
(* drops a service marked for deletion once it is stopped.                 *)
(***************************************************************************)
EXTENDS Integers

CONSTANTS
    Proc,        \* service processes
    NoProc,      \* stands for no process
    Secret, Key, \* plaintext secrets, vault keys
    NoKey, BadKey,   \* NEXUS_AGENT_KEY is not set, is not a key
    Ref,         \* env: references
    RefOf,       \* the one harden_secret falls back on, per field
    NotSet,      \* the environment variable of a reference is not set
    Empty,       \* the empty text
    Trim,        \* what trim leaves of each text with blanks around it
    Failed,      \* a text does not resolve
    Missing, Torn,   \* there is no config file; it is not whole
    Nothing,     \* stands for no config, no environment
    Answers,     \* what setup may be told
    Shells,      \* environments setup may run in
    Hosts,       \* environments the host may give its services
    Others,      \* is more done to the service than setup does?
    MaxFaults    \* bound: crashes, aborted commands

Sealed == [key : Key, plain : Secret]           \* enc:
Trimmed == Secret \cup Sealed \cup Ref \cup {Empty}
Padded == DOMAIN Trim
Text == Trimmed \cup Padded
Strip(text) == IF text \in Padded THEN Trim[text] ELSE text      \* str::trim

Hardened == {"secret_key", "bind_password"}
Answer == [secret : [Hardened -> Text], token : Text, ok : BOOLEAN]
Host == [key : Key \cup {NoKey, BadKey}, var : [Ref -> Secret \cup {NotSet}]]

(* What a config file says: secret: secret_key and bind_password; token:   *)
(* agent_token, as setup was given it; ok: it parses and validates; of:    *)
(* history: the secrets setup was given.                                   *)
Written == [secret : [Hardened -> Trimmed], token : Text, ok : BOOLEAN,
            of : [Hardened -> Text]]

ASSUME SetAssumption ==
    /\ Answers # {} /\ Answers \subseteq Answer /\ Hosts # {} /\ Hosts \subseteq Host
    /\ Shells \subseteq Host /\ RefOf \in [Hardened -> Ref]
    /\ Trim \in [Padded -> Trimmed]
    /\ Others \in BOOLEAN /\ MaxFaults \in Nat
ASSUME StandInAssumption ==
    /\ NoProc \notin Proc /\ NoKey \notin Key /\ BadKey \notin Key /\ NoKey # BadKey
    /\ NotSet \notin Secret
    /\ Ref \cap (Secret \cup Sealed \cup {Empty}) = {} /\ Secret \cap Sealed = {}
    /\ Empty \notin Secret \cup Sealed /\ Padded \cap Trimmed = {}
    /\ Failed \notin Secret \cup Text /\ NotSet # Failed
    /\ Missing \notin Written /\ Torn \notin Written
    /\ Nothing \notin Host /\ Nothing \notin Written

VARIABLES
    file,        \* config.toml
    host,        \* the environment a service process is given
    scm,         \* the service as the SCM sees it
    marked,      \* is it marked for deletion?
    cur,         \* the process the SCM has for it
    proc,        \* each process: what its main thread is doing
    stop,        \* has its control handler passed on a stop?
    worker,      \* what its worker thread is doing
    env,         \* the environment it was launched with
    got,         \* the config its worker runs with
    pc,          \* the command that is running: its next step
    draft,       \* ... what it is about to write
    shell,       \* ... and the environment it runs in, while it looks
    outcome,     \* what came of the last setup or install
    faults       \* how many crashes and aborts there have been

scmVars == <<scm, marked, cur>>
procVars == <<proc, stop, worker, env, got>>
cmdVars == <<pc, draft, shell, outcome>>
vars == <<file, host, scmVars, procVars, cmdVars, faults>>

Init ==
    /\ file = Missing /\ host \in Hosts
    /\ scm \in {"absent", "stopped"} /\ marked = FALSE /\ cur = NoProc
    /\ proc = [p \in Proc |-> "gone"] /\ stop = [p \in Proc |-> FALSE]
    /\ worker = [p \in Proc |-> "none"]
    /\ env = [p \in Proc |-> Nothing] /\ got = [p \in Proc |-> Nothing]
    /\ pc = "idle" /\ draft = Nothing /\ shell = Nothing /\ outcome = "none"
    /\ faults = 0

Fault == faults < MaxFaults /\ faults' = faults + 1
-----------------------------------------------------------------------------
(* Slips: a reference is encrypted like a value; without a vault a value   *)
(* is written as it is.                                                    *)
HardenAll(text, f, k) ==
    LET v == Strip(text) IN
    {RefOf[f]} \cup (IF k \in Key THEN {[key |-> k, plain |-> v]} ELSE {})
HardenSome(text, f, k) ==
    LET v == Strip(text) IN
    IF v \in Secret /\ k \in Key THEN {[key |-> k, plain |-> v]} ELSE {v}

(* harden_secret for field f, with the vault of key k: what it may give.   *)
(* A reference, or nothing at all, is left alone; a value is encrypted, or *)
(* not kept: without a vault, or when the encryption fails.                *)
Harden(text, f, k) ==
    LET v == Strip(text) IN
    IF v \notin Secret THEN {v}
    ELSE {RefOf[f]} \cup (IF k \in Key THEN {[key |-> k, plain |-> v]} ELSE {})

(* Config::resolve in environment e.  Decryption is authenticated: another *)
(* key gives nothing.  All else is a literal.                              *)
Resolve(text, e) ==
    CASE text \in Ref    -> IF e.var[text] = NotSet THEN Failed ELSE e.var[text]
      [] text \in Sealed -> IF e.key = text.key THEN text.plain ELSE Failed
      [] OTHER           -> text

(* A worker that finds f in environment e goes on to run the agent: the    *)
(* token resolves, and the secret key to something.                        *)
Usable(f, e) ==
    /\ f \notin {Missing, Torn} /\ f.ok
    /\ Resolve(f.token, e) # Failed
    /\ Resolve(f.secret["secret_key"], e) \notin {Failed, Empty}
-----------------------------------------------------------------------------
(* What the SCM does.  A new process for the service:                      *)
Launch(p) ==
    /\ proc[p] = "gone" /\ proc' = [proc EXCEPT ![p] = "starting"]
    /\ env' = [env EXCEPT ![p] = host]
    /\ scm' = "startPending" /\ cur' = p
    /\ UNCHANGED <<marked, stop, worker, got>>

(* A stop control reaches a service that is running, no other.             *)
CanStop == scm = "running"
CanStart == scm = "stopped" /\ ~marked
StopControl ==
    IF CanStop THEN stop' = [stop EXCEPT ![cur] = TRUE] ELSE UNCHANGED stop

(* The service is stopped.                                                 *)
Ended ==
    /\ cur' = NoProc /\ scm' = IF marked THEN "absent" ELSE "stopped"
    /\ marked' = FALSE

(* Somebody starts or stops the service with other tools; the host starts  *)
(* it on boot.                                                             *)
StartByHand(p) ==
    /\ Others /\ CanStart /\ Launch(p)
    /\ UNCHANGED <<file, host, cmdVars, faults>>

StopByHand ==
    /\ Others /\ CanStop /\ StopControl
    /\ UNCHANGED <<file, host, scmVars, proc, worker, env, got, cmdVars, faults>>

EditHost(h) ==
    /\ host' = h
    /\ UNCHANGED <<file, scmVars, procVars, cmdVars, faults>>
-----------------------------------------------------------------------------
(* run_service: the handler is registered, Running is reported, and the    *)
(* worker is spawned.                                                      *)
ServiceMain(p) ==
    /\ proc[p] = "starting" /\ proc' = [proc EXCEPT ![p] = "up"]
    /\ scm' = "running" /\ worker' = [worker EXCEPT ![p] = "loading"]
    /\ UNCHANGED <<file, host, marked, cur, stop, env, got, cmdVars, faults>>

(* The worker: Config::load, the token, server_cipher, and into the loop   *)
(* of the runner; or its end, which nobody is told of.                     *)
Load(p) ==
    /\ worker[p] = "loading"
    /\ IF Usable(file, env[p])
       THEN /\ worker' = [worker EXCEPT ![p] = "running"]
            /\ got' = [got EXCEPT ![p] = file]
       ELSE worker' = [worker EXCEPT ![p] = "ended"] /\ UNCHANGED got
    /\ UNCHANGED <<file, host, scmVars, proc, stop, env, cmdVars, faults>>

(* The worker ends for another reason: the audit log does not open, the    *)
(* secret key is no 32 bytes, a panic.                                     *)
WorkerDies(p) ==
    /\ worker[p] \in {"loading", "running"} /\ Fault
    /\ worker' = [worker EXCEPT ![p] = "died"]
    /\ UNCHANGED <<file, host, scmVars, proc, stop, env, got, cmdVars>>

(* Slips: Stopped is reported at once; the worker is waited for.           *)
ReportStopped(p) ==
    /\ proc[p] = "up" /\ stop[p] /\ proc' = [proc EXCEPT ![p] = "stopping"]
    /\ Ended
    /\ UNCHANGED <<file, host, stop, worker, env, got, cmdVars, faults>>
WaitForWorker(p) ==
    /\ proc[p] = "up" /\ stop[p] /\ worker[p] \in {"ended", "died"}
    /\ proc' = [proc EXCEPT ![p] = "stopping"] /\ scm' = "stopPending"
    /\ UNCHANGED <<file, host, marked, cur, stop, worker, env, got, cmdVars, faults>>

(* run_service, when stop_rx.recv returns: StopPending, ...                *)
ReportStopPending(p) ==
    /\ proc[p] = "up" /\ stop[p] /\ proc' = [proc EXCEPT ![p] = "stopping"]
    /\ scm' = "stopPending"
    /\ UNCHANGED <<file, host, marked, cur, stop, worker, env, got, cmdVars, faults>>

(* ... Stopped, while the worker still runs, ...                           *)
ReportStop(p) ==
    /\ proc[p] = "stopping" /\ proc' = [proc EXCEPT ![p] = "exiting"]
    /\ Ended
    /\ UNCHANGED <<file, host, stop, worker, env, got, cmdVars, faults>>

Gone(p) ==
    /\ proc' = [proc EXCEPT ![p] = "gone"] /\ stop' = [stop EXCEPT ![p] = FALSE]
    /\ worker' = [worker EXCEPT ![p] = "none"]
    /\ env' = [env EXCEPT ![p] = Nothing] /\ got' = [got EXCEPT ![p] = Nothing]

(* ... and process::exit, whatever the worker is in the middle of.         *)
Exit(p) ==
    /\ proc[p] = "exiting" /\ Gone(p)
    /\ UNCHANGED <<file, host, scmVars, cmdVars, faults>>

(* A process dies; the service has no recovery action.                     *)
Crash(p) ==
    /\ proc[p] # "gone" /\ Fault /\ Gone(p)
    /\ IF p = cur THEN Ended ELSE UNCHANGED scmVars
    /\ UNCHANGED <<file, host, cmdVars>>
-----------------------------------------------------------------------------
(* finalize_setup, told v, in environment e.  A key that is none ends it   *)
(* before anything is written.  The token is written as it was given.      *)
Setup(v, e) ==
    /\ pc = "idle" /\ outcome' = "none"
    /\ IF e.key = BadKey THEN UNCHANGED <<pc, draft, shell>>
       ELSE /\ pc' = "truncate" /\ shell' = e
            /\ \E x \in Harden(v.secret["secret_key"], "secret_key", e.key),
                  y \in Harden(v.secret["bind_password"], "bind_password", e.key) :
                 draft' = [secret |-> [f \in Hardened |-> IF f = "secret_key" THEN x ELSE y],
                           token |-> v.token, ok |-> v.ok, of |-> v.secret]
    /\ UNCHANGED <<file, host, scmVars, procVars, faults>>

(* fs::write truncates the file, and then fills it.                        *)
Truncate ==
    /\ pc = "truncate" /\ pc' = "fill" /\ file' = Torn
    /\ UNCHANGED <<host, scmVars, procVars, draft, shell, outcome, faults>>

Fill ==
    /\ pc = "fill" /\ pc' = "check"
    /\ file' = draft /\ draft' = Nothing
    /\ UNCHANGED <<host, scmVars, procVars, shell, outcome, faults>>

(* The file is read back.  A token that does not resolve here ends setup;  *)
(* a file that does not validate is only warned about.  The wizard may be  *)
(* told to leave the service alone.                                        *)
Check ==
    /\ pc = "check" /\ shell' = Nothing
    /\ pc' \in IF file.ok /\ Resolve(file.token, shell) = Failed THEN {"idle"}
               ELSE {"stop", "idle"}
    /\ UNCHANGED <<file, host, scmVars, procVars, draft, outcome, faults>>

(* ensure_running: a service that is registered is told to stop, whatever  *)
(* comes of that; one that is not is created.                              *)
EnsureStop ==
    /\ pc = "stop"
    /\ IF scm = "absent" THEN pc' = "create" /\ UNCHANGED stop
       ELSE pc' = "start" /\ StopControl
    /\ UNCHANGED <<file, host, scmVars, proc, worker, env, got, draft, shell, outcome, faults>>

(* service install.                                                        *)
Install ==
    /\ Others /\ pc = "idle" /\ pc' = "create" /\ outcome' = "none"
    /\ UNCHANGED <<file, host, scmVars, procVars, draft, shell, faults>>

Create ==
    /\ pc = "create"
    /\ IF scm = "absent" THEN pc' = "start" /\ scm' = "stopped" /\ UNCHANGED outcome
       ELSE pc' = "idle" /\ outcome' = "exists" /\ UNCHANGED scm
    /\ UNCHANGED <<file, host, marked, cur, procVars, draft, shell, faults>>

(* Slip: a service that runs already counts as started.                    *)
StartLoose ==
    /\ pc = "start" /\ pc' = "idle"
    /\ outcome' = "ok"
    /\ IF CanStart THEN \E p \in Proc : Launch(p) ELSE UNCHANGED <<scmVars, procVars>>
    /\ UNCHANGED <<file, host, draft, shell, faults>>

(* service.start: the SCM launches the service, or refuses.                *)
Start ==
    /\ pc = "start" /\ pc' = "idle"
    /\ \/ CanStart /\ (\E p \in Proc : Launch(p)) /\ outcome' = "ok"
       \/ ~CanStart /\ outcome' = "refused" /\ UNCHANGED <<scmVars, procVars>>
    /\ UNCHANGED <<file, host, draft, shell, faults>>

(* uninstall: the service is told to stop, whatever comes of that, ...     *)
Uninstall ==
    /\ Others /\ pc = "idle" /\ scm # "absent" /\ pc' = "delete"
    /\ StopControl
    /\ UNCHANGED <<file, host, scmVars, proc, worker, env, got, draft, shell, outcome, faults>>

(* ... and marked for deletion.                                            *)
Delete ==
    /\ pc = "delete" /\ pc' = "idle"
    /\ CASE scm = "stopped" -> scm' = "absent" /\ UNCHANGED marked
         [] scm = "absent"  -> UNCHANGED <<scm, marked>>
         [] OTHER           -> marked' = TRUE /\ UNCHANGED scm
    /\ UNCHANGED <<file, host, cur, procVars, draft, shell, outcome, faults>>

(* A command is killed between two of its steps.                           *)
Abort ==
    /\ pc # "idle" /\ Fault /\ pc' = "idle" /\ draft' = Nothing /\ shell' = Nothing
    /\ UNCHANGED <<file, host, scmVars, procVars, outcome>>
-----------------------------------------------------------------------------
MainThread(p) == ServiceMain(p) \/ ReportStopPending(p) \/ ReportStop(p) \/ Exit(p)
Command == Truncate \/ Fill \/ Check \/ EnsureStop \/ Create \/ Start \/ Delete

Next == \/ \E p \in Proc : StartByHand(p) \/ Load(p) \/ WorkerDies(p) \/ Crash(p)
        \/ \E p \in Proc : ServiceMain(p) \/ ReportStopPending(p) \/ ReportStop(p) \/ Exit(p)
        \/ StopByHand
        \/ \E h \in Hosts : EditHost(h)
        \/ \E v \in Answers, e \in Shells : Setup(v, e)
        \/ Truncate \/ Fill \/ Check \/ EnsureStop \/ Install \/ Create \/ Start
        \/ Uninstall \/ Delete \/ Abort

Spec == Init /\ [][Next]_vars

(* The main thread of a process is scheduled, ...                          *)
FairSpec == Spec /\ \A p \in Proc : WF_vars(MainThread(p))

(* ... its worker too, and a command goes on: what it waits for is short.  *)
BusySpec == FairSpec /\ (\A p \in Proc : WF_vars(Load(p))) /\ WF_vars(Command)
-----------------------------------------------------------------------------
Procs == {"gone", "starting", "up", "stopping", "exiting"}
Workers == {"none", "loading", "running", "ended", "died"}
Steps == {"idle", "truncate", "fill", "check", "stop", "create", "start", "delete"}

TypeOK ==
    /\ file \in Written \cup {Missing, Torn} /\ host \in Hosts
    /\ scm \in {"absent", "stopped", "startPending", "running", "stopPending"}
    /\ marked \in BOOLEAN /\ cur \in Proc \cup {NoProc}
    /\ proc \in [Proc -> Procs] /\ stop \in [Proc -> BOOLEAN]
    /\ worker \in [Proc -> Workers] /\ env \in [Proc -> Hosts \cup {Nothing}]
    /\ got \in [Proc -> Written \cup {Nothing}]
    /\ pc \in Steps /\ draft \in Written \cup {Nothing} /\ shell \in Host \cup {Nothing}
    /\ outcome \in {"none", "ok", "exists", "refused"} /\ faults \in Nat

(* The process the SCM has for the service.                                *)
Held(p) == proc[p] \in {"starting", "up", "stopping"}

(* Two agents at work at once, on one audit log: only while the older one  *)
(* has reported Stopped and not yet exited, the end of run_service.        *)
OneAgent ==
    \A p, q \in Proc :
        /\ p # q
        /\ worker[p] \in {"loading", "running"} /\ worker[q] \in {"loading", "running"}
        => proc[p] = "exiting" \/ proc[q] = "exiting"

(* When ensure_running or install returns Ok, and until another command    *)
(* runs, the service works with the config file as it is: a worker it has  *)
(* does not run on an older file and did not find one half written; it     *)
(* ended only if this file cannot be used in its environment.              *)
AppliedAfterOk ==
    outcome = "ok" =>
        \A p \in Proc : Held(p) =>
            /\ worker[p] = "running" => got[p] = file
            /\ worker[p] = "ended" => ~Usable(file, env[p])

(* An agent runs with the secrets setup was given, from whatever form:     *)
(* hardened, written, read back and resolved by another process; or, where *)
(* setup could only write env:, with what its environment gives it.        *)
(* harden_secret and Config::resolve undo each other or fail.              *)
SecretIntact ==
    \A p \in Proc, f \in Hardened : worker[p] = "running" =>
        LET of == Strip(got[p].of[f])
            value == Resolve(got[p].secret[f], env[p])
        IN  \/ value = Failed
            \/ IF of \in Sealed THEN value = of.plain
               ELSE IF of \in Ref THEN value = env[p].var[of]
               ELSE value = of \/ (of \in Secret /\ got[p].secret[f] = RefOf[f])

(* No secret_key or bind_password that setup was given as a value is on    *)
(* the disk as one: "Never persist a raw secret on disk", main.rs:311, and *)
(* harden_secret's comment at 404.  The comments at 297 and 327 ("never    *)
(* plaintext", "no plaintext secrets") go further than the code: it writes *)
(* agent_token as it was given, 322, and so does this module.              *)
KeptOffDisk ==
    file \in Written => \A f \in Hardened : file.secret[f] \notin Secret

(* A process that was told to stop is in the end gone: run_service's wait  *)
(* for the handler's message, and its exit.                                *)
StopEnds == \A p \in Proc : stop[p] /\ Held(p) ~> proc[p] = "gone"
-----------------------------------------------------------------------------
(* What ensure_running's comment says: "Ensure the service is running with *)
(* the current config. If it's already registered (e.g. by the MSI),       *)
(* restart it so it picks up freshly-written config", service.rs:118-119.  *)
(* (Unless setup is run once more.)                                        *)
EnsureRunning ==
    pc = "stop" ~> \/ \E p \in Proc : worker[p] = "running" /\ got[p] = file
                   \/ pc = "truncate"
-----------------------------------------------------------------------------
(* Why: the SCM has exactly the process that is neither gone nor exiting,  *)
(* in the state that one reported.                                         *)
ScmAgrees ==
    /\ \A p \in Proc : /\ proc[p] = "starting" => cur = p /\ scm = "startPending"
                       /\ proc[p] = "up"       => cur = p /\ scm = "running"
                       /\ proc[p] = "stopping" => cur = p /\ scm = "stopPending"
                       /\ cur = p => Held(p)
                       /\ proc[p] # "gone" => env[p] \in Hosts
                       /\ worker[p] = "none" <=> proc[p] \in {"gone", "starting"}
    /\ cur = NoProc <=> scm \in {"absent", "stopped"}
    /\ marked => cur # NoProc

(* What is or will be in the file is what harden_secret may give, and a    *)
(* worker has what its file said.                                          *)
Intact(w) == \A f \in Hardened :
    LET of == Strip(w.of[f]) IN
    IF of \in Secret
    THEN w.secret[f] = RefOf[f] \/ (w.secret[f] \in Sealed /\ w.secret[f].plain = of)
    ELSE w.secret[f] = of

FilesIntact ==
    /\ file \in Written => Intact(file)
    /\ draft \in Written => Intact(draft)
    /\ draft \in Written <=> pc \in {"truncate", "fill"}
    /\ shell \in Host <=> pc \in {"truncate", "fill", "check"}
    /\ pc = "check" => file \in Written
    /\ \A p \in Proc : worker[p] = "running" =>
         got[p] \in Written /\ Intact(got[p]) /\ Usable(got[p], env[p])
    /\ outcome = "ok" => pc \in {"idle", "delete"}

IInv == /\ TypeOK /\ ScmAgrees /\ FilesIntact /\ OneAgent /\ AppliedAfterOk /\ SecretIntact
        /\ KeptOffDisk
=============================================================================

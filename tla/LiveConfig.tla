----------------------------- MODULE LiveConfig -----------------------------
(***************************************************************************)
(* The settings an agent runs with, cycle after cycle: run, run_one and    *)
(* run_cycle of src/src/runner.rs, Config::validate and apply_remote of    *)
(* src/src/config.rs, fetch_config, heartbeat, report_run and disconnect   *)
(* of src/src/server.rs.                                                   *)
(*                                                                         *)
(* The agent reads its file once, when it starts.  Each cycle asks the     *)
(* broker for its live config, lays it over a fresh copy of the local one, *)
(* posts a heartbeat, runs a pass, and sleeps for the interval in force.   *)
(* A refresh that fails leaves the cycle with the local config.            *)
(*                                                                         *)
(* What a pass does is in AdSync and DbSync; here it is one step, which    *)
(* may never come: its requests to the directory have no timeout.  The     *)
(* broker is external: it answers with the config it has at that moment,   *)
(* and shows the agent as the last post it got says.  A post the agent has *)
(* given up on, or was stopped over, may reach the broker later.           *)
(***************************************************************************)
EXTENDS Integers

CONSTANTS
    Field,         \* url, bind_dn, base_dn, password_writeback
    Value,         \* what a field may say
    Blank,         \* stands for a field that is empty or not given
    NoSection,     \* stands for an [ad] section, or a directory, not given
    LocalConfig,   \* what the file may say
    BrokerConfig,  \* what the broker may say
    MaxFaults      \* bound: failed refreshes, lost or late posts, crashes

Section == [Field -> Value \cup {Blank}]
Mode == {"ad", "db"}

(* db: there is a [db] section.  In the broker's, poll = 0 also stands for *)
(* an interval that is not given.                                          *)
Config == [mode : Mode, poll : Nat, ad : Section \cup {NoSection}, db : BOOLEAN]
RemoteConfig == [mode : Mode, poll : Nat, directory : Section \cup {NoSection}]

ASSUME StandInAssumption == Blank \notin Value /\ NoSection \notin Section
ASSUME ConfigAssumption ==
    /\ LocalConfig # {} /\ LocalConfig \subseteq Config
    /\ BrokerConfig # {} /\ BrokerConfig \subseteq RemoteConfig
ASSUME FaultsAssumption == MaxFaults \in Nat

VARIABLES
    file,        \* the config file
    remote,      \* the broker's live config
    pc,          \* what the agent is doing
    base,        \* the local config, as read at the start
    eff,         \* the config of this cycle
    reply,       \* the answer of the broker on its way
    answered,    \* is there one?
    refreshed,   \* did the refresh of this cycle succeed?
    left,        \* what is left of the sleep
    shown,       \* what the broker shows for this agent
    late,        \* how many posts given up on may still reach the broker
    inForce,     \* history: the broker's configs since the fetch began
    unseen,      \* history: time slept since a change that is not applied
    faults       \* how many faults there have been

agentVars == <<pc, base, eff, reply, answered, refreshed, left>>
vars == <<file, remote, agentVars, shown, late, inForce, unseen, faults>>

(* Config::validate.                                                       *)
Valid(c) == IF c.mode = "ad" THEN c.ad # NoSection ELSE c.db

Posts == {"ONLINE", "TERMINATED"}

Init ==
    /\ file \in LocalConfig /\ remote \in BrokerConfig
    /\ pc = "down" /\ base = file /\ eff = file
    /\ reply = remote /\ answered = FALSE /\ refreshed = FALSE /\ left = 0
    /\ shown = "TERMINATED" /\ late = [m \in Posts |-> 0] /\ inForce = {}
    /\ unseen = 0 /\ faults = 0
-----------------------------------------------------------------------------
(* Somebody edits the file, or changes a setting in the console.           *)
EditFile(c) ==
    /\ file' = c
    /\ UNCHANGED <<remote, agentVars, shown, late, inForce, unseen, faults>>

Publish(r) ==
    /\ r # remote /\ remote' = r
    /\ inForce' = inForce \cup {r} /\ unseen' = 0
    /\ UNCHANGED <<file, agentVars, shown, late, faults>>

(* A post that was given up on reaches the broker after all.               *)
LatePost(m) ==
    /\ late[m] > 0 /\ late' = [late EXCEPT ![m] = @ - 1]
    /\ shown' = m
    /\ UNCHANGED <<file, remote, agentVars, inForce, unseen, faults>>
-----------------------------------------------------------------------------
(* One more fault.                                                         *)
Fault == faults < MaxFaults /\ faults' = faults + 1

(* A request to the broker begins: no answer yet.                          *)
BeginFetch == pc' = "fetch" /\ answered' = FALSE /\ inForce' = {remote}

(* Config::load, and run up to its loop.                                   *)
Start ==
    /\ pc = "down" /\ Valid(file)
    /\ base' = file /\ eff' = file
    /\ BeginFetch /\ unseen' = 0
    /\ UNCHANGED <<file, remote, reply, refreshed, left, shown, late, faults>>

(* fetch_config: the broker answers.                                       *)
BrokerAnswers ==
    /\ pc = "fetch" /\ ~answered
    /\ reply' = remote /\ answered' = TRUE
    /\ UNCHANGED <<file, remote, pc, base, eff, refreshed, left, shown, late, inForce,
                   unseen, faults>>

(* Slips in apply_remote: an empty field counts; the mode is taken over.   *)
MergeBlank(c, r) ==
    [mode |-> c.mode, poll |-> IF r.poll > 0 THEN r.poll ELSE c.poll,
     ad |-> IF c.ad = NoSection \/ r.directory = NoSection THEN c.ad ELSE r.directory,
     db |-> c.db]
MergeMode(c, r) ==
    [mode |-> r.mode, poll |-> IF r.poll > 0 THEN r.poll ELSE c.poll,
     ad |-> IF c.ad = NoSection \/ r.directory = NoSection THEN c.ad
            ELSE [f \in Field |-> IF r.directory[f] = Blank THEN c.ad[f] ELSE r.directory[f]],
     db |-> c.db]

(* Config::apply_remote.                                                   *)
Merge(c, r) ==
    [mode |-> c.mode, poll |-> IF r.poll > 0 THEN r.poll ELSE c.poll,
     ad |-> IF c.ad = NoSection \/ r.directory = NoSection THEN c.ad
            ELSE [f \in Field |-> IF r.directory[f] = Blank THEN c.ad[f] ELSE r.directory[f]],
     db |-> c.db]

(* Slip: the broker's config is laid over that of the cycle before.        *)
Onto == eff

(* run_one starts from a fresh copy of the local config.                   *)
Under == base

(* Slip: the cycle is given the local config, not the merged one.          *)
FetchDropped ==
    /\ pc = "fetch" /\ answered
    /\ eff' = base /\ refreshed' = TRUE /\ pc' = "heartbeat"
    /\ unseen' = IF reply = remote THEN 0 ELSE unseen
    /\ UNCHANGED <<file, remote, base, reply, answered, left, shown, late, inForce, faults>>

(* run_one: the answer arrives, perhaps after another change, ...          *)
FetchReturns ==
    /\ pc = "fetch" /\ answered
    /\ eff' = Merge(Under, reply) /\ refreshed' = TRUE /\ pc' = "heartbeat"
    /\ unseen' = IF reply = remote THEN 0 ELSE unseen
    /\ UNCHANGED <<file, remote, base, reply, answered, left, shown, late, inForce, faults>>

(* ... or the request fails, or its answer is lost or makes no sense.      *)
FetchFails ==
    /\ pc = "fetch" /\ Fault
    /\ eff' = base /\ refreshed' = FALSE /\ pc' = "heartbeat"
    /\ UNCHANGED <<file, remote, base, reply, answered, left, shown, late, inForce, unseen>>
-----------------------------------------------------------------------------
ToComeLater(m) == late' = [late EXCEPT ![m] = @ + 1]

(* A post that nobody checks: it arrives, is lost, or arrives later.       *)
Post(m) ==
    \/ shown' = m /\ UNCHANGED <<late, faults>>
    \/ Fault /\ UNCHANGED shown /\ (UNCHANGED late \/ ToComeLater(m))

(* ServerClient::heartbeat.                                                *)
Heartbeat ==
    /\ pc = "heartbeat" /\ Post("ONLINE")
    /\ pc' = "pass"
    /\ UNCHANGED <<file, remote, base, eff, reply, answered, refreshed, left, inForce, unseen>>

(* The sleep begins.                                                       *)
Rest == pc' = "sleep" /\ left' = eff.poll

(* run_pass.  A pass that did something is reported; one that did not, or  *)
(* that failed, is not.  Without the section of its mode it panics.        *)
Pass ==
    /\ pc = "pass"
    /\ \/ ~Valid(eff) /\ pc' = "panicked" /\ UNCHANGED left
       \/ Valid(eff) /\ pc' = "report" /\ UNCHANGED left
       \/ Valid(eff) /\ Rest
    /\ UNCHANGED <<file, remote, base, eff, reply, answered, refreshed, shown, late, inForce,
                   unseen, faults>>

(* ServerClient::report_run, whatever becomes of it.                       *)
Report ==
    /\ pc = "report" /\ Rest
    /\ UNCHANGED <<file, remote, base, eff, reply, answered, refreshed, shown, late, inForce,
                   unseen, faults>>

Tick ==
    /\ pc = "sleep" /\ left > 0
    /\ left' = left - 1
    /\ unseen' = IF refreshed /\ eff = Merge(base, remote) THEN 0 ELSE unseen + 1
    /\ UNCHANGED <<file, remote, pc, base, eff, reply, answered, refreshed, shown, late,
                   inForce, faults>>

(* Slips: the refresh is made at the start only; so is the heartbeat.      *)
WakeTo(step) ==
    /\ pc = "sleep" /\ left = 0 /\ pc' = step
    /\ UNCHANGED <<file, remote, base, eff, reply, answered, refreshed, left, shown, late,
                   inForce, unseen, faults>>
WakeStale == WakeTo("heartbeat")
WakeUnseen == WakeTo("pass")

(* The loop of run starts the next cycle.                                  *)
Wake ==
    /\ pc = "sleep" /\ left = 0
    /\ BeginFetch
    /\ UNCHANGED <<file, remote, base, eff, reply, refreshed, left, shown, late, unseen, faults>>
-----------------------------------------------------------------------------
Cycling == {"fetch", "heartbeat", "pass", "report", "sleep"}

(* The post the agent waits for may be under way when it stops waiting.    *)
UnderWay == IF pc = "heartbeat" THEN {"ONLINE"}
            ELSE IF pc = "leaving" THEN {"TERMINATED"} ELSE {}

(* A shutdown signal: select! drops the cycle at whatever await it is.     *)
Stop ==
    /\ pc \in Cycling /\ pc' = "leaving"
    /\ \/ UNCHANGED <<late, faults>>
       \/ Fault /\ \E m \in UnderWay : ToComeLater(m)
    /\ UNCHANGED <<file, remote, base, eff, reply, answered, refreshed, left, shown, inForce,
                   unseen>>

(* ServerClient::disconnect, RUN_STOP, and the end of run.                 *)
Disconnect ==
    /\ pc = "leaving" /\ Post("TERMINATED")
    /\ pc' = "down"
    /\ UNCHANGED <<file, remote, base, eff, reply, answered, refreshed, left, inForce, unseen>>

(* The process dies.                                                       *)
Crash ==
    /\ pc \in Cycling \cup {"leaving"} /\ Fault
    /\ pc' = "down"
    /\ UNCHANGED late \/ \E m \in UnderWay : ToComeLater(m)
    /\ UNCHANGED <<file, remote, base, eff, reply, answered, refreshed, left, shown, inForce,
                   unseen>>
-----------------------------------------------------------------------------
(* The steps that are not those of a pass.                                 *)
Cycle == \/ BrokerAnswers \/ FetchReturns \/ Heartbeat \/ Report \/ Tick \/ Wake
         \/ Disconnect

Next == \/ \E c \in LocalConfig : EditFile(c)
        \/ \E r \in BrokerConfig : Publish(r)
        \/ \E m \in Posts : LatePost(m)
        \/ Start \/ BrokerAnswers \/ FetchReturns \/ FetchFails \/ Heartbeat
        \/ Pass \/ Report \/ Tick \/ Wake \/ Stop \/ Disconnect \/ Crash

Spec == Init /\ [][Next]_vars

(* The runtime's timers fire, reqwest ends every request to the broker     *)
(* within 30 s, and the broker answers when it is asked again and again.   *)
(* Nothing is assumed of a pass: a directory that stays silent holds it    *)
(* for ever.                                                               *)
FairSpec == Spec /\ WF_vars(Cycle)
-----------------------------------------------------------------------------
TypeOK ==
    /\ file \in LocalConfig /\ remote \in BrokerConfig
    /\ pc \in Cycling \cup {"down", "leaving", "panicked"}
    /\ base \in LocalConfig /\ eff \in Config
    /\ reply \in BrokerConfig /\ answered \in BOOLEAN /\ refreshed \in BOOLEAN
    /\ left \in Nat /\ unseen \in Nat /\ faults \in Nat
    /\ shown \in Posts /\ late \in [Posts -> Nat]
    /\ inForce \subseteq BrokerConfig

InCycle == pc \in {"heartbeat", "pass", "report", "sleep"}

(* A cycle runs with the local config under one config the broker had      *)
(* since this cycle asked for it, whole: nothing stays behind from an      *)
(* earlier cycle and no two answers mix.  Only a cycle whose refresh       *)
(* failed runs with the local config alone.  run_one's clone of base.      *)
SettingsAreCurrent ==
    InCycle => IF refreshed THEN \E r \in inForce : eff = Merge(base, r) ELSE eff = base

(* Config c is fit wherever b is.                                          *)
Fit(c, b) ==
    /\ c.mode = b.mode /\ c.db = b.db
    /\ c.ad = NoSection <=> b.ad = NoSection
    /\ b.poll > 0 => c.poll > 0
    /\ b.ad # NoSection => \A f \in Field : b.ad[f] # Blank => c.ad[f] # Blank

(* What the broker sends never makes a config that was fit to start with   *)
(* unfit: it keeps its mode and its sections, no field goes blank and the  *)
(* interval does not become 0.  The guards in apply_remote.                *)
Usable == InCycle => Fit(eff, base)

(* The expect("validated") of run_pass and run_db is never reached without *)
(* a section, whatever the file says later and whatever the broker sends.  *)
NeverPanics == pc # "panicked"

(* The promise of run_one's comment, that a change applies within one      *)
(* interval: an agent asleep on other settings than the broker's now has   *)
(* slept, and will sleep, no more than one interval of its own since they  *)
(* changed, unless its last refresh failed.                                *)
WithinOneInterval ==
    (pc = "sleep" /\ refreshed /\ eff # Merge(base, remote)) => unseen + left =< eff.poll

(* No pass lasts for ever.  run_pass does not see to that: neither LDAP    *)
(* nor the database is asked with a timeout.                               *)
PassesEnd == []<>(pc # "pass")

(* A config the broker keeps is in the end the one a pass runs with,       *)
(* unless a pass under another config never ends: run_one fetches it only  *)
(* between two passes.                                                     *)
ChangeApplies ==
    PassesEnd =>
        \A r \in BrokerConfig :
            remote = r ~> \/ remote # r \/ pc \in {"leaving", "down"}
                          \/ pc = "pass" /\ eff = Merge(base, r)

(* An agent that keeps running, and whose passes end, is shown ONLINE      *)
(* again and again, although a heartbeat may be lost and the disconnect of *)
(* the process before it may come late: run_cycle posts one each time.     *)
ShownOnline == PassesEnd => []<>(shown = "ONLINE" \/ pc \in {"leaving", "down"})
-----------------------------------------------------------------------------
(* Why WithinOneInterval holds: a cycle that has picked up an older config *)
(* than the broker's has not slept since it changed, and no sleep is       *)
(* longer than the interval.                                               *)
FreshUntilSleep ==
    /\ pc = "fetch" /\ answered => reply \in inForce /\ (reply = remote \/ unseen = 0)
    /\ pc \in {"heartbeat", "pass", "report"} /\ refreshed =>
           eff = Merge(base, remote) \/ unseen = 0
    /\ pc = "sleep" => left =< eff.poll

InForceNow == pc \in Cycling => remote \in inForce /\ Valid(base)

IInv == /\ TypeOK /\ InForceNow /\ FreshUntilSleep /\ SettingsAreCurrent
        /\ Usable /\ NeverPanics /\ WithinOneInterval
=============================================================================

-------------------------- MODULE LiveConfigProofs --------------------------
(***************************************************************************)
(* LiveConfig for any fields, any configs and any number of faults: the    *)
(* settings of a cycle are whole, usable and at most one interval old.     *)
(***************************************************************************)
EXTENDS LiveConfig, TLAPS

(* What apply_remote makes of a config is a config, ...                    *)
LEMMA MergeType ==
  ASSUME NEW c \in Config, NEW r \in RemoteConfig
  PROVE  Merge(c, r) \in Config
<1>1. (IF r.poll > 0 THEN r.poll ELSE c.poll) \in Nat
  BY DEF Config, RemoteConfig
<1>2. CASE c.ad = NoSection \/ r.directory = NoSection
  BY <1>1, <1>2 DEF Merge, Config
<1>3. CASE ~(c.ad = NoSection \/ r.directory = NoSection)
  <2>1. c.ad \in Section /\ r.directory \in Section
    BY <1>3 DEF Config, RemoteConfig
  <2>2. [f \in Field |-> IF r.directory[f] = Blank THEN c.ad[f] ELSE r.directory[f]]
        \in Section
    BY <2>1 DEF Section
  <2> QED  BY <1>1, <1>3, <2>2 DEF Merge, Config
<1> QED  BY <1>2, <1>3

(* ... as fit as the one it was laid over.                                 *)
LEMMA MergeFit ==
  ASSUME NEW c \in Config, NEW r \in RemoteConfig
  PROVE  Fit(Merge(c, r), c)
<1>1. /\ Merge(c, r).mode = c.mode /\ Merge(c, r).db = c.db
      /\ Merge(c, r).poll = IF r.poll > 0 THEN r.poll ELSE c.poll
  BY DEF Merge
<1>2. c.poll > 0 => Merge(c, r).poll > 0
  BY <1>1
<1>3. CASE c.ad = NoSection \/ r.directory = NoSection
  <2>1. Merge(c, r).ad = c.ad  BY <1>3 DEF Merge
  <2> QED  BY <1>1, <1>2, <2>1 DEF Fit
<1>4. CASE ~(c.ad = NoSection \/ r.directory = NoSection)
  <2>1. Merge(c, r).ad
        = [f \in Field |-> IF r.directory[f] = Blank THEN c.ad[f] ELSE r.directory[f]]
    BY <1>4 DEF Merge
  <2>2. Merge(c, r).ad \in Section
    BY <2>1, <1>4 DEF Section, Config, RemoteConfig
  <2>3. Merge(c, r).ad # NoSection
    BY <2>2, StandInAssumption
  <2>4. \A f \in Field : c.ad[f] # Blank => Merge(c, r).ad[f] # Blank
    BY <2>1
  <2> QED  BY <1>1, <1>2, <1>4, <2>3, <2>4 DEF Fit
<1> QED  BY <1>3, <1>4

LEMMA FitSelf == ASSUME NEW c PROVE Fit(c, c)
  BY DEF Fit

(* A config as fit as a valid one is valid.                                *)
LEMMA FitValid ==
  ASSUME NEW c, NEW b, Fit(c, b), Valid(b)
  PROVE  Valid(c)
  BY DEF Fit, Valid
-----------------------------------------------------------------------------
LEMMA InitIInv == ASSUME Init PROVE IInv
<1>1. TypeOK
  BY ConfigAssumption, FaultsAssumption DEF Init, TypeOK, Cycling, Posts
<1>2. pc \notin Cycling /\ ~InCycle /\ pc # "panicked" /\ pc # "sleep"
  BY DEF Init, Cycling, InCycle
<1> QED  BY <1>1, <1>2 DEF IInv, InForceNow, FreshUntilSleep, SettingsAreCurrent, Usable,
              NeverPanics, WithinOneInterval, Cycling

(* What the disjuncts of Next have in common.                              *)
LEMMA LaterType ==
  ASSUME late \in [Posts -> Nat], NEW m \in Posts, ToComeLater(m)
  PROVE  late' \in [Posts -> Nat]
  BY DEF ToComeLater

LEMMA FaultType == ASSUME faults \in Nat, Fault PROVE faults' \in Nat
  BY DEF Fault

LEMMA PostType ==
  ASSUME TypeOK, NEW m \in Posts, Post(m)
  PROVE  shown' \in Posts /\ late' \in [Posts -> Nat] /\ faults' \in Nat
<1>1. shown \in Posts /\ late \in [Posts -> Nat] /\ faults \in Nat
  BY DEF TypeOK
<1>2. CASE shown' = m /\ UNCHANGED <<late, faults>>
  BY <1>1, <1>2
<1>3. CASE Fault /\ UNCHANGED shown /\ (UNCHANGED late \/ ToComeLater(m))
  BY <1>1, <1>3, LaterType, FaultType
<1> QED  BY <1>2, <1>3 DEF Post

LEMMA UnderWayType == UnderWay \subseteq Posts
  BY DEF UnderWay, Posts

LEMMA Typed ==
  ASSUME TypeOK
  PROVE  /\ base \in Config /\ file \in Config /\ reply \in RemoteConfig
         /\ remote \in RemoteConfig
         /\ eff.poll \in Nat
  BY ConfigAssumption DEF TypeOK, Config

LEMMA TypeNext == ASSUME TypeOK, [Next]_vars PROVE TypeOK'
<1>1. CASE \E c \in LocalConfig : EditFile(c)
  BY <1>1 DEF TypeOK, EditFile, agentVars
<1>2. CASE \E r \in BrokerConfig : Publish(r)
  BY <1>2 DEF TypeOK, Publish, agentVars
<1>3. CASE \E m \in Posts : LatePost(m)
  BY <1>3 DEF TypeOK, LatePost, agentVars
<1>4. CASE Start
  <2>1. file \in Config /\ answered' \in BOOLEAN
    BY <1>4, Typed DEF Start, BeginFetch
  <2> QED  BY <1>4, <2>1 DEF TypeOK, Start, BeginFetch, Cycling
<1>5. CASE BrokerAnswers
  BY <1>5 DEF TypeOK, BrokerAnswers, Cycling
<1>6. CASE FetchReturns
  <2>1. Merge(base, reply) \in Config
    BY Typed, MergeType
  <2>2. eff' \in Config /\ refreshed' \in BOOLEAN /\ unseen' \in Nat
    BY <1>6, <2>1 DEF TypeOK, FetchReturns, Under
  <2>3. /\ pc' = "heartbeat"
        /\ UNCHANGED <<file, remote, base, reply, answered, left, shown, late, inForce, faults>>
    BY <1>6 DEF FetchReturns
  <2>4. pc' \in Cycling \cup {"down", "leaving", "panicked"}  BY <2>3 DEF Cycling
  <2>5. reply' \in BrokerConfig /\ remote' \in BrokerConfig /\ inForce' \subseteq BrokerConfig
    BY <2>3 DEF TypeOK
  <2>6. /\ file' \in LocalConfig /\ base' \in LocalConfig /\ answered' \in BOOLEAN
        /\ left' \in Nat /\ faults' \in Nat
        /\ shown' \in Posts /\ late' \in [Posts -> Nat]
    BY <2>3 DEF TypeOK
  <2> QED  BY <2>2, <2>4, <2>5, <2>6 DEF TypeOK
<1>7. CASE FetchFails
  <2>1. eff' \in Config  BY <1>7, Typed DEF FetchFails
  <2>2. refreshed' \in BOOLEAN  BY <1>7 DEF FetchFails
  <2>3. faults' \in Nat  BY <1>7 DEF TypeOK, FetchFails, Fault
  <2> QED  BY <1>7, <2>1, <2>2, <2>3 DEF TypeOK, FetchFails, Cycling
<1>8. CASE Heartbeat
  <2>1. Post("ONLINE") /\ "ONLINE" \in Posts  BY <1>8 DEF Heartbeat, Posts
  <2> QED  BY <1>8, <2>1, PostType DEF TypeOK, Heartbeat, Cycling
<1>9. CASE Pass
  BY <1>9, Typed DEF TypeOK, Pass, Rest, Cycling
<1>10. CASE Report
  BY <1>10, Typed DEF TypeOK, Report, Rest, Cycling
<1>11. CASE Tick
  BY <1>11 DEF TypeOK, Tick, Cycling
<1>12. CASE Wake
  BY <1>12 DEF TypeOK, Wake, BeginFetch, Cycling
<1>13. CASE Stop
  <2>1. late \in [Posts -> Nat] /\ faults \in Nat  BY DEF TypeOK
  <2>2. late' \in [Posts -> Nat] /\ faults' \in Nat
    BY <1>13, <2>1, LaterType, FaultType, UnderWayType DEF Stop
  <2> QED  BY <1>13, <2>2 DEF TypeOK, Stop
<1>14. CASE Disconnect
  <2>1. Post("TERMINATED") /\ "TERMINATED" \in Posts  BY <1>14 DEF Disconnect, Posts
  <2> QED  BY <1>14, <2>1, PostType DEF TypeOK, Disconnect
<1>15. CASE Crash
  <2>1. late \in [Posts -> Nat] /\ faults \in Nat  BY DEF TypeOK
  <2>2. late' \in [Posts -> Nat] /\ faults' \in Nat
    BY <1>15, <2>1, LaterType, FaultType, UnderWayType DEF Crash
  <2> QED  BY <1>15, <2>2 DEF TypeOK, Crash
<1>16. CASE UNCHANGED vars
  BY <1>16 DEF TypeOK, vars, agentVars
<1> QED  BY <1>1, <1>2, <1>3, <1>4, <1>5, <1>6, <1>7, <1>8, <1>9, <1>10, <1>11, <1>12,
            <1>13, <1>14, <1>15, <1>16 DEF Next
-----------------------------------------------------------------------------
(* While the agent runs, the broker's config is one of those in force      *)
(* since the fetch, and the local one is valid.                            *)
LEMMA InForceNext ==
  ASSUME TypeOK, TypeOK', InForceNow, [Next]_vars
  PROVE  InForceNow'
<1>1. CASE \E c \in LocalConfig : EditFile(c)
  BY <1>1 DEF InForceNow, EditFile, agentVars
<1>2. CASE \E r \in BrokerConfig : Publish(r)
  BY <1>2 DEF InForceNow, Publish, agentVars
<1>3. CASE \E m \in Posts : LatePost(m)
  BY <1>3 DEF InForceNow, LatePost, agentVars
<1>4. CASE Start
  BY <1>4 DEF InForceNow, Start, BeginFetch
<1>5. CASE Wake
  BY <1>5 DEF InForceNow, Wake, BeginFetch, Cycling
<1>6. CASE BrokerAnswers \/ FetchReturns \/ FetchFails \/ Heartbeat \/ Pass \/ Report \/ Tick
  <2>1. pc \in Cycling /\ UNCHANGED <<remote, base, inForce>>
    BY <1>6 DEF BrokerAnswers, FetchReturns, FetchFails, Heartbeat, Pass, Report, Tick, Cycling
  <2> QED  BY <2>1 DEF InForceNow
<1>7. CASE Stop \/ Disconnect \/ Crash
  BY <1>7 DEF InForceNow, Stop, Disconnect, Crash, Cycling
<1>8. CASE UNCHANGED vars
  BY <1>8 DEF InForceNow, vars, agentVars
<1> QED  BY <1>1, <1>2, <1>3, <1>4, <1>5, <1>6, <1>7, <1>8 DEF Next

(* A step that touches none of these leaves every claim about the settings *)
(* as it is.                                                               *)
LEMMA SettingsUntouched ==
  ASSUME UNCHANGED <<remote, pc, base, eff, reply, answered, refreshed, left, inForce, unseen>>
  PROVE  /\ FreshUntilSleep => FreshUntilSleep'
         /\ SettingsAreCurrent => SettingsAreCurrent'
         /\ Usable => Usable'
         /\ NeverPanics => NeverPanics'
         /\ WithinOneInterval => WithinOneInterval'
  BY DEF FreshUntilSleep, SettingsAreCurrent, Usable, NeverPanics, WithinOneInterval, InCycle

LEMMA Bystanders ==
  ASSUME \/ \E c \in LocalConfig : EditFile(c)
         \/ \E m \in Posts : LatePost(m)
         \/ UNCHANGED vars
  PROVE  UNCHANGED <<remote, pc, base, eff, reply, answered, refreshed, left, inForce, unseen>>
  BY DEF EditFile, LatePost, vars, agentVars

(* A step that leaves the cycle, or begins a new one.                      *)
LEMMA Elsewhere ==
  ASSUME Start \/ Wake \/ Stop \/ Disconnect \/ Crash
  PROVE  /\ ~InCycle' /\ pc' # "panicked" /\ pc' # "sleep"
         /\ pc' = "fetch" => answered' = FALSE
  BY DEF Start, Wake, Stop, Disconnect, Crash, BeginFetch, InCycle
-----------------------------------------------------------------------------
(* Why no change of the broker's is older than the sleep that follows it.  *)
LEMMA FreshNext ==
  ASSUME TypeOK, InForceNow, FreshUntilSleep, [Next]_vars
  PROVE  FreshUntilSleep'
<1>1. CASE \/ \E c \in LocalConfig : EditFile(c)
           \/ \E m \in Posts : LatePost(m)
           \/ UNCHANGED vars
  BY <1>1, Bystanders, SettingsUntouched
<1>2. CASE \E r \in BrokerConfig : Publish(r)
  BY <1>2 DEF FreshUntilSleep, Publish, agentVars
<1>3. CASE Start \/ Wake \/ Stop \/ Disconnect \/ Crash
  BY <1>3, Elsewhere DEF FreshUntilSleep, InCycle
<1>4. CASE BrokerAnswers
  BY <1>4 DEF FreshUntilSleep, BrokerAnswers, InForceNow, Cycling
<1>5. CASE FetchReturns
  BY <1>5 DEF FreshUntilSleep, FetchReturns, Under
<1>6. CASE FetchFails
  BY <1>6 DEF FreshUntilSleep, FetchFails
<1>7. CASE Heartbeat \/ Pass \/ Report
  <2>1. eff.poll \in Nat  BY Typed
  <2> QED  BY <1>7, <2>1 DEF FreshUntilSleep, Heartbeat, Pass, Report, Rest
<1>8. CASE Tick
  <2>1. eff.poll \in Nat /\ left \in Nat  BY Typed DEF TypeOK
  <2> QED  BY <1>8, <2>1 DEF FreshUntilSleep, Tick
<1> QED  BY <1>1, <1>2, <1>3, <1>4, <1>5, <1>6, <1>7, <1>8 DEF Next

LEMMA CurrentNext ==
  ASSUME TypeOK, InForceNow, FreshUntilSleep, SettingsAreCurrent, [Next]_vars
  PROVE  SettingsAreCurrent'
<1>1. CASE \/ \E c \in LocalConfig : EditFile(c)
           \/ \E m \in Posts : LatePost(m)
           \/ UNCHANGED vars
  BY <1>1, Bystanders, SettingsUntouched
<1>2. CASE \E r \in BrokerConfig : Publish(r)
  BY <1>2 DEF SettingsAreCurrent, Publish, agentVars, InCycle
<1>3. CASE Start \/ Wake \/ Stop \/ Disconnect \/ Crash
  BY <1>3, Elsewhere DEF SettingsAreCurrent
<1>4. CASE BrokerAnswers
  BY <1>4 DEF SettingsAreCurrent, BrokerAnswers, InCycle
<1>5. CASE FetchReturns
  <2>1. reply \in inForce /\ eff' = Merge(base, reply) /\ refreshed' /\ UNCHANGED <<base, inForce>>
    BY <1>5 DEF FreshUntilSleep, FetchReturns, Under
  <2> QED  BY <2>1 DEF SettingsAreCurrent
<1>6. CASE FetchFails
  BY <1>6 DEF SettingsAreCurrent, FetchFails
<1>7. CASE Heartbeat \/ Pass \/ Report \/ Tick
  <2>1. InCycle /\ UNCHANGED <<base, eff, refreshed, inForce>>
    BY <1>7 DEF Heartbeat, Pass, Report, Tick, Rest, InCycle
  <2> QED  BY <2>1 DEF SettingsAreCurrent
<1> QED  BY <1>1, <1>2, <1>3, <1>4, <1>5, <1>6, <1>7 DEF Next

LEMMA UsableNext ==
  ASSUME TypeOK, Usable, [Next]_vars
  PROVE  Usable'
<1>1. CASE \/ \E c \in LocalConfig : EditFile(c)
           \/ \E m \in Posts : LatePost(m)
           \/ UNCHANGED vars
  BY <1>1, Bystanders, SettingsUntouched
<1>2. CASE Start \/ Wake \/ Stop \/ Disconnect \/ Crash
  BY <1>2, Elsewhere DEF Usable
<1>3. CASE BrokerAnswers \/ \E r \in BrokerConfig : Publish(r)
  BY <1>3 DEF Usable, BrokerAnswers, Publish, agentVars, InCycle
<1>4. CASE FetchReturns
  <2>1. Fit(Merge(base, reply), base)
    BY Typed, MergeFit
  <2>2. Fit(eff', base')
    BY <1>4, <2>1 DEF FetchReturns, Under
  <2> QED  BY <2>2 DEF Usable
<1>5. CASE FetchFails
  BY <1>5, FitSelf DEF Usable, FetchFails
<1>6. CASE Heartbeat \/ Pass \/ Report \/ Tick
  <2>1. InCycle /\ UNCHANGED <<base, eff>>
    BY <1>6 DEF Heartbeat, Pass, Report, Tick, Rest, InCycle
  <2> QED  BY <2>1 DEF Usable
<1> QED  BY <1>1, <1>2, <1>3, <1>4, <1>5, <1>6 DEF Next

LEMMA PanicNext ==
  ASSUME InForceNow, Usable, NeverPanics, [Next]_vars
  PROVE  NeverPanics'
<1>1. CASE \/ \E c \in LocalConfig : EditFile(c)
           \/ \E m \in Posts : LatePost(m)
           \/ UNCHANGED vars
  BY <1>1, Bystanders, SettingsUntouched
<1>2. CASE Start \/ Wake \/ Stop \/ Disconnect \/ Crash
  BY <1>2, Elsewhere DEF NeverPanics
<1>3. CASE Pass
  <2>1. Fit(eff, base) /\ Valid(base)
    BY <1>3 DEF Pass, Usable, InForceNow, InCycle, Cycling
  <2>2. Valid(eff)  BY <2>1, FitValid
  <2> QED  BY <1>3, <2>2 DEF Pass, Rest, NeverPanics
<1>4. CASE \/ BrokerAnswers \/ FetchReturns \/ FetchFails \/ Heartbeat \/ Report \/ Tick
           \/ \E r \in BrokerConfig : Publish(r)
  BY <1>4 DEF NeverPanics, BrokerAnswers, FetchReturns, FetchFails, Heartbeat, Report, Rest,
              Tick, Publish, agentVars
<1> QED  BY <1>1, <1>2, <1>3, <1>4 DEF Next

LEMMA IntervalNext ==
  ASSUME TypeOK, FreshUntilSleep, WithinOneInterval, [Next]_vars
  PROVE  WithinOneInterval'
<1>1. CASE \/ \E c \in LocalConfig : EditFile(c)
           \/ \E m \in Posts : LatePost(m)
           \/ UNCHANGED vars
  BY <1>1, Bystanders, SettingsUntouched
<1>2. CASE Start \/ Wake \/ Stop \/ Disconnect \/ Crash
  BY <1>2, Elsewhere DEF WithinOneInterval
<1>3. CASE Tick
  <2>1. pc = "sleep" /\ left \in Nat /\ unseen \in Nat /\ left > 0 /\ left' = left - 1
        /\ eff.poll \in Nat /\ UNCHANGED <<remote, base, eff, refreshed>>
    BY <1>3, Typed DEF Tick, TypeOK
  <2>2. ASSUME refreshed, eff # Merge(base, remote)
        PROVE  unseen' + left' =< eff.poll
    <3>1. unseen' = unseen + 1 /\ unseen + left =< eff.poll
      BY <1>3, <2>1, <2>2 DEF Tick, WithinOneInterval
    <3> QED  BY <2>1, <3>1
  <2> QED  BY <2>1, <2>2 DEF WithinOneInterval
<1>4. CASE Pass \/ Report
  <2>1. /\ pc \in {"pass", "report"}
        /\ pc' = "sleep" => left' = eff.poll
        /\ UNCHANGED <<remote, base, eff, refreshed, unseen>>
    BY <1>4 DEF Pass, Report, Rest
  <2>2. ASSUME pc' = "sleep", refreshed, eff # Merge(base, remote)
        PROVE  unseen' + left' =< eff.poll
    <3>1. pc \in {"heartbeat", "pass", "report"}
      BY <2>1
    <3>2. unseen = 0
      BY <2>2, <3>1 DEF FreshUntilSleep
    <3>3. left' = eff.poll
      BY <2>1, <2>2
    <3>4. unseen' = 0 /\ left' = eff.poll /\ eff.poll \in Nat
      BY <2>1, <3>2, <3>3, Typed
    <3> QED  BY <3>4
  <2> QED  BY <2>1, <2>2 DEF WithinOneInterval
<1>5. CASE \E r \in BrokerConfig : Publish(r)
  <2>1. unseen' = 0 /\ UNCHANGED <<pc, base, eff, refreshed, left>>
    BY <1>5 DEF Publish, agentVars
  <2>2. CASE pc = "sleep" /\ refreshed
    <3>1. left =< eff.poll /\ left \in Nat /\ eff.poll \in Nat
      BY <2>2, Typed DEF FreshUntilSleep, TypeOK
    <3>2. unseen' + left' =< eff'.poll
      BY <2>1, <3>1
    <3> QED  BY <3>2 DEF WithinOneInterval
  <2> QED  BY <2>1, <2>2 DEF WithinOneInterval
<1>6. CASE BrokerAnswers \/ FetchReturns \/ FetchFails \/ Heartbeat
  BY <1>6 DEF WithinOneInterval, BrokerAnswers, FetchReturns, FetchFails, Heartbeat
<1> QED  BY <1>1, <1>2, <1>3, <1>4, <1>5, <1>6 DEF Next
-----------------------------------------------------------------------------
LEMMA NextIInv == ASSUME IInv, [Next]_vars PROVE IInv'
<1> USE DEF IInv
<1>1. TypeOK'  BY TypeNext
<1>2. InForceNow'  BY <1>1, InForceNext
<1>3. FreshUntilSleep'  BY FreshNext
<1>4. SettingsAreCurrent'  BY CurrentNext
<1>5. Usable'  BY UsableNext
<1>6. NeverPanics'  BY PanicNext
<1>7. WithinOneInterval'  BY IntervalNext
<1> QED  BY <1>1, <1>2, <1>3, <1>4, <1>5, <1>6, <1>7

(* The inductive invariant holds in every state.                           *)
THEOREM IInvHolds == Spec => []IInv
<1>1. Init => IInv  BY InitIInv
<1>2. IInv /\ [Next]_vars => IInv'  BY NextIInv
<1> QED  BY <1>1, <1>2, PTL DEF Spec

(* Types of every variable.                                                *)
THEOREM TypeCorrect == Spec => []TypeOK
<1>1. IInv => TypeOK  BY DEF IInv
<1> QED  BY <1>1, IInvHolds, PTL

(* run_one gives a cycle one whole config of the broker's over the local   *)
(* one, current at some moment of its fetch; or the local one alone.       *)
THEOREM SettingsAreCurrentHolds == Spec => []SettingsAreCurrent
<1>1. IInv => SettingsAreCurrent  BY DEF IInv
<1> QED  BY <1>1, IInvHolds, PTL

(* apply_remote keeps a config usable, whatever the broker sends.          *)
THEOREM UsableHolds == Spec => []Usable
<1>1. IInv => Usable  BY DEF IInv
<1> QED  BY <1>1, IInvHolds, PTL

(* The expect("validated") of run_pass and run_db never fails.             *)
THEOREM NeverPanicsHolds == Spec => []NeverPanics
<1>1. IInv => NeverPanics  BY DEF IInv
<1> QED  BY <1>1, IInvHolds, PTL

(* A change in the console is at most one interval of sleep old when the   *)
(* agent next asks for it: the sleep of run_cycle.                         *)
THEOREM WithinOneIntervalHolds == Spec => []WithinOneInterval
<1>1. IInv => WithinOneInterval  BY DEF IInv
<1> QED  BY <1>1, IInvHolds, PTL
=============================================================================
